----------------------- MODULE SecureAggregationProofs -----------------------
(***************************************************************************)
(* A round of secure aggregation opens an exact sum, for every roster, for *)
(* all updates and however often clients mask and send, whatever is late,  *)
(* repeated or lost; and the vectors it is opened from show no more than   *)
(* that sum.                                                               *)
(***************************************************************************)
EXTENDS SecureAggregation, SumLemmas

LEMMA RosterIsFinite ==
    /\ Received \in SUBSET Roster /\ IsFiniteSet(Received)
    /\ \A pair \in Pairs : pair[1] \in Roster /\ pair[2] \in Roster /\ pair[1] # pair[2]
<1>1. Received \in SUBSET Roster
  BY DEF Received
<1>2. IsFiniteSet(Received)
  BY <1>1, FS_Subset, RosterAssumption
<1>3. ASSUME NEW pair \in Pairs
      PROVE  pair[1] \in Roster /\ pair[2] \in Roster /\ pair[1] # pair[2]
  <2>1. pair \in Roster \X Roster /\ pair[1] < pair[2]
    BY DEF Pairs
  <2>2. pair[1] \in Int /\ pair[2] \in Int
    BY <2>1, RosterAssumption
  <2>. QED
    BY <2>1, <2>2
<1>. QED
  BY <1>1, <1>2, <1>3

LEMMA MaskedType ==
    ASSUME NEW i \in Roster, NEW update \in Updates
    PROVE  Masked(i, update) \in Vectors
<1>1. MaskOf(i) \in [Pairs -> Int]
  BY DEF MaskOf
<1>. QED
  BY <1>1, RosterAssumption DEF Masked, Vectors

LEMMA AggregateType ==
    ASSUME TypeOK
    PROVE  Aggregate \in Vectors
<1>1. \A i \in Received : received[i] \in Vectors
  BY DEF TypeOK, Received
<1>2. SumFunction([i \in Received |-> received[i].update]) \in Int
  <2>. DEFINE f == [i \in Received |-> received[i].update]
  <2>1. DOMAIN f = Received /\ Whole(f, Received)
    BY <1>1 DEF Whole, Vectors
  <2>. HIDE DEF f
  <2>2. SumFunction(f) \in Int
    BY <2>1, RosterIsFinite, SumIsInt DEF SumFunction
  <2>. QED
    BY <2>2 DEF f
<1>3. ASSUME NEW pair \in Pairs
      PROVE  SumFunction([i \in Received |-> received[i].masks[pair]]) \in Int
  <2>. DEFINE f == [i \in Received |-> received[i].masks[pair]]
  <2>1. DOMAIN f = Received /\ Whole(f, Received)
    BY <1>1 DEF Whole, Vectors
  <2>. HIDE DEF f
  <2>2. SumFunction(f) \in Int
    BY <2>1, RosterIsFinite, SumIsInt DEF SumFunction
  <2>. QED
    BY <2>2 DEF f
<1>4. Residual \in [Pairs -> Int]
  BY DEF Residual
<1>5. [pair \in Pairs |-> SumFunction([i \in Received |-> received[i].masks[pair]])
                              - Residual[pair]] \in [Pairs -> Int]
  BY <1>3, <1>4
<1>. QED
  BY <1>2, <1>5 DEF Aggregate, Vectors

\* The round's variables keep their types: a client's vector is a whole vector,
\* a revealed seed belongs to a pair of the roster (SecAggClient, SecAggServer).
THEOREM RoundTyped == Spec => []TypeOK
<1>1. Init => TypeOK
  BY DEF Init, TypeOK
<1>2. TypeOK /\ [Next]_vars => TypeOK'
  <2>. SUFFICES ASSUME TypeOK, [Next]_vars PROVE TypeOK'
    OBVIOUS
  <2>1. ASSUME NEW i \in Roster, Register(i)
        PROVE  TypeOK'
    BY <2>1 DEF Register, TypeOK
  <2>2. ASSUME NEW i \in Roster, NEW update \in Updates, Send(i, update)
        PROVE  TypeOK'
    BY <2>2, MaskedType DEF Send, TypeOK
  <2>3. ASSUME NEW i \in Roster, NEW vector \in sent[i], Receive(i, vector)
        PROVE  TypeOK'
    BY <2>3 DEF Receive, TypeOK
  <2>4. ASSUME NEW s \in Roster, NEW d \in Roster, Reveal(s, d)
        PROVE  TypeOK'
    <3>1. Sorted(s, d) \in Pairs
      BY <2>4, RosterAssumption DEF Reveal, Sorted, Pairs
    <3>. QED
      BY <2>4, <3>1 DEF Reveal, TypeOK
  <2>5. CASE Finalize
    BY <2>5, AggregateType DEF Finalize, TypeOK
  <2>6. CASE UNCHANGED vars
    BY <2>6 DEF vars, TypeOK
  <2>. QED
    BY <2>1, <2>2, <2>3, <2>4, <2>5, <2>6 DEF Next
<1>. QED
  BY <1>1, <1>2, PTL DEF Spec

-----------------------------------------------------------------------------
(* The streams of a pair cancel.                                           *)

Half(i, pair) == IF pair[1] = i THEN 1 ELSE IF pair[2] = i THEN -1 ELSE 0

\* The streams of one pair among those received: one for each client of the
\* pair that was heard.
LEMMA StreamsOfPair ==
    ASSUME NEW R, IsFiniteSet(R), NEW pair, pair[1] # pair[2],
           NEW f, \A i \in R : f[i] = Half(i, pair)
    PROVE  SumFunctionOnSet(f, R) = (IF pair[1] \in R THEN 1 ELSE 0)
                                        - (IF pair[2] \in R THEN 1 ELSE 0)
<1>. DEFINE a == pair[1]
            b == pair[2]
            P == R \ {a}
            Q == P \ {b}
<1>1. Whole(f, R) /\ Whole(f, P) /\ IsFiniteSet(P) /\ IsFiniteSet(Q)
  BY FS_Subset DEF Whole, Half
<1>2. SumFunctionOnSet(f, Q) = 0
  <2>1. \A i \in Q : f[i] = 0
    BY DEF Half
  <2>. HIDE DEF Q
  <2>. QED
    BY <1>1, <2>1, SumOfZeros
<1>3. SumFunctionOnSet(f, P) = IF b \in R THEN -1 ELSE 0
  <2>1. CASE b \in R
    <3>1. b \in P /\ f[b] = -1
      BY <2>1 DEF Half
    <3>2. SumFunctionOnSet(f, P) = f[b] + SumFunctionOnSet(f, Q)
      <4>. HIDE DEF P, a, b
      <4>. QED
        BY <1>1, <3>1, SumWithout
    <3>. QED
      BY <1>2, <2>1, <3>1, <3>2
  <2>2. CASE b \notin R
    <3>1. P = Q
      BY <2>2
    <3>. QED
      BY <1>2, <2>2, <3>1
  <2>. QED
    BY <2>1, <2>2
<1>4. CASE a \in R
  <2>1. f[a] = 1
    BY <1>4 DEF Half
  <2>2. SumFunctionOnSet(f, R) = f[a] + SumFunctionOnSet(f, P)
    <3>. HIDE DEF a, b
    <3>. QED
      BY <1>1, <1>4, SumWithout
  <2>. QED
    BY <1>3, <1>4, <2>1, <2>2
<1>5. CASE a \notin R
  <2>1. P = R
    BY <1>5
  <2>. QED
    BY <1>3, <1>5, <2>1
<1>. QED
  BY <1>4, <1>5

\* A vector that is held of a client is one it masked over an update, with its
\* half of every stream.
MaskedInv ==
    /\ \A i \in Roster : \A v \in sent[i] : \E u \in Updates : v = Masked(i, u)
    /\ \A i \in Received : received[i] \in sent[i]

LEMMA FinalizeIsExact ==
    ASSUME TypeOK, MaskedInv, Finalize
    PROVE  AggregateExact'
<1>. DEFINE chosen == [i \in Received |-> received[i].update]
<1>1. Received \in (SUBSET Roster) \ {{}}
  BY RosterIsFinite DEF Finalize
<1>2. ASSUME NEW i \in Received
      PROVE  /\ received[i].update \in Updates /\ received[i].masks = MaskOf(i)
             /\ received[i] = Masked(i, received[i].update)
  <2>1. i \in Roster /\ received[i] \in sent[i]
    BY RosterIsFinite DEF MaskedInv
  <2>2. PICK u \in Updates : received[i] = Masked(i, u)
    BY <2>1 DEF MaskedInv
  <2>. QED
    BY <2>2 DEF Masked
<1>3. opened'.masks = NoMasks
  <2>1. ASSUME NEW pair \in Pairs
        PROVE  SumFunction([i \in Received |-> received[i].masks[pair]]) = Residual[pair]
    <3>. DEFINE f == [i \in Received |-> received[i].masks[pair]]
    <3>1. \A i \in Received : f[i] = Half(i, pair)
      <4>. SUFFICES ASSUME NEW i \in Received PROVE received[i].masks[pair] = Half(i, pair)
        OBVIOUS
      <4>1. received[i].masks = MaskOf(i)
        BY <1>2
      <4>2. MaskOf(i)[pair] = Half(i, pair)
        BY DEF MaskOf, Half
      <4>. QED
        BY <4>1, <4>2
    <3>2. DOMAIN f = Received
      OBVIOUS
    <3>. HIDE DEF f
    <3>3. SumFunction(f) = (IF pair[1] \in Received THEN 1 ELSE 0)
                               - (IF pair[2] \in Received THEN 1 ELSE 0)
      BY <3>1, <3>2, RosterIsFinite, StreamsOfPair DEF SumFunction
    <3>4. Residual[pair] = (IF pair[1] \in Received THEN 1 ELSE 0)
                               - (IF pair[2] \in Received THEN 1 ELSE 0)
      BY RosterIsFinite DEF Residual, Dropped
    <3>. QED
      BY <3>3, <3>4 DEF f
  <2>2. \A pair \in Pairs : Residual[pair] \in Int
    BY DEF Residual
  <2>3. Aggregate.masks = NoMasks
    BY <2>1, <2>2 DEF Aggregate, NoMasks
  <2>. QED
    BY <2>3 DEF Finalize
<1>4. opened'.update = SumFunction(chosen)
  BY DEF Finalize, Aggregate
<1>5. chosen \in [Received -> Updates]
  BY <1>2
<1>6. \A i \in Received : Masked(i, chosen[i]) \in sent'[i]
  <2>. SUFFICES ASSUME NEW i \in Received PROVE Masked(i, chosen[i]) \in sent'[i]
    OBVIOUS
  <2>1. chosen[i] = received[i].update
    OBVIOUS
  <2>. QED
    BY <1>2, <2>1 DEF MaskedInv, Finalize
<1>. HIDE DEF chosen
<1>. QED
  BY <1>1, <1>3, <1>4, <1>5, <1>6 DEF AggregateExact

\* What was opened stays exact: nothing is unsent.
LEMMA OpenedStays ==
    ASSUME AggregateExact, opened' = opened, \A i \in Roster : sent[i] \subseteq sent'[i]
    PROVE  AggregateExact'
<1>. SUFFICES ASSUME opened # None PROVE AggregateExact'
  BY DEF AggregateExact
<1>1. PICK S \in (SUBSET Roster) \ {{}} :
          \E chosen \in [S -> Updates] :
              /\ \A i \in S : Masked(i, chosen[i]) \in sent[i]
              /\ opened.update = SumFunction(chosen)
  BY DEF AggregateExact
<1>2. PICK chosen \in [S -> Updates] :
          /\ \A i \in S : Masked(i, chosen[i]) \in sent[i]
          /\ opened.update = SumFunction(chosen)
  BY <1>1
<1>3. \A i \in S : Masked(i, chosen[i]) \in sent'[i]
  BY <1>2
<1>4. opened'.masks = NoMasks /\ opened'.update = SumFunction(chosen)
  BY <1>2 DEF AggregateExact
<1>. QED
  BY <1>3, <1>4 DEF AggregateExact

LEMMA RoundInvariant == Spec => [](TypeOK /\ MaskedInv /\ AggregateExact)
<1>. DEFINE Inv == MaskedInv /\ AggregateExact
<1>1. Init => Inv
  BY DEF Init, MaskedInv, AggregateExact, Received
<1>2. TypeOK /\ Inv /\ [Next]_vars => Inv'
  <2>. SUFFICES ASSUME TypeOK, Inv, [Next]_vars PROVE Inv'
    OBVIOUS
  <2>1. ASSUME NEW i \in Roster, Register(i)
        PROVE  Inv'
    <3>1. MaskedInv'
      BY <2>1 DEF Register, MaskedInv, Received
    <3>. QED
      BY <2>1, <3>1, OpenedStays DEF Register
  <2>2. ASSUME NEW i \in Roster, NEW update \in Updates, Send(i, update)
        PROVE  Inv'
    <3>1. \A j \in Roster : sent'[j] = IF j = i THEN sent[i] \cup {Masked(i, update)}
                                        ELSE sent[j]
      BY <2>2 DEF Send, TypeOK
    <3>2. received' = received /\ opened' = opened
      BY <2>2 DEF Send
    <3>3. MaskedInv'
      BY <3>1, <3>2 DEF MaskedInv, Received
    <3>. QED
      BY <3>1, <3>2, <3>3, OpenedStays
  <2>3. ASSUME NEW i \in Roster, NEW vector \in sent[i], Receive(i, vector)
        PROVE  Inv'
    <3>1. \A j \in Roster : received'[j] = IF j = i THEN vector ELSE received[j]
      BY <2>3 DEF Receive, TypeOK
    <3>2. sent' = sent /\ opened' = opened
      BY <2>3 DEF Receive
    <3>3. MaskedInv'
      BY <3>1, <3>2 DEF MaskedInv, Received
    <3>. QED
      BY <3>2, <3>3, OpenedStays
  <2>4. ASSUME NEW s \in Roster, NEW d \in Roster, Reveal(s, d)
        PROVE  Inv'
    <3>1. MaskedInv'
      BY <2>4 DEF Reveal, MaskedInv, Received
    <3>. QED
      BY <2>4, <3>1, OpenedStays DEF Reveal
  <2>5. CASE Finalize
    <3>1. MaskedInv'
      BY <2>5 DEF Finalize, MaskedInv, Received
    <3>. QED
      BY <2>5, <3>1, FinalizeIsExact
  <2>6. CASE UNCHANGED vars
    <3>1. MaskedInv'
      BY <2>6 DEF vars, MaskedInv, Received
    <3>. QED
      BY <2>6, <3>1, OpenedStays DEF vars
  <2>. QED
    BY <2>1, <2>2, <2>3, <2>4, <2>5, <2>6 DEF Next
<1>. QED
  BY <1>1, <1>2, RoundTyped, PTL DEF Spec

\* What finalize() returns is the sum of one update of each client that was
\* heard, with no mask left in it: the streams between survivors cancel, and
\* those shared with clients that dropped are taken out once
\* (SecAggServer.finalize).
THEOREM AggregatesAreExact == Spec => []AggregateExact
  BY RoundInvariant, PTL

-----------------------------------------------------------------------------
(* What a round hides.                                                     *)

\* The number that travels for a formal vector, where stream[pair] is what the
\* pair's seed expands to.
Wire(v, stream) ==
    v.update + SumFunctionOnSet([pair \in Pairs |-> v.masks[pair] * stream[pair]], Pairs)

\* Whatever streams the clients have used, the vectors that the coordinator
\* holds, and the streams whose seeds it was given, would be the same for any
\* other updates with the same sum, as long as one client that was heard still
\* shares an unrevealed seed with each of the others.
OnlyTheSumShows ==
    \A stream \in [Pairs -> Int], other \in [Received -> Int], a \in Received :
        /\ \A i \in Received \ {a} : Sorted(a, i) \notin seeds
        /\ SumFunction(other) = SumFunction([i \in Received |-> received[i].update])
        => \E shifted \in [Pairs -> Int] :
               /\ \A pair \in seeds : shifted[pair] = stream[pair]
               /\ \A i \in Received : Wire(Masked(i, other[i]), shifted) = Wire(received[i], stream)

\* What the streams of client a must make up for, for updates that differ by g.
Shift(a, g) ==
    [pair \in Pairs |->
        IF pair[1] = a /\ pair[2] \in Received THEN g[pair[2]]
        ELSE IF pair[2] = a /\ pair[1] \in Received THEN -g[pair[1]]
        ELSE 0]

Shown(i, shift) == [pair \in Pairs |-> MaskOf(i)[pair] * shift[pair]]

LEMMA PairsAreFinite == IsFiniteSet(Pairs)
<1>1. IsFiniteSet(Roster \X Roster)
  BY RosterAssumption, FS_Product
<1>. QED
  BY <1>1, FS_Subset DEF Pairs

\* Each two clients have one pair.
LEMMA SortedPairs ==
    ASSUME NEW a \in Roster, NEW i \in Roster, a # i
    PROVE  /\ Sorted(a, i) \in Pairs
           /\ \A pair \in Pairs : (pair[1] = a /\ pair[2] = i) \/ (pair[1] = i /\ pair[2] = a)
                                      <=> pair = Sorted(a, i)
<1>1. a \in Int /\ i \in Int
  BY RosterAssumption
<1>2. Sorted(a, i) = IF a < i THEN <<a, i>> ELSE <<i, a>>
  BY DEF Sorted
<1>3. ASSUME NEW pair \in Pairs
      PROVE  /\ pair = <<pair[1], pair[2]>> /\ pair[1] < pair[2]
             /\ pair[1] \in Int /\ pair[2] \in Int
  <2>1. pair \in Roster \X Roster /\ pair[1] < pair[2]
    BY DEF Pairs
  <2>2. PICK x \in Roster, y \in Roster : pair = <<x, y>>
    BY <2>1
  <2>. QED
    BY <2>1, <2>2, RosterAssumption
<1>4. Sorted(a, i) \in Pairs
  BY <1>1, <1>2 DEF Pairs
<1>5. ASSUME NEW pair \in Pairs
      PROVE  (pair[1] = a /\ pair[2] = i) \/ (pair[1] = i /\ pair[2] = a) <=> pair = Sorted(a, i)
  <2>1. CASE a < i
    BY <1>1, <1>2, <1>3, <2>1
  <2>2. CASE i < a
    BY <1>1, <1>2, <1>3, <2>2
  <2>. QED
    BY <1>1, <2>1, <2>2
<1>. QED
  BY <1>4, <1>5

\* The shift shows in the vector of every client as the opposite of how its
\* update differs.
LEMMA ShiftOfOther ==
    ASSUME NEW a \in Received, NEW g \in [Received -> Int], NEW i \in Received \ {a}
    PROVE  SumFunctionOnSet(Shown(i, Shift(a, g)), Pairs) = -g[i]
<1>. DEFINE f    == Shown(i, Shift(a, g))
            at   == Sorted(a, i)
            Rest == Pairs \ {at}
<1>1. a \in Roster /\ i \in Roster /\ a # i /\ a \in Int /\ i \in Int /\ g[i] \in Int
  BY RosterIsFinite, RosterAssumption
<1>2. at \in Pairs
  BY <1>1, SortedPairs
<1>3. ASSUME NEW pair \in Rest
      PROVE  f[pair] = 0
  <2>1. ~(pair[1] = a /\ pair[2] = i) /\ ~(pair[1] = i /\ pair[2] = a) /\ pair \in Pairs
    BY <1>1, SortedPairs
  <2>2. pair[1] # pair[2]
    BY <2>1, RosterIsFinite
  <2>3. f[pair] = MaskOf(i)[pair] * Shift(a, g)[pair]
    BY <2>1 DEF Shown
  <2>4. CASE pair[1] # i /\ pair[2] # i
    <3>1. MaskOf(i)[pair] = 0
      BY <2>1, <2>4 DEF MaskOf
    <3>2. Shift(a, g)[pair] \in Int
      BY <2>1 DEF Shift
    <3>. QED
      BY <2>3, <3>1, <3>2
  <2>5. CASE pair[1] = i \/ pair[2] = i
    <3>1. Shift(a, g)[pair] = 0
      BY <1>1, <2>1, <2>2, <2>5 DEF Shift
    <3>2. MaskOf(i)[pair] \in Int
      BY <2>1 DEF MaskOf
    <3>. QED
      BY <2>3, <3>1, <3>2
  <2>. QED
    BY <2>4, <2>5
<1>4. f[at] = -g[i]
  <2>1. f[at] = MaskOf(i)[at] * Shift(a, g)[at]
    BY <1>2 DEF Shown
  <2>2. CASE a < i
    <3>1. at[1] = a /\ at[2] = i
      BY <2>2 DEF Sorted
    <3>2. MaskOf(i)[at] = -1 /\ Shift(a, g)[at] = g[i]
      BY <1>1, <1>2, <3>1 DEF MaskOf, Shift
    <3>. QED
      BY <1>1, <2>1, <3>2
  <2>3. CASE ~(a < i)
    <3>1. at[1] = i /\ at[2] = a
      BY <2>3 DEF Sorted
    <3>2. MaskOf(i)[at] = 1 /\ Shift(a, g)[at] = -g[i]
      BY <1>1, <1>2, <3>1 DEF MaskOf, Shift
    <3>. QED
      BY <1>1, <2>1, <3>2
  <2>. QED
    BY <2>2, <2>3
<1>5. Whole(f, Pairs)
  BY <1>1, <1>3, <1>4 DEF Whole
<1>6. IsFiniteSet(Pairs) /\ IsFiniteSet(Rest)
  BY PairsAreFinite, FS_Subset
<1>. HIDE DEF f, at
<1>7. SumFunctionOnSet(f, Pairs) = f[at] + SumFunctionOnSet(f, Rest)
  BY <1>2, <1>5, <1>6, SumWithout
<1>8. SumFunctionOnSet(f, Rest) = 0
  BY <1>3, <1>6, SumOfZeros
<1>. QED
  BY <1>1, <1>4, <1>7, <1>8 DEF f

LEMMA ShiftOfOne ==
    ASSUME NEW a \in Received, NEW g \in [Received -> Int], SumFunction(g) = 0
    PROVE  SumFunctionOnSet(Shown(a, Shift(a, g)), Pairs) = -g[a]
<1>. DEFINE f      == Shown(a, Shift(a, g))
            Others == Received \ {a}
            m      == [i \in Others |-> Sorted(a, i)]
            Star   == ImageOf(m, Others)
            Rest   == Pairs \ Star
<1>1. a \in Roster /\ IsFiniteSet(Received) /\ IsFiniteSet(Others) /\ IsFiniteSet(Pairs)
      /\ IsFiniteSet(Rest) /\ Received \subseteq Roster
  BY RosterIsFinite, PairsAreFinite, FS_Subset
<1>2. ASSUME NEW i \in Others
      PROVE  m[i] = Sorted(a, i) /\ m[i] \in Pairs /\ g[i] = f[m[i]]
  <2>1. i \in Roster /\ a # i /\ a \in Int /\ i \in Int /\ g[i] \in Int
    BY <1>1, RosterAssumption
  <2>2. m[i] = Sorted(a, i) /\ m[i] \in Pairs
    BY <1>1, <2>1, SortedPairs
  <2>. HIDE DEF m
  <2>3. f[m[i]] = MaskOf(a)[m[i]] * Shift(a, g)[m[i]]
    BY <2>2 DEF Shown
  <2>4. CASE a < i
    <3>1. m[i][1] = a /\ m[i][2] = i
      BY <2>2, <2>4 DEF Sorted
    <3>2. MaskOf(a)[m[i]] = 1 /\ Shift(a, g)[m[i]] = g[i]
      BY <2>2, <3>1 DEF MaskOf, Shift
    <3>. QED
      BY <2>1, <2>2, <2>3, <3>2
  <2>5. CASE ~(a < i)
    <3>1. m[i][1] = i /\ m[i][2] = a
      BY <2>2, <2>5 DEF Sorted
    <3>2. MaskOf(a)[m[i]] = -1 /\ Shift(a, g)[m[i]] = -g[i]
      BY <2>1, <2>2, <3>1 DEF MaskOf, Shift
    <3>. QED
      BY <2>1, <2>2, <2>3, <3>2
  <2>. QED
    BY <2>2, <2>4, <2>5
<1>3. ASSUME NEW i \in Others, NEW j \in Others, m[i] = m[j]
      PROVE  i = j
  <2>1. i \in Roster /\ j \in Roster /\ a # i /\ a # j
    BY <1>1
  <2>2. Sorted(a, i) = Sorted(a, j)
    BY <1>3
  <2>3. Sorted(a, i) \in {<<a, i>>, <<i, a>>} /\ Sorted(a, j) \in {<<a, j>>, <<j, a>>}
    BY DEF Sorted
  <2>. QED
    BY <2>1, <2>2, <2>3
<1>4. ASSUME NEW pair \in Rest
      PROVE  f[pair] = 0
  <2>1. f[pair] = MaskOf(a)[pair] * Shift(a, g)[pair]
    BY DEF Shown
  <2>2. pair[1] \in Roster /\ pair[2] \in Roster /\ pair[1] # pair[2]
    BY RosterIsFinite
  <2>3. ASSUME NEW i \in Others
        PROVE  ~(pair[1] = a /\ pair[2] = i) /\ ~(pair[1] = i /\ pair[2] = a)
    <3>1. pair # Sorted(a, i)
      BY <1>2 DEF ImageOf
    <3>. QED
      BY <1>1, <3>1, SortedPairs
  <2>4. Shift(a, g)[pair] = 0
    BY <2>2, <2>3 DEF Shift
  <2>5. MaskOf(a)[pair] \in Int
    BY DEF MaskOf
  <2>. QED
    BY <2>1, <2>4, <2>5
<1>5. Star \subseteq Pairs
  BY <1>2 DEF ImageOf
<1>6. \A i \in Others : g[i] \in Int
  OBVIOUS
<1>7. Whole(g, Received) /\ Whole(f, Star) /\ Whole(f, Rest)
  BY <1>2, <1>4, <1>6 DEF Whole, ImageOf
<1>8. Pairs = Star \cup Rest /\ Star \cap Rest = {} /\ DOMAIN g = Received /\ g[a] \in Int
  BY <1>5
<1>. HIDE DEF f, m
<1>9. IsFiniteSet(Star) /\ SumFunctionOnSet(f, Star) = SumFunctionOnSet(g, Others)
  BY <1>1, <1>2, <1>3, <1>7, SumOfImage
<1>10. SumFunctionOnSet(f, Rest) = 0
  BY <1>1, <1>4, SumOfZeros
<1>11. SumFunctionOnSet(f, Star \cup Rest) = SumFunctionOnSet(f, Star) + SumFunctionOnSet(f, Rest)
  <2>1. Whole(f, Star \cup Rest)
    BY <1>7 DEF Whole
  <2>. HIDE DEF Star, Rest
  <2>. QED
    BY <1>1, <1>8, <1>9, <2>1, SumOfUnion
<1>12. SumFunction(g) = g[a] + SumFunctionOnSet(g, Others)
  BY <1>1, <1>7, <1>8, SumWithout DEF SumFunction
<1>13. SumFunctionOnSet(g, Others) \in Int
  <2>1. Whole(g, Others)
    BY <1>6 DEF Whole
  <2>. HIDE DEF Others
  <2>. QED
    BY <1>1, <2>1, SumIsInt
<1>14. SumFunctionOnSet(f, Pairs) = SumFunctionOnSet(g, Others)
  <2>. HIDE DEF Star, Rest, Others
  <2>. QED
    BY <1>8, <1>9, <1>10, <1>11, <1>13
<1>. QED
  BY <1>8, <1>12, <1>13, <1>14 DEF f

\* A shift of the streams is a change of the number that travels.
LEMMA WireShifts ==
    ASSUME NEW i \in Roster, NEW x \in Int, NEW y \in Int,
           NEW stream \in [Pairs -> Int], NEW shift \in [Pairs -> Int],
           SumFunctionOnSet(Shown(i, shift), Pairs) = x - y
    PROVE  Wire(Masked(i, y), [pair \in Pairs |-> stream[pair] + shift[pair]])
               = Wire(Masked(i, x), stream)
<1>. DEFINE both == [pair \in Pairs |-> stream[pair] + shift[pair]]
            old  == [pair \in Pairs |-> MaskOf(i)[pair] * stream[pair]]
            new  == [pair \in Pairs |-> MaskOf(i)[pair] * both[pair]]
            d    == Shown(i, shift)
<1>1. ASSUME NEW pair \in Pairs
      PROVE  old[pair] \in Int /\ d[pair] \in Int /\ new[pair] = old[pair] + d[pair]
  <2>1. MaskOf(i)[pair] \in {0, 1, -1} /\ stream[pair] \in Int /\ shift[pair] \in Int
    BY DEF MaskOf
  <2>2. d[pair] = MaskOf(i)[pair] * shift[pair]
    BY DEF Shown
  <2>. QED
    BY <2>1, <2>2
<1>2. /\ Wire(Masked(i, y), both) = y + SumFunctionOnSet(new, Pairs)
      /\ Wire(Masked(i, x), stream) = x + SumFunctionOnSet(old, Pairs)
  BY DEF Wire, Masked
<1>. HIDE DEF old, new, d
<1>3. Whole(old, Pairs) /\ Whole(d, Pairs)
  BY <1>1 DEF Whole
<1>4. SumFunctionOnSet(new, Pairs) = SumFunctionOnSet(old, Pairs) + SumFunctionOnSet(d, Pairs)
  BY <1>1, <1>3, PairsAreFinite, SumPlus
<1>5. SumFunctionOnSet(old, Pairs) \in Int
  BY <1>3, PairsAreFinite, SumIsInt
<1>6. SumFunctionOnSet(d, Pairs) = x - y
  BY DEF d
<1>. QED
  BY <1>2, <1>4, <1>5, <1>6

\* mask_and_send, reveal_seed and receive: of the updates whose vectors it
\* holds, the coordinator learns nothing but their sum, as long as it was given
\* no seed of one client it has heard with another ("the server only ever
\* learns the aggregate", secure_aggregation.py).
THEOREM TheSumAloneShows == Spec => []OnlyTheSumShows
<1>1. ASSUME TypeOK, MaskedInv
      PROVE  OnlyTheSumShows
  <2>. SUFFICES ASSUME NEW stream \in [Pairs -> Int], NEW other \in [Received -> Int],
                       NEW a \in Received,
                       \A i \in Received \ {a} : Sorted(a, i) \notin seeds,
                       SumFunction(other)
                           = SumFunction([i \in Received |-> received[i].update])
                PROVE  \E shifted \in [Pairs -> Int] :
                          /\ \A pair \in seeds : shifted[pair] = stream[pair]
                          /\ \A i \in Received :
                                Wire(Masked(i, other[i]), shifted) = Wire(received[i], stream)
    BY DEF OnlyTheSumShows
  <2>. DEFINE held    == [i \in Received |-> received[i].update]
              g       == [i \in Received |-> other[i] - held[i]]
              shift   == Shift(a, g)
              shifted == [pair \in Pairs |-> stream[pair] + shift[pair]]
  <2>1. ASSUME NEW i \in Received
        PROVE  /\ i \in Roster /\ held[i] \in Int /\ other[i] \in Int /\ g[i] = other[i] - held[i]
               /\ received[i] = Masked(i, held[i])
    <3>1. i \in Roster /\ held[i] = received[i].update
      BY RosterIsFinite
    <3>2. PICK u \in Updates : received[i] = Masked(i, u)
      BY <1>1, <3>1 DEF MaskedInv
    <3>3. held[i] = u /\ u \in Int
      BY <3>1, <3>2, RosterAssumption DEF Masked
    <3>. QED
      BY <3>1, <3>2, <3>3
  <2>2. g \in [Received -> Int] /\ held \in [Received -> Int]
    BY <2>1
  <2>3. SumFunction(g) = 0
    <3>1. Whole(g, Received) /\ Whole(held, Received) /\ Whole(other, Received)
      BY <2>2 DEF Whole
    <3>2. \A i \in Received : other[i] = held[i] + g[i]
      BY <2>1
    <3>3. DOMAIN g = Received /\ DOMAIN held = Received /\ DOMAIN other = Received
      OBVIOUS
    <3>. HIDE DEF g, held
    <3>4. SumFunctionOnSet(other, Received)
              = SumFunctionOnSet(held, Received) + SumFunctionOnSet(g, Received)
      BY <3>1, <3>2, RosterIsFinite, SumPlus
    <3>5. SumFunctionOnSet(held, Received) \in Int /\ SumFunctionOnSet(g, Received) \in Int
      BY <3>1, RosterIsFinite, SumIsInt
    <3>6. SumFunction(other) = SumFunction(held)
      BY DEF held
    <3>. QED
      BY <3>3, <3>4, <3>5, <3>6 DEF SumFunction
  <2>4. shift \in [Pairs -> Int] /\ shifted \in [Pairs -> Int]
    <3>1. shift \in [Pairs -> Int]
      <4>. HIDE DEF g
      <4>. QED
        BY <2>2 DEF Shift
    <3>. QED
      BY <3>1
  <2>5. ASSUME NEW pair \in seeds
        PROVE  shifted[pair] = stream[pair]
    <3>1. pair \in Pairs /\ stream[pair] \in Int
      BY <1>1 DEF TypeOK
    <3>2. pair[1] \in Roster /\ pair[2] \in Roster /\ pair[1] # pair[2] /\ a \in Roster
      BY <3>1, RosterIsFinite
    <3>3. ASSUME NEW i \in Received \ {a}
          PROVE  ~(pair[1] = a /\ pair[2] = i) /\ ~(pair[1] = i /\ pair[2] = a)
      <4>1. pair # Sorted(a, i) /\ i \in Roster /\ a # i
        BY RosterIsFinite
      <4>. QED
        BY <3>1, <3>2, <4>1, SortedPairs
    <3>4. shift[pair] = 0
      BY <3>1, <3>2, <3>3 DEF Shift
    <3>. QED
      BY <3>1, <3>4
  <2>6. ASSUME NEW i \in Received
        PROVE  Wire(Masked(i, other[i]), shifted) = Wire(received[i], stream)
    <3>. HIDE DEF g, held
    <3>1. SumFunctionOnSet(Shown(i, shift), Pairs) = -g[i]
      BY <2>2, <2>3, ShiftOfOne, ShiftOfOther
    <3>2. -g[i] = held[i] - other[i]
      BY <2>1
    <3>. HIDE DEF shift
    <3>. QED
      BY <2>1, <2>4, <3>1, <3>2, WireShifts
  <2>. QED
    BY <2>4, <2>5, <2>6
<1>. QED
  BY <1>1, RoundInvariant, PTL
=============================================================================
