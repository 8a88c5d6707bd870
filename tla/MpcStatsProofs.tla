---------------------------- MODULE MpcStatsProofs ----------------------------
(***************************************************************************)
(* The secret-shared statistics are exact, for every field, number of      *)
(* nodes and organizations, data, draws and order of the contributions.    *)
(***************************************************************************)
EXTENDS MpcStats, SumLemmas

-----------------------------------------------------------------------------
(* The field.                                                              *)

\* Integers that the field does not tell apart.
Congruent(a, b) == \E q \in Int : a = b + q * P

\* Congruence is an equivalence...
LEMMA CongruentTwice ==
    ASSUME NEW a \in Int, NEW b \in Int, NEW c \in Int, Congruent(a, b), Congruent(b, c)
    PROVE  Congruent(a, c) /\ Congruent(b, a)
<1>1. PICK q \in Int : a = b + q * P
  BY DEF Congruent
<1>2. PICK r \in Int : b = c + r * P
  BY DEF Congruent
<1>3. a = c + (q + r) * P /\ q + r \in Int
  BY <1>1, <1>2, MpcAssumption
<1>4. b = a + (-q) * P /\ -q \in Int
  BY <1>1, MpcAssumption
<1> QED  BY <1>3, <1>4 DEF Congruent

\* ... that sums and differences respect.
LEMMA CongruentSums ==
    ASSUME NEW a \in Int, NEW b \in Int, NEW c \in Int, NEW d \in Int,
           Congruent(a, b), Congruent(c, d)
    PROVE  Congruent(a + c, b + d) /\ Congruent(a - c, b - d)
<1>1. PICK q \in Int : a = b + q * P
  BY DEF Congruent
<1>2. PICK r \in Int : c = d + r * P
  BY DEF Congruent
<1>3. a + c = (b + d) + (q + r) * P /\ q + r \in Int
  BY <1>1, <1>2, MpcAssumption
<1>4. a - c = (b - d) + (q - r) * P /\ q - r \in Int
  BY <1>1, <1>2, MpcAssumption
<1> QED  BY <1>3, <1>4 DEF Congruent

\* Every integer is congruent to itself.
LEMMA CongruentSelf ==
    ASSUME NEW a \in Int
    PROVE  Congruent(a, a)
<1>1. a = a + 0 * P /\ 0 \in Int
  BY MpcAssumption
<1> QED  BY <1>1 DEF Congruent

\* Reducing an integer gives the field element it is congruent to.
LEMMA Reduction ==
    ASSUME NEW a \in Int
    PROVE  a % P \in Field /\ Congruent(a % P, a)
<1> DEFINE d == a \div P
<1>1. a % P \in Field
  BY MpcAssumption DEF Field
<1>2. d \in Int /\ a = P * d + (a % P)
  BY MpcAssumption
<1> HIDE DEF d
<1>3. a % P = a + (-d) * P /\ -d \in Int
  BY <1>1, <1>2, MpcAssumption DEF Field
<1> QED  BY <1>1, <1>3 DEF Congruent

\* Congruent elements of the field are one.
LEMMA FieldTells ==
    ASSUME NEW a \in Field, NEW b \in Field, Congruent(a, b)
    PROVE  a = b
<1>1. PICK q \in Int : a = b + q * P
  BY DEF Congruent
<1>2. CASE q >= 1
  <2>1. q * P >= P
    BY <1>2, MpcAssumption
  <2> QED  BY <1>1, <2>1, MpcAssumption DEF Field
<1>3. CASE q <= -1
  <2>1. q * P <= -P
    BY <1>3, MpcAssumption
  <2> QED  BY <1>1, <2>1, MpcAssumption DEF Field
<1>4. CASE q = 0
  BY <1>1, <1>4, MpcAssumption DEF Field
<1> QED  BY <1>2, <1>3, <1>4

\* A signed value within half of the field survives it.
LEMMA SignSurvives ==
    ASSUME NEW v \in Field, NEW t \in Int, Congruent(v, t), InRange(t)
    PROVE  SignedMod(v) = t
<1>0. v % P = v /\ v \in Int
  BY MpcAssumption DEF Field
<1>1. CASE t >= 0
  <2>1. t \in Field /\ t <= P \div 2
    BY <1>1, MpcAssumption DEF Field, InRange
  <2>2. v = t
    BY <2>1, FieldTells
  <2> QED  BY <1>0, <2>1, <2>2, MpcAssumption DEF SignedMod
<1>2. CASE t < 0
  <2>1. t + P \in Field /\ t + P > P \div 2
    BY <1>2, MpcAssumption DEF Field, InRange
  <2>2. Congruent(t, t + P)
    <3>1. t = (t + P) + (-1) * P
      BY MpcAssumption
    <3> QED  BY <3>1 DEF Congruent
  <2>3. Congruent(v, t + P)
    BY <1>0, <2>1, <2>2, CongruentTwice, MpcAssumption
  <2>4. v = t + P
    BY <2>1, <2>3, FieldTells
  <2> QED  BY <1>0, <2>1, <2>4, MpcAssumption DEF SignedMod
<1> QED  BY <1>1, <1>2

\* What is reduced term by term is congruent in the sum.
LEMMA CongruentTerms ==
    ASSUME NEW f, NEW g, NEW S, IsFiniteSet(S), Whole(f, S), Whole(g, S),
           \A x \in S : Congruent(f[x], g[x])
    PROVE  Congruent(SumFunctionOnSet(f, S), SumFunctionOnSet(g, S))
<1> DEFINE Agree(T) == Congruent(SumFunctionOnSet(f, T), SumFunctionOnSet(g, T))
           Good == {T \in SUBSET S : Agree(T)}
<1>1. {} \in Good
  BY SumOfNothing, CongruentSelf
<1>2. ASSUME NEW T \in SUBSET S, NEW x \in T, T \ {x} \in Good
      PROVE  T \in Good
  <2> DEFINE V == T \ {x}
  <2>1. IsFiniteSet(T) /\ IsFiniteSet(V)
    BY FS_Subset
  <2>2. Whole(f, T) /\ Whole(g, T) /\ Whole(f, V) /\ Whole(g, V)
    BY DEF Whole
  <2>3. /\ SumFunctionOnSet(f, T) = f[x] + SumFunctionOnSet(f, V)
        /\ SumFunctionOnSet(g, T) = g[x] + SumFunctionOnSet(g, V)
    BY <2>1, <2>2, SumWithout
  <2>4. Agree(V) /\ Congruent(f[x], g[x])
    BY <1>2
  <2>5. f[x] \in Int /\ g[x] \in Int
    BY DEF Whole
  <2> HIDE DEF V
  <2>6. SumFunctionOnSet(f, V) \in Int /\ SumFunctionOnSet(g, V) \in Int
    BY <2>1, <2>2, SumIsInt
  <2>7. Agree(T)
    BY <2>3, <2>4, <2>5, <2>6, CongruentSums
  <2> QED  BY <2>7
<1>3. S \in Good
  <2> HIDE DEF Good
  <2> QED  BY <1>1, <1>2, SetInduction
<1> QED  BY <1>3

-----------------------------------------------------------------------------
(* Shares.                                                                 *)

LastNode == Nodes[Len(Nodes)]

\* There are finitely many nodes, and the last one is one of them.
LEMMA NodesAreFinite == IsFiniteSet(NodeIds) /\ IsFiniteSet(FirstNodes) /\ LastNode \in NodeIds
<1>1. Nodes \in [1..Len(Nodes) -> NodeIds] /\ Len(Nodes) \in Nat
  BY MpcAssumption
<1>2. \A n \in NodeIds : \E i \in 1..Len(Nodes) : Nodes[i] = n
  BY <1>1 DEF NodeIds, ToSet
<1>3. Nodes \in Surjection(1..Len(Nodes), NodeIds)
  BY <1>1, <1>2 DEF Surjection
<1>4. IsFiniteSet(1..Len(Nodes))
  BY <1>1, FS_Interval
<1>5. IsFiniteSet(NodeIds)
  BY <1>3, <1>4, FS_Surjection
<1>6. LastNode \in NodeIds
  <2>1. Len(Nodes) \in 1..Len(Nodes)
    BY <1>1, MpcAssumption
  <2> QED  BY <1>1, <2>1 DEF LastNode
<1> QED  BY <1>5, <1>6, FS_Subset DEF FirstNodes

\* All shares of a value but the last are drawn, and the last one makes
\* their sum the value.
LEMMA SharesAddUp ==
    ASSUME NEW C, NEW vector \in [C -> Field], NEW drawn \in [C -> [FirstNodes -> Field]]
    PROVE  /\ Shares(vector, drawn) \in [NodeIds -> [C -> Field]]
           /\ \A c \in C :
                 Congruent(SumFunction([n \in NodeIds |-> Shares(vector, drawn)[n][c]]), vector[c])
<1> DEFINE sum(c) == SumFunction(drawn[c])
<1>1. ASSUME NEW c \in C
      PROVE  sum(c) \in Int /\ sum(c) = SumFunctionOnSet(drawn[c], FirstNodes)
  <2>1. DOMAIN drawn[c] = FirstNodes /\ Whole(drawn[c], FirstNodes)
    BY DEF Whole, Field
  <2> QED  BY <2>1, NodesAreFinite, SumIsInt DEF SumFunction
<1>2. ASSUME NEW c \in C
      PROVE  /\ LastShare(vector[c], drawn[c]) \in Field
             /\ Congruent(LastShare(vector[c], drawn[c]), vector[c] - sum(c))
  <2>1. vector[c] - sum(c) \in Int
    BY <1>1 DEF Field
  <2> QED  BY <2>1, Reduction DEF LastShare
<1>3. Shares(vector, drawn) \in [NodeIds -> [C -> Field]]
  <2>1. ASSUME NEW n \in NodeIds, NEW c \in DOMAIN vector
        PROVE  (IF n \in FirstNodes THEN drawn[c][n] ELSE LastShare(vector[c], drawn[c])) \in Field
    BY <1>2
  <2> QED  BY <2>1 DEF Shares
<1>4. ASSUME NEW c \in C
      PROVE  Congruent(SumFunction([n \in NodeIds |-> Shares(vector, drawn)[n][c]]), vector[c])
  <2> DEFINE f == [n \in NodeIds |-> Shares(vector, drawn)[n][c]]
             s == sum(c)
             t == LastShare(vector[c], drawn[c])
  <2>1. /\ \A n \in FirstNodes : f[n] = drawn[c][n]
        /\ f[LastNode] = t /\ Whole(f, NodeIds) /\ DOMAIN f = NodeIds
    <3>1. \A n \in NodeIds :
              f[n] = IF n \in FirstNodes THEN drawn[c][n] ELSE LastShare(vector[c], drawn[c])
      BY DEF Shares
    <3>2. \A n \in NodeIds : f[n] \in Int
      BY <1>3 DEF Field
    <3> QED  BY <3>1, <3>2, NodesAreFinite DEF FirstNodes, LastNode, Whole
  <2> HIDE DEF f
  <2>2. NodeIds \ {LastNode} = FirstNodes
    BY DEF FirstNodes, LastNode
  <2>3. SumFunctionOnSet(f, NodeIds) = t + SumFunctionOnSet(f, FirstNodes)
    BY <2>1, <2>2, NodesAreFinite, SumWithout
  <2>4. SumFunctionOnSet(f, FirstNodes) = s
    BY <1>1, <2>1, NodesAreFinite, SumOfEqual
  <2>5. Congruent(t, vector[c] - s) /\ t \in Int /\ s \in Int /\ vector[c] \in Int
    BY <1>1, <1>2 DEF Field
  <2> HIDE DEF s, t
  <2>6. Congruent(t + s, (vector[c] - s) + s)
    BY <2>5, CongruentSelf, CongruentSums
  <2>7. (vector[c] - s) + s = vector[c]
    BY <2>5
  <2>8. SumFunction(f) = t + s
    BY <2>1, <2>3, <2>4 DEF SumFunction
  <2> QED  BY <2>6, <2>7, <2>8 DEF f
<1> QED  BY <1>3, <1>4

\* All draws of an organization that shares the components C.
Drawn(C) == [C -> [FirstNodes -> Draws]]

\* What the nodes other than m receive.
Seen(vector, drawn, m) == [n \in NodeIds \ {m} |-> Shares(vector, drawn)[n]]

\* Congruence may be read from right to left.
LEMMA CongruentBack ==
    ASSUME NEW a \in Int, NEW b \in Int, Congruent(a, b)
    PROVE  Congruent(b, a)
<1>1. PICK q \in Int : a = b + q * P
  BY DEF Congruent
<1> DEFINE r == -q
<1>2. b = a + r * P /\ r \in Int
  BY <1>1, MpcAssumption
<1> HIDE DEF r
<1> QED  BY <1>2 DEF Congruent

\* Two numbers reduce to the same element exactly when they are congruent.
LEMMA SameReduced ==
    ASSUME NEW a \in Int, NEW b \in Int
    PROVE  a % P = b % P <=> Congruent(a, b)
<1> DEFINE c == a % P
           e == b % P
<1>1. c \in Field /\ e \in Field /\ Congruent(c, a) /\ Congruent(e, b)
  BY Reduction
<1>2. c \in Int /\ e \in Int
  BY <1>1 DEF Field
<1> HIDE DEF c, e
<1>3. Congruent(a, c) /\ Congruent(b, e)
  BY <1>1, <1>2, CongruentBack
<1>4. ASSUME c = e
      PROVE  Congruent(a, b)
  BY <1>1, <1>2, <1>3, <1>4, CongruentTwice
<1>5. ASSUME Congruent(a, b)
      PROVE  c = e
  <2>1. Congruent(c, b)
    BY <1>1, <1>2, <1>5, CongruentTwice
  <2>2. Congruent(c, e)
    BY <1>2, <1>3, <2>1, CongruentTwice
  <2> QED  BY <1>1, <2>2, FieldTells
<1> QED  BY <1>4, <1>5 DEF c, e

\* A congruence of differences may be read crosswise.
LEMMA CongruentCross ==
    ASSUME NEW x \in Int, NEW y \in Int, NEW s \in Int, NEW t \in Int
    PROVE  Congruent(x - s, y - t) <=> Congruent(s - t, x - y)
<1>1. ASSUME Congruent(x - s, y - t)
      PROVE  Congruent(s - t, x - y)
  <2>1. Congruent(y - t, x - s)
    BY <1>1, CongruentBack
  <2>2. PICK q \in Int : y - t = (x - s) + q * P
    BY <2>1 DEF Congruent
  <2>3. q * P \in Int
    BY MpcAssumption
  <2> DEFINE z == q * P
  <2> HIDE DEF z
  <2>4. s - t = (x - y) + z
    BY <2>2, <2>3 DEF z
  <2> QED  BY <2>4 DEF Congruent, z
<1>2. ASSUME Congruent(s - t, x - y)
      PROVE  Congruent(x - s, y - t)
  <2>1. Congruent(x - y, s - t)
    BY <1>2, CongruentBack
  <2>2. PICK q \in Int : x - y = (s - t) + q * P
    BY <2>1 DEF Congruent
  <2>3. q * P \in Int
    BY MpcAssumption
  <2> DEFINE z == q * P
  <2> HIDE DEF z
  <2>4. x - s = (y - t) + z
    BY <2>2, <2>3 DEF z
  <2> QED  BY <2>4 DEF Congruent, z
<1> QED  BY <1>1, <1>2

\* When two vectors and two draws give the last node the same share.
LEMMA SameLastShare ==
    ASSUME NEW x \in Field, NEW y \in Field, NEW d, NEW e,
           SumFunction(d) \in Int, SumFunction(e) \in Int
    PROVE  LastShare(x, d) = LastShare(y, e) <=>
               Congruent(SumFunction(d) - SumFunction(e), x - y)
<1> DEFINE s == SumFunction(d)
           t == SumFunction(e)
<1>1. x \in Int /\ y \in Int /\ s \in Int /\ t \in Int
  BY DEF Field
<1> HIDE DEF s, t
<1>2. x - s \in Int /\ y - t \in Int
  BY <1>1
<1>3. (x - s) % P = (y - t) % P <=> Congruent(x - s, y - t)
  BY <1>2, SameReduced
<1>4. Congruent(x - s, y - t) <=> Congruent(s - t, x - y)
  BY <1>1, CongruentCross
<1> QED  BY <1>3, <1>4 DEF LastShare, s, t

\* Two draws that differ for one node differ in their sums as much.
LEMMA SumsDiffer ==
    ASSUME NEW d \in [FirstNodes -> Field], NEW e \in [FirstNodes -> Field], NEW m \in FirstNodes,
           \A n \in FirstNodes \ {m} : d[n] = e[n]
    PROVE  /\ SumFunction(d) \in Int /\ SumFunction(e) \in Int
           /\ SumFunction(d) - SumFunction(e) = d[m] - e[m]
<1> DEFINE R == FirstNodes \ {m}
<1>1. IsFiniteSet(FirstNodes) /\ IsFiniteSet(R)
  BY NodesAreFinite, FS_Subset
<1>2. Whole(d, FirstNodes) /\ Whole(e, FirstNodes) /\ Whole(d, R) /\ d[m] \in Int /\ e[m] \in Int
  BY DEF Whole, Field
<1>3. DOMAIN d = FirstNodes /\ DOMAIN e = FirstNodes
  OBVIOUS
<1>4. SumFunction(d) = d[m] + SumFunctionOnSet(d, R)
  BY <1>1, <1>2, <1>3, SumWithout DEF SumFunction
<1>5. SumFunction(e) = e[m] + SumFunctionOnSet(e, R)
  BY <1>1, <1>2, <1>3, SumWithout DEF SumFunction
<1>6. SumFunctionOnSet(d, R) = SumFunctionOnSet(e, R)
  BY <1>1, SumOfEqual
<1>7. SumFunctionOnSet(d, R) \in Int
  <2> HIDE DEF R
  <2> QED  BY <1>1, <1>2, SumIsInt
<1> QED  BY <1>2, <1>4, <1>5, <1>6, <1>7

\* What the other nodes see, component by component.
LEMMA SeenAlike ==
    ASSUME NEW C, NEW v \in [C -> Field], NEW w \in [C -> Field],
           NEW d \in Drawn(C), NEW e \in Drawn(C), NEW m \in NodeIds
    PROVE  Seen(w, e, m) = Seen(v, d, m) <=>
               \A c \in C :
                  /\ \A n \in FirstNodes \ {m} : e[c][n] = d[c][n]
                  /\ m # LastNode => LastShare(w[c], e[c]) = LastShare(v[c], d[c])
<1>1. ASSUME NEW n \in NodeIds
      PROVE  /\ Shares(w, e)[n] = [c \in C |-> IF n \in FirstNodes THEN e[c][n] ELSE LastShare(w[c], e[c])]
             /\ Shares(v, d)[n] = [c \in C |-> IF n \in FirstNodes THEN d[c][n] ELSE LastShare(v[c], d[c])]
  BY DEF Shares
<1>2. FirstNodes = NodeIds \ {LastNode} /\ LastNode \in NodeIds
  BY NodesAreFinite DEF FirstNodes, LastNode
<1>3. ASSUME Seen(w, e, m) = Seen(v, d, m), NEW c \in C
      PROVE  /\ \A n \in FirstNodes \ {m} : e[c][n] = d[c][n]
             /\ m # LastNode => LastShare(w[c], e[c]) = LastShare(v[c], d[c])
  <2>1. \A n \in NodeIds \ {m} : Shares(w, e)[n] = Shares(v, d)[n]
    BY <1>3 DEF Seen
  <2>2. ASSUME NEW n \in FirstNodes \ {m}
        PROVE  e[c][n] = d[c][n]
    <3>1. n \in NodeIds /\ Shares(w, e)[n][c] = Shares(v, d)[n][c]
      BY <1>2, <2>1
    <3>2. Shares(w, e)[n][c] = e[c][n] /\ Shares(v, d)[n][c] = d[c][n]
      BY <1>1, <3>1
    <3> QED  BY <3>1, <3>2
  <2>3. ASSUME m # LastNode
        PROVE  LastShare(w[c], e[c]) = LastShare(v[c], d[c])
    <3>1. LastNode \notin FirstNodes /\ Shares(w, e)[LastNode][c] = Shares(v, d)[LastNode][c]
      BY <1>2, <2>1, <2>3
    <3>2. ASSUME NEW n \in NodeIds, n \notin FirstNodes
          PROVE  /\ Shares(w, e)[n][c] = LastShare(w[c], e[c])
                 /\ Shares(v, d)[n][c] = LastShare(v[c], d[c])
      BY <1>1, <3>2
    <3> HIDE DEF LastNode
    <3> QED  BY <1>2, <3>1, <3>2
  <2> QED  BY <2>2, <2>3
<1>4. ASSUME \A c \in C :
                /\ \A n \in FirstNodes \ {m} : e[c][n] = d[c][n]
                /\ m # LastNode => LastShare(w[c], e[c]) = LastShare(v[c], d[c])
      PROVE  Seen(w, e, m) = Seen(v, d, m)
  <2>1. ASSUME NEW n \in NodeIds \ {m}
        PROVE  Shares(w, e)[n] = Shares(v, d)[n]
    <3>1. CASE n \in FirstNodes
      <4>1. \A c \in C : e[c][n] = d[c][n]
        BY <1>4, <3>1
      <4>2. Shares(w, e)[n] = [c \in C |-> e[c][n]] /\ Shares(v, d)[n] = [c \in C |-> d[c][n]]
        BY <1>1, <3>1
      <4> QED  BY <4>1, <4>2
    <3>2. CASE n \notin FirstNodes
      <4>1. \A c \in C : LastShare(w[c], e[c]) = LastShare(v[c], d[c])
        BY <1>2, <1>4, <3>2
      <4>2. /\ Shares(w, e)[n] = [c \in C |-> LastShare(w[c], e[c])]
            /\ Shares(v, d)[n] = [c \in C |-> LastShare(v[c], d[c])]
        BY <1>1, <3>2
      <4> QED  BY <4>1, <4>2
    <3> QED  BY <3>1, <3>2
  <2> QED  BY <2>1 DEF Seen
<1> QED  BY <1>3, <1>4

\* share_vector: whatever all nodes but one have received, every vector
\* explains it by exactly one draw. So where every field element may be drawn
\* each as well as any other, they have learned nothing of the vector.
THEOREM SharesHide ==
    ASSUME Draws = Field, NEW C, NEW v \in [C -> Field], NEW w \in [C -> Field],
           NEW m \in NodeIds, NEW d \in Drawn(C)
    PROVE  \E e \in Drawn(C) :
              /\ Seen(w, e, m) = Seen(v, d, m)
              /\ \A f \in Drawn(C) : Seen(w, f, m) = Seen(v, d, m) => f = e
<1>1. FirstNodes = NodeIds \ {LastNode} /\ LastNode \in NodeIds
  BY NodesAreFinite DEF FirstNodes, LastNode
<1>2. CASE m = LastNode
  <2>1. \A f \in Drawn(C) :
            Seen(w, f, m) = Seen(v, d, m) <=> \A c \in C : \A n \in FirstNodes : f[c][n] = d[c][n]
    <3>1. FirstNodes \ {m} = FirstNodes
      BY <1>1, <1>2
    <3> QED  BY <1>2, <3>1, SeenAlike
  <2>2. ASSUME NEW f \in Drawn(C), \A c \in C : \A n \in FirstNodes : f[c][n] = d[c][n]
        PROVE  f = d
    <3>1. \A c \in C : f[c] \in [FirstNodes -> Draws] /\ d[c] \in [FirstNodes -> Draws]
      BY DEF Drawn
    <3>2. \A c \in C : f[c] = d[c]
      BY <2>2, <3>1
    <3> QED  BY <3>2 DEF Drawn
  <2> QED  BY <2>1, <2>2
<1>3. CASE m \in FirstNodes
  <2> DEFINE shift(c) == (d[c][m] + (w[c] - v[c])) % P
             e == [c \in C |-> [n \in FirstNodes |-> IF n = m THEN shift(c) ELSE d[c][n]]]
  <2>1. ASSUME NEW c \in C
        PROVE  /\ d[c] \in [FirstNodes -> Field] /\ v[c] \in Field /\ w[c] \in Field
               /\ v[c] \in Int /\ w[c] \in Int /\ d[c][m] \in Int
               /\ shift(c) \in Field /\ shift(c) \in Int
               /\ Congruent(shift(c), d[c][m] + (w[c] - v[c]))
    <3>1. d[c] \in [FirstNodes -> Field]
      BY DEF Drawn
    <3>2. v[c] \in Int /\ w[c] \in Int /\ d[c][m] \in Int
      BY <1>3, <3>1 DEF Field
    <3>3. d[c][m] + (w[c] - v[c]) \in Int
      BY <3>2
    <3>4. shift(c) \in Field /\ Congruent(shift(c), d[c][m] + (w[c] - v[c]))
      BY <3>3, Reduction
    <3>5. shift(c) \in Int
      BY <3>4 DEF Field
    <3> QED  BY <3>1, <3>2, <3>4, <3>5
  <2>2. e \in Drawn(C)
    BY <2>1 DEF Drawn
  <2>3. ASSUME NEW f \in Drawn(C)
        PROVE  Seen(w, f, m) = Seen(v, d, m) <=>
                   \A c \in C : /\ \A n \in FirstNodes \ {m} : f[c][n] = d[c][n]
                                /\ f[c][m] = shift(c)
    <3>1. ASSUME NEW c \in C, \A n \in FirstNodes \ {m} : f[c][n] = d[c][n]
          PROVE  LastShare(w[c], f[c]) = LastShare(v[c], d[c]) <=> f[c][m] = shift(c)
      <4>1. f[c] \in [FirstNodes -> Field] /\ f[c][m] \in Field /\ f[c][m] \in Int
        BY <1>3 DEF Drawn, Field
      <4>2. /\ SumFunction(f[c]) \in Int /\ SumFunction(d[c]) \in Int
            /\ SumFunction(f[c]) - SumFunction(d[c]) = f[c][m] - d[c][m]
        BY <1>3, <2>1, <3>1, <4>1, SumsDiffer
      <4>3. LastShare(w[c], f[c]) = LastShare(v[c], d[c]) <=>
                Congruent(f[c][m] - d[c][m], w[c] - v[c])
        BY <2>1, <4>2, SameLastShare
      <4> DEFINE g == f[c][m]
                 h == d[c][m]
                 r == w[c] - v[c]
                 s == shift(c)
      <4>4. g \in Field /\ g \in Int /\ h \in Int /\ r \in Int /\ s \in Field /\ s \in Int
            /\ Congruent(s, h + r)
        BY <2>1, <4>1
      <4> HIDE DEF g, h, r, s
      <4>5. ASSUME Congruent(g - h, r)
            PROVE  g = s
        <5>1. Congruent((g - h) + h, r + h)
          BY <4>4, <4>5, CongruentSelf, CongruentSums
        <5>2. (g - h) + h = g /\ r + h = h + r /\ h + r \in Int
          BY <4>4
        <5>3. Congruent(g, h + r)
          BY <5>1, <5>2
        <5>4. Congruent(h + r, s)
          BY <4>4, <5>2, CongruentBack
        <5>5. Congruent(g, s)
          BY <4>4, <5>2, <5>3, <5>4, CongruentTwice
        <5> QED  BY <4>4, <5>5, FieldTells
      <4>6. ASSUME g = s
            PROVE  Congruent(g - h, r)
        <5>1. Congruent(g - h, (h + r) - h)
          BY <4>4, <4>6, CongruentSelf, CongruentSums
        <5>2. (h + r) - h = r
          BY <4>4
        <5> QED  BY <5>1, <5>2
      <4> QED  BY <4>3, <4>5, <4>6 DEF g, h, r, s
    <3>2. m # LastNode
      BY <1>1, <1>3
    <3> HIDE DEF e, shift
    <3> QED  BY <3>1, <3>2, SeenAlike
  <2>4. \A c \in C : (\A n \in FirstNodes \ {m} : e[c][n] = d[c][n]) /\ e[c][m] = shift(c)
    BY <1>3
  <2>5. ASSUME NEW f \in Drawn(C),
               \A c \in C : (\A n \in FirstNodes \ {m} : f[c][n] = d[c][n]) /\ f[c][m] = shift(c)
        PROVE  f = e
    <3>1. \A c \in C : f[c] \in [FirstNodes -> Draws] /\ e[c] \in [FirstNodes -> Draws]
      BY <2>2 DEF Drawn
    <3>2. \A c \in C : \A n \in FirstNodes : f[c][n] = e[c][n]
      BY <2>4, <2>5
    <3> HIDE DEF e
    <3>3. \A c \in C : f[c] = e[c]
      BY <3>1, <3>2
    <3> QED  BY <2>2, <3>3 DEF Drawn
  <2> HIDE DEF e, shift
  <2> QED  BY <2>2, <2>3, <2>4, <2>5
<1> QED  BY <1>1, <1>2, <1>3

-----------------------------------------------------------------------------
(* What the organizations compute.                                         *)

\* A column of rows is finite and whole.
LEMMA ColumnsAreWhole ==
    ASSUME NEW rows, IsRows(rows)
    PROVE  /\ IsFiniteSet(DOMAIN rows) /\ Len(rows) \in Field
           /\ Cardinality(DOMAIN rows) = Len(rows)
           /\ \A c \in Components["correlation"] : Moments(rows)[c] \in Int
<1>1. Len(rows) \in Field /\ Len(rows) \in Int /\ Len(rows) >= 0 /\ DOMAIN rows = 1..Len(rows)
  BY MpcAssumption DEF IsRows, Field
<1>2. IsFiniteSet(DOMAIN rows) /\ Cardinality(DOMAIN rows) = Len(rows)
  <2>1. IsFiniteSet(1..Len(rows))
    BY <1>1, FS_Interval
  <2>2. Cardinality(1..Len(rows)) = IF 1 > Len(rows) THEN 0 ELSE Len(rows) - 1 + 1
    BY <1>1, FS_Interval
  <2> QED  BY <1>1, <2>1, <2>2
<1>3. \A f : DOMAIN f = DOMAIN rows /\ Whole(f, DOMAIN rows) => SumFunction(f) \in Int
  BY <1>2, SumIsInt DEF SumFunction
<1>4. \A i \in DOMAIN rows : rows[i].x \in Int /\ rows[i].y \in Int
  BY DEF IsRows
<1>5. SumFunction([i \in DOMAIN rows |-> rows[i].x]) \in Int
  BY <1>3, <1>4 DEF Whole
<1>6. SumFunction([i \in DOMAIN rows |-> rows[i].y]) \in Int
  BY <1>3, <1>4 DEF Whole
<1>7. SumFunction([i \in DOMAIN rows |-> rows[i].x * rows[i].x]) \in Int
  BY <1>3, <1>4 DEF Whole
<1>8. SumFunction([i \in DOMAIN rows |-> rows[i].y * rows[i].y]) \in Int
  BY <1>3, <1>4 DEF Whole
<1>9. SumFunction([i \in DOMAIN rows |-> rows[i].x * rows[i].y]) \in Int
  BY <1>3, <1>4 DEF Whole
<1>10. Components["correlation"] = {"x", "y", "xx", "yy", "xy", "n"}
  BY DEF Components
<1>11. \A c \in Components["correlation"] : Moments(rows)[c] \in Int
  BY <1>1, <1>5, <1>6, <1>7, <1>8, <1>9, <1>10 DEF Moments, SumOver
<1> QED  BY <1>1, <1>2, <1>11

\* The components of a variance are among those of a correlation.
LEMMA KindsOfComponents ==
    ASSUME NEW k \in Kinds
    PROVE  /\ k \in {"histogram", "variance", "correlation"}
           /\ Components["histogram"] = Buckets
           /\ k # "histogram" => Components[k] \subseteq Components["correlation"]
           /\ k # "histogram" => \A rows \in Own(k) : IsRows(rows)
<1>1. DOMAIN Components = {"histogram", "variance", "correlation"}
  BY DEF Components
<1>2. /\ Components["histogram"] = Buckets
      /\ Components["variance"] \subseteq Components["correlation"]
  BY DEF Components
<1> QED  BY <1>1, <1>2, MpcAssumption DEF Own

\* An organization shares its statistics as elements of the field.
LEMMA LocalIsStatistic ==
    ASSUME kind \in Kinds, NEW own \in Own(kind)
    PROVE  /\ Local(kind, own) \in [Components[kind] -> Field]
           /\ \A c \in Components[kind] :
                 /\ Statistic(own, c) \in Int
                 /\ Congruent(Local(kind, own)[c], Statistic(own, c))
<1> SUFFICES ASSUME NEW c \in Components[kind]
             PROVE  /\ Local(kind, own)[c] \in Field
                    /\ Statistic(own, c) \in Int
                    /\ Congruent(Local(kind, own)[c], Statistic(own, c))
  BY DEF Local
<1>1. CASE kind = "histogram"
  <2>1. own \in [Buckets -> CountsOf] /\ c \in Buckets
    BY <1>1, KindsOfComponents DEF Own
  <2>2. own[c] \in Field
    BY <2>1, MpcAssumption
  <2>3. own[c] \in Int
    BY <2>2 DEF Field
  <2> QED  BY <1>1, <2>2, <2>3, CongruentSelf DEF Local, Statistic
<1>2. CASE kind # "histogram"
  <2>1. Moments(own)[c] \in Int /\ Len(own) \in Field
    BY <1>2, KindsOfComponents, ColumnsAreWhole
  <2>2. c = "n" => Moments(own)[c] = Len(own)
    BY DEF Moments, SumOver
  <2>3. Statistic(own, c) = Moments(own)[c]
    BY <1>2 DEF Statistic
  <2>4. Local(kind, own)[c] = IF c = "n" THEN Len(own) ELSE Moments(own)[c] % P
    BY <1>2 DEF Local
  <2>5. CASE c = "n"
    BY <2>1, <2>2, <2>3, <2>4, <2>5, CongruentSelf
  <2>6. CASE c # "n"
    BY <2>1, <2>3, <2>4, <2>6, Reduction
  <2> QED  BY <2>5, <2>6
<1> QED  BY <1>1, <1>2

-----------------------------------------------------------------------------
(* The nodes hold, together, what has been contributed.                    *)

Held(c) == SumFunction([n \in NodeIds |-> acc[n][c]])
Statistics(c) == [o \in Orgs |-> Statistic(data[o], c)]
Given(c) == SumFunctionOnSet(Statistics(c), Orgs \ waiting)

ShareInv ==
    /\ acc = None <=> waiting = Orgs
    /\ acc # None => \A c \in Components[kind] : Congruent(Held(c), Given(c))
    /\ opened # None =>
          /\ waiting = {}
          /\ opened = [c \in Components[kind] |-> SignedMod(Held(c) % P)]

\* What was answered is one of the answers to what was opened.
AnswerInv ==
    answer # None =>
        \/ TooFewRows /\ answer = 0
        \/ /\ opened # None
           /\ kind = "variance" => answer \in VarianceAnswers
           /\ kind = "correlation" => answer \in CorrelationAnswers

MpcInv == TypeOK /\ ShareInv /\ AnswerInv

\* Statistics are integers, and so is what is held of them.
LEMMA SumsAreWhole ==
    ASSUME TypeOK, NEW c \in Components[kind]
    PROVE  /\ Whole(Statistics(c), Orgs) /\ Given(c) \in Int
           /\ acc # None => Held(c) \in Int
<1>1. Whole(Statistics(c), Orgs)
  BY LocalIsStatistic DEF TypeOK, Whole, Statistics
<1>2. Given(c) \in Int
  <2>1. IsFiniteSet(Orgs \ waiting) /\ Whole(Statistics(c), Orgs \ waiting)
    BY <1>1, FS_Subset, MpcAssumption DEF Whole
  <2> QED  BY <2>1, SumIsInt DEF Given
<1>3. ASSUME acc # None
      PROVE  Held(c) \in Int
  <2>1. Whole([n \in NodeIds |-> acc[n][c]], NodeIds)
    BY <1>3 DEF TypeOK, Whole, Field
  <2> QED  BY <2>1, NodesAreFinite, SumIsInt DEF Held, SumFunction
<1> QED  BY <1>1, <1>2, <1>3

LEMMA MpcInit == Init => MpcInv
<1> SUFFICES ASSUME Init PROVE MpcInv
  OBVIOUS
<1>1. TypeOK
  BY DEF Init, TypeOK
<1> QED  BY <1>1 DEF Init, MpcInv, ShareInv, AnswerInv

\* A contribution adds its shares, and thereby its statistics.
LEMMA ContributeKeeps ==
    ASSUME MpcInv, NEW o \in waiting, NEW drawn \in [Components[kind] -> [FirstNodes -> Draws]],
           Contribute(o, drawn)
    PROVE  MpcInv'
<1> DEFINE C == Components[kind]
           vector == Local(kind, data[o])
           shares == Shares(vector, drawn)
<1>0. o \in Orgs /\ data[o] \in Own(kind) /\ kind \in Kinds /\ waiting \subseteq Orgs
  BY DEF MpcInv, TypeOK
<1>1. /\ vector \in [C -> Field]
      /\ \A c \in C : Statistics(c)[o] \in Int /\ Congruent(vector[c], Statistics(c)[o])
  BY <1>0, LocalIsStatistic DEF Statistics
<1>2. drawn \in [C -> [FirstNodes -> Field]]
  BY MpcAssumption
<1>3. /\ shares \in [NodeIds -> [C -> Field]]
      /\ \A c \in C : Congruent(SumFunction([n \in NodeIds |-> shares[n][c]]), vector[c])
  <2> HIDE DEF vector, C
  <2> QED  BY <1>1, <1>2, SharesAddUp
<1>4. /\ waiting' = waiting \ {o}
      /\ acc' = IF acc = None THEN shares
                ELSE [n \in NodeIds |-> [c \in DOMAIN shares[n] |->
                         (acc[n][c] + shares[n][c]) % P]]
      /\ UNCHANGED <<kind, data, opened, answer>>
  BY DEF Contribute
<1> HIDE DEF shares, vector
<1>5. acc' \in [NodeIds -> [C -> Field]]
  <2>1. CASE acc = None
    BY <1>3, <1>4, <2>1
  <2>2. CASE acc # None
    <3>1. ASSUME NEW n \in NodeIds, NEW c \in C
          PROVE  (acc[n][c] + shares[n][c]) % P \in Field
      <4>1. acc[n][c] + shares[n][c] \in Int
        BY <1>3, <2>2 DEF MpcInv, TypeOK, Field
      <4> QED  BY <4>1, Reduction
    <3>2. \A n \in NodeIds : DOMAIN shares[n] = C
      BY <1>3
    <3> QED  BY <1>4, <2>2, <3>1, <3>2
  <2> QED  BY <2>1, <2>2
<1>6. acc' # None
  BY <1>0, <1>5, MpcAssumption
<1>7. TypeOK'
  BY <1>4, <1>5 DEF MpcInv, TypeOK
<1>8. ASSUME NEW c \in C
      PROVE  Congruent(Held(c)', Given(c)')
  <2> DEFINE mine == SumFunction([n \in NodeIds |-> shares[n][c]])
             s == Statistics(c)[o]
             new == [n \in NodeIds |-> acc'[n][c]]
             added == [n \in NodeIds |-> shares[n][c]]
             old == [n \in NodeIds |-> acc[n][c]]
             both == [n \in NodeIds |-> acc[n][c] + shares[n][c]]
  <2>1. Whole(added, NodeIds) /\ Whole(new, NodeIds) /\ vector[c] \in Int /\ s \in Int
    BY <1>1, <1>3, <1>5 DEF Whole, Field
  <2>2. mine \in Int /\ mine = SumFunctionOnSet(added, NodeIds)
    BY <2>1, NodesAreFinite, SumIsInt DEF SumFunction
  <2>3. Congruent(mine, s)
    BY <1>1, <1>3, <2>1, <2>2, CongruentTwice
  <2>4. Held(c)' = SumFunctionOnSet(new, NodeIds) /\ Held(c)' \in Int
    BY <2>1, NodesAreFinite, SumIsInt DEF Held, SumFunction
  <2>5. Given(c)' = s + Given(c)
    <3>1. Statistics(c)' = Statistics(c)
      BY <1>4 DEF Statistics, Statistic
    <3>2. /\ Orgs \ waiting' = (Orgs \ waiting) \cup {o} /\ o \notin Orgs \ waiting
          /\ IsFiniteSet(Orgs \ waiting)
      BY <1>0, <1>4, FS_Subset, MpcAssumption
    <3>3. Whole(Statistics(c), (Orgs \ waiting) \cup {o})
      BY <1>0, SumsAreWhole DEF MpcInv, Whole
    <3> QED  BY <3>1, <3>2, <3>3, SumWith DEF Given
  <2>6. Given(c) \in Int
    BY SumsAreWhole DEF MpcInv
  <2>7. CASE acc = None
    <3>1. Given(c) = 0
      <4>1. Orgs \ waiting = {}
        BY <2>7 DEF MpcInv, ShareInv
      <4> QED  BY <4>1, SumOfNothing DEF Given
    <3>2. new = added
      BY <1>4, <2>7
    <3> HIDE DEF s, new, added, mine
    <3> QED  BY <2>1, <2>2, <2>3, <2>4, <2>5, <3>1, <3>2
  <2>8. CASE acc # None
    <3>1. Whole(old, NodeIds) /\ Whole(both, NodeIds)
      BY <1>3, <2>8 DEF MpcInv, TypeOK, Whole, Field
    <3>2. SumFunctionOnSet(both, NodeIds) = Held(c) + mine
      <4>1. \A n \in NodeIds : both[n] = old[n] + added[n]
        OBVIOUS
      <4>2. Held(c) = SumFunctionOnSet(old, NodeIds)
        BY DEF Held, SumFunction
      <4> HIDE DEF both, old, added, mine
      <4> QED  BY <2>1, <2>2, <3>1, <4>1, <4>2, NodesAreFinite, SumPlus
    <3>3. \A n \in NodeIds : Congruent(new[n], both[n])
      <4>1. \A n \in NodeIds : new[n] = both[n] % P
        BY <1>3, <1>4, <2>8
      <4> HIDE DEF new, both
      <4> QED  BY <3>1, <4>1, Reduction DEF Whole
    <3>4. Held(c) \in Int /\ Congruent(Held(c), Given(c))
      BY <2>8, SumsAreWhole DEF MpcInv, ShareInv
    <3> HIDE DEF s, new, both, mine
    <3>5. Congruent(Held(c)', Held(c) + mine)
      BY <2>1, <2>4, <3>1, <3>2, <3>3, NodesAreFinite, CongruentTerms
    <3>6. Congruent(Held(c) + mine, Given(c) + s)
      BY <2>1, <2>2, <2>3, <2>6, <3>4, CongruentSums
    <3>7. Given(c) + s = Given(c)' /\ Given(c)' \in Int /\ Held(c) + mine \in Int
      BY <2>1, <2>2, <2>5, <2>6, <3>4
    <3> QED  BY <2>4, <3>5, <3>6, <3>7, CongruentTwice
  <2> QED  BY <2>7, <2>8
<1>9. opened = None
  BY DEF MpcInv, ShareInv
<1>10. ShareInv'
  BY <1>0, <1>4, <1>6, <1>8, <1>9 DEF ShareInv
<1>11. AnswerInv'
  BY <1>4, <1>9 DEF MpcInv, AnswerInv, TooFewRows, RowCount
<1> QED  BY <1>7, <1>10, <1>11 DEF MpcInv

\* Signed values are within the field's size.
LEMMA SignedIsSmall ==
    ASSUME NEW v \in Int
    PROVE  SignedMod(v) \in -P..P
<1>1. v % P \in Field
  BY Reduction
<1> QED  BY <1>1, MpcAssumption DEF SignedMod, Field

LEMMA OpenKeeps == ASSUME MpcInv, Open PROVE MpcInv'
<1>1. /\ waiting = {} /\ opened = None
      /\ opened' = [c \in Components[kind] |-> SignedMod(Held(c) % P)]
      /\ UNCHANGED <<kind, data, waiting, acc, answer>>
  BY DEF Open, Held
<1>2. acc # None
  BY <1>1, MpcAssumption DEF MpcInv, ShareInv
<1>3. ASSUME NEW c \in Components[kind]
      PROVE  SignedMod(Held(c) % P) \in -P..P
  <2>1. Held(c) \in Int
    BY <1>2, SumsAreWhole DEF MpcInv
  <2>2. Held(c) % P \in Int
    BY <2>1, Reduction DEF Field
  <2> QED  BY <2>2, SignedIsSmall
<1>4. TypeOK'
  BY <1>1, <1>3 DEF MpcInv, TypeOK
<1>5. ShareInv'
  <2>1. \A c : Held(c)' = Held(c) /\ Given(c)' = Given(c)
    BY <1>1 DEF Held, Given, Statistics, Statistic
  <2> QED  BY <1>1, <2>1 DEF MpcInv, ShareInv
<1>6. AnswerInv'
  BY <1>1 DEF MpcInv, AnswerInv, TooFewRows, RowCount
<1> QED  BY <1>4, <1>5, <1>6 DEF MpcInv

\* What rounding leaves of an integer is an integer nearby.
LEMMA FloatsAreNear ==
    ASSUME NEW v \in Int, NEW w \in InFloats(v)
    PROVE  w \in Int /\ w - v \in -Rounding..Rounding
BY MpcAssumption DEF InFloats

\* The parts of the opened totals are integers.
LEMMA OpenedIsWhole ==
    ASSUME TypeOK, opened # None
    PROVE  /\ kind = "variance" => opened.x \in Int /\ opened.xx \in Int
           /\ kind = "correlation" =>
                 /\ opened.x \in Int /\ opened.y \in Int /\ opened.xx \in Int
                 /\ opened.yy \in Int /\ opened.xy \in Int /\ opened.n \in Int
<1>1. opened \in [Components[kind] -> -P..P] /\ P \in Nat
  BY MpcAssumption DEF TypeOK
<1> QED  BY <1>1 DEF Components

\* The rows of all organizations are counted by a number.
LEMMA RowsAreCounted ==
    ASSUME TypeOK, kind # "histogram"
    PROVE  RowCount \in Int
<1>1. ASSUME NEW o \in Orgs
      PROVE  Len(data[o]) \in Int
  BY KindsOfComponents DEF TypeOK, IsRows, Field
<1>2. Whole([o \in Orgs |-> Len(data[o])], Orgs)
  BY <1>1 DEF Whole
<1> QED  BY <1>2, SumIsInt, MpcAssumption DEF RowCount, SumFunction

\* Every answer is a number, and what is divided by is positive.
LEMMA AnswersAreTyped ==
    ASSUME TypeOK, opened # None, RowCount \in Int
    PROVE  /\ kind = "variance" => VarianceAnswers \subseteq Nat
           /\ kind = "correlation" =>
                 CorrelationAnswers \subseteq [cov : Int, vx : Nat \ {0}, vy : Nat \ {0}]
<1>1. ASSUME kind = "variance" PROVE VarianceAnswers \subseteq Nat
  <2>1. Spread(RowCount, opened.xx, opened.x, opened.x) \in Int
    BY <1>1, OpenedIsWhole DEF Spread
  <2>2. InFloats(Spread(RowCount, opened.xx, opened.x, opened.x)) \subseteq Int
    BY <2>1, FloatsAreNear
  <2> QED  BY <2>2 DEF VarianceAnswers, NonNegative
<1>2. ASSUME kind = "correlation"
      PROVE  CorrelationAnswers \subseteq [cov : Int, vx : Nat \ {0}, vy : Nat \ {0}]
  <2> DEFINE cov == Spread(opened.n, opened.xy, opened.x, opened.y)
             vx == Spread(opened.n, opened.xx, opened.x, opened.x)
             vy == Spread(opened.n, opened.yy, opened.y, opened.y)
  <2>1. cov \in Int /\ vx \in Int /\ vy \in Int
    BY <1>2, OpenedIsWhole DEF Spread
  <2>2. CorrelationAnswers = IF opened.n < 2 THEN {Uncorrelated}
            ELSE {IF t.vx <= 0 \/ t.vy <= 0 THEN Uncorrelated ELSE t :
                     t \in [cov : InFloats(cov), vx : InFloats(vx), vy : InFloats(vy)]}
    BY DEF CorrelationAnswers
  <2> HIDE DEF cov, vx, vy
  <2>3. InFloats(cov) \subseteq Int /\ InFloats(vx) \subseteq Int /\ InFloats(vy) \subseteq Int
    BY <2>1, FloatsAreNear
  <2>4. ASSUME NEW t \in [cov : InFloats(cov), vx : InFloats(vx), vy : InFloats(vy)],
               ~(t.vx <= 0 \/ t.vy <= 0)
        PROVE  t \in [cov : Int, vx : Nat \ {0}, vy : Nat \ {0}]
    <3>1. t \in [cov : Int, vx : Int, vy : Int]
      BY <2>3
    <3>2. t.vx \in Nat \ {0} /\ t.vy \in Nat \ {0} /\ t.cov \in Int
      BY <2>4, <3>1
    <3> QED  BY <3>1, <3>2
  <2>5. Uncorrelated \in [cov : Int, vx : Nat \ {0}, vy : Nat \ {0}]
    BY DEF Uncorrelated
  <2> QED  BY <2>2, <2>4, <2>5
<1> QED  BY <1>1, <1>2

LEMMA AnswerKeeps == ASSUME MpcInv, Answer PROVE MpcInv'
<1>1. UNCHANGED <<kind, data, waiting, acc, opened>>
  BY DEF Answer
<1>2. ShareInv'
  <2>1. \A c : Held(c)' = Held(c) /\ Given(c)' = Given(c)
    BY <1>1 DEF Held, Given, Statistics, Statistic
  <2> QED  BY <1>1, <2>1 DEF MpcInv, ShareInv
<1>3. kind \in {"histogram", "variance", "correlation"}
  BY KindsOfComponents DEF MpcInv, TypeOK
<1>4. CASE TooFewRows /\ answer' = 0
  <2>1. TypeOK'
    BY <1>1, <1>4 DEF MpcInv, TypeOK, TooFewRows
  <2>2. AnswerInv'
    BY <1>1, <1>4 DEF AnswerInv, TooFewRows, RowCount
  <2> QED  BY <1>2, <2>1, <2>2 DEF MpcInv
<1>5. CASE opened # None /\ kind = "histogram" /\ answer' = opened
  BY <1>1, <1>2, <1>5 DEF MpcInv, TypeOK, AnswerInv
<1>6. CASE opened # None /\ kind = "variance" /\ answer' \in VarianceAnswers
  <2>1. VarianceAnswers' = VarianceAnswers
    BY <1>1 DEF VarianceAnswers, RowCount
  <2>2. answer' \in Nat
    BY <1>6, AnswersAreTyped, RowsAreCounted DEF MpcInv
  <2> QED  BY <1>1, <1>2, <1>6, <2>1, <2>2 DEF MpcInv, TypeOK, AnswerInv
<1>7. CASE opened # None /\ kind = "correlation" /\ answer' \in CorrelationAnswers
  <2>1. CorrelationAnswers' = CorrelationAnswers
    BY <1>1 DEF CorrelationAnswers
  <2>2. answer' \in [cov : Int, vx : Nat \ {0}, vy : Nat \ {0}]
    BY <1>7, AnswersAreTyped, RowsAreCounted DEF MpcInv
  <2> QED  BY <1>1, <1>2, <1>7, <2>1, <2>2 DEF MpcInv, TypeOK, AnswerInv
<1> QED  BY <1>3, <1>4, <1>5, <1>6, <1>7 DEF Answer

LEMMA MpcStep == MpcInv /\ [Next]_vars => MpcInv'
<1> SUFFICES ASSUME MpcInv, [Next]_vars PROVE MpcInv'
  OBVIOUS
<1>1. CASE Next
  BY <1>1, ContributeKeeps, OpenKeeps, AnswerKeeps DEF Next
<1>2. CASE UNCHANGED vars
  <2>1. \A c : Held(c)' = Held(c) /\ Given(c)' = Given(c)
    BY <1>2 DEF vars, Held, Given, Statistics, Statistic
  <2>2. /\ VarianceAnswers' = VarianceAnswers /\ CorrelationAnswers' = CorrelationAnswers
        /\ TooFewRows' = TooFewRows
    BY <1>2 DEF vars, VarianceAnswers, CorrelationAnswers, RowCount, TooFewRows
  <2>3. TypeOK'
    BY <1>2 DEF vars, MpcInv, TypeOK
  <2>4. ShareInv' /\ AnswerInv'
    BY <1>2, <2>1, <2>2 DEF vars, MpcInv, ShareInv, AnswerInv
  <2> QED  BY <2>3, <2>4 DEF MpcInv
<1> QED  BY <1>1, <1>2

LEMMA SharesHold == Spec => []MpcInv
BY MpcInit, MpcStep, PTL DEF Spec

\* mpc/stats.py, crypto/secret_sharing.py: whatever is drawn, every share a
\* node adds or keeps is an element of the field.
THEOREM SharesTyped == Spec => []TypeOK
<1>1. MpcInv => TypeOK
  BY DEF MpcInv
<1> QED  BY <1>1, SharesHold, PTL

\* What is opened is congruent to the pooled total, and is the pooled total
\* where that is small enough.
LEMMA OpenedIsPooled == MpcInv => OpenedExact
<1> SUFFICES ASSUME MpcInv, opened # None, NEW c \in Components[kind], InRange(Pooled(c))
             PROVE  opened[c] = Pooled(c)
  BY DEF OpenedExact
<1>1. waiting = {} /\ opened[c] = SignedMod(Held(c) % P) /\ acc # None
  BY MpcAssumption DEF MpcInv, ShareInv
<1>2. Given(c) = Pooled(c)
  <2>1. Orgs \ waiting = Orgs
    BY <1>1
  <2> QED  BY <2>1 DEF Given, Pooled, Statistics, SumFunction
<1>3. Congruent(Held(c), Pooled(c)) /\ Held(c) \in Int /\ Pooled(c) \in Int
  BY <1>1, <1>2, SumsAreWhole DEF MpcInv, ShareInv
<1>4. Held(c) % P \in Field /\ Held(c) % P \in Int /\ Congruent(Held(c) % P, Held(c))
  BY <1>3, Reduction DEF Field
<1>5. Congruent(Held(c) % P, Pooled(c))
  BY <1>3, <1>4, CongruentTwice
<1> QED  BY <1>1, <1>3, <1>4, <1>5, SignSurvives

\* run_histogram, run_variance, run_correlation: no draw, no number of nodes
\* and no order of the organizations shows in what is opened.
THEOREM TotalsAreExact == Spec => []OpenedExact
BY OpenedIsPooled, SharesHold, PTL

-----------------------------------------------------------------------------
(* Variances and covariances, from sums over rows and over pairs of rows.  *)

\* The sum over b of (p - u[b]) * (q - v[b]).
LEMMA SumOfDeviations ==
    ASSUME NEW S, IsFiniteSet(S), NEW u, NEW v, NEW w, NEW h, NEW p \in Int, NEW q \in Int,
           Whole(u, S), Whole(v, S), \A b \in S : w[b] = u[b] * v[b],
           \A b \in S : h[b] = (p - u[b]) * (q - v[b])
    PROVE  SumFunctionOnSet(h, S) =
               Cardinality(S) * (p * q) - p * SumFunctionOnSet(v, S)
                   - q * SumFunctionOnSet(u, S) + SumFunctionOnSet(w, S)
<1> DEFINE U(T) == SumFunctionOnSet(u, T)
           V(T) == SumFunctionOnSet(v, T)
           W(T) == SumFunctionOnSet(w, T)
           n(T) == Cardinality(T)
           Right(T) == n(T) * (p * q) - p * V(T) - q * U(T) + W(T)
           Good == {T \in SUBSET S : SumFunctionOnSet(h, T) = Right(T)}
<1>1. {} \in Good
  <2>1. U({}) = 0 /\ V({}) = 0 /\ W({}) = 0 /\ n({}) = 0 /\ SumFunctionOnSet(h, {}) = 0
    BY SumOfNothing, FS_EmptySet
  <2>2. 0 * (p * q) - p * 0 - q * 0 + 0 = 0
    OBVIOUS
  <2> QED  BY <2>1, <2>2
<1>2. ASSUME NEW T \in SUBSET S, NEW b \in T, T \ {b} \in Good
      PROVE  T \in Good
  <2> DEFINE R == T \ {b}
  <2>1. IsFiniteSet(T) /\ IsFiniteSet(R)
    BY FS_Subset
  <2>2. \A y \in S : u[y] \in Int /\ v[y] \in Int /\ w[y] \in Int /\ h[y] \in Int
    BY DEF Whole
  <2>3. /\ Whole(u, T) /\ Whole(v, T) /\ Whole(w, T) /\ Whole(h, T)
        /\ Whole(u, R) /\ Whole(v, R) /\ Whole(w, R)
    BY <2>2 DEF Whole
  <2>4. /\ U(T) = u[b] + U(R) /\ V(T) = v[b] + V(R) /\ W(T) = w[b] + W(R)
        /\ SumFunctionOnSet(h, T) = h[b] + SumFunctionOnSet(h, R)
    BY <2>1, <2>3, SumWithout
  <2>5. n(T) = n(R) + 1 /\ n(R) \in Int
    BY <2>1, FS_RemoveElement, FS_CardinalityType
  <2>6. SumFunctionOnSet(h, R) = Right(R)
    BY <1>2
  <2>7. u[b] \in Int /\ v[b] \in Int /\ w[b] = u[b] * v[b] /\ h[b] = (p - u[b]) * (q - v[b])
    BY <2>2
  <2> HIDE DEF R
  <2>8. U(R) \in Int /\ V(R) \in Int /\ W(R) \in Int
    BY <2>1, <2>3, SumIsInt
  <2>9. SumFunctionOnSet(h, T) = Right(T)
    <3> HIDE DEF U, V, W, n
    <3>1. ASSUME NEW m \in Int, NEW x \in Int, NEW y \in Int,
                 NEW X \in Int, NEW Y \in Int, NEW Z \in Int
          PROVE  (m + 1) * (p * q) - p * (y + Y) - q * (x + X) + (x * y + Z)
                    = (p - x) * (q - y) + (m * (p * q) - p * Y - q * X + Z)
      OBVIOUS
    <3> QED  BY <2>4, <2>5, <2>6, <2>7, <2>8, <3>1
  <2> QED  BY <2>9
<1>3. S \in Good
  <2> HIDE DEF Good
  <2> QED  BY <1>1, <1>2, SetInduction
<1> QED  BY <1>3

Combines(g, S, u, v, w, k, U, V, W) ==
    \A a \in S : g[a] = k * w[a] - u[a] * V - v[a] * U + W

\* The sum over a of what SumOfDeviations says of each.
LEMMA SumOfSums ==
    ASSUME NEW S, IsFiniteSet(S), NEW u, NEW v, NEW w, NEW g, Whole(u, S), Whole(v, S), Whole(w, S),
           NEW k \in Int, NEW U \in Int, NEW V \in Int, NEW W \in Int,
           Combines(g, S, u, v, w, k, U, V, W)
    PROVE  SumFunctionOnSet(g, S) =
               k * SumFunctionOnSet(w, S) - SumFunctionOnSet(u, S) * V
                   - SumFunctionOnSet(v, S) * U + Cardinality(S) * W
<1> DEFINE x(T) == SumFunctionOnSet(u, T)
           y(T) == SumFunctionOnSet(v, T)
           z(T) == SumFunctionOnSet(w, T)
           n(T) == Cardinality(T)
           Right(T) == k * z(T) - x(T) * V - y(T) * U + n(T) * W
           Good == {T \in SUBSET S : SumFunctionOnSet(g, T) = Right(T)}
<1>1. {} \in Good
  <2>1. x({}) = 0 /\ y({}) = 0 /\ z({}) = 0 /\ n({}) = 0 /\ SumFunctionOnSet(g, {}) = 0
    BY SumOfNothing, FS_EmptySet
  <2>2. k * 0 - 0 * V - 0 * U + 0 * W = 0
    OBVIOUS
  <2> QED  BY <2>1, <2>2
<1>2. ASSUME NEW T \in SUBSET S, NEW a \in T, T \ {a} \in Good
      PROVE  T \in Good
  <2> DEFINE R == T \ {a}
  <2>1. IsFiniteSet(T) /\ IsFiniteSet(R)
    BY FS_Subset
  <2>2. \A b \in S : u[b] \in Int /\ v[b] \in Int /\ w[b] \in Int /\ g[b] \in Int
    BY DEF Whole, Combines
  <2>3. /\ Whole(u, T) /\ Whole(v, T) /\ Whole(w, T) /\ Whole(g, T)
        /\ Whole(u, R) /\ Whole(v, R) /\ Whole(w, R)
    BY <2>2 DEF Whole
  <2>4. /\ x(T) = u[a] + x(R) /\ y(T) = v[a] + y(R) /\ z(T) = w[a] + z(R)
        /\ SumFunctionOnSet(g, T) = g[a] + SumFunctionOnSet(g, R)
    BY <2>1, <2>3, SumWithout
  <2>5. n(T) = n(R) + 1 /\ n(R) \in Int
    BY <2>1, FS_RemoveElement, FS_CardinalityType
  <2>6. SumFunctionOnSet(g, R) = Right(R)
    BY <1>2
  <2>7. u[a] \in Int /\ v[a] \in Int /\ w[a] \in Int /\ g[a] = k * w[a] - u[a] * V - v[a] * U + W
    BY <2>2 DEF Combines
  <2> HIDE DEF R
  <2>8. x(R) \in Int /\ y(R) \in Int /\ z(R) \in Int
    BY <2>1, <2>3, SumIsInt
  <2>9. SumFunctionOnSet(g, T) = Right(T)
    <3> HIDE DEF x, y, z, n
    <3>1. ASSUME NEW m \in Int, NEW p \in Int, NEW q \in Int, NEW r \in Int,
                 NEW X \in Int, NEW Y \in Int, NEW Z \in Int
          PROVE  k * (r + Z) - (p + X) * V - (q + Y) * U + (m + 1) * W
                    = (k * r - p * V - q * U + W) + (k * Z - X * V - Y * U + m * W)
      OBVIOUS
    <3> QED  BY <2>4, <2>5, <2>6, <2>7, <2>8, <3>1
  <2> QED  BY <2>9
<1>3. S \in Good
  <2> HIDE DEF Good
  <2> QED  BY <1>1, <1>2, SetInduction
<1> QED  BY <1>3

\* Twice n times the sum of products, less the product of the sums, is the
\* sum over all pairs of the product of the differences.
LEMMA CovarianceOfPairs ==
    ASSUME NEW S, IsFiniteSet(S), NEW u, NEW v, NEW w, NEW h, Whole(u, S), Whole(v, S),
           \A a \in S : w[a] = u[a] * v[a],
           \A a \in S, b \in S : h[<<a, b>>] = (u[a] - u[b]) * (v[a] - v[b])
    PROVE  SumFunctionOnSet(h, S \X S) =
               2 * (Cardinality(S) * SumFunctionOnSet(w, S)
                        - SumFunctionOnSet(u, S) * SumFunctionOnSet(v, S))
<1> DEFINE U == SumFunctionOnSet(u, S)
           V == SumFunctionOnSet(v, S)
           W == SumFunctionOnSet(w, S)
           n == Cardinality(S)
           g == [a \in S |-> n * w[a] - u[a] * V - v[a] * U + W]
           D == [a \in S |-> S]
<1>1. \A a \in S : u[a] \in Int /\ v[a] \in Int /\ w[a] \in Int
  BY DEF Whole
<1>2. Whole(w, S)
  BY <1>1 DEF Whole
<1>3. U \in Int /\ V \in Int /\ W \in Int /\ n \in Int
  BY <1>2, SumIsInt, FS_CardinalityType
<1>4. Whole(h, S \X S)
  BY <1>1 DEF Whole
<1>5. ASSUME NEW a \in S
      PROVE  g[a] = SumFunctionOnSet(h, Fibre(a, D[a]))
  <2> DEFINE e == [b \in S |-> (u[a] - u[b]) * (v[a] - v[b])]
  <2>1. SumFunctionOnSet(e, S) = n * (u[a] * v[a]) - u[a] * V - v[a] * U + W
    <3>1. \A b \in S : e[b] = (u[a] - u[b]) * (v[a] - v[b])
      OBVIOUS
    <3> HIDE DEF e
    <3> QED  BY <1>1, <3>1, SumOfDeviations
  <2>2. SumFunctionOnSet(h, Fibre(a, S)) = SumFunctionOnSet(e, S)
    <3>1. Whole(h, Fibre(a, S))
      BY <1>4 DEF Whole, Fibre
    <3>2. \A b \in S : e[b] = h[<<a, b>>]
      OBVIOUS
    <3>3. IsFiniteSet(S)
      OBVIOUS
    <3> HIDE DEF e, g, D, U, V, W, n
    <3> QED  BY ONLY <3>1, <3>2, <3>3, SumOfColumn
  <2>3. g[a] = n * (u[a] * v[a]) - u[a] * V - v[a] * U + W
    OBVIOUS
  <2> QED  BY <2>1, <2>2, <2>3
<1>6. S \X S = Fibres(S, D)
  BY DEF Fibres, Fibre
<1>7. Combines(g, S, u, v, w, n, U, V, W)
  BY DEF Combines
<1>8. (\A a \in S : IsFiniteSet(D[a])) /\ Whole(h, Fibres(S, D))
  BY <1>4, <1>6
<1> HIDE DEF g, D
<1>9. SumFunctionOnSet(h, S \X S) = SumFunctionOnSet(g, S)
  <2>1. SumFunctionOnSet(h, Fibres(S, D)) = SumFunctionOnSet(g, S)
    BY <1>5, <1>8, SumOfFibres
  <2> QED  BY <1>6, <2>1
<1>10. SumFunctionOnSet(g, S) = n * W - U * V - V * U + n * W
  <2> HIDE DEF n, U, V, W
  <2>1. SumFunctionOnSet(g, S) =
            n * SumFunctionOnSet(w, S) - SumFunctionOnSet(u, S) * V
                - SumFunctionOnSet(v, S) * U + Cardinality(S) * W
    BY <1>2, <1>3, <1>7, SumOfSums
  <2> QED  BY <2>1 DEF n, U, V, W
<1>11. n * W - U * V - V * U + n * W = 2 * (n * W - U * V)
  <2> HIDE DEF n, U, V, W
  <2> QED  BY <1>3
<1> QED  BY <1>9, <1>10, <1>11

-----------------------------------------------------------------------------
(* The answers are those of the pooled rows.                               *)

\* Sums by organization and then by row are sums over all rows.
LEMMA SumsOverRows ==
    ASSUME TypeOK, kind # "histogram", NEW f, Whole(f, AllRows), NEW g,
           \A o \in Orgs : g[o] = SumFunction([i \in DOMAIN data[o] |-> f[<<o, i>>]])
    PROVE  IsFiniteSet(AllRows) /\ SumFunctionOnSet(g, Orgs) = SumFunctionOnSet(f, AllRows)
<1> DEFINE D == [o \in Orgs |-> DOMAIN data[o]]
<1>1. AllRows = Fibres(Orgs, D)
  BY DEF AllRows, Fibres, Fibre
<1>2. ASSUME NEW o \in Orgs
      PROVE  IsFiniteSet(D[o]) /\ g[o] = SumFunctionOnSet(f, Fibre(o, D[o]))
  <2> DEFINE e == [i \in DOMAIN data[o] |-> f[<<o, i>>]]
  <2>1. IsRows(data[o])
    BY KindsOfComponents DEF TypeOK
  <2>2. IsFiniteSet(D[o])
    BY <2>1, ColumnsAreWhole
  <2>3. Whole(f, Fibre(o, D[o]))
    BY DEF Whole, AllRows, Fibre
  <2>4. g[o] = SumFunctionOnSet(e, D[o])
    BY DEF SumFunction
  <2>5. \A i \in D[o] : e[i] = f[<<o, i>>]
    OBVIOUS
  <2> HIDE DEF e, D
  <2>6. SumFunctionOnSet(f, Fibre(o, D[o])) = SumFunctionOnSet(e, D[o])
    BY ONLY <2>2, <2>3, <2>5, SumOfColumn
  <2> QED  BY <2>2, <2>4, <2>6
<1> HIDE DEF D
<1>3. Whole(f, Fibres(Orgs, D))
  BY <1>1
<1>4. /\ IsFiniteSet(Fibres(Orgs, D))
      /\ SumFunctionOnSet(f, Fibres(Orgs, D)) = SumFunctionOnSet(g, Orgs)
  BY <1>2, <1>3, SumOfFibres, MpcAssumption
<1> QED  BY <1>1, <1>4

X == [at \in AllRows |-> RowAt(at).x]
Y == [at \in AllRows |-> RowAt(at).y]
XX == [at \in AllRows |-> RowAt(at).x * RowAt(at).x]
YY == [at \in AllRows |-> RowAt(at).y * RowAt(at).y]
XY == [at \in AllRows |-> RowAt(at).x * RowAt(at).y]
RowTotal == Cardinality(AllRows)

\* The pooled totals are the sums over all rows.
LEMMA PooledRows ==
    ASSUME TypeOK, kind # "histogram"
    PROVE  /\ IsFiniteSet(AllRows)
           /\ Whole(X, AllRows) /\ Whole(Y, AllRows)
           /\ Pooled("x") = SumFunctionOnSet(X, AllRows)
           /\ Pooled("y") = SumFunctionOnSet(Y, AllRows)
           /\ Pooled("xx") = SumFunctionOnSet(XX, AllRows)
           /\ Pooled("yy") = SumFunctionOnSet(YY, AllRows)
           /\ Pooled("xy") = SumFunctionOnSet(XY, AllRows)
           /\ Pooled("n") = RowTotal /\ RowCount = RowTotal
<1>1. ASSUME NEW o \in Orgs
      PROVE  IsRows(data[o]) /\ \A i \in DOMAIN data[o] : <<o, i>> \in AllRows /\ RowAt(<<o, i>>) = data[o][i]
  BY KindsOfComponents DEF TypeOK, AllRows, RowAt
<1>2. \A at \in AllRows : RowAt(at).x \in Int /\ RowAt(at).y \in Int
  <2>1. \A at \in AllRows : \E o \in Orgs : \E i \in DOMAIN data[o] : at = <<o, i>>
    BY DEF AllRows
  <2> QED  BY <1>1, <2>1 DEF IsRows
<1>3. /\ Whole(X, AllRows) /\ Whole(Y, AllRows) /\ Whole(XX, AllRows)
      /\ Whole(YY, AllRows) /\ Whole(XY, AllRows)
  BY <1>2 DEF Whole, X, Y, XX, YY, XY
<1>4. \A c : Pooled(c) = SumFunctionOnSet([o \in Orgs |-> Moments(data[o])[c]], Orgs)
  BY DEF Pooled, Statistic, SumFunction
<1>5. IsFiniteSet(AllRows) /\ Pooled("x") = SumFunctionOnSet(X, AllRows)
  <2> DEFINE g == [o \in Orgs |-> Moments(data[o])["x"]]
  <2>1. ASSUME NEW o \in Orgs
        PROVE  g[o] = SumFunction([i \in DOMAIN data[o] |-> X[<<o, i>>]])
    <3>1. [i \in DOMAIN data[o] |-> X[<<o, i>>]] = [i \in DOMAIN data[o] |-> data[o][i].x]
      BY <1>1 DEF X
    <3> QED  BY <3>1 DEF Moments, SumOver
  <2> HIDE DEF g
  <2>2. IsFiniteSet(AllRows) /\ SumFunctionOnSet(g, Orgs) = SumFunctionOnSet(X, AllRows)
    BY <1>3, <2>1, SumsOverRows
  <2> QED  BY <1>4, <2>2 DEF g
<1>6. Pooled("y") = SumFunctionOnSet(Y, AllRows)
  <2> DEFINE g == [o \in Orgs |-> Moments(data[o])["y"]]
  <2>1. ASSUME NEW o \in Orgs
        PROVE  g[o] = SumFunction([i \in DOMAIN data[o] |-> Y[<<o, i>>]])
    <3>1. [i \in DOMAIN data[o] |-> Y[<<o, i>>]] = [i \in DOMAIN data[o] |-> data[o][i].y]
      BY <1>1 DEF Y
    <3> QED  BY <3>1 DEF Moments, SumOver
  <2> HIDE DEF g
  <2>2. SumFunctionOnSet(g, Orgs) = SumFunctionOnSet(Y, AllRows)
    BY <1>3, <2>1, SumsOverRows
  <2> QED  BY <1>4, <2>2 DEF g
<1>7. Pooled("xx") = SumFunctionOnSet(XX, AllRows)
  <2> DEFINE g == [o \in Orgs |-> Moments(data[o])["xx"]]
  <2>1. ASSUME NEW o \in Orgs
        PROVE  g[o] = SumFunction([i \in DOMAIN data[o] |-> XX[<<o, i>>]])
    <3>1. [i \in DOMAIN data[o] |-> XX[<<o, i>>]]
              = [i \in DOMAIN data[o] |-> data[o][i].x * data[o][i].x]
      BY <1>1 DEF XX
    <3> QED  BY <3>1 DEF Moments, SumOver
  <2> HIDE DEF g
  <2>2. SumFunctionOnSet(g, Orgs) = SumFunctionOnSet(XX, AllRows)
    BY <1>3, <2>1, SumsOverRows
  <2> QED  BY <1>4, <2>2 DEF g
<1>8. Pooled("yy") = SumFunctionOnSet(YY, AllRows)
  <2> DEFINE g == [o \in Orgs |-> Moments(data[o])["yy"]]
  <2>1. ASSUME NEW o \in Orgs
        PROVE  g[o] = SumFunction([i \in DOMAIN data[o] |-> YY[<<o, i>>]])
    <3>1. [i \in DOMAIN data[o] |-> YY[<<o, i>>]]
              = [i \in DOMAIN data[o] |-> data[o][i].y * data[o][i].y]
      BY <1>1 DEF YY
    <3> QED  BY <3>1 DEF Moments, SumOver
  <2> HIDE DEF g
  <2>2. SumFunctionOnSet(g, Orgs) = SumFunctionOnSet(YY, AllRows)
    BY <1>3, <2>1, SumsOverRows
  <2> QED  BY <1>4, <2>2 DEF g
<1>9. Pooled("xy") = SumFunctionOnSet(XY, AllRows)
  <2> DEFINE g == [o \in Orgs |-> Moments(data[o])["xy"]]
  <2>1. ASSUME NEW o \in Orgs
        PROVE  g[o] = SumFunction([i \in DOMAIN data[o] |-> XY[<<o, i>>]])
    <3>1. [i \in DOMAIN data[o] |-> XY[<<o, i>>]]
              = [i \in DOMAIN data[o] |-> data[o][i].x * data[o][i].y]
      BY <1>1 DEF XY
    <3> QED  BY <3>1 DEF Moments, SumOver
  <2> HIDE DEF g
  <2>2. SumFunctionOnSet(g, Orgs) = SumFunctionOnSet(XY, AllRows)
    BY <1>3, <2>1, SumsOverRows
  <2> QED  BY <1>4, <2>2 DEF g
<1>10. RowCount = RowTotal /\ Pooled("n") = RowTotal
  <2> DEFINE g == [o \in Orgs |-> Len(data[o])]
             ones == [at \in AllRows |-> 1]
  <2>1. ASSUME NEW o \in Orgs
        PROVE  g[o] = SumFunction([i \in DOMAIN data[o] |-> ones[<<o, i>>]])
    <3> DEFINE column == [i \in DOMAIN data[o] |-> ones[<<o, i>>]]
    <3>1. \A i \in DOMAIN data[o] : column[i] = 1
      BY <1>1
    <3>2. DOMAIN column = DOMAIN data[o]
      OBVIOUS
    <3>3. IsFiniteSet(DOMAIN data[o]) /\ Cardinality(DOMAIN data[o]) = Len(data[o])
      BY <1>1, ColumnsAreWhole
    <3> HIDE DEF column
    <3>4. SumFunctionOnSet(column, DOMAIN data[o]) = Cardinality(DOMAIN data[o])
      BY <3>1, <3>3, SumOfOnes
    <3> QED  BY <3>2, <3>3, <3>4 DEF SumFunction, column
  <2>2. Whole(ones, AllRows) /\ \A at \in AllRows : ones[at] = 1
    BY DEF Whole
  <2>3. RowCount = SumFunctionOnSet(g, Orgs)
    BY DEF RowCount, SumFunction
  <2>4. Pooled("n") = SumFunctionOnSet(g, Orgs)
    <3>1. [o \in Orgs |-> Moments(data[o])["n"]] = g
      BY DEF Moments, SumOver
    <3> QED  BY <1>4, <3>1
  <2> HIDE DEF g, ones
  <2>5. SumFunctionOnSet(g, Orgs) = SumFunctionOnSet(ones, AllRows)
    BY <2>1, <2>2, SumsOverRows
  <2>6. SumFunctionOnSet(ones, AllRows) = RowTotal
    BY <1>5, <2>2, SumOfOnes DEF RowTotal
  <2> QED  BY <2>3, <2>4, <2>5, <2>6
<1> QED  BY <1>3, <1>5, <1>6, <1>7, <1>8, <1>9, <1>10

\* The sums over pairs of rows, from the pooled totals.
VarianceX == RowTotal * Pooled("xx") - Pooled("x") * Pooled("x")
VarianceY == RowTotal * Pooled("yy") - Pooled("y") * Pooled("y")
Covariance == RowTotal * Pooled("xy") - Pooled("x") * Pooled("y")

PairsX == PairSum(LAMBDA r, s : (r.x - s.x) * (r.x - s.x))
PairsY == PairSum(LAMBDA r, s : (r.y - s.y) * (r.y - s.y))
PairsXY == PairSum(LAMBDA r, s : (r.x - s.x) * (r.y - s.y))

\* A sum of squares is not negative.
LEMMA SquaresAddUp ==
    ASSUME NEW S, IsFiniteSet(S), NEW h, NEW d, \A p \in S : d[p] \in Int /\ h[p] = d[p] * d[p]
    PROVE  SumFunctionOnSet(h, S) \in Nat
<1>1. ASSUME NEW i \in Int
      PROVE  i * i \in Nat
  OBVIOUS
<1>2. \A p \in S : h[p] \in Nat
  BY <1>1
<1> QED  BY <1>2, SumIsNat

\* The sums over pairs are twice the pooled variances and covariance; the
\* pairs of less than two rows show nothing.
LEMMA PairsArePooled ==
    ASSUME TypeOK, kind # "histogram"
    PROVE  /\ PairsX = 2 * VarianceX /\ PairsY = 2 * VarianceY /\ PairsXY = 2 * Covariance
           /\ PairsX \in Nat /\ PairsY \in Nat
           /\ RowTotal < 2 => PairsX = 0 /\ PairsY = 0
<1> DEFINE A == AllRows
           hx == [p \in A \X A |-> (RowAt(p[1]).x - RowAt(p[2]).x) * (RowAt(p[1]).x - RowAt(p[2]).x)]
           hy == [p \in A \X A |-> (RowAt(p[1]).y - RowAt(p[2]).y) * (RowAt(p[1]).y - RowAt(p[2]).y)]
           hxy == [p \in A \X A |-> (RowAt(p[1]).x - RowAt(p[2]).x) * (RowAt(p[1]).y - RowAt(p[2]).y)]
           dx == [p \in A \X A |-> X[p[1]] - X[p[2]]]
           dy == [p \in A \X A |-> Y[p[1]] - Y[p[2]]]
<1>1. /\ PairsX = SumFunctionOnSet(hx, A \X A) /\ PairsY = SumFunctionOnSet(hy, A \X A)
      /\ PairsXY = SumFunctionOnSet(hxy, A \X A)
  BY DEF PairsX, PairsY, PairsXY, PairSum, SumFunction
<1>2. IsFiniteSet(A) /\ IsFiniteSet(A \X A) /\ Whole(X, A) /\ Whole(Y, A)
  BY PooledRows, FS_Product
<1>3. \A a \in A :
          /\ X[a] = RowAt(a).x /\ Y[a] = RowAt(a).y
          /\ XX[a] = X[a] * X[a] /\ YY[a] = Y[a] * Y[a] /\ XY[a] = X[a] * Y[a]
          /\ X[a] \in Int /\ Y[a] \in Int
  BY <1>2 DEF X, Y, XX, YY, XY, Whole
<1>4. \A a \in A, b \in A :
          /\ hx[<<a, b>>] = (X[a] - X[b]) * (X[a] - X[b])
          /\ hy[<<a, b>>] = (Y[a] - Y[b]) * (Y[a] - Y[b])
          /\ hxy[<<a, b>>] = (X[a] - X[b]) * (Y[a] - Y[b])
  BY <1>3
<1>5. \A p \in A \X A :
          /\ dx[p] \in Int /\ hx[p] = dx[p] * dx[p]
          /\ dy[p] \in Int /\ hy[p] = dy[p] * dy[p]
  BY <1>3
<1> HIDE DEF hx, hy, hxy, dx, dy
<1>6. PairsX = 2 * VarianceX
  BY <1>1, <1>2, <1>3, <1>4, CovarianceOfPairs, PooledRows DEF VarianceX, RowTotal
<1>7. PairsY = 2 * VarianceY
  BY <1>1, <1>2, <1>3, <1>4, CovarianceOfPairs, PooledRows DEF VarianceY, RowTotal
<1>8. PairsXY = 2 * Covariance
  BY <1>1, <1>2, <1>3, <1>4, CovarianceOfPairs, PooledRows DEF Covariance, RowTotal
<1>9. PairsX \in Nat /\ PairsY \in Nat
  BY <1>1, <1>2, <1>5, SquaresAddUp
<1>10. ASSUME RowTotal < 2
       PROVE  PairsX = 0 /\ PairsY = 0
  <2>1. RowTotal \in Nat /\ (RowTotal = 0 \/ RowTotal = 1)
    BY <1>2, <1>10, FS_CardinalityType DEF RowTotal
  <2>2. \A a \in A, b \in A : a = b
    BY <1>2, <2>1, FS_EmptySet, FS_Singleton DEF RowTotal
  <2>3. \A p \in A \X A : hx[p] = 0 /\ hy[p] = 0
    <3>1. ASSUME NEW p \in A \X A
          PROVE  dx[p] = 0 /\ dy[p] = 0
      <4>1. p[1] = p[2] /\ p[1] \in A
        BY <2>2
      <4> QED  BY <1>3, <4>1 DEF dx, dy
    <3> QED  BY <1>5, <3>1
  <2> QED  BY <1>1, <1>2, <2>3, SumOfZeros
<1> QED  BY <1>6, <1>7, <1>8, <1>9, <1>10

\* The answer to a query whose totals the field can tell.
LEMMA AnswersArePooled == MpcInv => AnswersPooled
<1> SUFFICES ASSUME MpcInv, answer # None, kind # "histogram",
                    \A c \in Components[kind] : InRange(Pooled(c))
             PROVE  /\ kind = "variance" => Near(2 * answer, PairsX)
                    /\ kind = "correlation" =>
                          \/ answer = Uncorrelated /\ (Near(PairsX, 0) \/ Near(PairsY, 0))
                          \/ /\ Near(2 * answer.cov, PairsXY)
                             /\ Near(2 * answer.vx, PairsX) /\ answer.vx > 0
                             /\ Near(2 * answer.vy, PairsY) /\ answer.vy > 0
  BY DEF AnswersPooled, PairsX, PairsY, PairsXY
<1>1. TypeOK /\ AnswerInv /\ Rounding \in Nat
  BY MpcAssumption DEF MpcInv
<1>2. /\ PairsX = 2 * VarianceX /\ PairsY = 2 * VarianceY /\ PairsXY = 2 * Covariance
      /\ PairsX \in Nat /\ PairsY \in Nat
      /\ RowTotal < 2 => PairsX = 0 /\ PairsY = 0
  BY <1>1, PairsArePooled
<1>3. /\ Pooled("n") = RowTotal /\ RowCount = RowTotal /\ RowTotal \in Int
      /\ Pooled("x") \in Int /\ Pooled("y") \in Int /\ Pooled("xx") \in Int
      /\ Pooled("yy") \in Int /\ Pooled("xy") \in Int
  <2>1. IsFiniteSet(AllRows) /\ Whole(X, AllRows) /\ Whole(Y, AllRows)
    BY <1>1, PooledRows
  <2>2. Whole(XX, AllRows) /\ Whole(YY, AllRows) /\ Whole(XY, AllRows)
    BY <2>1 DEF Whole, X, Y, XX, YY, XY
  <2>3. RowTotal \in Int
    BY <2>1, FS_CardinalityType DEF RowTotal
  <2> QED  BY <1>1, <2>1, <2>2, <2>3, PooledRows, SumIsInt
<1>4. VarianceX \in Int /\ VarianceY \in Int /\ Covariance \in Int
  BY <1>3 DEF VarianceX, VarianceY, Covariance
<1>5. opened # None => \A c \in Components[kind] : opened[c] = Pooled(c)
  BY OpenedIsPooled DEF OpenedExact
<1>6. ASSUME kind = "variance"
      PROVE  Near(2 * answer, PairsX)
  <2>1. CASE TooFewRows /\ answer = 0
    <3>1. PairsX = 0
      BY <1>2, <1>3, <2>1 DEF TooFewRows
    <3> QED  BY <1>1, <2>1, <3>1 DEF Near
  <2>2. CASE opened # None /\ answer \in VarianceAnswers
    <3>1. opened["x"] = Pooled("x") /\ opened["xx"] = Pooled("xx")
      BY <1>5, <1>6, <2>2 DEF Components
    <3>2. Spread(RowCount, opened.xx, opened.x, opened.x) = VarianceX
      BY <1>3, <3>1 DEF Spread, VarianceX
    <3>3. PICK v \in InFloats(VarianceX) : answer = NonNegative(v)
      BY <2>2, <3>2 DEF VarianceAnswers
    <3>4. v \in Int /\ v - VarianceX \in -Rounding..Rounding
      BY <1>4, FloatsAreNear
    <3>5. VarianceX >= 0
      BY <1>2, <1>4
    <3> QED  BY <1>1, <1>2, <1>4, <3>3, <3>4, <3>5 DEF NonNegative, Near
  <2> QED  BY <1>1, <1>6, <2>1, <2>2 DEF AnswerInv
<1>7. ASSUME kind = "correlation"
      PROVE  \/ answer = Uncorrelated /\ (Near(PairsX, 0) \/ Near(PairsY, 0))
             \/ /\ Near(2 * answer.cov, PairsXY)
                /\ Near(2 * answer.vx, PairsX) /\ answer.vx > 0
                /\ Near(2 * answer.vy, PairsY) /\ answer.vy > 0
  <2>1. opened # None /\ answer \in CorrelationAnswers
    BY <1>1, <1>7 DEF AnswerInv, TooFewRows
  <2>2. /\ opened["x"] = Pooled("x") /\ opened["y"] = Pooled("y") /\ opened["xx"] = Pooled("xx")
        /\ opened["yy"] = Pooled("yy") /\ opened["xy"] = Pooled("xy") /\ opened["n"] = RowTotal
    BY <1>3, <1>5, <1>7, <2>1 DEF Components
  <2>3. CorrelationAnswers =
            IF RowTotal < 2 THEN {Uncorrelated}
            ELSE {IF t.vx <= 0 \/ t.vy <= 0 THEN Uncorrelated ELSE t :
                     t \in [cov : InFloats(Covariance), vx : InFloats(VarianceX),
                            vy : InFloats(VarianceY)]}
    BY <2>2 DEF CorrelationAnswers, Spread, VarianceX, VarianceY, Covariance
  <2>4. CASE RowTotal < 2
    <3>1. answer = Uncorrelated /\ PairsX = 0
      BY <1>2, <2>1, <2>3, <2>4
    <3> QED  BY <1>1, <3>1 DEF Near
  <2>5. CASE ~(RowTotal < 2)
    <3>1. PICK t \in [cov : InFloats(Covariance), vx : InFloats(VarianceX), vy : InFloats(VarianceY)] :
              answer = IF t.vx <= 0 \/ t.vy <= 0 THEN Uncorrelated ELSE t
      BY <2>1, <2>3, <2>5
    <3>2. /\ t.cov \in Int /\ t.cov - Covariance \in -Rounding..Rounding
          /\ t.vx \in Int /\ t.vx - VarianceX \in -Rounding..Rounding
          /\ t.vy \in Int /\ t.vy - VarianceY \in -Rounding..Rounding
      <4>1. t.cov \in InFloats(Covariance) /\ t.vx \in InFloats(VarianceX) /\ t.vy \in InFloats(VarianceY)
        OBVIOUS
      <4> QED  BY <1>4, <4>1, FloatsAreNear
    <3>3. CASE t.vx <= 0 \/ t.vy <= 0
      <4>1. answer = Uncorrelated
        BY <3>1, <3>3
      <4>2. Near(PairsX, 0) \/ Near(PairsY, 0)
        BY <1>1, <1>2, <1>4, <3>2, <3>3 DEF Near
      <4> QED  BY <4>1, <4>2
    <3>4. CASE ~(t.vx <= 0 \/ t.vy <= 0)
      <4>1. answer = t /\ t.vx > 0 /\ t.vy > 0
        BY <3>1, <3>2, <3>4
      <4>2. Near(2 * t.cov, PairsXY) /\ Near(2 * t.vx, PairsX) /\ Near(2 * t.vy, PairsY)
        BY <1>1, <1>2, <1>4, <3>2 DEF Near
      <4> QED  BY <4>1, <4>2
    <3> QED  BY <3>3, <3>4
  <2> QED  BY <2>4, <2>5
<1> QED  BY <1>6, <1>7

\* run_variance, run_correlation: statistics that are combined organization
\* by organization give the variance and the correlation of all rows, up to
\* what the final floats round.
THEOREM AnswersAreThePooled == Spec => []AnswersPooled
BY AnswersArePooled, SharesHold, PTL

=============================================================================
