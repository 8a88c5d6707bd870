------------------------------ MODULE SumLemmas ------------------------------
(***************************************************************************)
(* Sums over finite sets.  SumFunction folds a function over its domain in *)
(* an order that its definition picks; whatever is added up is then known  *)
(* to be the same in any order.                                            *)
(*                                                                         *)
(* There is no induction here over a predicate: what holds of every finite *)
(* set is shown by looking at a smallest subset for which it does not.     *)
(***************************************************************************)
EXTENDS Functions, FiniteSetTheorems, WellFoundedInduction, Integers, TLAPS

-----------------------------------------------------------------------------
(* The fold: the sum of S is the value at S of a function that tallies the *)
(* subsets of S, and there is exactly one such function.                   *)

\* What the fold takes first.
Taken(T) == CHOOSE x \in T : TRUE

\* h gives the sum of f over each subset of S.
Tallies(f, S, h) ==
    h = [T \in SUBSET S |-> IF T = {} THEN 0 ELSE f[Taken(T)] + h[T \ {Taken(T)}]]

\* The sum is what the fold's function says of the whole set.
LEMMA SumIsTally ==
    ASSUME NEW f, NEW S
    PROVE  SumFunctionOnSet(f, S) = (CHOOSE h : Tallies(f, S, h))[S]
BY DEF SumFunctionOnSet, FoldFunctionOnSet, MapThenFoldSet, Tallies, Taken

\* Of the subsets that fail, one has no smaller one that fails.
Smallest(T, Bad) == T \in Bad /\ \A U \in SUBSET T : U # T => U \notin Bad

\* What fails on some subset of a finite set fails on a smallest one.
LEMMA SmallestSubset ==
    ASSUME NEW S, IsFiniteSet(S), NEW Bad, Bad \subseteq SUBSET S, Bad # {}
    PROVE  \E T : Smallest(T, Bad)
<1>1. IsWellFoundedOn(StrictSubsetOrdering(S), SUBSET S)
  BY FS_StrictSubsetOrderingWellFounded, FS_FiniteSubsetsOfFinite
<1>2. PICK T \in Bad : \A U \in Bad : <<U, T>> \notin StrictSubsetOrdering(S)
  BY <1>1, WFMin
<1>3. ASSUME NEW U \in SUBSET T, U # T, U \in Bad
      PROVE  FALSE
  BY <1>2, <1>3 DEF StrictSubsetOrdering
<1>4. Smallest(T, Bad)
  BY <1>3 DEF Smallest
<1>5. QED  BY <1>4

\* Two tallies of a finite set agree on each of its subsets.
LEMMA TallyUnique ==
    ASSUME NEW f, NEW S, IsFiniteSet(S), NEW g, NEW h, Tallies(f, S, g), Tallies(f, S, h)
    PROVE  g = h
<1> DEFINE Bad == {T \in SUBSET S : g[T] # h[T]}
<1>1. CASE Bad # {}
  <2>0. Bad \subseteq SUBSET S
    OBVIOUS
  <2> HIDE DEF Bad
  <2>1. PICK T : Smallest(T, Bad)
    BY <1>1, <2>0, SmallestSubset
  <2>2. T \in SUBSET S /\ g[T] # h[T]
    BY <2>1 DEF Bad, Smallest
  <2>3. T # {}
    BY <2>2 DEF Tallies
  <2>4. Taken(T) \in T
    BY <2>3 DEF Taken
  <2>5. T \ {Taken(T)} \notin Bad
    BY <2>1, <2>4 DEF Smallest
  <2>6. g[T \ {Taken(T)}] = h[T \ {Taken(T)}]
    BY <2>2, <2>5 DEF Bad
  <2>7. g[T] = f[Taken(T)] + g[T \ {Taken(T)}] /\ h[T] = f[Taken(T)] + h[T \ {Taken(T)}]
    BY <2>2, <2>3 DEF Tallies
  <2>8. QED  BY <2>2, <2>6, <2>7
<1>2. CASE Bad = {}
  <2>1. \A T \in SUBSET S : g[T] = h[T]
    BY <1>2
  <2>2. DOMAIN g = SUBSET S /\ DOMAIN h = SUBSET S
    BY DEF Tallies
  <2>3. g = [T \in DOMAIN g |-> g[T]] /\ h = [T \in DOMAIN h |-> h[T]]
    BY DEF Tallies
  <2>4. QED  BY <2>1, <2>2, <2>3
<1>3. QED  BY <1>1, <1>2

\* The tally of a set holds that of each of its subsets.
LEMMA TallyOfSubset ==
    ASSUME NEW f, NEW S, NEW h, Tallies(f, S, h), NEW R \in SUBSET S
    PROVE  Tallies(f, R, [T \in SUBSET R |-> h[T]])
<1> DEFINE r == [T \in SUBSET R |-> h[T]]
<1>1. ASSUME NEW T \in SUBSET R
      PROVE  r[T] = IF T = {} THEN 0 ELSE f[Taken(T)] + r[T \ {Taken(T)}]
  <2>1. T \in SUBSET S /\ T \ {Taken(T)} \in SUBSET R
    OBVIOUS
  <2>2. h[T] = IF T = {} THEN 0 ELSE f[Taken(T)] + h[T \ {Taken(T)}]
    BY <2>1 DEF Tallies
  <2>3. QED  BY <2>1, <2>2
<1>2. QED  BY <1>1 DEF Tallies

HasTally(f, S) == \E h : Tallies(f, S, h)

\* Where a tally exists, the sum takes one element after the other.
LEMMA SumTakes ==
    ASSUME NEW f, NEW S, IsFiniteSet(S), HasTally(f, S)
    PROVE  SumFunctionOnSet(f, S) =
               IF S = {} THEN 0
               ELSE f[Taken(S)] + SumFunctionOnSet(f, S \ {Taken(S)})
<1> DEFINE h == CHOOSE g : Tallies(f, S, g)
           R == S \ {Taken(S)}
           r == [T \in SUBSET R |-> h[T]]
<1>1. Tallies(f, S, h) /\ SumFunctionOnSet(f, S) = h[S]
  BY SumIsTally DEF HasTally
<1> HIDE DEF h
<1>2. h[S] = IF S = {} THEN 0 ELSE f[Taken(S)] + h[R]
  BY <1>1 DEF Tallies
<1>3. R \in SUBSET S /\ IsFiniteSet(R)
  BY FS_Subset
<1> HIDE DEF R
<1>4. Tallies(f, R, r)
  BY <1>1, <1>3, TallyOfSubset
<1>5. r[R] = h[R]
  OBVIOUS
<1> HIDE DEF r
<1>6. (CHOOSE g : Tallies(f, R, g)) = r
  <2>1. Tallies(f, R, CHOOSE g : Tallies(f, R, g))
    BY <1>4
  <2>2. QED  BY <2>1, <1>3, <1>4, TallyUnique
<1>7. SumFunctionOnSet(f, R) = h[R]
  BY <1>5, <1>6, SumIsTally
<1>8. QED  BY <1>1, <1>2, <1>7 DEF R

\* Every finite set has a tally.
LEMMA TallyExists ==
    ASSUME NEW f, NEW S, IsFiniteSet(S)
    PROVE  HasTally(f, S)
<1> DEFINE Bad == {T \in SUBSET S : ~HasTally(f, T)}
<1> SUFFICES ASSUME Bad # {} PROVE FALSE
  <2>1. S \in SUBSET S
    OBVIOUS
  <2>2. QED  BY <2>1
<1>0. Bad \subseteq SUBSET S
  OBVIOUS
<1> HIDE DEF Bad
<1>1. PICK T : Smallest(T, Bad)
  BY <1>0, SmallestSubset
<1>2. T \in SUBSET S /\ ~HasTally(f, T)
  BY <1>1 DEF Bad, Smallest
<1>3. ASSUME NEW U \in SUBSET T, U # T
      PROVE  HasTally(f, U) /\ IsFiniteSet(U)
  <2>1. U \in SUBSET S /\ U \notin Bad
    BY <1>1, <1>2, <1>3 DEF Smallest
  <2>2. QED  BY <2>1, FS_Subset DEF Bad
<1> DEFINE h == [U \in SUBSET T |->
                    IF U = {} THEN 0
                    ELSE f[Taken(U)] + SumFunctionOnSet(f, U \ {Taken(U)})]
<1>4. ASSUME NEW U \in SUBSET T, U # {}
      PROVE  h[U \ {Taken(U)}] = SumFunctionOnSet(f, U \ {Taken(U)})
  <2> DEFINE V == U \ {Taken(U)}
  <2>1. V \in SUBSET T /\ V # T
    BY <1>4, Taken(U) \in U DEF Taken
  <2> HIDE DEF V
  <2>2. h[V] = IF V = {} THEN 0 ELSE f[Taken(V)] + SumFunctionOnSet(f, V \ {Taken(V)})
    BY <2>1
  <2> HIDE DEF h
  <2>3. h[V] = SumFunctionOnSet(f, V)
    BY <2>1, <2>2, <1>3, SumTakes
  <2>4. QED  BY <2>3 DEF V
<1>5. ASSUME NEW U \in SUBSET T
      PROVE  h[U] = IF U = {} THEN 0 ELSE f[Taken(U)] + h[U \ {Taken(U)}]
  BY <1>4
<1>6. Tallies(f, T, h)
  BY <1>5 DEF Tallies
<1>7. QED  BY <1>2, <1>6 DEF HasTally

-----------------------------------------------------------------------------
(* Sums of finite sets.                                                    *)

\* Nothing adds up to zero.
LEMMA SumOfNothing ==
    ASSUME NEW f
    PROVE  SumFunctionOnSet(f, {}) = 0
BY FS_EmptySet, TallyExists, SumTakes

\* A sum takes the elements in an order of its own choice...
LEMMA SumOfTaken ==
    ASSUME NEW f, NEW S, IsFiniteSet(S), S # {}
    PROVE  /\ Taken(S) \in S
           /\ SumFunctionOnSet(f, S) = f[Taken(S)] + SumFunctionOnSet(f, S \ {Taken(S)})
BY TallyExists, SumTakes DEF Taken

\* A set that has {} and, with a subset of S, the subset with one more
\* element, has S.
LEMMA SetInduction ==
    ASSUME NEW S, IsFiniteSet(S), NEW Good, {} \in Good,
           \A T \in SUBSET S : \A x \in T : T \ {x} \in Good => T \in Good
    PROVE  S \in Good
<1> DEFINE Bad == {T \in SUBSET S : T \notin Good}
<1> SUFFICES ASSUME Bad # {} PROVE FALSE
  OBVIOUS
<1>1. Bad \subseteq SUBSET S
  OBVIOUS
<1>2. PICK T : Smallest(T, Bad)
  <2> HIDE DEF Bad
  <2>1. QED  BY <1>1, SmallestSubset
<1>3. T \in SUBSET S /\ T \notin Good
  BY <1>2 DEF Smallest
<1>4. PICK x \in T : TRUE
  BY <1>3
<1>5. T \ {x} \in SUBSET T /\ T \ {x} # T
  BY <1>4
<1>6. T \ {x} \in Good
  BY <1>2, <1>3, <1>5 DEF Smallest
<1>7. QED  BY <1>3, <1>4, <1>6

Whole(f, S) == \A x \in S : f[x] \in Int

\* A sum of integers is one.
LEMMA SumIsInt ==
    ASSUME NEW f, NEW S, IsFiniteSet(S), Whole(f, S)
    PROVE  SumFunctionOnSet(f, S) \in Int
<1> DEFINE Bad == {T \in SUBSET S : SumFunctionOnSet(f, T) \notin Int}
<1> SUFFICES ASSUME Bad # {} PROVE FALSE
  OBVIOUS
<1>1. Bad \subseteq SUBSET S
  OBVIOUS
<1>2. PICK T : Smallest(T, Bad)
  <2> HIDE DEF Bad
  <2>1. QED  BY <1>1, SmallestSubset
<1>3. T \in SUBSET S /\ IsFiniteSet(T) /\ SumFunctionOnSet(f, T) \notin Int
  BY <1>2, FS_Subset DEF Smallest
<1>4. T # {}
  BY <1>3, SumOfNothing
<1>5. /\ Taken(T) \in T
      /\ SumFunctionOnSet(f, T) = f[Taken(T)] + SumFunctionOnSet(f, T \ {Taken(T)})
  BY <1>3, <1>4, SumOfTaken
<1>6. T \ {Taken(T)} \notin Bad
  <2> HIDE DEF Bad
  <2>1. QED  BY <1>2, <1>5 DEF Smallest
<1>7. SumFunctionOnSet(f, T \ {Taken(T)}) \in Int
  BY <1>3, <1>6
<1>8. QED  BY <1>3, <1>5, <1>7 DEF Whole

\* ... which does not matter.
LEMMA SumWithout ==
    ASSUME NEW f, NEW S, IsFiniteSet(S), Whole(f, S), NEW x \in S
    PROVE  SumFunctionOnSet(f, S) = f[x] + SumFunctionOnSet(f, S \ {x})
<1> DEFINE Holds(T) == \A y \in T :
               SumFunctionOnSet(f, T) = f[y] + SumFunctionOnSet(f, T \ {y})
           Bad == {T \in SUBSET S : ~Holds(T)}
<1> SUFFICES ASSUME Bad # {} PROVE FALSE
  OBVIOUS
<1>1. Bad \subseteq SUBSET S
  OBVIOUS
<1>2. PICK T : Smallest(T, Bad)
  <2> HIDE DEF Bad
  <2>1. QED  BY <1>1, SmallestSubset
<1>3. T \in SUBSET S /\ IsFiniteSet(T) /\ ~Holds(T)
  BY <1>2, FS_Subset DEF Smallest
<1>4. ASSUME NEW U \in SUBSET T, U # T
      PROVE  Holds(U)
  <2>1. U \in SUBSET S /\ U \notin Bad
    BY <1>2, <1>3, <1>4 DEF Smallest
  <2>2. QED  BY <2>1
<1>5. PICK y \in T : SumFunctionOnSet(f, T) # f[y] + SumFunctionOnSet(f, T \ {y})
  BY <1>3
<1> DEFINE z == Taken(T)
<1>6. z \in T /\ SumFunctionOnSet(f, T) = f[z] + SumFunctionOnSet(f, T \ {z})
  BY <1>3, <1>5, SumOfTaken
<1> HIDE DEF z
<1>7. y # z
  BY <1>5, <1>6
<1>8. T \ {z} \in SUBSET T /\ T \ {z} # T /\ y \in T \ {z}
  BY <1>5, <1>6, <1>7
<1>9. T \ {y} \in SUBSET T /\ T \ {y} # T /\ z \in T \ {y}
  BY <1>5, <1>6, <1>7
<1>10. SumFunctionOnSet(f, T \ {z}) = f[y] + SumFunctionOnSet(f, (T \ {z}) \ {y})
  BY <1>4, <1>8
<1>11. SumFunctionOnSet(f, T \ {y}) = f[z] + SumFunctionOnSet(f, (T \ {y}) \ {z})
  BY <1>4, <1>9
<1>12. (T \ {z}) \ {y} = (T \ {y}) \ {z}
  OBVIOUS
<1> DEFINE R == (T \ {y}) \ {z}
<1>13. SumFunctionOnSet(f, R) \in Int
  <2>1. R \in SUBSET S
    BY <1>3
  <2> HIDE DEF R
  <2>2. Whole(f, R) /\ IsFiniteSet(R)
    BY <2>1, FS_Subset DEF Whole
  <2>3. QED  BY <2>2, SumIsInt
<1>14. f[y] \in Int /\ f[z] \in Int
  BY <1>3, <1>5, <1>6 DEF Whole
<1>15. f[z] + (f[y] + SumFunctionOnSet(f, R)) = f[y] + (f[z] + SumFunctionOnSet(f, R))
  BY <1>13, <1>14
<1>16. QED  BY <1>5, <1>6, <1>10, <1>11, <1>12, <1>15

\* One element more adds its value.
LEMMA SumWith ==
    ASSUME NEW f, NEW S, IsFiniteSet(S), NEW x, Whole(f, S \cup {x}), x \notin S
    PROVE  SumFunctionOnSet(f, S \cup {x}) = f[x] + SumFunctionOnSet(f, S)
<1>1. IsFiniteSet(S \cup {x}) /\ (S \cup {x}) \ {x} = S
  BY FS_AddElement
<1>2. QED  BY <1>1, SumWithout

\* Only the values on the set count.
LEMMA SumOfEqual ==
    ASSUME NEW f, NEW g, NEW S, IsFiniteSet(S), \A x \in S : f[x] = g[x]
    PROVE  SumFunctionOnSet(f, S) = SumFunctionOnSet(g, S)
<1> DEFINE Bad == {T \in SUBSET S : SumFunctionOnSet(f, T) # SumFunctionOnSet(g, T)}
<1> SUFFICES ASSUME Bad # {} PROVE FALSE
  OBVIOUS
<1>1. Bad \subseteq SUBSET S
  OBVIOUS
<1>2. PICK T : Smallest(T, Bad)
  <2> HIDE DEF Bad
  <2>1. QED  BY <1>1, SmallestSubset
<1>3. /\ T \in SUBSET S /\ IsFiniteSet(T)
      /\ SumFunctionOnSet(f, T) # SumFunctionOnSet(g, T)
  BY <1>2, FS_Subset DEF Smallest
<1>4. T # {}
  BY <1>3, SumOfNothing
<1>5. /\ Taken(T) \in T
      /\ SumFunctionOnSet(f, T) = f[Taken(T)] + SumFunctionOnSet(f, T \ {Taken(T)})
      /\ SumFunctionOnSet(g, T) = g[Taken(T)] + SumFunctionOnSet(g, T \ {Taken(T)})
  BY <1>3, <1>4, SumOfTaken
<1>6. T \ {Taken(T)} \notin Bad
  <2> HIDE DEF Bad
  <2>1. QED  BY <1>2, <1>5 DEF Smallest
<1>7. SumFunctionOnSet(f, T \ {Taken(T)}) = SumFunctionOnSet(g, T \ {Taken(T)})
  BY <1>3, <1>6
<1>8. QED  BY <1>3, <1>5, <1>7

\* A sum of naturals is one.
LEMMA SumIsNat ==
    ASSUME NEW f, NEW S, IsFiniteSet(S), \A x \in S : f[x] \in Nat
    PROVE  SumFunctionOnSet(f, S) \in Nat
<1> DEFINE Good == {T \in SUBSET S : SumFunctionOnSet(f, T) \in Nat}
<1>1. {} \in Good
  BY SumOfNothing
<1>2. ASSUME NEW T \in SUBSET S, NEW x \in T, T \ {x} \in Good
      PROVE  T \in Good
  <2>1. IsFiniteSet(T) /\ Whole(f, T)
    BY FS_Subset DEF Whole
  <2>2. SumFunctionOnSet(f, T) = f[x] + SumFunctionOnSet(f, T \ {x})
    BY <2>1, SumWithout
  <2>3. f[x] \in Nat /\ SumFunctionOnSet(f, T \ {x}) \in Nat
    BY <1>2
  <2> QED  BY <2>2, <2>3
<1>3. S \in Good
  <2> HIDE DEF Good
  <2> QED  BY <1>1, <1>2, SetInduction
<1> QED  BY <1>3

\* Zeros add up to zero.
LEMMA SumOfZeros ==
    ASSUME NEW f, NEW S, IsFiniteSet(S), \A x \in S : f[x] = 0
    PROVE  SumFunctionOnSet(f, S) = 0
<1> DEFINE Good == {T \in SUBSET S : SumFunctionOnSet(f, T) = 0}
<1>1. {} \in Good
  BY SumOfNothing
<1>2. ASSUME NEW T \in SUBSET S, NEW x \in T, T \ {x} \in Good
      PROVE  T \in Good
  <2>1. IsFiniteSet(T) /\ Whole(f, T)
    BY FS_Subset DEF Whole
  <2>2. SumFunctionOnSet(f, T) = f[x] + SumFunctionOnSet(f, T \ {x})
    BY <2>1, SumWithout
  <2> QED  BY <1>2, <2>2
<1>3. S \in Good
  <2> HIDE DEF Good
  <2> QED  BY <1>1, <1>2, SetInduction
<1> QED  BY <1>3

\* The sum of a function that is defined for one element more.
LEMMA SumGrows ==
    ASSUME NEW S, IsFiniteSet(S), NEW x, x \notin S,
           NEW f, DOMAIN f = S, NEW g, DOMAIN g = S \cup {x},
           \A y \in S : g[y] = f[y], Whole(g, S \cup {x})
    PROVE  SumFunction(g) = g[x] + SumFunction(f)
<1>1. SumFunction(g) = g[x] + SumFunctionOnSet(g, S)
  BY SumWith DEF SumFunction
<1>2. SumFunctionOnSet(g, S) = SumFunctionOnSet(f, S)
  BY SumOfEqual
<1> QED  BY <1>1, <1>2 DEF SumFunction

-----------------------------------------------------------------------------
(* Sums of sums.                                                           *)

\* Sums are added term by term.
LEMMA SumPlus ==
    ASSUME NEW f, NEW g, NEW h, NEW S, IsFiniteSet(S), Whole(f, S), Whole(g, S),
           \A x \in S : h[x] = f[x] + g[x]
    PROVE  SumFunctionOnSet(h, S) = SumFunctionOnSet(f, S) + SumFunctionOnSet(g, S)
<1> DEFINE Adds(T) == SumFunctionOnSet(h, T) = SumFunctionOnSet(f, T) + SumFunctionOnSet(g, T)
           Good == {T \in SUBSET S : Adds(T)}
<1>1. {} \in Good
  BY SumOfNothing
<1>2. ASSUME NEW T \in SUBSET S, NEW x \in T, T \ {x} \in Good
      PROVE  T \in Good
  <2>1. IsFiniteSet(T) /\ Whole(f, T) /\ Whole(g, T) /\ Whole(h, T)
    BY FS_Subset DEF Whole
  <2>2. /\ SumFunctionOnSet(f, T) = f[x] + SumFunctionOnSet(f, T \ {x})
        /\ SumFunctionOnSet(g, T) = g[x] + SumFunctionOnSet(g, T \ {x})
        /\ SumFunctionOnSet(h, T) = h[x] + SumFunctionOnSet(h, T \ {x})
    BY <2>1, SumWithout
  <2>3. IsFiniteSet(T \ {x}) /\ Whole(f, T \ {x}) /\ Whole(g, T \ {x})
    BY <2>1, FS_Subset DEF Whole
  <2>4. SumFunctionOnSet(f, T \ {x}) \in Int /\ SumFunctionOnSet(g, T \ {x}) \in Int
    BY <2>3, SumIsInt
  <2>5. f[x] \in Int /\ g[x] \in Int /\ h[x] = f[x] + g[x]
    BY DEF Whole
  <2>6. Adds(T \ {x})
    BY <1>2
  <2> QED  BY <2>2, <2>4, <2>5, <2>6
<1>3. S \in Good
  <2> HIDE DEF Good
  <2> QED  BY <1>1, <1>2, SetInduction
<1> QED  BY <1>3

\* Ones add up to the number of elements.
LEMMA SumOfOnes ==
    ASSUME NEW f, NEW S, IsFiniteSet(S), \A x \in S : f[x] = 1
    PROVE  SumFunctionOnSet(f, S) = Cardinality(S)
<1> DEFINE Good == {T \in SUBSET S : SumFunctionOnSet(f, T) = Cardinality(T)}
<1>1. {} \in Good
  BY SumOfNothing, FS_EmptySet
<1>2. ASSUME NEW T \in SUBSET S, NEW x \in T, T \ {x} \in Good
      PROVE  T \in Good
  <2>1. IsFiniteSet(T) /\ Whole(f, T)
    BY FS_Subset DEF Whole
  <2>2. SumFunctionOnSet(f, T) = 1 + SumFunctionOnSet(f, T \ {x})
    BY <2>1, SumWithout
  <2>3. Cardinality(T \ {x}) = Cardinality(T) - 1 /\ Cardinality(T) \in Nat
    BY <2>1, FS_RemoveElement, FS_CardinalityType
  <2> QED  BY <1>2, <2>2, <2>3
<1>3. S \in Good
  <2> HIDE DEF Good
  <2> QED  BY <1>1, <1>2, SetInduction
<1> QED  BY <1>3

\* The sum over two sets that have nothing in common.
LEMMA SumOfUnion ==
    ASSUME NEW f, NEW S, IsFiniteSet(S), NEW R, IsFiniteSet(R), S \cap R = {},
           Whole(f, S \cup R)
    PROVE  SumFunctionOnSet(f, S \cup R) = SumFunctionOnSet(f, S) + SumFunctionOnSet(f, R)
<1> DEFINE Adds(T) ==
               SumFunctionOnSet(f, S \cup T) = SumFunctionOnSet(f, S) + SumFunctionOnSet(f, T)
           Good == {T \in SUBSET R : Adds(T)}
<1>0. SumFunctionOnSet(f, S) \in Int
  BY SumIsInt DEF Whole
<1>1. {} \in Good
  <2>1. S \cup {} = S
    OBVIOUS
  <2>2. Adds({})
    BY <1>0, <2>1, SumOfNothing
  <2> QED  BY <2>2
<1>2. ASSUME NEW T \in SUBSET R, NEW x \in T, T \ {x} \in Good
      PROVE  T \in Good
  <2> DEFINE V == T \ {x}
  <2>1. IsFiniteSet(T) /\ IsFiniteSet(V) /\ IsFiniteSet(S \cup V)
    BY FS_Subset, FS_Union
  <2>2. Whole(f, T) /\ Whole(f, V) /\ Whole(f, (S \cup V) \cup {x})
    BY DEF Whole
  <2>3. x \notin S \cup V /\ (S \cup V) \cup {x} = S \cup T
    OBVIOUS
  <2>4. SumFunctionOnSet(f, S \cup T) = f[x] + SumFunctionOnSet(f, S \cup V)
    <3> HIDE DEF V
    <3> QED  BY <2>1, <2>2, <2>3, SumWith
  <2>5. SumFunctionOnSet(f, T) = f[x] + SumFunctionOnSet(f, V)
    BY <2>1, <2>2, SumWithout
  <2>6. SumFunctionOnSet(f, V) \in Int
    <3> HIDE DEF V
    <3> QED  BY <2>1, <2>2, SumIsInt
  <2>7. f[x] \in Int
    BY DEF Whole
  <2>8. Adds(V)
    BY <1>2
  <2>9. Adds(T)
    <3> HIDE DEF V
    <3> QED  BY <1>0, <2>4, <2>5, <2>6, <2>7, <2>8
  <2> QED  BY <2>9
<1>3. R \in Good
  <2> HIDE DEF Good
  <2> QED  BY <1>1, <1>2, SetInduction
<1> QED  BY <1>3

ImageOf(m, S) == {m[x] : x \in S}

\* Sums over a set and over an image of it that keeps its elements apart.
LEMMA SumOfImage ==
    ASSUME NEW S, IsFiniteSet(S), NEW m, \A x, y \in S : m[x] = m[y] => x = y,
           NEW f, Whole(f, ImageOf(m, S)), NEW g, \A x \in S : g[x] = f[m[x]]
    PROVE  /\ IsFiniteSet(ImageOf(m, S))
           /\ SumFunctionOnSet(f, ImageOf(m, S)) = SumFunctionOnSet(g, S)
<1> DEFINE Same(T) == /\ IsFiniteSet(ImageOf(m, T))
                      /\ SumFunctionOnSet(f, ImageOf(m, T)) = SumFunctionOnSet(g, T)
           Good == {T \in SUBSET S : Same(T)}
<1>1. {} \in Good
  <2>1. ImageOf(m, {}) = {}
    BY DEF ImageOf
  <2>2. Same({})
    BY <2>1, SumOfNothing, FS_EmptySet
  <2> QED  BY <2>2
<1>2. ASSUME NEW T \in SUBSET S, NEW x \in T, T \ {x} \in Good
      PROVE  T \in Good
  <2> DEFINE V == T \ {x}
             at == m[x]
  <2>1. IsFiniteSet(T) /\ Whole(g, T) /\ Whole(f, ImageOf(m, V) \cup {at})
    BY FS_Subset DEF Whole, ImageOf
  <2>2. ImageOf(m, T) = ImageOf(m, V) \cup {at} /\ at \notin ImageOf(m, V)
    BY DEF ImageOf
  <2>3. IsFiniteSet(ImageOf(m, V)) /\ SumFunctionOnSet(f, ImageOf(m, V)) = SumFunctionOnSet(g, V)
    BY <1>2
  <2>4. SumFunctionOnSet(g, T) = g[x] + SumFunctionOnSet(g, V)
    BY <2>1, SumWithout
  <2>5. g[x] = f[at]
    OBVIOUS
  <2> HIDE DEF V, at
  <2>6. IsFiniteSet(ImageOf(m, T))
    BY <2>2, <2>3, FS_AddElement
  <2>7. SumFunctionOnSet(f, ImageOf(m, T)) = f[at] + SumFunctionOnSet(f, ImageOf(m, V))
    BY <2>1, <2>2, <2>3, SumWith
  <2>8. Same(T)
    BY <2>3, <2>4, <2>5, <2>6, <2>7
  <2> QED  BY <2>8
<1>3. S \in Good
  <2> HIDE DEF Good
  <2> QED  BY <1>1, <1>2, SetInduction
<1> QED  BY <1>3

\* One element with each member of a set.
Fibre(a, D) == {a} \X D

\* Sums over a set and over its fibre.
LEMMA SumOfColumn ==
    ASSUME NEW f, NEW a, NEW D, IsFiniteSet(D), Whole(f, Fibre(a, D)),
           NEW g, \A i \in D : g[i] = f[<<a, i>>]
    PROVE  SumFunctionOnSet(f, Fibre(a, D)) = SumFunctionOnSet(g, D)
<1> DEFINE m == [i \in D |-> <<a, i>>]
<1>1. Fibre(a, D) = ImageOf(m, D)
  BY DEF Fibre, ImageOf
<1>2. \A i \in D : g[i] = f[m[i]]
  OBVIOUS
<1>3. \A i, j \in D : m[i] = m[j] => i = j
  OBVIOUS
<1> HIDE DEF m
<1> QED  BY <1>1, <1>2, <1>3, SumOfImage

\* Each member of S with each of its own.
Fibres(S, D) == UNION {Fibre(a, D[a]) : a \in S}

\* A sum over fibres is the sum of the sums over each.
LEMMA SumOfFibres ==
    ASSUME NEW S, IsFiniteSet(S), NEW D, \A a \in S : IsFiniteSet(D[a]),
           NEW f, Whole(f, Fibres(S, D)),
           NEW g, \A a \in S : g[a] = SumFunctionOnSet(f, Fibre(a, D[a]))
    PROVE  /\ IsFiniteSet(Fibres(S, D))
           /\ SumFunctionOnSet(f, Fibres(S, D)) = SumFunctionOnSet(g, S)
<1> DEFINE Same(T) == /\ IsFiniteSet(Fibres(T, D))
                      /\ SumFunctionOnSet(f, Fibres(T, D)) = SumFunctionOnSet(g, T)
           Good == {T \in SUBSET S : Same(T)}
<1>0. ASSUME NEW a \in S
      PROVE  IsFiniteSet(Fibre(a, D[a])) /\ Whole(f, Fibre(a, D[a])) /\ g[a] \in Int
  <2>1. IsFiniteSet(Fibre(a, D[a]))
    BY FS_Singleton, FS_Product DEF Fibre
  <2>2. Whole(f, Fibre(a, D[a]))
    BY DEF Whole, Fibres, Fibre
  <2> QED  BY <2>1, <2>2, SumIsInt
<1>1. {} \in Good
  <2>1. Fibres({}, D) = {}
    BY DEF Fibres
  <2>2. Same({})
    BY <2>1, SumOfNothing, FS_EmptySet
  <2> QED  BY <2>2
<1>2. ASSUME NEW T \in SUBSET S, NEW a \in T, T \ {a} \in Good
      PROVE  T \in Good
  <2> DEFINE V == T \ {a}
             A == Fibre(a, D[a])
  <2>1. Same(V)
    BY <1>2
  <2>2. Fibres(T, D) = A \cup Fibres(V, D) /\ A \cap Fibres(V, D) = {}
    BY DEF Fibres, Fibre
  <2>3. Whole(f, A \cup Fibres(V, D))
    BY <2>2 DEF Whole, Fibres
  <2>4. IsFiniteSet(T) /\ Whole(g, T)
    BY <1>0, FS_Subset DEF Whole
  <2>5. SumFunctionOnSet(g, T) = g[a] + SumFunctionOnSet(g, V)
    BY <2>4, SumWithout
  <2>6. IsFiniteSet(A) /\ g[a] = SumFunctionOnSet(f, A)
    BY <1>0
  <2> HIDE DEF A, V
  <2>7. IsFiniteSet(Fibres(T, D))
    <3>1. IsFiniteSet(Fibres(V, D))
      BY <2>1
    <3>2. IsFiniteSet(A \cup Fibres(V, D))
      BY <2>6, <3>1, FS_Union
    <3> QED  BY <2>2, <3>2
  <2>8. SumFunctionOnSet(f, Fibres(T, D)) = SumFunctionOnSet(f, A) + SumFunctionOnSet(f, Fibres(V, D))
    BY <2>1, <2>2, <2>3, <2>6, SumOfUnion
  <2>9. Same(T)
    BY <2>1, <2>5, <2>6, <2>7, <2>8
  <2> QED  BY <2>9
<1>3. S \in Good
  <2> HIDE DEF Good
  <2> QED  BY <1>1, <1>2, SetInduction
<1> QED  BY <1>3
=============================================================================
