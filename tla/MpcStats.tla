------------------------------ MODULE MpcStats ------------------------------
(***************************************************************************)
(* The secret-shared statistics of mpc/stats.py over the additive shares   *)
(* of crypto/secret_sharing.py.  Every organization reduces its own rows   *)
(* to a vector of sufficient statistics and splits it into one share per   *)
(* compute node; the nodes add what they hold and the total is opened.     *)
(* Values are quantized integers, so that sums are exact up to the field;  *)
(* the answers are computed from them in floats, which round.              *)
(***************************************************************************)
EXTENDS Integers, Sequences, FiniteSets, Functions, SequencesExt

CONSTANTS P,         \* FIELD_P, an odd prime
          Nodes,     \* node_ids, in their order
          Draws,     \* what secrets.randbelow(FIELD_P) may draw
          Orgs,      \* the contributing organizations
          Kinds,     \* the queries asked
          Buckets,   \* the buckets of a histogram
          CountsOf,  \* the counts an organization may have in its buckets
          RowsOf,    \* RowsOf[kind]: the rows (x, y) an organization may have
          Rounding,  \* how far a difference taken in floats may be off
          None

Components == [histogram   |-> Buckets,
               variance    |-> {"x", "xx"},
               correlation |-> {"x", "y", "xx", "yy", "xy", "n"}]

Field == 0..(P - 1)
NodeIds == ToSet(Nodes)
FirstNodes == NodeIds \ {Nodes[Len(Nodes)]}

\* What an organization's own columns are: whole numbers, fewer than P of them.
IsRows(rows) ==
    /\ DOMAIN rows = 1..Len(rows) /\ Len(rows) \in Field
    /\ \A i \in DOMAIN rows : rows[i].x \in Int /\ rows[i].y \in Int

ASSUME MpcAssumption ==
    /\ P \in Nat /\ P % 2 = 1 /\ P > 2
    /\ Nodes \in Seq(NodeIds) /\ Len(Nodes) >= 2 /\ IsInjective(Nodes)
    /\ Draws \subseteq Field
    /\ Kinds \subseteq DOMAIN Components
    /\ Orgs # {} /\ IsFiniteSet(Orgs)
    /\ CountsOf \subseteq Field
    /\ \A k \in Kinds \ {"histogram"} : \A rows \in RowsOf[k] : IsRows(rows)
    /\ Rounding \in Nat
    /\ \A k \in Kinds : None \notin [NodeIds -> [Components[k] -> Field]]

VARIABLES kind,    \* the query
          data,    \* data[o]: the counts or rows of organization o
          waiting, \* the organizations that have not contributed yet
          acc,     \* acc[n]: the share node n has accumulated, None before any
          opened,  \* the opened totals, None before
          answer   \* what the query returns, None before
vars == <<kind, data, waiting, acc, opened, answer>>

\* Mutation: the middle of the field counts as negative.
SignedMod_FromMiddle(v) == IF v % P >= P \div 2 THEN (v % P) - P ELSE v % P

SignedMod(v) == IF v % P > P \div 2 THEN (v % P) - P ELSE v % P

SumOver(rows, f(_)) == SumFunction([i \in DOMAIN rows |-> f(rows[i])])

\* Mutation: the square of the sum is shared for the sum of the squares.
Moments_SquareOfSum(rows) ==
    LET sx == SumOver(rows, LAMBDA r : r.x)
        sy == SumOver(rows, LAMBDA r : r.y)
    IN  [x |-> sx, y |-> sy, xx |-> sx * sx, yy |-> sy * sy, xy |-> sx * sy, n |-> Len(rows)]

Moments(rows) ==
    [x  |-> SumOver(rows, LAMBDA r : r.x),
     y  |-> SumOver(rows, LAMBDA r : r.y),
     xx |-> SumOver(rows, LAMBDA r : r.x * r.x),
     yy |-> SumOver(rows, LAMBDA r : r.y * r.y),
     xy |-> SumOver(rows, LAMBDA r : r.x * r.y),
     n  |-> Len(rows)]

\* What an organization may have: counts of its buckets, or rows.
Own(k) == IF k = "histogram" THEN [Buckets -> CountsOf] ELSE RowsOf[k]

\* What an organization computes on its own data, in the field.
Local(k, own) ==
    [c \in Components[k] |->
        IF k = "histogram" THEN own[c]
        ELSE IF c = "n" THEN Len(own) ELSE Moments(own)[c] % P]

\* Mutation: the last share is not brought back into the field.
LastShare_Unreduced(secret, drawn) == secret - SumFunction(drawn)

\* the accumulator is reduced at each step in the code, here at the end
LastShare(secret, drawn) == (secret - SumFunction(drawn)) % P

\* share_vector: all shares but the last are drawn, component by component
Shares(vector, drawn) ==
    [n \in NodeIds |-> [c \in DOMAIN vector |->
        IF n \in FirstNodes THEN drawn[c][n] ELSE LastShare(vector[c], drawn[c])]]

-----------------------------------------------------------------------------
Init ==
    /\ kind \in Kinds
    /\ data \in [Orgs -> Own(kind)]
    /\ waiting = Orgs
    /\ acc = None
    /\ opened = None
    /\ answer = None

RowCount == SumFunction([o \in Orgs |-> Len(data[o])])

\* run_variance answers 0 at once, without sharing anything
TooFewRows == kind = "variance" /\ RowCount < 2

\* one turn of the loop over the organizations: share, then elementwise_add
Contribute(o, drawn) ==
    LET shares == Shares(Local(kind, data[o]), drawn)
    IN  /\ ~TooFewRows
        /\ o \in waiting
        /\ waiting' = waiting \ {o}
        /\ acc' = IF acc = None THEN shares
                  ELSE [n \in NodeIds |-> [c \in DOMAIN shares[n] |->
                           (acc[n][c] + shares[n][c]) % P]]
        /\ UNCHANGED <<kind, data, opened, answer>>

\* reconstruct, and signed_mod of every component
Open ==
    /\ waiting = {}
    /\ opened = None
    /\ opened' = [c \in Components[kind] |->
           SignedMod(SumFunction([n \in NodeIds |-> acc[n][c]]) % P)]
    /\ UNCHANGED <<kind, data, waiting, acc, answer>>

-----------------------------------------------------------------------------
(* The answers are fractions over n squared; the constant Rounding is in   *)
(* their unit.  The correlation is told by the covariance and the two      *)
(* variances that it divides: the root, the division and the clip to       *)
(* [-1, 1] add nothing but rounding to them.                               *)

NonNegative(v) == IF v < 0 THEN 0 ELSE v

\* What float arithmetic may make of the exact difference v.
InFloats(v) == {v + d : d \in -Rounding..Rounding}

\* n times the sum of the products, less the product of the sums
Spread(n, xy, x, y) == n * xy - x * y

Uncorrelated == [cov |-> 0, vx |-> 1, vy |-> 1]

\* max(0.0, total_sq / n_total - mean * mean)
VarianceAnswers == {NonNegative(v) : v \in InFloats(Spread(RowCount, opened.xx, opened.x, opened.x))}

\* vx and vy are compared with zero as floats
CorrelationAnswers ==
    LET n   == opened.n
        cov == Spread(n, opened.xy, opened.x, opened.y)
        vx  == Spread(n, opened.xx, opened.x, opened.x)
        vy  == Spread(n, opened.yy, opened.y, opened.y)
    IN  IF n < 2 THEN {Uncorrelated}
        ELSE {IF t.vx <= 0 \/ t.vy <= 0 THEN Uncorrelated ELSE t :
                 t \in [cov : InFloats(cov), vx : InFloats(vx), vy : InFloats(vy)]}

Answer ==
    /\ answer = None
    /\ \/ TooFewRows /\ answer' = 0
       \/ /\ opened # None
          /\ CASE kind = "histogram"   -> answer' = opened
               [] kind = "variance"    -> answer' \in VarianceAnswers
               [] kind = "correlation" -> answer' \in CorrelationAnswers
    /\ UNCHANGED <<kind, data, waiting, acc, opened>>

Next ==
    \/ \E o \in waiting : \E drawn \in [Components[kind] -> [FirstNodes -> Draws]] :
          Contribute(o, drawn)
    \/ Open
    \/ Answer
Spec == Init /\ [][Next]_vars

-----------------------------------------------------------------------------
\* Every share is a member of the field, whatever was drawn and added.
TypeOK ==
    /\ kind \in Kinds /\ data \in [Orgs -> Own(kind)] /\ waiting \subseteq Orgs
    /\ acc = None \/ acc \in [NodeIds -> [Components[kind] -> Field]]
    /\ opened = None \/ opened \in [Components[kind] -> -P..P]
    /\ answer = None \/ (IF kind = "histogram" THEN answer = opened
                        ELSE IF kind = "variance" THEN answer \in Nat
                        ELSE answer \in [cov : Int, vx : Nat \ {0}, vy : Nat \ {0}])

\* What an organization has of a component, and the pooled total of all.
Statistic(own, c) == IF kind = "histogram" THEN own[c] ELSE Moments(own)[c]
Pooled(c) == SumFunction([o \in Orgs |-> Statistic(data[o], c)])
InRange(v) == -(P \div 2) <= v /\ v <= P \div 2

\* What is opened is the pooled total, up to and including the largest
\* magnitude the field can tell: no draw and no order of the organizations
\* shows in it.
OpenedExact ==
    opened # None =>
        \A c \in Components[kind] : InRange(Pooled(c)) => opened[c] = Pooled(c)

\* The pairs of rows of all organizations, and the sums over them that define
\* variance and covariance.
AllRows == UNION {{o} \X DOMAIN data[o] : o \in Orgs}
RowAt(at) == data[at[1]][at[2]]
PairSum(f(_, _)) ==
    SumFunction([p \in AllRows \X AllRows |-> f(RowAt(p[1]), RowAt(p[2]))])

Near(v, w) == v - w \in -(2 * Rounding)..(2 * Rounding)

\* Variance and correlation are those of all rows in one place, up to what
\* floats round: statistics that are combined organization by organization
\* lose nothing more, and what is divided by is positive.
AnswersPooled ==
    answer # None /\ (\A c \in Components[kind] : InRange(Pooled(c))) =>
        /\ kind = "variance" =>
               Near(2 * answer, PairSum(LAMBDA r, s : (r.x - s.x) * (r.x - s.x)))
        /\ kind = "correlation" =>
               LET vx == PairSum(LAMBDA r, s : (r.x - s.x) * (r.x - s.x))
                   vy == PairSum(LAMBDA r, s : (r.y - s.y) * (r.y - s.y))
                   cov == PairSum(LAMBDA r, s : (r.x - s.x) * (r.y - s.y))
               IN  \/ answer = Uncorrelated /\ (Near(vx, 0) \/ Near(vy, 0))
                   \/ /\ Near(2 * answer.cov, cov)
                      /\ Near(2 * answer.vx, vx) /\ answer.vx > 0
                      /\ Near(2 * answer.vy, vy) /\ answer.vy > 0

\* "run_correlation({"a": ([1.0, 1.0], [0.0, 1.0])}, NODES) == 0.0"
\* (test_properties.py): a column that does not vary correlates with nothing.
ConstantColumnUncorrelated ==
    /\ answer # None /\ kind = "correlation"
    /\ \A c \in Components[kind] : InRange(Pooled(c))
    /\ \/ PairSum(LAMBDA r, s : (r.x - s.x) * (r.x - s.x)) = 0
       \/ PairSum(LAMBDA r, s : (r.y - s.y) * (r.y - s.y)) = 0
    => answer.cov = 0
=============================================================================
