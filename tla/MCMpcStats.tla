----------------------------- MODULE MCMpcStats -----------------------------
(***************************************************************************)
(* Two organizations, two nodes and a field of 13 elements: pooled totals  *)
(* reach the largest magnitude the field can tell, 6, and pass it.         *)
(***************************************************************************)
EXTENDS MpcStats, TLC

MCNodes == <<"n1", "n2">>
MCKinds == {"histogram", "variance", "correlation"}
MCRow(xs, ys) == [x : xs, y : ys]
MCRowsOf ==
    [k \in {"variance", "correlation"} |->
        IF k = "variance"
        THEN LET rows == MCRow({-2, 1}, {0})
             IN  {<<>>} \cup {<<r>> : r \in rows} \cup {<<r, s>> : r \in rows, s \in rows}
        ELSE LET r(x, y) == [x |-> x, y |-> y]
             IN  {<<>>, <<r(2, -1)>>, <<r(0, 1)>>, <<r(2, -1), r(0, 1)>>, <<r(0, 1), r(2, 1)>>}]
MCSymmetry == Permutations(Orgs)
=============================================================================
