SPECIFICATION Spec
CONSTANTS
    P = 13
    Nodes <- MCNodes
    Draws = {0, 12}
    Orgs = {o1, o2}
    Kinds <- MCKinds
    Buckets = {b1, b2}
    CountsOf = {0, 3, 4}
    RowsOf <- MCRowsOf
    Rounding = 1
    None = None
SYMMETRY MCSymmetry
INVARIANTS TypeOK OpenedExact AnswersPooled
CHECK_DEADLOCK FALSE
