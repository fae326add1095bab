\* Two paths, two invocations, chains of up to three records.
\* The bound on issued chains stops every process, hence no deadlock check.
CONSTANTS
    k1 = k1
    k2 = k2
    p1 = p1
    p2 = p2
    o1 = o1
    o2 = o2
    Keys = {k1, k2}
    Suites = {1}
    Subjects = {"s1"}
    Roots = {"r1"}
    MaxSeq = 2
    Files = {p1, p2}
    Commands = {o1, o2}
    NoFile = NoFile
    MaxIssued = 2
SPECIFICATION Spec
INVARIANTS TypeOK Authentic
SYMMETRY Symmetry
CHECK_DEADLOCK FALSE
