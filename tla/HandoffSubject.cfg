\* Two subjects, one file: a single handoff is enough.
CONSTANTS
    k1 = k1
    k2 = k2
    p1 = p1
    p2 = p2
    o1 = o1
    o2 = o2
    Keys = {k1, k2}
    Suites = {1}
    Subjects = {"s1", "s2"}
    Roots = {"r1"}
    MaxSeq = 2
    Files = {p1}
    Commands = {o1}
    NoFile = NoFile
    MaxIssued = 3
SPECIFICATION Spec
INVARIANT HandoffKeepsSubject
CHECK_DEADLOCK FALSE
