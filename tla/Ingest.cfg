\* Two tasks and a clock that may stand still or advance between two BEGINs.
\* The bound on runs stops every task, hence no deadlock check.
CONSTANTS
    t1 = t1
    t2 = t2
    t3 = t3
    Tasks = {t1, t2}
    NoTask = NoTask
    Challenges = {"c1"}
    SectionNames = {0, 1}
    Verdicts = {"passed", "failed"}
    MaxConnections = 2
    MaxRuns = 3
    MaxClock = 1
SPECIFICATION Spec
INVARIANTS TypeOK VerdictOfNewestBundle AnswersAreTrue
PROPERTIES ArchiveSpec
SYMMETRY Symmetry
CHECK_DEADLOCK FALSE
