\* Three tasks, two connections, one challenge row: a connection and the row are both
\* waited for.  No symmetry: it is unsound for liveness.  The bound on runs stops all.
CONSTANTS
    t1 = t1
    t2 = t2
    t3 = t3
    Tasks = {t1, t2, t3}
    NoTask = NoTask
    Challenges = {"c1"}
    SectionNames = {0}
    Verdicts = {"passed"}
    MaxConnections = 2
    MaxRuns = 3
    MaxClock = 0
SPECIFICATION FairSpec
PROPERTY EveryTaskEnds
CHECK_DEADLOCK FALSE
