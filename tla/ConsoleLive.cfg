\* One bundle, one background task at a time.
\* An operator may quit, hence no deadlock check.
CONSTANTS
    t1 = t1
    t2 = t2
    NumChallenges = 1
    MaxBundles = 1
    Tasks = {t1}
SPECIFICATION FairSpec
PROPERTIES EverySubmitIsAnswered
CHECK_DEADLOCK FALSE
