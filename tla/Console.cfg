\* Two challenges, two bundles, two answers that can overtake each other.
\* An operator may quit, hence no deadlock check.
CONSTANTS
    t1 = t1
    t2 = t2
    NumChallenges = 2
    MaxBundles = 2
    Tasks = {t1, t2}
SPECIFICATION Spec
SYMMETRY Symmetry
VIEW WhatKeysRead
INVARIANTS TypeOK CursorsNameRows FocusIsOnScreen
PROPERTIES ReleasesWhatWasDrawn
CHECK_DEADLOCK FALSE
