CONSTANTS
    MinChunk = 2
    MaxChunk = 4
    MaxIndex = 3
    MaxPlain = 12
    MaxRatio = 8
    KnownSuites = {"s1", "s2"}
    PayloadAlign = 2
    MaxSections = 6
    BadNames = {"", "bad"}
    Docs <- MCDocs
    Suite = "s1"
    Given <- MCGiven
    Handled <- MCHandled
    Recipients <- MCRecipients
    OutNames = {"sol", "writeup", "release.json"}
    Chains <- MCChains
    Author = "author"
    Rewrites <- MCRewrites
    Workers = {w1, w2}
    Cuts = {3}
    MaxCommands = 3
SPECIFICATION Spec
SYMMETRY MCSymmetry
INVARIANTS TypeOK ValidateForetellsPack PackedAsDeclared RewritesKeepTheChallenge
    HoldersCanOpen ReleaseIsDeclared
CHECK_DEADLOCK FALSE
