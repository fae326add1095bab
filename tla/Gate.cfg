\* Every bundle, every input and every front end, two outputs per name set, a right
\* and a wrong flag.  A gate ends, hence no deadlock check.
CONSTANTS
    Names = {"a"}
    Data = {1, 2}
    right = right
    wrong = wrong
    Flags = {right, wrong}
    ExpectedFlag = right
    Failed = Failed
    Unsupported = Unsupported
    Shelves <- MCShelves
SPECIFICATION FrontSpec
INVARIANTS FrontTypeOK VerdictOfSection25 SummaryTellsHowFar FrontEndsAgree ExitTellsTheVerdict
CHECK_DEADLOCK FALSE
