\* A bundle that declares a generator it does not carry, whose file is not there.
CONSTANTS
    Names = {"a"}
    Data = {1, 2}
    right = right
    wrong = wrong
    Flags = {right, wrong}
    ExpectedFlag = right
    Failed = Failed
    Unsupported = Unsupported
SPECIFICATION Spec
INVARIANT ReasonIsTrue
CHECK_DEADLOCK FALSE
