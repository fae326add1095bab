CONSTANTS
    MinChunk = 2
    MaxChunk = 4
    MaxIndex = 3
    MaxPlain = 12
    MaxRatio = 8
    KnownSuites = {"s1", "s2"}
    PayloadAlign = 2
    MaxSections = 4
    Orders <- MCOrders
    Signers = {"author", "stranger"}
    Trusted = "author"
    Holders = {"org", "host"}
    Contexts = {"seal", "storage"}
    MaxEdits = 1
SPECIFICATION Spec
INVARIANTS TypeOK EveryByteHasOneOwner SignatureFixesTheFile NothingButWhatWasSigned
    SealedTakesItsKey ReportIsTrue WrittenFileReadsBack ListingAndServingAgree
    StreamAgreesWithChunks
CHECK_DEADLOCK FALSE
