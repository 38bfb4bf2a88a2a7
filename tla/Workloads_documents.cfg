CONSTANTS
    Kinds <- AllKinds
    MaxPuts = 2
    Chars <- AnyChars
    LowerOf <- Lower
    Alnum <- Letters
    Dash = "-"
    MaxLen = 3
    Fallback <- FallbackB
    RawNames <- Offered
    Blank <- NoLabel
    Typed <- TypedNames
    OwnNamespace <- FallbackB
    MaxHandEdits = 2
SPECIFICATION WorkloadSpecification
INVARIANTS
    DocTypeOK
    RestartKeeps
    AbsentMeansDefault
    NothingIsStripped
    Idempotent
    DraftsValidate
    CorrectedOnce
PROPERTY EditIsLocal
