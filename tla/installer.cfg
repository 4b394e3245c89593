SPECIFICATION Spec
CONSTANTS
    MaxVersion <- MCMaxVersion
    Size <- MCSize
INVARIANTS
    TypeOK
    Recoverable
    UntouchedUntilVerified
    VerifiedButForLastChunk
    ProgressComplete
PROPERTIES
    ProgressMonotone
    KeepsVersions
