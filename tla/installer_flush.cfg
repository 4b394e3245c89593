SPECIFICATION Spec
CONSTANTS
    MaxVersion <- MCMaxVersion
    Size <- MCSize
INVARIANTS
    AccurateReplica
