\* Three blocks and two crashes, of a node of the default configuration.
SPECIFICATION Spec
CONSTANTS
    ConfigAuthority = ""
    Signers = {"alice", "gov", "malformed"}
    Blocks <- MCBlocks
    Genesis <- MCGenesis
    MaxHeight = 3
    MaxCrashes = 2
INVARIANTS
    TypeOK
    StartsWithValidators
    ShowsItsHeight
PROPERTIES
    CommitsDecided
    CatchesUp
CHECK_DEADLOCK FALSE
