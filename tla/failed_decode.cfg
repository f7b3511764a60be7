CONSTANTS
    NoNode = NoNode
    Uninitialised <- MCUninitialised
    SizeModulus <- MCSizeModulus
    Masks <- MCMasks
    HashLists <- MCHashLists
    RootHashes <- MCRootHashes
    Raws <- MCRaws
    Appended <- MCAppended
    Sizes <- MCSizes
SPECIFICATION Spec
INVARIANTS PresumedInvariants
CHECK_DEADLOCK FALSE
