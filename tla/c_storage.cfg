CONSTANTS
    NoNode = NoNode
    Uninitialised <- MCUninitialised
    SizeModulus <- MCSizeModulus
    Masks <- MCMasks
    HashLists <- MCHashLists
    RootHashes <- MCRootHashes
    Raws <- MCRaws
    Appended <- MCAppended
    Sizes <- MCSizes
SPECIFICATION Spec
INVARIANTS TypeOK LengthWithinCapacity IllFormedOnlyAfterFailedDecode StoredNodeIsRead
PROPERTIES AcceptedBytesAreCanonical AppendIsAllOrNothing
CHECK_DEADLOCK FALSE
