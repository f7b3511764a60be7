--------------------------- MODULE MCNodeStorage ---------------------------
(* The instance of NodeStorage that TLC checks.                            *)
EXTENDS NodeStorage

zero == {}
ones == ByteBit

HashA == [i \in 1..kHashLength |-> zero]
HashB == [i \in 1..kHashLength |-> IF i = 1 THEN ones ELSE zero]

MCUninitialised == {ones}
MCSizeModulus == 256

MCMasks == {{}, {0, 8}}
MCHashLists == {<< >>, <<HashB, HashA>>}
MCRootHashes == {NoHash, HashB}

\* Masks 0x0101 0x0000 0x0101, then two hashes are expected.
TwoHashes == <<{0}, {0}, zero, zero, {0}, {0}>>
Outside == <<zero, {0}, zero, {1}, zero, zero>>

MCRaws == {<< >>, Outside, TwoHashes, TwoHashes \o HashB \o HashA,
           TwoHashes \o HashB \o HashA \o <<zero>>,
           TwoHashes \o HashA \o HashB \o HashA,
           TwoHashes \o HashA \o HashA \o HashA \o HashA}

MCAppended == {HashA}

MCSizes == {0, 129}
=============================================================================
