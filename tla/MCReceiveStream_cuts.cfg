\* Every way of cutting short streams of packets and quick acks into reads.
CONSTANTS
    Protocols = {"EF", "DD"}
    Bodies = {4, 8}
    MaxPackets = 3
    MaxAgain = 1
    MaxChunk = 12
    Classes = {8, 10}
    Roomy = 10
    MaxConnections = 2
SPECIFICATION Spec
INVARIANTS
    TypeOK
    HandedOverInOrder
    NothingLostBetweenReads
CHECK_DEADLOCK FALSE
