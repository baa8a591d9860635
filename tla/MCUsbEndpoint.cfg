SPECIFICATION EndpointSpec
CHECK_DEADLOCK FALSE
CONSTANTS
    ChunkPackets = 2
    MaxSize = 4
    MaxPackets = 7
    MaxResets = 2
    MaxLosses = 2
    QuietReset = TRUE
INVARIANTS
    EndpointInv
PROPERTIES
    InOrderOnce
    TransferEnds
