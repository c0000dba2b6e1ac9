\* A transport whose socket's send buffer is full
SPECIFICATION UDPSpec
CONSTANTS
    Transport = {server, client}
    MaxDatagrams = 1
CHECK_DEADLOCK FALSE
INVARIANTS
    DatagramsIntact
