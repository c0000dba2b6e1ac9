\* Five messages over TCP, two of them without a body; two over UDP; four connections
SPECIFICATION MCSpec
CONSTANTS
    MaxSends = 5
    HeaderOnly <- MCHeaderOnly
    Transport = {server, client}
    MaxDatagrams = 2
    Connection = {1, 2, 3, 4}
\* Both ends may close and nothing is left to do
CHECK_DEADLOCK FALSE
INVARIANTS
    AllTypesOK
    WellFramed
    EachFromItsSender
    HandedOverInOrder
PROPERTIES
    ImplementsChannel
    EverythingArrives
    ClosingIsNoticed
    ReceivedIsReturned
    LoopFollowsSocket
    EachHandedOver
