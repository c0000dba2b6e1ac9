\* Two client processes on the same port, one after the other
SPECIFICATION Spec
CONSTANTS
    p1 = p1
    p2 = p2
    e1 = e1
    Process = {p1, p2}
    Endpoint = {e1}
    EndpointOf <- MCReused
    NoEndpoint = NoEndpoint
    MaxPolls = 2
    MaxPings = 2
    PingTransport = "TCP"
    AppSent <- MCAppSent
    MaxAppSends = 1
SYMMETRY MCSymmetry
INVARIANTS
    BindingInvariant
    EndpointMapConsistent
    HandshakeCanFinish
    InboxOnlyFromConnected
    PingsAnsweredInOrder
PROPERTIES
    ConnectOnce
