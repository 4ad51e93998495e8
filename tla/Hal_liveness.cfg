CONSTANTS
    c1 = c1
    c2 = c2
    Clients <- MCOneClient
    Maintenance = maintenance
    ClientKinds = {"flow_mod"}
    MaxRequests = 2
    MaxEchoRequests = 1
    Faults = {}
    FirstXid = 1
    XidModulus = 1000
    NullPtr = NullPtr
    EchoReply = EchoReply
SPECIFICATION FairSpec
PROPERTIES
    OutcomeReachesRequester
    EchoRequestAnswered
CHECK_DEADLOCK FALSE
