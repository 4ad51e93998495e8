CONSTANTS
    c1 = c1
    c2 = c2
    Clients <- MCOneClient
    Maintenance = maintenance
    ClientKinds = {"flow_mod"}
    MaxRequests = 1
    MaxEchoRequests = 0
    Faults = {"shutdown"}
    FirstXid = 1
    XidModulus = 1000
    NullPtr = NullPtr
    EchoReply = EchoReply
SPECIFICATION FairSpec
PROPERTIES
    ShutdownEnds
CHECK_DEADLOCK FALSE
