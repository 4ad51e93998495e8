CONSTANTS
    c1 = c1
    c2 = c2
    Clients <- MCOneClient
    Maintenance = maintenance
    ClientKinds = {"flow_mod", "stats", "features"}
    MaxRequests = 1
    MaxEchoRequests = 0
    Faults = {"break", "shutdown"}
    FirstXid = 1
    XidModulus = 1000
    NullPtr = NullPtr
    EchoReply = EchoReply
INVARIANT ServicedBeforeCallback
SPECIFICATION FairSpec
PROPERTIES
    KeepsPromise
    
CHECK_DEADLOCK FALSE
