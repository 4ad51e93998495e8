CONSTANTS
    c1 = c1
    c2 = c2
    Clients <- MCClients
    Maintenance = maintenance
    ClientKinds = {"flow_mod", "stats"}
    MaxRequests = 2
    MaxEchoRequests = 0
    Faults = {"break"}
    FirstXid = 999
    XidModulus = 1000
    NullPtr = NullPtr
    EchoReply = EchoReply
SPECIFICATION Spec
SYMMETRY Symmetry
INVARIANTS
    TypeOK
    CallbackAtMostOnce
    NoRequestLost
    SuccessOnlyIfDoneOrOvertaken
PROPERTIES
    BarrierFlushesOlder
CHECK_DEADLOCK FALSE
