CONSTANTS
    c1 = c1
    c2 = c2
    Clients <- MCOneClient
    Maintenance = maintenance
    ClientKinds = {"flow_mod"}
    MaxRequests = 2
    MaxEchoRequests = 0
    Faults = {}
    FirstXid = 1
    XidModulus = 1000
    NullPtr = NullPtr
    EchoReply = EchoReply
SPECIFICATION Spec
INVARIANTS
    SuccessMeansDone
CHECK_DEADLOCK FALSE
