CONSTANTS
    t1 = t1
    t2 = t2
    A = A
    B = B
    S = S
    x = x
    g = g
    s = s
    nil = nil
    none = none
    Threads <- MCThreads
    Macs <- MCMacs
    Ips <- MCIps
    Gateways <- MCGateways
    Capacity = 3
    NoAddress = nil
    NoTable = none
    SwitchMac = S
    SwitchIp = s
    Vlans = {1}
    Workloads <- MCWorkloads
    MaxPings = 2
    MaxPackets = 2
    MaxCalls = 4
SPECIFICATION Spec
SYMMETRY Symmetry
INVARIANTS
    IndexesAgree
    AnswersAreCurrent
    SlotsAccountedFor
    AnswersAreFresh
    PingTruth
PROPERTIES
    RepliesReachWaiters
CHECK_DEADLOCK FALSE
