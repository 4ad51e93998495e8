CONSTANTS
    a = a
    b = b
    m1 = m1
    m2 = m2
    p1 = p1
    p2 = p2
    Callers <- MCCallers
    ProcessLoop = process_loop
    Matches <- MCMatches
    L2Matches <- MCL2Matches
    Ports <- MCPorts
    Workloads <- MCSafety
    MaxCookie = 4
SYMMETRY Symmetry
SPECIFICATION Spec
INVARIANTS
    CookieNamesOneFlow
    
PROPERTIES
    RefreshSynchronises
CHECK_DEADLOCK FALSE
