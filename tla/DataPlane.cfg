CONSTANTS
    Workloads <- MCWorkloads
    SwitchIp <- MCSwitchIp
    SwitchMac <- MCSwitchMac
    CamCapacity <- MCCamCapacity
    Setups <- MCSetups
    HeaderSize = 2
    ChunkSize = 2
    Producers = {"p1", "p2"}
    Consumers = {"c1", "c2"}
    Limits = {0, 1, 2}
    MaxItems = 2
    MaxSettings = 3
SPECIFICATION MCSpec
INVARIANTS
    LearntFitsItsPort
    PortsTracked
    QueueServesWorker
    VlansReachPorts
    FramesIntact
PROPERTIES
    
    CodecsAgree
CHECK_DEADLOCK FALSE
