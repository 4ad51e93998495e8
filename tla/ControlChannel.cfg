CONSTANTS
    CriteriaTexts <- MCCriteriaTexts
    ActionTexts <- MCActionTexts
    Vlans <- MCVlans
    Notices <- MCNotices
    Requests <- MCRequests
    PortConfigs <- MCPortConfigs
    MaxFlows = 2
    Threads <- MCThreads
    Answers <- MCAnswers
    CounterRange = 4
    MaxRequests = 3
    Ids <- MCIds
    Page = 2
    MaxSize = 3
    Data <- MCData
    CallerSize = 2
    MaxCalls = 4
    Workloads <- MCWorkloads
SPECIFICATION MCSpec
INVARIANTS
    ContentIsReference
    
    StatisticsAreWhole
    MessagesSurvive
CHECK_DEADLOCK FALSE
