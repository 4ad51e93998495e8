SPECIFICATION MCSpec
CONSTANTS
    Setups <- MCSetups
    Graphs <- MCGraphs
    SeqModulus = 3
INVARIANTS
    SettledMeansAgreed
    WaysAreFound
PROPERTIES
    NeverBackwards
    FloodEnds
CHECK_DEADLOCK FALSE
