CONSTANTS
    Printers = {"p1", "p2"}
    Texts <- MCTexts
    Workloads <- MCWorkloads
    Width = 3
    Height = 2
    Lines = 2
    BufferSize = 1
    BarWidth = 12
    Threshold = "INFO"
    Nobody = "nobody"
    NoKey = "none"
    Panes <- MCPanes
    ScreenSize <- MCScreenSize
    FirstSize <- MCFirstSize
    Prints <- MCPrints
    Programs <- MCPrograms
    Writers = {"w"}
    NoPane = "none"
SPECIFICATION MCSpec
INVARIANTS
    HighlightShown
    FocusIsExclusive
    ConsoleShowsTail
    ScreenShowsCommitted
