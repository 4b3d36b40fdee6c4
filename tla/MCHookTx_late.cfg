SPECIFICATION Spec
CONSTANTS
    main = main
    worker = worker
    game = game
    Thread <- Peers
    Addr <- Code
    Slot <- Import
    Stage <- FourStages
    MaxClaims = 4
    MaxThreads = 2
    ForeignAddr <- Touched
    Faults <- NoCut
INVARIANT NobodyTorn
