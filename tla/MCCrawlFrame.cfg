SPECIFICATION FairSpec
CONSTANTS
    engine = engine
    wagon = wagon
    Car <- Vehicles
    Every = 2
    Faults <- FaultKinds
    Logging = FALSE
INVARIANTS TypeOK OnlyBlindFramesRepeat
PROPERTIES WholeConsistDerails OnlyLateStagesRevive CrawlingBegins
