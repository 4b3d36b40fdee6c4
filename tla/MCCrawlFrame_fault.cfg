SPECIFICATION Spec
CONSTANTS
    engine = engine
    wagon = wagon
    Car <- Vehicles
    Every = 1
    Faults <- NotInstalled
    Logging = FALSE
INVARIANT FaultIsInert
