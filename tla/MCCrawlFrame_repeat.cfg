SPECIFICATION Spec
CONSTANTS
    engine = engine
    wagon = wagon
    Car <- OneVehicle
    Every = 1
    Faults = {}
    Logging = FALSE
INVARIANT PressPays
