SPECIFICATION Spec
CONSTANTS
    engine = engine
    wagon = wagon
    Car <- OneVehicle
    Every = 1
    Faults <- Installed
    Logging = TRUE
INVARIANT StatusOfOneMoment
