SPECIFICATION SetupSpec
CONSTANTS
    Levels = {"transaction"}
    Config = {c1, c2}
    Release = {r1, r2}
    NoFile = NoFile
    Foreign = Foreign
    BadRecord = BadRecord
    NotRunning = NotRunning
    Live = Live
    NoGame = NoGame
    Faults = {"crash"}
    Display = {"one"}
    Clickable <- MCClickable
    Editable <- MCEditable
    MaxEdits = 2
SYMMETRY Symmetry
INVARIANT OwnRuntimeRemovable
