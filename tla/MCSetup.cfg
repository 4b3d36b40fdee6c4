SPECIFICATION SetupSpec
CONSTANTS
    Levels = {"panel", "transaction"}
    Config = {c1, c2}
    Release = {r1, r2}
    NoFile = NoFile
    Foreign = Foreign
    BadRecord = BadRecord
    NotRunning = NotRunning
    Live = Live
    NoGame = NoGame
    Faults <- AllFaults
    Display = {"one"}
    Clickable <- MCClickable
    Editable <- MCEditable
    MaxEdits = 2
SYMMETRY Symmetry
INVARIANTS
    SetupTypeOK
    OnlyApplyStrands
    RecordTellsTruth
    RolledBackIsUnchanged
    RuntimeAccepts
    DependentsFollow
PROPERTIES
    ForeignKept
    AllOrNothing
    FormSettles
    ChoicesKept
