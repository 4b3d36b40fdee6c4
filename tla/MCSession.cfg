SPECIFICATION SessionSpec
CONSTANTS
    sim = sim
    draw = draw
    v1 = v1
    v2 = v2
    s1 = s1
    s2 = s2
    s3 = s3
    c1 = c1
    c2 = c2
    t1 = t1
    t2 = t2
    train = train
    up = up
    forward = forward
    rise = rise
    Selections <- EachAlone
    Thread <- Threads
    Sim = sim
    Vehicle <- Vehicles
    Drawer <- TwoDrawers
    Depth = 2
    Nesting = 3
    Signal <- Signals
    Capacity = 2
    MaxBackup = 2
    Fits = 2
    Records = 6
    Period = {2, 3}
    Usual = 2
    Stale = 3
    Longest = 4
    Horizon = 4
    Clock <- Clocks
    Grain = 4
    Step = {1, 3}
    MaxTime = 12
    Caller <- Callers
    Train <- Trains
    Polls = 3
    Latest = 3
    Editor = {"route", "activity"}
    Size = {1, 2}
    Launched = 1
    Arrow <- Up
    Letter <- Letters
    Bound <- UpIsForward
    CtrlBound <- CtrlUpIsRise
INVARIANTS
    SessionTypeOK
    OwnInputOnly
    NoticeDue
    PacedApart
    NoDrift
    LoaderWaits
    FrameRestored
    KeysReleased
PROPERTIES
    LogKept
    CallsAsEver
