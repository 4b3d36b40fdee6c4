SPECIFICATION Spec
CONSTANTS
    cab = cab
    front = front
    mine = mine
    lever = lever
    drive = drive
    escape = escape
    l1 = l1
    l2 = l2
    View <- Cameras
    Tracking <- Orbited
    Train <- OneTrain
    Node <- OneNode
    Action <- Actions
    Open <- Allowed
    Lamps <- Lights
    Keys = {"toggle", "light"}
    Buttons = TRUE
    MaxTile = 1
CONSTRAINT OneConcern
INVARIANTS TypeOK MasksUndone DrivingBlocked ShownCameraExists LightFollowsWalking PointerComesBack
PROPERTIES DrawnInPlace
