SPECIFICATION Spec
CONSTANTS
    cab = cab
    front = front
    mine = mine
    lever = lever
    drive = drive
    escape = escape
    l1 = l1
    l2 = l2
    View <- Cameras
    Tracking <- Orbited
    Train <- OneTrain
    Node <- NoNode
    Action <- Actions
    Open <- Allowed
    Lamps <- OneLight
    Keys = {"toggle"}
    Buttons = FALSE
    MaxTile = 0
INVARIANTS SelectionLeavesFPV
