------------------------------ MODULE Walking ------------------------------
(***************************************************************************)
(* Free walking (runtime/walking.h) and the mouse control of the external  *)
(* cameras (runtime/external-camera.h): how the game's camera, its input   *)
(* and its pointer are taken over and given back.                          *)
(*                                                                         *)
(* Everything runs on the game's frame thread, which calls in turn         *)
(*   - its input routine, detoured by walking_input: it may enter or leave *)
(*     walking, hides the driving actions from the routine, and shows them *)
(*     again afterwards,                                                   *)
(*   - its camera routine, detoured by walking_camera,                     *)
(*   - the window procedure and the renderer.                              *)
(* "at" says which of the two routines is running: the callbacks it makes  *)
(* (key events, activations of cameras, the orbit routine) are actions of  *)
(* their own and come between its beginning and its end.                   *)
(*                                                                         *)
(* Left out: where the walker moves, height, field of view, the movement   *)
(* keys and the wheel.  Positions are counted in tiles.                    *)
(***************************************************************************)
EXTENDS Flashlight, Integers

CONSTANTS
    View,       \* the cameras of the game
    Tracking,   \* those the mouse can orbit
    Train,
    Node,       \* the addresses of action nodes
    Action,     \* the names of actions
    Open,       \* those a function key or Escape is bound to, or that select a camera
    Keys,       \* the keys that are used: "toggle", "light"
    Buttons,    \* whether the right mouse button is used
    MaxTile     \* bound: tiles the origin of the world can be at

Static == "walking_view"
Nothing == "nothing"

ASSUME WalkingAssumption ==
    /\ Tracking \subseteq View
    /\ Static \notin View /\ Nothing \notin View
    /\ Nothing \notin Train
    /\ Nothing \notin Action
    /\ Open \subseteq Action
    /\ Keys \subseteq {"toggle", "light"}
    /\ Buttons \in BOOLEAN
    /\ MaxTile \in Nat

VARIABLES
    at,         \* "game", "change" and "mask" inside walking_input, "input", "camera"
    \* the game
    view,       \* the active camera, 0x7c2a88
    registered, \* its list of cameras, 0x7c2ac8
    train,      \* the train in the player's hands, 0x7c2ac0
    halted,     \* paused()
    focus,      \* crawl_control_focus()
    button,     \* the right mouse button is down
    cursor,     \* the pointer is shown
    node,       \* the registered actions
    off,        \* their disable flags, action +0x12 bit 1
    raw,        \* the devices call their raw callbacks
    origin,     \* the tile of the origin, 0x79d118
    \* walking
    active,     \* walking_state.active
    inputActive,\* walking_input_active
    pending,    \* walking_pending
    previous, wtrain, pan,
    held,       \* walking_event_held
    light,      \* walking_flashlight
    hidden,     \* walking_cursor_hidden
    saved,      \* walking_saved_cursor is a pointer
    masks,      \* walking_masks: the name saved for a node
    kept,       \* and its flag
    devices,    \* walking_devices is not empty
    masked,     \* the local of walking_input
    x, worigin, \* where the walker is, and the origin this is relative to
    drawn,      \* where the matrix of the static view is
    \* the external camera
    epan, eview, etrain, esaved,
    \* history
    want,       \* the disable flags as the game has set them
    born,       \* the nodes registered since masks were set
    lost,       \* the nodes that walking has disabled and did not reach again
    world       \* the tile the walker stands on

gameVars == <<view, registered, train, halted, focus, button>>
maskVars == <<node, off, raw, masks, kept, devices, masked, want, born, lost>>
cursorVars == <<cursor, hidden, saved, pan>>
externalVars == <<epan, eview, etrain, esaved>>
placeVars == <<x, worigin, drawn, world>>
stateVars == <<active, inputActive, pending, previous, wtrain, held, light>>
vars == <<at, gameVars, origin, maskVars, cursorVars, externalVars, placeVars, stateVars, lampVars>>

NoMasks == [n \in Node |-> Nothing]
Tiles == 0 .. MaxTile

TypeOK ==
    /\ at \in {"game", "change", "mask", "input", "camera"}
    /\ view \in View \cup {Static}
    /\ registered \subseteq View
    /\ train \in Train \cup {Nothing}
    /\ node \in [Node -> Action \cup {Nothing}]
    /\ off \in [Node -> BOOLEAN] /\ want \in [Node -> BOOLEAN]
    /\ masks \in [Node -> Action \cup {Nothing}] /\ kept \in [Node -> BOOLEAN]
    /\ born \subseteq Node /\ lost \subseteq Node
    /\ previous \in View \cup {Static, Nothing}
    /\ wtrain \in Train \cup {Nothing}
    /\ eview \in View \cup {Static, Nothing}
    /\ etrain \in Train \cup {Nothing}
    /\ held \subseteq Keys
    /\ origin \in Tiles /\ worigin \in Tiles /\ world \in Tiles
    /\ {x, drawn} \subseteq -MaxTile .. MaxTile
    /\ {halted, focus, button, cursor, raw, active, inputActive, pending, pan, light,
        hidden, saved, devices, masked, epan, esaved} \subseteq BOOLEAN
    /\ LampType

Init ==
    /\ at = "game"
    /\ view \in View
    /\ registered = View
    /\ train \in Train
    /\ halted = FALSE /\ focus = TRUE /\ button = FALSE
    /\ cursor = TRUE
    /\ node \in [Node -> Action \cup {Nothing}]
    /\ off = [n \in Node |-> FALSE] /\ want = off
    /\ raw = TRUE
    /\ origin = 0
    /\ active = FALSE /\ inputActive = FALSE /\ pending = FALSE /\ pan = FALSE
    /\ previous = Nothing /\ wtrain = Nothing
    /\ held = {} /\ light = FALSE
    /\ hidden = FALSE /\ saved = FALSE
    /\ masks = NoMasks /\ kept = [n \in Node |-> FALSE]
    /\ devices = FALSE /\ masked = FALSE /\ born = {} /\ lost = {}
    /\ x = 0 /\ worigin = 0 /\ drawn = 0 /\ world = 0
    /\ epan = FALSE /\ eview = Nothing /\ etrain = Nothing /\ esaved = FALSE
    /\ LampInit

-----------------------------------------------------------------------------
\* The pointer, walking_cursor(0) and external_reset.  A pointer somebody else has shown
\* is left as it is.  c is whether it is shown before.
AfterLook(c) == IF hidden /\ ~c THEN saved ELSE c

AfterOrbit == IF epan /\ ~cursor THEN esaved ELSE cursor

ShowPointer(c) ==
    /\ cursor' = AfterLook(c)
    /\ hidden' = FALSE /\ saved' = FALSE

HidePointer(c) ==
    /\ cursor' = FALSE
    /\ hidden' = TRUE
    /\ saved' = IF hidden THEN saved ELSE c

\* walking_reset
Reset(c) ==
    /\ active' = FALSE /\ inputActive' = FALSE /\ pending' = FALSE /\ pan' = FALSE
    /\ previous' = Nothing /\ wtrain' = Nothing
    /\ held' = {}
    /\ light' = FALSE
    /\ LampStop
    /\ ShowPointer(c)

\* The test that begins walking_input and walking_camera.
Stale == active /\ (train # wtrain \/ view # Static)

\* Mutant: the shift is applied again whenever it is looked at.
SyncOrigin_Again ==
    /\ IF active /\ origin # worigin
       THEN x' = x + (worigin - origin) /\ drawn' = x'
       ELSE UNCHANGED <<x, drawn>>
    /\ UNCHANGED <<worigin, world>>

\* walking_sync_origin
SyncOrigin ==
    /\ IF active /\ origin # worigin
       THEN /\ x' = x + (worigin - origin)
            /\ drawn' = x'
            /\ worigin' = origin
       ELSE UNCHANGED <<x, drawn, worigin>>
    /\ UNCHANGED world

\* walking_handoff_car: "found" is whether a car of the camera or of the train is readable.
Handoff(found) == train # Nothing /\ train = wtrain /\ found

\* Mutant: the camera is not looked for in the game's list.
LeaveTo_Unlisted(v) ==
    /\ \E found \in BOOLEAN: Handoff(found)
    /\ view' = v
    /\ SyncOrigin
    /\ Reset(cursor)

\* walking_activate_bridge away from the static view, when it lets the game try and the
\* game accepts the camera.
LeaveTo(v) ==
    /\ v \in registered
    /\ \E found \in BOOLEAN: Handoff(found)
    /\ view' = v
    /\ SyncOrigin
    /\ Reset(cursor)

\* walking_return_view: the camera it returns to, when the game's default is "default".
Target(default) == IF previous \in registered THEN previous ELSE default

ReturnView == \E default \in View: LeaveTo(Target(default))

\* It fails: there is no such camera, the bridge refuses it, or the game does.
ReturnFails ==
    /\ \E default \in View \cup {Nothing}:
          IF Target(default) \in registered THEN SyncOrigin ELSE UNCHANGED placeVars
    /\ UNCHANGED <<view, active, inputActive, previous, wtrain, held, light, lampVars, cursorVars>>

-----------------------------------------------------------------------------
\* walking_input.  Focus and buttons are sampled as it goes, so it is cut where they are.
InputBegins ==
    /\ at = "game"
    /\ at' = "change"
    /\ IF Stale THEN Reset(cursor) ELSE UNCHANGED <<stateVars, lampVars, cursorVars>>
    /\ UNCHANGED <<gameVars, origin, maskVars, externalVars, placeVars>>

Asked == at = "change" /\ pending /\ ~halted /\ focus

InChange ==
    /\ at' = "mask"
    /\ UNCHANGED <<registered, train, halted, focus, button, origin, maskVars, externalVars>>

\* Nothing to change, or a key or a button is still held.
ChangeWaits ==
    /\ at = "change"
    /\ UNCHANGED <<view, placeVars, stateVars, lampVars, cursorVars>>
    /\ InChange

\* Walking ends with the camera it came from.
ChangeLeaves ==
    /\ Asked /\ active /\ ~button
    /\ ReturnView
    /\ InChange

ChangeStays ==
    /\ Asked /\ active /\ ~button
    /\ ReturnFails
    /\ pending' = FALSE
    /\ InChange

\* No ground, no train or a tunnel.
ChangeRefused ==
    /\ Asked /\ ~active /\ ~button
    /\ pending' = FALSE
    /\ UNCHANGED <<view, active, inputActive, previous, wtrain, held, light>>
    /\ UNCHANGED <<placeVars, lampVars, cursorVars>>
    /\ InChange

\* Walking begins at the active camera; whether the game takes the static view is not asked.
ChangeEnters ==
    /\ Asked /\ ~active /\ ~button
    /\ train # Nothing
    /\ active' = TRUE /\ inputActive' = TRUE /\ pending' = FALSE
    /\ previous' = view /\ wtrain' = train
    /\ view' \in {view, Static}
    /\ x' = 0 /\ drawn' = 0 /\ worigin' = origin /\ world' = origin
    /\ UNCHANGED <<held, light, lampVars, cursorVars>>
    /\ InChange

Change == ChangeWaits \/ ChangeLeaves \/ ChangeStays \/ ChangeRefused \/ ChangeEnters

\* walking_mask, when every list can be read.
Driving(n) == node[n] \notin Open \cup {Nothing}

MaskedOff == [n \in Node |-> off[n] \/ Driving(n)]

MaskSucceeds ==
    /\ at = "mask" /\ inputActive
    /\ at' = "input"
    /\ masks' = node /\ kept' = off /\ off' = MaskedOff
    /\ devices' = ~halted /\ raw' = halted
    /\ masked' = TRUE
    /\ born' = {}
    /\ UNCHANGED <<gameVars, origin, node, want, lost, cursorVars, externalVars, placeVars, stateVars, lampVars>>

MaskSkipped ==
    /\ at = "mask" /\ ~inputActive
    /\ at' = "input"
    /\ UNCHANGED <<gameVars, origin, maskVars, cursorVars, externalVars, placeVars, stateVars, lampVars>>

\* A list cannot be read or is too long.  walking_unmask undoes what was set, but stops at
\* the first node it cannot read, which can be the one walking_mask has stopped behind:
\* some of the driving actions, "left", stay disabled.
MaskUndone(left) ==
    /\ off' = [n \in Node |-> off[n] \/ (n \in left /\ Driving(n))]
    /\ lost' = lost \cup {n \in left : Driving(n) /\ ~off[n]}
    /\ UNCHANGED <<node, raw, masks, kept, devices, masked, want, born>>

\* Walking ends...
MaskFailureEnds ==
    /\ at = "mask" /\ inputActive
    /\ \E left \in SUBSET Node : MaskUndone(left)
    /\ IF view = Static THEN ReturnView
       ELSE Reset(cursor) /\ UNCHANGED <<view, placeVars>>
    /\ at' = "input"
    /\ UNCHANGED <<registered, train, halted, focus, button, origin, externalVars>>

\* Mutant: the game gets its input anyway.
MaskFailureHolds_Passes ==
    /\ at = "mask" /\ inputActive
    /\ view = Static
    /\ \E left \in SUBSET Node : MaskUndone(left)
    /\ ReturnFails
    /\ at' = "input"
    /\ UNCHANGED <<pending, registered, train, halted, focus, button, origin, externalVars>>

\* ... or, if it cannot be left, the game gets no input at all.
MaskFailureHolds ==
    /\ at = "mask" /\ inputActive
    /\ view = Static
    /\ \E left \in SUBSET Node : MaskUndone(left)
    /\ ReturnFails
    /\ at' = "game"
    /\ UNCHANGED <<pending, registered, train, halted, focus, button, origin, externalVars>>

\* Mutant: an address is enough to know an action by.
Known_ByAddress(n) == node[n] # Nothing /\ masks[n] # Nothing

\* walking_unmask looks for a node of the list among the masks by address and identity.
Known(n) == node[n] # Nothing /\ node[n] = masks[n]

\* It goes through the list until it has reached the end, a node that cannot be read or
\* the 1024th one; "reached" are the nodes before that.
UnmaskedOff(reached) == [n \in Node |-> IF n \in reached /\ Known(n) THEN kept[n] ELSE off[n]]

InputEnds ==
    /\ at = "input"
    /\ at' = "game"
    /\ \E reached \in SUBSET Node :
          /\ off' = UnmaskedOff(reached)
          /\ lost' = lost \cup {n \in Node \ reached : Known(n) /\ off[n] # kept[n]}
    /\ raw' = (raw \/ devices)
    /\ masks' = NoMasks /\ kept' = [n \in Node |-> FALSE]
    /\ devices' = FALSE /\ masked' = FALSE /\ born' = {}
    /\ UNCHANGED <<gameVars, origin, node, want, cursorVars, externalVars, placeVars, stateVars, lampVars>>

-----------------------------------------------------------------------------
\* walking_event and walking_key_edge; "busy" is the event's own reason to be ignored.
KeyEvent(k) ==
    /\ at = "input"
    /\ \E down, busy \in BOOLEAN:
          LET allowed == (~busy \/ inputActive) /\ ~halted /\ focus
              edge == down /\ k \notin held
          IN  /\ held' = IF down THEN held \cup {k} ELSE held \ {k}
              /\ light' = (light # (k = "light" /\ inputActive /\ edge /\ allowed))
              /\ pending' = (pending \/ (k = "toggle" /\ edge /\ allowed))
    /\ UNCHANGED <<at, gameVars, origin, maskVars, cursorVars, externalVars, placeVars, lampVars>>
    /\ UNCHANGED <<active, inputActive, previous, wtrain>>

\* The game activates a camera, for a key or by itself.
InRoutine == at \in {"input", "camera"}

GameSelects ==
    /\ InRoutine /\ view # Static
    /\ view' \in registered
    /\ SyncOrigin
    /\ UNCHANGED <<at, registered, train, halted, focus, button, origin, maskVars>>
    /\ UNCHANGED <<cursorVars, externalVars, stateVars, lampVars>>

GameLeaves(v) ==
    /\ InRoutine /\ view = Static
    /\ LeaveTo(v)
    /\ UNCHANGED <<at, registered, train, halted, focus, button, origin, maskVars, externalVars>>

\* The bridge refuses a camera or a train it does not know, or the game refuses the camera.
SelectionRefused ==
    /\ InRoutine /\ view = Static
    /\ SyncOrigin
    /\ UNCHANGED <<at, gameVars, origin, maskVars, cursorVars, externalVars, stateVars, lampVars>>

-----------------------------------------------------------------------------
\* external_eligible; "fit" is what it asks of the camera itself and of the menus.
Eligible(fit) == view \in Tracking /\ train # Nothing /\ ~halted /\ focus /\ fit

\* Mutant: a pan lasts as long as the button is held.
PanOver_ByButton(fit) == epan /\ (~button \/ etrain # train)

\* external_maintain finds a pan to end.
PanOver(fit) == epan /\ (~Eligible(fit) \/ ~button \/ eview # view \/ etrain # train)

ExternalReset ==
    /\ epan' = FALSE /\ esaved' = FALSE
    /\ eview' = Nothing /\ etrain' = Nothing

Maintain(fit) == IF PanOver(fit) THEN ExternalReset ELSE UNCHANGED externalVars

\* The pointer after it.
Maintained(fit) == IF PanOver(fit) THEN AfterOrbit ELSE cursor

\* external_orbit, the orbit routine of a tracking camera.
InOrbit ==
    /\ at = "camera" /\ view \in Tracking
    /\ UNCHANGED <<at, gameVars, origin, maskVars, hidden, saved, pan, placeVars, stateVars, lampVars>>

\* It pans, from this call on or already.
OrbitPans ==
    /\ InOrbit
    /\ Eligible(TRUE) /\ button
    /\ epan' = TRUE /\ eview' = view /\ etrain' = train
    /\ esaved' = IF epan /\ ~PanOver(TRUE) THEN esaved ELSE Maintained(TRUE)
    /\ cursor' = FALSE

\* The window or the pointer cannot be read or set.
OrbitFails ==
    /\ InOrbit
    /\ Eligible(TRUE) /\ button
    /\ ExternalReset
    /\ cursor' = AfterOrbit

\* Not eligible, no button, or the pointer outside the window when the button went down.
OrbitRests ==
    /\ InOrbit
    /\ \E fit \in BOOLEAN:
          /\ Eligible(fit) /\ button => ~epan \/ PanOver(fit)
          /\ Maintain(fit)
          /\ cursor' = Maintained(fit)

Orbit == OrbitPans \/ OrbitFails \/ OrbitRests

-----------------------------------------------------------------------------
\* walking_camera up to the call of the game's routine.
CameraBegins(fit) ==
    /\ at = "game"
    /\ at' = "camera"
    /\ Maintain(fit)
    /\ UNCHANGED <<gameVars, origin, maskVars>>

CameraPasses ==
    /\ ~active
    /\ \E fit \in BOOLEAN: CameraBegins(fit) /\ cursor' = Maintained(fit)
    /\ UNCHANGED <<hidden, saved, pan, placeVars, stateVars, lampVars>>

CameraLetsGo ==
    /\ Stale
    /\ \E fit \in BOOLEAN: CameraBegins(fit) /\ Reset(Maintained(fit))
    /\ UNCHANGED placeVars

\* The walker looks around while the button is held, and otherwise has the pointer back.
CameraWalks ==
    /\ active /\ ~Stale
    /\ \E fit, readable \in BOOLEAN:
          /\ CameraBegins(fit)
          /\ pan' = (~halted /\ focus /\ button /\ readable)
          /\ IF pan' THEN HidePointer(Maintained(fit)) ELSE ShowPointer(Maintained(fit))
    /\ x' = x + (worigin - origin) /\ drawn' = x' /\ worigin' = origin
    /\ UNCHANGED <<world, stateVars, lampVars>>

\* Mutant: the origin is followed only before the game's routine.
CameraEnds_Unsynced ==
    /\ at = "camera"
    /\ at' = "game"
    /\ UNCHANGED <<gameVars, origin, maskVars, cursorVars, externalVars, placeVars, stateVars, lampVars>>

CameraEnds ==
    /\ at = "camera"
    /\ at' = "game"
    /\ SyncOrigin
    /\ UNCHANGED <<gameVars, origin, maskVars, cursorVars, externalVars, stateVars, lampVars>>

Camera == CameraPasses \/ CameraLetsGo \/ CameraWalks \/ CameraEnds

-----------------------------------------------------------------------------
\* walking_proc and external_message.
InWindow ==
    /\ at = "game"
    /\ UNCHANGED <<at, gameVars, origin, maskVars, placeVars, stateVars, lampVars>>

\* The button is released, the window loses the focus, a modal state or itself.
ReleaseMessage ==
    /\ InWindow
    /\ ExternalReset
    /\ pan' = FALSE
    /\ ShowPointer(AfterOrbit)

\* WM_CAPTURECHANGED
CaptureMessage ==
    /\ InWindow
    /\ ExternalReset
    /\ cursor' = AfterOrbit
    /\ UNCHANGED <<hidden, saved, pan>>

\* WM_SETCURSOR: whoever pans keeps the pointer hidden, otherwise the game shows its own.
CursorMessage ==
    /\ InWindow
    /\ \E fit \in BOOLEAN:
          /\ Maintain(fit)
          /\ IF epan /\ ~PanOver(fit)
             THEN cursor' = FALSE /\ UNCHANGED <<hidden, saved>>
             ELSE IF pan /\ inputActive /\ ~halted /\ focus
             THEN HidePointer(Maintained(fit))
             ELSE cursor' = TRUE /\ UNCHANGED <<hidden, saved>>
    /\ UNCHANGED pan

OtherMessage ==
    /\ InWindow
    /\ \E fit \in BOOLEAN: Maintain(fit) /\ cursor' = Maintained(fit)
    /\ UNCHANGED <<hidden, saved, pan>>

Message == ReleaseMessage \/ CaptureMessage \/ CursorMessage \/ OtherMessage

\* walking_light_render, before a frame is drawn.
Render ==
    /\ at = "game"
    /\ LampUpdate(active /\ view = Static /\ train = wtrain /\ light)
    /\ UNCHANGED <<at, gameVars, origin, maskVars, cursorVars, externalVars, placeVars, stateVars>>

\* walking_light_shutdown and the shutdown it precedes.
RendererShutdown ==
    /\ at = "game"
    /\ light' = FALSE
    /\ LampShutdown
    /\ UNCHANGED <<at, gameVars, origin, maskVars, cursorVars, externalVars, placeVars>>
    /\ UNCHANGED <<active, inputActive, pending, previous, wtrain, held>>

TrainLightChanges ==
    /\ at = "game" /\ "light" \in Keys
    /\ TrainLight
    /\ UNCHANGED <<at, gameVars, origin, maskVars, cursorVars, externalVars, placeVars, stateVars>>

-----------------------------------------------------------------------------
\* The game and the player.  A camera that is active is not removed.
OnlyGame ==
    UNCHANGED <<at, origin, maskVars, cursorVars, externalVars, placeVars, stateVars, lampVars>>

\* The player drives another train, or none.
TrainChanges ==
    /\ at = "game"
    /\ train' \in (Train \cup {Nothing}) \ {train}
    /\ UNCHANGED <<view, registered, halted, focus, button>>
    /\ OnlyGame

\* Another scene is shown: its camera is not activated through the detoured routine.
SceneChanges ==
    /\ at = "game"
    /\ view' \in registered \ {view}
    /\ UNCHANGED <<registered, train, halted, focus, button>>
    /\ OnlyGame

CameraListChanges ==
    /\ at = "game"
    /\ \E v \in View \ {view}:
          registered' = IF v \in registered THEN registered \ {v} ELSE registered \cup {v}
    /\ UNCHANGED <<view, train, halted, focus, button>>
    /\ OnlyGame

Pauses ==
    /\ at \in {"game", "input"}
    /\ halted' = ~halted
    /\ UNCHANGED <<view, registered, train, focus, button>>
    /\ OnlyGame

FocusChanges ==
    /\ focus' = ~focus
    /\ UNCHANGED <<view, registered, train, halted, button>>
    /\ OnlyGame

ButtonChanges ==
    /\ Buttons
    /\ button' = ~button
    /\ UNCHANGED <<view, registered, train, halted, focus>>
    /\ OnlyGame

\* The origin of the world follows the active camera.
OriginMoves ==
    /\ at \in {"game", "camera"}
    /\ origin' \in Tiles \cap {origin - 1, origin + 1}
    /\ UNCHANGED <<at, gameVars, maskVars, cursorVars, externalVars, placeVars, stateVars, lampVars>>

\* Menus register and unregister actions, also in the middle of the input routine.  Between
\* input routines the game also enables and disables them.
OnlyActions ==
    UNCHANGED <<at, gameVars, origin, raw, masks, kept, devices, masked, cursorVars,
                externalVars, placeVars, stateVars, lampVars>>

ActionGoes(n) ==
    /\ at \in {"game", "input"}
    /\ node[n] # Nothing
    /\ node' = [node EXCEPT ![n] = Nothing]
    /\ off' = [off EXCEPT ![n] = FALSE] /\ want' = [want EXCEPT ![n] = FALSE]
    /\ lost' = lost \ {n}
    /\ UNCHANGED born
    /\ OnlyActions

\* Not the same action at the same address while it is masked: walking_unmask takes it for
\* the one it has masked.
ActionComes(n, a) ==
    /\ at \in {"game", "input"}
    /\ node[n] = Nothing
    /\ masks[n] # a
    /\ node' = [node EXCEPT ![n] = a]
    /\ born' = IF masked THEN born \cup {n} ELSE born
    /\ UNCHANGED <<off, want, lost>>
    /\ OnlyActions

ActionIsSet(n, disabled) ==
    /\ at = "game"
    /\ node[n] # Nothing
    /\ off' = [off EXCEPT ![n] = disabled] /\ want' = [want EXCEPT ![n] = disabled]
    /\ lost' = lost \ {n}
    /\ UNCHANGED <<node, born>>
    /\ OnlyActions

-----------------------------------------------------------------------------
Input ==
    \/ InputBegins
    \/ Change
    \/ MaskSucceeds \/ MaskSkipped \/ MaskFailureEnds \/ MaskFailureHolds
    \/ InputEnds
    \/ \E k \in Keys: KeyEvent(k)

Select == GameSelects \/ SelectionRefused \/ \E v \in View: GameLeaves(v)

Lighting == Render \/ RendererShutdown \/ TrainLightChanges

Game ==
    \/ TrainChanges \/ SceneChanges \/ CameraListChanges
    \/ Pauses \/ FocusChanges \/ ButtonChanges \/ OriginMoves
    \/ \E n \in Node:
          \/ ActionGoes(n)
          \/ \E disabled \in BOOLEAN: ActionIsSet(n, disabled)
          \/ \E a \in Action: ActionComes(n, a)

Next == Input \/ Select \/ Camera \/ Orbit \/ Message \/ Lighting \/ Game

Spec == Init /\ [][Next]_vars

-----------------------------------------------------------------------------
\* Outside the game's input routine the devices have their callbacks, and every registered
\* action is enabled or disabled as the game has set it, whatever was registered,
\* unregistered or replaced at the same address while it was masked, and however walking
\* ended meanwhile (walking.h:340-377).  The exceptions are the actions walking_unmask did
\* not come back to: they stay disabled until the game sets them, and no later masking
\* enables one, or any other, that the game wants disabled.
MasksUndone ==
    at # "input" =>
        raw /\ \A n \in Node:
                  node[n] # Nothing => IF n \in lost THEN off[n] ELSE off[n] = want[n]

\* While walking holds the input, the game's input routine never runs with a driving action
\* that it could dispatch, also when the isolation fails halfway (walking.h:378-389).
DrivingBlocked ==
    at = "input" /\ inputActive =>
        masked /\ \A n \in Node \ born: Driving(n) => off[n]

\* The pointer is hidden only by a pan that remembers a pointer to give back, and never by
\* both pans, which would save each other's hidden pointer (walking.h:60-66,
\* external-camera.h:17-26).
PointerComesBack ==
    /\ ~cursor => hidden \/ epan
    /\ ~(hidden /\ epan)
    /\ hidden => saved
    /\ epan => esaved

\* The camera that is shown is the static one or in the game's list, although the one that
\* walking goes back to can be removed while it lasts (walking.h:207-225).
ShownCameraExists == view \in registered \cup {Static}

\* A light of ours is registered only during walking (walking.h:24-27, 185-192).
LightOnlyWalking == \A a \in Lamps: lights[a] = "ours" => active

\* The one light is made, lost and released with walking, and never taken for another.
LightFollowsWalking == LampIsOurs /\ LightOnlyWalking

\* When the camera routine ends, the static view is drawn where the walker stands, although
\* the game has moved the origin for every camera but this one (walking.h:100-114, 264-302).
DrawnInPlace ==
    [][at = "camera" /\ at' = "game" /\ active' => drawn' + origin' = world']_vars

\* "Native camera-selection actions switch directly out of FPV into the selected view when
\* MSTS accepts the selection.  A rejected selection leaves FPV active." (docs/walking.md)
\* Whenever the game may select a camera while the static view is shown, walking is active:
\* otherwise the bridge refuses whatever is selected.
SelectionLeavesFPV == InRoutine /\ view = Static /\ train # Nothing => active

\* Only a train that changes under the static view can strand it: otherwise the view is
\* shown exactly as long as walking lasts, with the train walking began with, whatever
\* ends walking (a key, a selection, a failed isolation, a lost camera, another scene).
TrainStays == [][view = Static => UNCHANGED train]_vars

ViewIsWalkings == view = Static => active /\ train = wtrain
=============================================================================
