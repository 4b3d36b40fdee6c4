--------------------------- MODULE Walking_proofs ---------------------------
(***************************************************************************)
(* Proofs about Walking for every set of cameras, trains, action nodes,    *)
(* names of actions and lights, and for every bound of the origin.         *)
(***************************************************************************)
EXTENDS Walking, TLAPS

(***************************************************************************)
(* Type correctness and the walker's place.  That x stays within the tiles *)
(* of the world needs what it is: where the walker stands, relative to the *)
(* origin that walking knows.                                              *)
(***************************************************************************)
GameType ==
    /\ view \in View \cup {Static}
    /\ registered \subseteq View
    /\ train \in Train \cup {Nothing}
    /\ halted \in BOOLEAN /\ focus \in BOOLEAN /\ button \in BOOLEAN

MaskType ==
    /\ node \in [Node -> Action \cup {Nothing}]
    /\ off \in [Node -> BOOLEAN] /\ want \in [Node -> BOOLEAN]
    /\ masks \in [Node -> Action \cup {Nothing}] /\ kept \in [Node -> BOOLEAN]
    /\ born \subseteq Node /\ lost \subseteq Node
    /\ raw \in BOOLEAN /\ devices \in BOOLEAN /\ masked \in BOOLEAN

PointerType ==
    /\ cursor \in BOOLEAN /\ hidden \in BOOLEAN
    /\ saved \in BOOLEAN /\ pan \in BOOLEAN

ExternalType ==
    /\ epan \in BOOLEAN /\ esaved \in BOOLEAN
    /\ eview \in View \cup {Static, Nothing}
    /\ etrain \in Train \cup {Nothing}

StateType ==
    /\ active \in BOOLEAN /\ inputActive \in BOOLEAN
    /\ pending \in BOOLEAN /\ light \in BOOLEAN
    /\ previous \in View \cup {Static, Nothing}
    /\ wtrain \in Train \cup {Nothing}
    /\ held \subseteq Keys

InPlace == x = world - worigin /\ drawn = x

PlaceInv ==
    /\ origin \in Tiles /\ worigin \in Tiles /\ world \in Tiles
    /\ InPlace

PcType == at \in {"game", "change", "mask", "input", "camera"}

TypeInv ==
    /\ PcType /\ GameType /\ MaskType /\ PointerType /\ ExternalType
    /\ StateType /\ PlaceInv /\ LampType

\* The walker's place bounds x and drawn.
LEMMA PlaceBounds == PlaceInv => {x, drawn} \subseteq -MaxTile .. MaxTile
  BY WalkingAssumption DEF PlaceInv, InPlace, Tiles, WalkingAssumption

LEMMA TypeInvImplies == TypeInv => TypeOK
  BY PlaceBounds
  DEF TypeInv, TypeOK, PcType, GameType, MaskType, PointerType, ExternalType, StateType, PlaceInv

LEMMA TypeInit == Init => TypeInv
<1> SUFFICES ASSUME Init PROVE TypeInv
  OBVIOUS
<1>1. MaskType
  BY WalkingAssumption DEF Init, MaskType, NoMasks
<1>2. PlaceInv
  BY WalkingAssumption DEF Init, PlaceInv, InPlace, Tiles, WalkingAssumption
<1>3. LampType
  BY DEF Init, LampInit, LampType
<1>4. PcType /\ GameType /\ PointerType /\ ExternalType /\ StateType
  BY DEF Init, PcType, GameType, PointerType, ExternalType, StateType
<1> QED  BY <1>1, <1>2, <1>3, <1>4 DEF TypeInv

\* What a step leaves alone keeps its type.
LEMMA GameKept == GameType /\ UNCHANGED gameVars => GameType'
  BY DEF GameType, gameVars
LEMMA MaskKept == MaskType /\ UNCHANGED maskVars => MaskType'
  BY DEF MaskType, maskVars
\* What a failed mask leaves behind is typed like any other mask.
LEMMA UndoneType ==
    ASSUME MaskType, NEW left \in SUBSET Node, MaskUndone(left)
    PROVE  MaskType'
  BY DEF MaskUndone, MaskType
LEMMA PointerKept == PointerType /\ UNCHANGED cursorVars => PointerType'
  BY DEF PointerType, cursorVars
LEMMA ExternalKept == ExternalType /\ UNCHANGED externalVars => ExternalType'
  BY DEF ExternalType, externalVars
LEMMA StateKept == StateType /\ UNCHANGED stateVars => StateType'
  BY DEF StateType, stateVars
LEMMA PlaceKept == PlaceInv /\ UNCHANGED <<origin, placeVars>> => PlaceInv'
  BY DEF PlaceInv, InPlace, placeVars
LEMMA LampKept == LampType /\ UNCHANGED lampVars => LampType'
  BY DEF LampType, lampVars

\* The operations of the lamp.
LEMMA StopType == LampType /\ LampStop => LampType'
  BY DEF LampType, LampStop, SlotWithout, LightsWithout, Owned

LEMMA UpdateType ==
    ASSUME LampType, NEW enabled, LampUpdate(enabled)
    PROVE  LampType'
<1>1. CASE LampStop  BY <1>1, StopType
<1>2. CASE LampShow
  <2>1. lamp' \in Lamps /\ lights' \in [Lamps -> {"ours", "train", "free"}]
    BY <1>2 DEF LampShow, LampType, Owned
  <2>2. slot' \in Lamps \cup {NoLamp} /\ beam' \in BOOLEAN
    BY <1>2, <2>1 DEF LampShow, LampType
  <2> QED  BY <2>1, <2>2 DEF LampType
<1>3. CASE LampFails
  BY <1>3 DEF LampFails, LampType, SlotWithout, Owned
<1> QED  BY <1>1, <1>2, <1>3 DEF LampUpdate

LEMMA ShutdownType == LampType /\ LampShutdown => LampType'
  BY DEF LampType, LampShutdown, LampForget

LEMMA TrainLightType == LampType /\ TrainLight => LampType'
<1> SUFFICES ASSUME LampType, TrainLight PROVE LampType'
  OBVIOUS
<1>1. CASE TrainLightOn  BY <1>1 DEF TrainLightOn, LampType
<1>2. CASE TrainLightOff  BY <1>2 DEF TrainLightOff, LampType
<1> QED  BY <1>1, <1>2 DEF TrainLight

\* The operations of walking.
LEMMA ResetType ==
    ASSUME StateType, PointerType, LampType, NEW c \in BOOLEAN, Reset(c)
    PROVE  StateType' /\ PointerType' /\ LampType'
<1>1. LampType'  BY StopType DEF Reset
<1>2. PointerType'  BY DEF Reset, PointerType, ShowPointer, AfterLook
<1>3. StateType'  BY DEF Reset, StateType
<1> QED  BY <1>1, <1>2, <1>3

\* Following the origin keeps the walker where it stands.
LEMMA SyncPlace == PlaceInv /\ SyncOrigin /\ UNCHANGED origin => PlaceInv'
  BY DEF PlaceInv, InPlace, SyncOrigin, Tiles

LEMMA LeaveType ==
    ASSUME TypeInv, NEW v, LeaveTo(v), UNCHANGED origin
    PROVE  view' \in registered /\ StateType' /\ PointerType' /\ LampType' /\ PlaceInv'
<1>1. cursor \in BOOLEAN  BY DEF TypeInv, PointerType
<1>2. StateType' /\ PointerType' /\ LampType'
  BY <1>1, ResetType DEF LeaveTo, TypeInv
<1>3. PlaceInv'  BY SyncPlace DEF LeaveTo, TypeInv
<1> QED  BY <1>2, <1>3 DEF LeaveTo

LEMMA ReturnType ==
    ASSUME TypeInv, ReturnView, UNCHANGED origin
    PROVE  view' \in registered /\ StateType' /\ PointerType' /\ LampType' /\ PlaceInv'
<1>1. PICK default \in View: LeaveTo(Target(default))
  BY DEF ReturnView
<1> QED  BY <1>1, LeaveType

\* pending is left to the caller.
LEMMA StaysType ==
    ASSUME TypeInv, ReturnFails, UNCHANGED origin, pending' \in BOOLEAN
    PROVE  StateType' /\ PointerType' /\ LampType' /\ PlaceInv' /\ view' = view
<1>1. PlaceInv'
  <2>1. SyncOrigin \/ UNCHANGED placeVars  BY DEF ReturnFails
  <2> QED  BY <2>1, SyncPlace, PlaceKept DEF TypeInv
<1>2. PointerType' /\ LampType'
  BY PointerKept, LampKept DEF ReturnFails, TypeInv
<1>3. StateType'
  BY DEF ReturnFails, TypeInv, StateType
<1> QED  BY <1>1, <1>2, <1>3 DEF ReturnFails

\* The steps of the input routine.
LEMMA InputTypeStep == TypeInv /\ Input => TypeInv'
<1> SUFFICES ASSUME TypeInv, Input PROVE TypeInv'
  OBVIOUS
<1>p. /\ PcType /\ GameType /\ MaskType /\ PointerType /\ ExternalType
      /\ StateType /\ PlaceInv /\ LampType
  BY DEF TypeInv
<1>1. CASE InputBegins
  <2>1. StateType' /\ PointerType' /\ LampType'
    BY <1>1, <1>p, ResetType, StateKept, PointerKept, LampKept
    DEF InputBegins, PointerType
  <2>2. GameType' /\ MaskType' /\ ExternalType' /\ PlaceInv'
    BY <1>1, <1>p, GameKept, MaskKept, ExternalKept, PlaceKept DEF InputBegins
  <2> QED  BY <1>1, <2>1, <2>2 DEF InputBegins, PcType, TypeInv
<1>2. CASE Change
  <2>i. InChange
    BY <1>2 DEF Change, ChangeWaits, ChangeLeaves, ChangeStays, ChangeRefused, ChangeEnters
  <2>m. PcType' /\ MaskType' /\ ExternalType' /\ UNCHANGED origin
    BY <2>i, <1>p, MaskKept, ExternalKept DEF InChange, PcType
  <2>g. ASSUME view' \in View \cup {Static} PROVE GameType'
    BY <2>g, <2>i, <1>p DEF InChange, GameType
  <2>1. CASE ChangeWaits
    <3>1. StateType' /\ PointerType' /\ LampType' /\ PlaceInv'
      BY <2>1, <2>m, <1>p, StateKept, PointerKept, LampKept, PlaceKept DEF ChangeWaits
    <3>2. GameType'  BY <2>1, <2>g, <1>p DEF ChangeWaits, GameType
    <3> QED  BY <2>m, <3>1, <3>2 DEF TypeInv
  <2>2. CASE ChangeLeaves
    <3>1. view' \in registered /\ StateType' /\ PointerType' /\ LampType' /\ PlaceInv'
      BY <2>2, <2>m, ReturnType DEF ChangeLeaves
    <3>2. GameType'  BY <3>1, <2>g, <1>p DEF GameType
    <3> QED  BY <2>m, <3>1, <3>2 DEF TypeInv
  <2>3. CASE ChangeStays
    <3>1. StateType' /\ PointerType' /\ LampType' /\ PlaceInv' /\ view' = view
      BY <2>3, <2>m, StaysType DEF ChangeStays
    <3>2. GameType'  BY <3>1, <2>g, <1>p DEF GameType
    <3> QED  BY <2>m, <3>1, <3>2 DEF TypeInv
  <2>4. CASE ChangeRefused
    <3>1. PointerType' /\ LampType' /\ PlaceInv'
      BY <2>4, <2>m, <1>p, PointerKept, LampKept, PlaceKept DEF ChangeRefused
    <3>2. StateType'  BY <2>4, <1>p DEF ChangeRefused, StateType
    <3>3. GameType'  BY <2>4, <2>g, <1>p DEF ChangeRefused, GameType
    <3> QED  BY <2>m, <3>1, <3>2, <3>3 DEF TypeInv
  <2>5. CASE ChangeEnters
    <3>1. PointerType' /\ LampType'
      BY <2>5, <1>p, PointerKept, LampKept DEF ChangeEnters
    <3>2. StateType'  BY <2>5, <1>p DEF ChangeEnters, StateType, GameType
    <3>3. GameType'  BY <2>5, <2>g, <1>p DEF ChangeEnters, GameType
    <3>4. PlaceInv'  BY <2>5, <2>m, <1>p DEF ChangeEnters, PlaceInv, InPlace, Tiles
    <3> QED  BY <2>m, <3>1, <3>2, <3>3, <3>4 DEF TypeInv
  <2> QED  BY <1>2, <2>1, <2>2, <2>3, <2>4, <2>5 DEF Change
<1>3. CASE MaskSucceeds
  <2>1. MaskType'
    BY <1>3, <1>p DEF MaskSucceeds, MaskType, MaskedOff, GameType
  <2>2. GameType' /\ ExternalType' /\ PlaceInv' /\ StateType' /\ PointerType' /\ LampType'
    BY <1>3, <1>p, GameKept, ExternalKept, PlaceKept, StateKept, PointerKept, LampKept
    DEF MaskSucceeds
  <2> QED  BY <1>3, <2>1, <2>2 DEF MaskSucceeds, PcType, TypeInv
<1>4. CASE MaskSkipped
  BY <1>4, <1>p, GameKept, MaskKept, ExternalKept, PlaceKept, StateKept, PointerKept, LampKept
  DEF MaskSkipped, PcType, TypeInv
<1>5. CASE MaskFailureEnds
  <2>1. MaskType' /\ ExternalType' /\ UNCHANGED origin
    BY <1>5, <1>p, UndoneType, ExternalKept DEF MaskFailureEnds
  <2>2. view' \in View \cup {Static} /\ StateType' /\ PointerType' /\ LampType' /\ PlaceInv'
    <3>1. CASE ReturnView
      BY <3>1, <2>1, <1>p, ReturnType DEF GameType
    <3>2. CASE Reset(cursor) /\ UNCHANGED <<view, placeVars>>
      BY <3>2, <2>1, <1>p, ResetType, PlaceKept DEF GameType, PointerType
    <3> QED  BY <1>5, <3>1, <3>2 DEF MaskFailureEnds
  <2>3. GameType'  BY <1>5, <2>2, <1>p DEF MaskFailureEnds, GameType
  <2> QED  BY <1>5, <2>1, <2>2, <2>3 DEF MaskFailureEnds, PcType, TypeInv
<1>6. CASE MaskFailureHolds
  <2>1. MaskType' /\ ExternalType' /\ UNCHANGED origin /\ pending' \in BOOLEAN
    BY <1>6, <1>p, UndoneType, ExternalKept DEF MaskFailureHolds, StateType
  <2>2. StateType' /\ PointerType' /\ LampType' /\ PlaceInv' /\ view' = view
    BY <1>6, <2>1, StaysType DEF MaskFailureHolds
  <2>3. GameType'  BY <1>6, <2>2, <1>p DEF MaskFailureHolds, GameType
  <2> QED  BY <1>6, <2>1, <2>2, <2>3 DEF MaskFailureHolds, PcType, TypeInv
<1>7. CASE InputEnds
  <2>1. MaskType'
    BY <1>7, <1>p DEF InputEnds, MaskType, UnmaskedOff, NoMasks
  <2>2. GameType' /\ ExternalType' /\ PlaceInv' /\ StateType' /\ PointerType' /\ LampType'
    BY <1>7, <1>p, GameKept, ExternalKept, PlaceKept, StateKept, PointerKept, LampKept
    DEF InputEnds
  <2> QED  BY <1>7, <2>1, <2>2 DEF InputEnds, PcType, TypeInv
<1>8. ASSUME NEW k \in Keys, KeyEvent(k) PROVE TypeInv'
  <2>1. StateType'
    <3>1. PICK down \in BOOLEAN, busy \in BOOLEAN:
            /\ held' = IF down THEN held \cup {k} ELSE held \ {k}
            /\ light' \in BOOLEAN /\ pending' \in BOOLEAN
      BY <1>8 DEF KeyEvent
    <3> QED  BY <1>8, <3>1, <1>p DEF KeyEvent, StateType
  <2> QED
    BY <1>8, <2>1, <1>p, GameKept, MaskKept, ExternalKept, PlaceKept, PointerKept, LampKept
    DEF KeyEvent, PcType, TypeInv
<1> QED  BY <1>1, <1>2, <1>3, <1>4, <1>5, <1>6, <1>7, <1>8 DEF Input

LEMMA SelectTypeStep == TypeInv /\ Select => TypeInv'
<1> SUFFICES ASSUME TypeInv, Select PROVE TypeInv'
  OBVIOUS
<1>p. /\ PcType /\ GameType /\ MaskType /\ PointerType /\ ExternalType
      /\ StateType /\ PlaceInv /\ LampType
  BY DEF TypeInv
<1>1. CASE GameSelects
  <2>1. GameType'  BY <1>1, <1>p DEF GameSelects, GameType
  <2>2. PlaceInv'  BY <1>1, <1>p, SyncPlace DEF GameSelects
  <2> QED
    BY <1>1, <2>1, <2>2, <1>p, MaskKept, PointerKept, ExternalKept, StateKept, LampKept
    DEF GameSelects, PcType, TypeInv
<1>2. CASE SelectionRefused
  <2>1. PlaceInv'  BY <1>2, <1>p, SyncPlace DEF SelectionRefused
  <2> QED
    BY <1>2, <2>1, <1>p, GameKept, MaskKept, PointerKept, ExternalKept, StateKept, LampKept
    DEF SelectionRefused, PcType, TypeInv
<1>3. ASSUME NEW v \in View, GameLeaves(v) PROVE TypeInv'
  <2>1. view' \in registered /\ StateType' /\ PointerType' /\ LampType' /\ PlaceInv'
    BY <1>3, LeaveType DEF GameLeaves
  <2>2. GameType'  BY <1>3, <2>1, <1>p DEF GameLeaves, GameType
  <2>3. PcType' /\ MaskType' /\ ExternalType'
    BY <1>3, <1>p, MaskKept, ExternalKept DEF GameLeaves, PcType
  <2> QED  BY <2>1, <2>2, <2>3 DEF TypeInv
<1> QED  BY <1>1, <1>2, <1>3 DEF Select

\* The pan of the external camera.
LEMMA MaintainType ==
    ASSUME TypeInv, NEW fit \in BOOLEAN
    PROVE  /\ Maintained(fit) \in BOOLEAN
           /\ AfterOrbit \in BOOLEAN
           /\ Maintain(fit) => ExternalType'
<1>1. ExternalType /\ PointerType  BY DEF TypeInv
<1>2. ExternalReset => ExternalType'  BY DEF ExternalReset, ExternalType
<1>3. AfterOrbit \in BOOLEAN  BY <1>1 DEF AfterOrbit, ExternalType, PointerType
<1> QED
  BY <1>1, <1>2, <1>3, ExternalKept DEF Maintain, Maintained, PointerType

LEMMA OrbitTypeStep == TypeInv /\ Orbit => TypeInv'
<1> SUFFICES ASSUME TypeInv, Orbit PROVE TypeInv'
  OBVIOUS
<1>p. /\ PcType /\ GameType /\ MaskType /\ PointerType /\ ExternalType
      /\ StateType /\ PlaceInv /\ LampType
  BY DEF TypeInv
<1>i. InOrbit  BY DEF Orbit, OrbitPans, OrbitFails, OrbitRests
<1>1. cursor' \in BOOLEAN /\ ExternalType'
  <2>1. CASE OrbitPans
    <3>1. Maintained(TRUE) \in BOOLEAN  BY MaintainType
    <3>2. esaved' \in BOOLEAN  BY <2>1, <3>1, <1>p DEF OrbitPans, ExternalType
    <3>3. view \in View \cup {Static} /\ train \in Train \cup {Nothing}
      BY <1>p DEF GameType
    <3> QED  BY <2>1, <3>2, <3>3 DEF OrbitPans, ExternalType
  <2>2. CASE OrbitFails
    BY <2>2, MaintainType DEF OrbitFails, ExternalReset, ExternalType
  <2>3. CASE OrbitRests
    BY <2>3, MaintainType DEF OrbitRests
  <2> QED  BY <2>1, <2>2, <2>3 DEF Orbit
<1>2. PointerType'  BY <1>1, <1>i, <1>p DEF InOrbit, PointerType
<1> QED
  BY <1>1, <1>2, <1>i, <1>p, GameKept, MaskKept, StateKept, PlaceKept, LampKept
  DEF InOrbit, PcType, TypeInv

\* Hiding and showing the pointer.
LEMMA CursorType ==
    ASSUME PointerType, NEW c \in BOOLEAN, pan' \in BOOLEAN,
           ShowPointer(c) \/ HidePointer(c)
    PROVE  PointerType'
  BY DEF ShowPointer, HidePointer, AfterLook, PointerType

LEMMA CameraTypeStep == TypeInv /\ Camera => TypeInv'
<1> SUFFICES ASSUME TypeInv, Camera PROVE TypeInv'
  OBVIOUS
<1>p. /\ PcType /\ GameType /\ MaskType /\ PointerType /\ ExternalType
      /\ StateType /\ PlaceInv /\ LampType
  BY DEF TypeInv
<1>b. ASSUME NEW fit \in BOOLEAN, CameraBegins(fit)
      PROVE  PcType' /\ GameType' /\ MaskType' /\ ExternalType' /\ UNCHANGED origin
  BY <1>b, <1>p, MaintainType, GameKept, MaskKept DEF CameraBegins, PcType
<1>1. CASE CameraPasses
  <2>1. PICK fit \in BOOLEAN: CameraBegins(fit) /\ cursor' = Maintained(fit)
    BY <1>1 DEF CameraPasses
  <2>2. PointerType'
    BY <1>1, <2>1, <1>p, MaintainType DEF CameraPasses, PointerType
  <2>3. StateType' /\ PlaceInv' /\ LampType'
    BY <1>1, <2>1, <1>b, <1>p, StateKept, PlaceKept, LampKept DEF CameraPasses
  <2> QED  BY <2>1, <2>2, <2>3, <1>b DEF TypeInv
<1>2. CASE CameraLetsGo
  <2>1. PICK fit \in BOOLEAN: CameraBegins(fit) /\ Reset(Maintained(fit))
    BY <1>2 DEF CameraLetsGo
  <2>2. StateType' /\ PointerType' /\ LampType'
    BY <2>1, <1>p, MaintainType, ResetType
  <2>3. PlaceInv'  BY <1>2, <2>1, <1>b, <1>p, PlaceKept DEF CameraLetsGo
  <2> QED  BY <2>1, <2>2, <2>3, <1>b DEF TypeInv
<1>3. CASE CameraWalks
  <2>1. PICK fit \in BOOLEAN, readable \in BOOLEAN:
          /\ CameraBegins(fit)
          /\ pan' = (~halted /\ focus /\ button /\ readable)
          /\ IF pan' THEN HidePointer(Maintained(fit)) ELSE ShowPointer(Maintained(fit))
    BY <1>3 DEF CameraWalks
  <2>2. pan' \in BOOLEAN  BY <2>1, <1>p DEF GameType
  <2>3. PointerType'
    BY <2>1, <2>2, <1>p, MaintainType, CursorType
  <2>4. PlaceInv'
    BY <1>3, <2>1, <1>b, <1>p DEF CameraWalks, PlaceInv, InPlace, Tiles
  <2>5. StateType' /\ LampType'
    BY <1>3, <1>p, StateKept, LampKept DEF CameraWalks
  <2> QED  BY <2>1, <2>3, <2>4, <2>5, <1>b DEF TypeInv
<1>4. CASE CameraEnds
  <2>1. PlaceInv'  BY <1>4, <1>p, SyncPlace DEF CameraEnds
  <2> QED
    BY <1>4, <2>1, <1>p, GameKept, MaskKept, PointerKept, ExternalKept, StateKept, LampKept
    DEF CameraEnds, PcType, TypeInv
<1> QED  BY <1>1, <1>2, <1>3, <1>4 DEF Camera

LEMMA MessageTypeStep == TypeInv /\ Message => TypeInv'
<1> SUFFICES ASSUME TypeInv, Message PROVE TypeInv'
  OBVIOUS
<1>p. /\ PcType /\ GameType /\ MaskType /\ PointerType /\ ExternalType
      /\ StateType /\ PlaceInv /\ LampType
  BY DEF TypeInv
<1>i. InWindow
  BY DEF Message, ReleaseMessage, CaptureMessage, CursorMessage, OtherMessage
<1>1. PcType' /\ GameType' /\ MaskType' /\ StateType' /\ PlaceInv' /\ LampType'
  BY <1>i, <1>p, GameKept, MaskKept, StateKept, PlaceKept, LampKept DEF InWindow, PcType
<1>2. ExternalReset => ExternalType'
  BY DEF ExternalReset, ExternalType
<1>3. PointerType' /\ ExternalType'
  <2>1. CASE ReleaseMessage
    BY <2>1, <1>2, <1>p, MaintainType, CursorType DEF ReleaseMessage
  <2>2. CASE CaptureMessage
    BY <2>2, <1>2, <1>p, MaintainType DEF CaptureMessage, PointerType
  <2>3. CASE CursorMessage
    <3>1. PICK fit \in BOOLEAN:
            /\ Maintain(fit)
            /\ \/ cursor' \in BOOLEAN /\ UNCHANGED <<hidden, saved>>
               \/ HidePointer(Maintained(fit))
      BY <2>3 DEF CursorMessage
    <3>2. pan' = pan  BY <2>3 DEF CursorMessage
    <3> QED  BY <3>1, <3>2, <1>p, MaintainType, CursorType DEF PointerType
  <2>4. CASE OtherMessage
    BY <2>4, <1>p, MaintainType DEF OtherMessage, PointerType
  <2> QED  BY <2>1, <2>2, <2>3, <2>4 DEF Message
<1> QED  BY <1>1, <1>3 DEF TypeInv

LEMMA LightingTypeStep == TypeInv /\ Lighting => TypeInv'
<1> SUFFICES ASSUME TypeInv, Lighting PROVE TypeInv'
  OBVIOUS
<1>p. /\ PcType /\ GameType /\ MaskType /\ PointerType /\ ExternalType
      /\ StateType /\ PlaceInv /\ LampType
  BY DEF TypeInv
<1>1. /\ UNCHANGED <<at, gameVars, origin, maskVars, cursorVars, externalVars, placeVars>>
      /\ UNCHANGED <<active, inputActive, pending, previous, wtrain, held>>
      /\ light' \in {light, FALSE}
  BY DEF Lighting, Render, RendererShutdown, TrainLightChanges, stateVars
<1>2. StateType'  BY <1>1, <1>p DEF StateType
<1>3. LampType'
  BY <1>p, UpdateType, ShutdownType, TrainLightType
  DEF Lighting, Render, RendererShutdown, TrainLightChanges
<1> QED
  BY <1>1, <1>2, <1>3, <1>p, GameKept, MaskKept, PointerKept, ExternalKept, PlaceKept
  DEF PcType, TypeInv

LEMMA GameTypeStep == TypeInv /\ Game => TypeInv'
<1> SUFFICES ASSUME TypeInv, Game PROVE TypeInv'
  OBVIOUS
<1>p. /\ PcType /\ GameType /\ MaskType /\ PointerType /\ ExternalType
      /\ StateType /\ PlaceInv /\ LampType
  BY DEF TypeInv
<1>o. ASSUME OnlyGame, GameType' PROVE TypeInv'
  BY <1>o, <1>p, MaskKept, PointerKept, ExternalKept, StateKept, PlaceKept, LampKept
  DEF OnlyGame, PcType, TypeInv
<1>a. ASSUME OnlyActions, node' \in [Node -> Action \cup {Nothing}],
             off' \in [Node -> BOOLEAN], want' \in [Node -> BOOLEAN], born' \subseteq Node,
             lost' \subseteq Node
      PROVE  TypeInv'
  <2>1. MaskType'  BY <1>a, <1>p DEF OnlyActions, MaskType
  <2> QED
    BY <1>a, <2>1, <1>p, GameKept, PointerKept, ExternalKept, StateKept, PlaceKept, LampKept
    DEF OnlyActions, PcType, TypeInv
<1>1. CASE TrainChanges
  BY <1>1, <1>o, <1>p DEF TrainChanges, GameType
<1>2. CASE SceneChanges
  BY <1>2, <1>o, <1>p DEF SceneChanges, GameType
<1>3. CASE CameraListChanges
  BY <1>3, <1>o, <1>p DEF CameraListChanges, GameType
<1>4. CASE Pauses
  BY <1>4, <1>o, <1>p DEF Pauses, GameType
<1>5. CASE FocusChanges
  BY <1>5, <1>o, <1>p DEF FocusChanges, GameType
<1>6. CASE ButtonChanges
  BY <1>6, <1>o, <1>p DEF ButtonChanges, GameType
<1>7. CASE OriginMoves
  <2>1. PlaceInv'  BY <1>7, <1>p DEF OriginMoves, PlaceInv, InPlace, placeVars
  <2> QED
    BY <1>7, <2>1, <1>p, GameKept, MaskKept, PointerKept, ExternalKept, StateKept, LampKept
    DEF OriginMoves, PcType, TypeInv
<1>8. ASSUME NEW n \in Node, ActionGoes(n) PROVE TypeInv'
  BY <1>8, <1>a, <1>p DEF ActionGoes, MaskType
<1>9. ASSUME NEW n \in Node, NEW a \in Action, ActionComes(n, a) PROVE TypeInv'
  BY <1>9, <1>a, <1>p DEF ActionComes, MaskType
<1>10. ASSUME NEW n \in Node, NEW disabled \in BOOLEAN, ActionIsSet(n, disabled)
       PROVE  TypeInv'
  BY <1>10, <1>a, <1>p DEF ActionIsSet, MaskType
<1> QED  BY <1>1, <1>2, <1>3, <1>4, <1>5, <1>6, <1>7, <1>8, <1>9, <1>10 DEF Game

LEMMA TypeStep == TypeInv /\ [Next]_vars => TypeInv'
<1> SUFFICES ASSUME TypeInv, [Next]_vars PROVE TypeInv'
  OBVIOUS
<1>1. CASE UNCHANGED vars
  BY <1>1, GameKept, MaskKept, PointerKept, ExternalKept, StateKept, PlaceKept, LampKept
  DEF vars, PcType, TypeInv
<1> QED
  BY <1>1, InputTypeStep, SelectTypeStep, CameraTypeStep, OrbitTypeStep, MessageTypeStep,
     LightingTypeStep, GameTypeStep DEF Next

\* Every variable keeps its type; the walker's place stays within the tiles of the world.
THEOREM TypeCorrect == Spec => []TypeOK
<1> QED  BY TypeInit, TypeStep, TypeInvImplies, PTL DEF Spec

\* Only its end ends the camera routine.
LEMMA CameraRoutineEnds ==
    ASSUME [Next]_vars, at = "camera", at' = "game"
    PROVE  CameraEnds
<1>1. ~UNCHANGED at  OBVIOUS
<1>2. ~Input
  BY DEF Input, InputBegins, Change, ChangeWaits, ChangeLeaves, ChangeStays, ChangeRefused,
         ChangeEnters, MaskSucceeds, MaskSkipped, MaskFailureEnds, MaskFailureHolds,
         InputEnds, KeyEvent, Asked
<1>3. ~Select
  BY <1>1 DEF Select, GameSelects, SelectionRefused, GameLeaves
<1>4. ~Orbit
  BY <1>1 DEF Orbit, OrbitPans, OrbitFails, OrbitRests, InOrbit
<1>5. ~Message
  BY <1>1 DEF Message, ReleaseMessage, CaptureMessage, CursorMessage, OtherMessage, InWindow
<1>6. ~Lighting
  BY <1>1 DEF Lighting, Render, RendererShutdown, TrainLightChanges
<1>7. ~Game
  BY <1>1 DEF Game, TrainChanges, SceneChanges, CameraListChanges, Pauses, FocusChanges,
              ButtonChanges, OnlyGame, OriginMoves, ActionGoes, ActionComes, ActionIsSet,
              OnlyActions
<1>8. Camera  BY <1>1, <1>2, <1>3, <1>4, <1>5, <1>6, <1>7 DEF Next, vars
<1> QED  BY <1>8 DEF Camera, CameraPasses, CameraLetsGo, CameraWalks, CameraBegins

\* When the camera routine ends, the static view is drawn where the walker stands: the
\* routine ends by following the origin (walking.h:100-114, 294-301).
THEOREM WalkerDrawnInPlace == Spec => DrawnInPlace
<1>1. ASSUME TypeInv, [Next]_vars, at = "camera" /\ at' = "game" /\ active'
      PROVE  drawn' + origin' = world'
  <2>1. CameraEnds  BY <1>1, CameraRoutineEnds
  <2>2. active /\ UNCHANGED origin  BY <1>1, <2>1 DEF CameraEnds, stateVars
  <2>3. TypeInv'  BY <1>1, TypeStep
  <2>4. worigin' = origin'
    BY <2>1, <2>2 DEF CameraEnds, SyncOrigin
  <2>5. world' \in Int /\ origin' \in Int
    BY <2>3, WalkingAssumption DEF TypeInv, PlaceInv, Tiles, WalkingAssumption
  <2>6. drawn' = world' - origin'
    BY <2>3, <2>4 DEF TypeInv, PlaceInv, InPlace
  <2>7. ASSUME NEW w \in Int, NEW o \in Int PROVE (w - o) + o = w
    OBVIOUS
  <2>8. (world' - origin') + origin' = world'  BY <2>5, <2>7
  <2> QED  BY <2>6, <2>8
<1> QED  BY <1>1, TypeInit, TypeStep, PTL DEF Spec, DrawnInPlace

(***************************************************************************)
(* The light.  A light that is owned was made by this code, because every  *)
(* way a light ends also ends the reference; so only resetting or stopping *)
(* is needed for no light to outlast walking.                              *)
(***************************************************************************)
LampInv == LampIsOurs /\ LightOnlyWalking

LEMMA LampInvInit == Init => LampInv
<1> SUFFICES ASSUME Init PROVE LampInv
  OBVIOUS
<1>1. lamp = NoLamp /\ slot = NoLamp /\ \A a \in Lamps: lights[a] = "free"
  BY DEF Init, LampInit
<1> QED  BY <1>1 DEF LampInv, LampIsOurs, LightOnlyWalking

\* Stopping releases the one light there is and selects nothing that is gone.
LEMMA StopReleases ==
    ASSUME LampType, LampIsOurs, LampStop
    PROVE  LampIsOurs' /\ \A a \in Lamps: lights'[a] # "ours"
<1>1. lamp' = NoLamp  BY DEF LampStop
<1>2. CASE lamp = NoLamp
  <2>1. UNCHANGED lights /\ slot' \in {slot, NoLamp}
    BY <1>2 DEF LampStop, LightsWithout, SlotWithout, Owned
  <2> QED  BY <1>1, <1>2, <2>1, NoLampAssumption DEF LampIsOurs
<1>3. CASE lamp # NoLamp
  <2>1. lamp \in Lamps /\ lights[lamp] = "ours" /\ Owned
    BY <1>3 DEF LampIsOurs, LampType, Owned
  <2>2. lights' = [lights EXCEPT ![lamp] = "free"]
    BY <2>1 DEF LampStop, LightsWithout
  <2>3. slot' = IF slot = lamp THEN NoLamp ELSE slot
    BY DEF LampStop, SlotWithout
  <2> QED  BY <1>1, <2>1, <2>2, <2>3 DEF LampIsOurs, LampType
<1> QED  BY <1>2, <1>3

\* A light is made only when it is asked for.
LEMMA UpdateKeeps ==
    ASSUME LampType, LampIsOurs, NEW enabled \in BOOLEAN, LampUpdate(enabled)
    PROVE  LampIsOurs' /\ (enabled \/ \A a \in Lamps: lights'[a] # "ours")
<1>1. CASE LampStop /\ ~enabled  BY <1>1, StopReleases
<1>2. CASE LampShow /\ enabled
  <2>1. CASE Owned /\ lamp' = lamp /\ lights' = lights
    BY <1>2, <2>1 DEF LampShow, LampIsOurs, LampType, Owned
  <2>2. CASE ~Owned
    <3>1. lamp = NoLamp  BY <2>2 DEF Owned, LampIsOurs
    <3>2. PICK a \in Lamps: /\ lights[a] = "free"
                            /\ lamp' = a
                            /\ lights' = [lights EXCEPT ![a] = "ours"]
      BY <1>2, <2>2 DEF LampShow
    <3>3. slot' \in {slot, a}  BY <1>2, <3>2 DEF LampShow
    <3> QED  BY <1>2, <3>1, <3>2, <3>3, NoLampAssumption DEF LampIsOurs, LampType
  <2> QED  BY <1>2, <2>1, <2>2 DEF LampShow
<1>3. CASE LampFails /\ enabled
  <2>1. lights' = lights /\ lamp' = lamp /\ slot' \in {slot, NoLamp}
    BY <1>3 DEF LampFails, LampIsOurs, Owned, SlotWithout
  <2> QED  BY <1>3, <2>1 DEF LampIsOurs
<1> QED  BY <1>1, <1>2, <1>3 DEF LampUpdate

LEMMA ShutdownKeeps ==
    ASSUME LampShutdown
    PROVE  LampIsOurs' /\ \A a \in Lamps: lights'[a] # "ours"
<1>1. lamp' = NoLamp /\ slot' = NoLamp /\ \A a \in Lamps: lights'[a] = "free"
  BY DEF LampShutdown, LampForget
<1> QED  BY <1>1 DEF LampIsOurs

\* The trains switch lights on and off at other addresses.
LEMMA TrainLightKeeps ==
    ASSUME LampType, LampIsOurs, TrainLight
    PROVE  LampIsOurs' /\ \A a \in Lamps: lights'[a] = "ours" => lights[a] = "ours"
<1>1. CASE TrainLightOn
  <2>1. PICK a \in Lamps: /\ lights[a] = "free"
                          /\ lights' = [lights EXCEPT ![a] = "train"]
                          /\ slot' \in {slot, a}
    BY <1>1 DEF TrainLightOn
  <2> QED  BY <1>1, <2>1 DEF TrainLightOn, LampIsOurs, LampType
<1>2. CASE TrainLightOff
  <2>1. PICK a \in Lamps: /\ lights[a] = "train"
                          /\ lights' = [lights EXCEPT ![a] = "free"]
                          /\ slot' = IF slot = a THEN NoLamp ELSE slot
    BY <1>2 DEF TrainLightOff
  <2> QED  BY <1>2, <2>1 DEF TrainLightOff, LampIsOurs, LampType
<1> QED  BY <1>1, <1>2 DEF TrainLight

\* Walking ends with its light.
LEMMA ResetKeepsLamp ==
    ASSUME LampType, LampIsOurs, NEW c, Reset(c)
    PROVE  LampInv'
  BY StopReleases DEF Reset, LampInv, LightOnlyWalking

LEMMA LampInvStep == TypeInv /\ LampInv /\ [Next]_vars => LampInv'
<1> SUFFICES ASSUME TypeInv, LampInv, [Next]_vars PROVE LampInv'
  OBVIOUS
<1>p. LampType /\ LampIsOurs /\ LightOnlyWalking /\ active \in BOOLEAN
  BY DEF TypeInv, StateType, LampInv
<1>k. ASSUME UNCHANGED lampVars, active => active' PROVE LampInv'
  BY <1>k, <1>p DEF LampInv, LampIsOurs, LightOnlyWalking, lampVars
<1>l. ASSUME NEW v, LeaveTo(v) PROVE LampInv'
  BY <1>l, <1>p, ResetKeepsLamp DEF LeaveTo
<1>1. CASE Input
  <2>1. CASE InputBegins
    BY <2>1, <1>p, <1>k, ResetKeepsLamp DEF InputBegins, stateVars
  <2>2. CASE ChangeWaits \/ ChangeStays \/ ChangeRefused \/ MaskFailureHolds
    BY <2>2, <1>k DEF ChangeWaits, ChangeStays, ChangeRefused, MaskFailureHolds, ReturnFails,
                      stateVars
  <2>3. CASE ChangeLeaves
    BY <2>3, <1>l DEF ChangeLeaves, ReturnView
  <2>4. CASE ChangeEnters
    BY <2>4, <1>k DEF ChangeEnters
  <2>5. CASE MaskSucceeds \/ MaskSkipped \/ InputEnds
    BY <2>5, <1>k DEF MaskSucceeds, MaskSkipped, InputEnds, stateVars
  <2>6. CASE MaskFailureEnds
    BY <2>6, <1>p, <1>l, ResetKeepsLamp DEF MaskFailureEnds, ReturnView
  <2>7. ASSUME NEW k \in Keys, KeyEvent(k) PROVE LampInv'
    BY <2>7, <1>k DEF KeyEvent
  <2> QED  BY <1>1, <2>1, <2>2, <2>3, <2>4, <2>5, <2>6, <2>7 DEF Input, Change
<1>2. CASE Select
  BY <1>2, <1>k, <1>l DEF Select, GameSelects, SelectionRefused, GameLeaves, stateVars
<1>3. CASE Camera
  <2>1. CASE CameraLetsGo  BY <2>1, <1>p, ResetKeepsLamp DEF CameraLetsGo
  <2>2. CASE CameraPasses \/ CameraWalks \/ CameraEnds
    BY <2>2, <1>k DEF CameraPasses, CameraWalks, CameraEnds, stateVars
  <2> QED  BY <1>3, <2>1, <2>2 DEF Camera
<1>4. CASE Orbit
  <2>1. InOrbit  BY <1>4 DEF Orbit, OrbitPans, OrbitFails, OrbitRests
  <2> QED  BY <2>1, <1>k DEF InOrbit, stateVars
<1>5. CASE Message
  BY <1>5, <1>k DEF Message, ReleaseMessage, CaptureMessage, CursorMessage, OtherMessage,
                    InWindow, stateVars
<1>6. CASE Lighting
  <2>1. CASE Render
    <3>1. light \in BOOLEAN  BY DEF TypeInv, StateType
    <3>2. UNCHANGED active  BY <2>1 DEF Render, stateVars
    <3> DEFINE enabled == active /\ view = Static /\ train = wtrain /\ light
    <3>3. enabled \in BOOLEAN /\ (enabled => active)  BY <3>1, <1>p
    <3>4. LampUpdate(enabled)  BY <2>1 DEF Render
    <3> HIDE DEF enabled
    <3>5. LampIsOurs' /\ (enabled \/ \A a \in Lamps: lights'[a] # "ours")
      BY <3>3, <3>4, <1>p, UpdateKeeps
    <3> QED  BY <3>2, <3>3, <3>5 DEF LampInv, LightOnlyWalking
  <2>2. CASE RendererShutdown
    BY <2>2, ShutdownKeeps DEF RendererShutdown, LampInv, LightOnlyWalking
  <2>3. CASE TrainLightChanges
    BY <2>3, <1>p, TrainLightKeeps
    DEF TrainLightChanges, LampInv, LightOnlyWalking, stateVars
  <2> QED  BY <1>6, <2>1, <2>2, <2>3 DEF Lighting
<1>7. CASE Game
  BY <1>7, <1>k DEF Game, TrainChanges, SceneChanges, CameraListChanges, Pauses,
                    FocusChanges, ButtonChanges, OnlyGame, OriginMoves, ActionGoes,
                    ActionComes, ActionIsSet, OnlyActions, stateVars
<1>8. CASE UNCHANGED vars
  BY <1>8, <1>k DEF vars, stateVars
<1> QED  BY <1>1, <1>2, <1>3, <1>4, <1>5, <1>6, <1>7, <1>8 DEF Next

\* The reference is to the one light that walking made, and the shaders use no freed light,
\* though addresses are used again and trains make lights of the same type (flashlight.h:16-88).
THEOREM LampOwned == Spec => []LampIsOurs
<1>1. LampInv => LampIsOurs  BY DEF LampInv
<1> QED  BY <1>1, TypeInit, TypeStep, LampInvInit, LampInvStep, PTL DEF Spec

\* No light of walking's outlasts walking (walking.h:24-27, 185-192).
THEOREM LightEndsWithWalking == Spec => []LightOnlyWalking
<1>1. LampInv => LightOnlyWalking  BY DEF LampInv
<1> QED  BY <1>1, TypeInit, TypeStep, LampInvInit, LampInvStep, PTL DEF Spec

\* Both of it: the light is walking's own and ends with it (flashlight.h:31-67).
THEOREM LightIsWalkings == Spec => []LightFollowsWalking
<1> QED  BY LampOwned, LightEndsWithWalking, PTL DEF LightFollowsWalking

(***************************************************************************)
(* The masks.  What walking has saved of an action it still knows is what  *)
(* the game wants, and every other action is as the game wants it, except  *)
(* for the lost ones, which are disabled and saved as disabled: so the end *)
(* of the input routine gives back exactly that to every action it reaches *)
(* whatever has happened in between, loses those it does not reach, and    *)
(* nothing is saved anywhere but in the routine.                           *)
(***************************************************************************)
\* A flag is what the game wants, or disabled and known to be lost.
Flag(n, f) == IF n \in lost THEN f ELSE f = want[n]

FlagsSaved ==
    \A n \in Node: IF Known(n)
                   THEN Flag(n, kept[n]) /\ (kept[n] \/ Driving(n) => off[n])
                   ELSE Flag(n, off[n])

MaskInv ==
    /\ at # "input" => ~masked
    /\ ~masked => masks = NoMasks /\ raw /\ ~devices
    /\ raw \/ devices
    /\ FlagsSaved
    /\ masked => \A n \in Node \ born: node[n] # Nothing => node[n] = masks[n]
    /\ at = "input" /\ inputActive => masked

LEMMA MaskInvInit == Init => MaskInv
  BY DEF Init, MaskInv, FlagsSaved, Flag, Known, NoMasks

LEMMA MaskInvStep == TypeInv /\ MaskInv /\ [Next]_vars => MaskInv'
<1> SUFFICES ASSUME TypeInv, MaskInv, [Next]_vars PROVE MaskInv'
  OBVIOUS
<1>p. MaskType /\ PcType /\ StateType  BY DEF TypeInv
\* Steps that leave the actions alone and do not begin to hold the input.
<1>k. ASSUME UNCHANGED maskVars, at' = at \/ (at # "input" /\ at' # "input"),
             at = "input" => (inputActive' => inputActive)
      PROVE  MaskInv'
  BY <1>k DEF MaskInv, FlagsSaved, Flag, Known, Driving, NoMasks, maskVars
\* A mask that failed leaves a flag as it was, or disabled and lost.
<1>u. ASSUME NEW left \in SUBSET Node, MaskUndone(left), at = "mask"
      PROVE  FlagsSaved'
  <2>1. ~masked /\ masks = NoMasks  BY <1>u DEF MaskInv
  <2>2. ASSUME NEW n \in Node PROVE ~Known(n) /\ ~Known(n)' /\ Flag(n, off[n])
    BY <2>1, <1>u DEF MaskUndone, NoMasks, Known, MaskInv, FlagsSaved
  <2>3. ASSUME NEW n \in Node PROVE Flag(n, off[n])'
    <3>1. off'[n] = (off[n] \/ (n \in left /\ Driving(n)))
          /\ (n \in lost' <=> n \in lost \/ (n \in left /\ Driving(n) /\ ~off[n]))
          /\ want' = want
      BY <1>u DEF MaskUndone
    <3> QED  BY <2>2, <3>1, <1>p DEF Flag, MaskType
  <2> QED  BY <2>2, <2>3 DEF FlagsSaved
<1>1. CASE Input
  <2>1. CASE InputBegins \/ Change
    <3>1. UNCHANGED maskVars /\ at # "input" /\ at' # "input"
      BY <2>1 DEF InputBegins, Change, ChangeWaits, ChangeLeaves, ChangeStays, ChangeRefused,
                  ChangeEnters, InChange, Asked
    <3> QED  BY <3>1, <1>k
  <2>2. CASE MaskSucceeds
    <3>1. masks = NoMasks /\ raw /\ ~devices  BY <2>2 DEF MaskSucceeds, MaskInv
    <3>2. \A n \in Node: Flag(n, off[n])
      BY <3>1, <1>p DEF MaskInv, FlagsSaved, Known, NoMasks
    <3>3. FlagsSaved'
      BY <2>2, <3>2, <1>p
      DEF MaskSucceeds, FlagsSaved, Flag, Known, Driving, MaskedOff, MaskType
    <3>4. raw' \/ devices'  BY <2>2 DEF MaskSucceeds
    <3> QED  BY <2>2, <3>3, <3>4 DEF MaskSucceeds, MaskInv
  <2>3. CASE MaskSkipped
    BY <2>3 DEF MaskSkipped, MaskInv, FlagsSaved, Flag, Known, Driving, NoMasks, maskVars, stateVars
  <2>4. CASE MaskFailureEnds \/ MaskFailureHolds
    <3>1. PICK left \in SUBSET Node : MaskUndone(left)
      BY <2>4 DEF MaskFailureEnds, MaskFailureHolds
    <3>2. at = "mask" /\ at' \in {"game", "input"} /\ (at' = "input" => inputActive' = FALSE)
      BY <2>4 DEF MaskFailureEnds, MaskFailureHolds, ReturnView, LeaveTo, Reset
    <3>3. FlagsSaved'  BY <3>1, <3>2, <1>u
    <3> QED  BY <3>1, <3>2, <3>3 DEF MaskUndone, MaskInv, NoMasks
  <2>5. CASE InputEnds
    <3>1. PICK reached \in SUBSET Node :
             /\ off' = UnmaskedOff(reached)
             /\ lost' = lost \cup {n \in Node \ reached : Known(n) /\ off[n] # kept[n]}
      BY <2>5 DEF InputEnds
    <3>2. ASSUME NEW n \in Node PROVE Flag(n, off[n])'
      <4>1. off'[n] = IF n \in reached /\ Known(n) THEN kept[n] ELSE off[n]
        BY <3>1 DEF UnmaskedOff
      <4>2. n \in lost' <=> n \in lost \/ (n \notin reached /\ Known(n) /\ off[n] # kept[n])
        BY <3>1
      <4>3. want' = want  BY <2>5 DEF InputEnds
      <4>4. off[n] \in BOOLEAN /\ kept[n] \in BOOLEAN /\ want[n] \in BOOLEAN
        BY <1>p DEF MaskType
      <4>5. IF Known(n) THEN Flag(n, kept[n]) /\ (kept[n] => off[n]) ELSE Flag(n, off[n])
        BY DEF MaskInv, FlagsSaved
      <4> QED  BY <4>1, <4>2, <4>3, <4>4, <4>5 DEF Flag
    <3>3. FlagsSaved'
      BY <2>5, <3>2 DEF InputEnds, FlagsSaved, Known, NoMasks
    <3> QED  BY <2>5, <3>3 DEF InputEnds, MaskInv
  <2>6. ASSUME NEW k \in Keys, KeyEvent(k) PROVE MaskInv'
    BY <2>6, <1>k DEF KeyEvent
  <2> QED  BY <1>1, <2>1, <2>2, <2>3, <2>4, <2>5, <2>6 DEF Input
<1>2. CASE Select
  <2>1. UNCHANGED <<at, maskVars>> /\ (inputActive' => inputActive)
    BY <1>2 DEF Select, GameSelects, SelectionRefused, GameLeaves, LeaveTo, Reset, stateVars
  <2> QED  BY <2>1, <1>k
<1>3. CASE Camera
  <2>1. UNCHANGED maskVars /\ at # "input" /\ at' # "input"
    BY <1>3 DEF Camera, CameraPasses, CameraLetsGo, CameraWalks, CameraBegins, CameraEnds
  <2> QED  BY <2>1, <1>k
<1>4. CASE Orbit
  <2>1. InOrbit  BY <1>4 DEF Orbit, OrbitPans, OrbitFails, OrbitRests
  <2>2. UNCHANGED <<at, maskVars, inputActive>>  BY <2>1 DEF InOrbit, stateVars
  <2> QED  BY <2>2, <1>k
<1>5. CASE Message
  <2>1. InWindow
    BY <1>5 DEF Message, ReleaseMessage, CaptureMessage, CursorMessage, OtherMessage
  <2> QED  BY <2>1, <1>k DEF InWindow, stateVars
<1>6. CASE Lighting
  BY <1>6, <1>k DEF Lighting, Render, RendererShutdown, TrainLightChanges, stateVars
<1>7. CASE Game
  <2>1. CASE TrainChanges \/ SceneChanges \/ CameraListChanges \/ Pauses
             \/ FocusChanges \/ ButtonChanges \/ OriginMoves
    BY <2>1, <1>k DEF TrainChanges, SceneChanges, CameraListChanges, Pauses, FocusChanges,
                      ButtonChanges, OnlyGame, OriginMoves, stateVars
  <2>2. ASSUME OnlyActions, FlagsSaved',
               masked => \A n \in Node \ born': node'[n] # Nothing => node'[n] = masks[n]
        PROVE  MaskInv'
    BY <2>2 DEF OnlyActions, MaskInv, NoMasks, stateVars
  <2>3. ASSUME NEW n \in Node, ActionGoes(n) PROVE MaskInv'
    <3>1. FlagsSaved'
      BY <2>3, <1>p DEF ActionGoes, OnlyActions, MaskInv, FlagsSaved, Flag, Known, Driving, MaskType
    <3>2. masked => \A m \in Node \ born': node'[m] # Nothing => node'[m] = masks[m]
      BY <2>3, <1>p DEF ActionGoes, MaskInv, MaskType
    <3> QED  BY <2>2, <2>3, <3>1, <3>2 DEF ActionGoes
  <2>4. ASSUME NEW n \in Node, NEW a \in Action, ActionComes(n, a) PROVE MaskInv'
    <3>1. FlagsSaved'
      BY <2>4, <1>p DEF ActionComes, OnlyActions, MaskInv, FlagsSaved, Flag, Known, Driving, MaskType
    <3>2. masked => \A m \in Node \ born': node'[m] # Nothing => node'[m] = masks[m]
      BY <2>4, <1>p DEF ActionComes, MaskInv, MaskType
    <3> QED  BY <2>2, <2>4, <3>1, <3>2 DEF ActionComes
  <2>5. ASSUME NEW n \in Node, NEW disabled \in BOOLEAN, ActionIsSet(n, disabled)
        PROVE  MaskInv'
    <3>1. ~masked /\ masks = NoMasks  BY <2>5 DEF ActionIsSet, MaskInv
    <3>2. FlagsSaved'
      BY <2>5, <3>1, <1>p
      DEF ActionIsSet, OnlyActions, MaskInv, FlagsSaved, Flag, Known, Driving, MaskType, NoMasks
    <3> QED  BY <2>2, <2>5, <3>1, <3>2 DEF ActionIsSet
  <2> QED  BY <1>7, <2>1, <2>3, <2>4, <2>5 DEF Game
<1>8. CASE UNCHANGED vars
  BY <1>8, <1>k DEF vars, stateVars
<1> QED  BY <1>1, <1>2, <1>3, <1>4, <1>5, <1>6, <1>7, <1>8 DEF Next

\* Outside the input routine the devices have their callbacks and every registered action is
\* as the game has set it, whatever was registered, unregistered or replaced while they were
\* masked, or else it is disabled and one that a broken-off walk through the list has not
\* come back to (walking.h:305-389).
THEOREM MasksAreUndone == Spec => []MasksUndone
<1>1. MaskInv => MasksUndone
  BY DEF MaskInv, MasksUndone, FlagsSaved, Flag, Known, NoMasks
<1> QED  BY <1>1, TypeInit, TypeStep, MaskInvInit, MaskInvStep, PTL DEF Spec

\* While walking holds the input, no driving action is open to the game's input routine
\* (walking.h:355-389).
THEOREM DrivingIsBlocked == Spec => []DrivingBlocked
<1>1. MaskInv => DrivingBlocked  BY DEF MaskInv, DrivingBlocked, FlagsSaved, Known, Driving
<1> QED  BY <1>1, TypeInit, TypeStep, MaskInvInit, MaskInvStep, PTL DEF Spec

(***************************************************************************)
(* The pointer.  The two pans exclude each other because one belongs to    *)
(* the static view and the other to a camera that the mouse can orbit, and *)
(* whoever begins hands over in the camera routine.                        *)
(***************************************************************************)
PointerInv ==
    /\ PointerComesBack
    /\ active = inputActive
    /\ hidden => active
    /\ at = "camera" /\ hidden => view = Static

LEMMA PointerInit == Init => PointerInv
  BY DEF Init, PointerInv, PointerComesBack

\* The pointer after external_maintain is hidden by a pan that goes on, or by walking.
LEMMA MaintainPointer ==
    ASSUME TypeInv, PointerInv, NEW fit \in BOOLEAN, Maintain(fit)
    PROVE  /\ ~Maintained(fit) => hidden \/ epan'
           /\ epan' => esaved' /\ ~hidden /\ epan /\ ~PanOver(fit)
<1>1. epan \in BOOLEAN /\ esaved \in BOOLEAN /\ cursor \in BOOLEAN /\ hidden \in BOOLEAN
  BY DEF TypeInv, ExternalType, PointerType
<1>2. CASE PanOver(fit)
  BY <1>1, <1>2 DEF Maintain, Maintained, ExternalReset, AfterOrbit, PointerInv,
                    PointerComesBack, PanOver
<1>3. CASE ~PanOver(fit)
  BY <1>1, <1>3 DEF Maintain, Maintained, externalVars, PointerInv, PointerComesBack
<1> QED  BY <1>2, <1>3

LEMMA OrbitPointer ==
    ASSUME TypeInv, PointerInv
    PROVE  ~AfterOrbit => hidden
<1>1. epan \in BOOLEAN /\ esaved \in BOOLEAN /\ cursor \in BOOLEAN /\ hidden \in BOOLEAN
  BY DEF TypeInv, ExternalType, PointerType
<1> QED  BY <1>1 DEF AfterOrbit, PointerInv, PointerComesBack

\* Showing the pointer ends walking's pan, hiding it is right while the other one is over.
LEMMA ShowGives ==
    ASSUME hidden => saved, NEW c \in BOOLEAN, ~c => hidden \/ epan', epan' => esaved',
           ShowPointer(c)
    PROVE  PointerComesBack' /\ ~hidden'
  BY DEF ShowPointer, AfterLook, PointerComesBack

LEMMA HideGives ==
    ASSUME hidden => saved, NEW c \in BOOLEAN, ~c => hidden, ~epan', HidePointer(c)
    PROVE  PointerComesBack'
  BY DEF HidePointer, PointerComesBack

LEMMA ResetGives ==
    ASSUME hidden => saved, NEW c \in BOOLEAN, ~c => hidden \/ epan', epan' => esaved',
           Reset(c)
    PROVE  PointerInv'
<1>1. PointerComesBack' /\ ~hidden'  BY ShowGives DEF Reset
<1>2. active' = FALSE /\ inputActive' = FALSE  BY DEF Reset
<1> QED  BY <1>1, <1>2 DEF PointerInv

LEMMA PointerStep == TypeInv /\ PointerInv /\ [Next]_vars => PointerInv'
<1> SUFFICES ASSUME TypeInv, PointerInv, [Next]_vars PROVE PointerInv'
  OBVIOUS
<1>p. /\ epan \in BOOLEAN /\ esaved \in BOOLEAN /\ cursor \in BOOLEAN /\ hidden \in BOOLEAN
      /\ saved \in BOOLEAN /\ pan \in BOOLEAN
      /\ hidden => saved
      /\ ~cursor => hidden \/ epan
      /\ epan => esaved /\ ~hidden
  BY DEF TypeInv, ExternalType, PointerType, PointerInv, PointerComesBack
\* Steps that leave the pointer alone.
<1>k. ASSUME UNCHANGED <<cursorVars, externalVars>>, active' = inputActive', active => active',
             at' = "camera" => at = "camera" /\ (hidden => view' = view)
      PROVE  PointerInv'
  BY <1>k DEF PointerInv, PointerComesBack, cursorVars, externalVars
<1>s. ASSUME UNCHANGED <<cursorVars, externalVars, stateVars>>,
             at' = "camera" => at = "camera" /\ (hidden => view' = view)
      PROVE  PointerInv'
  BY <1>s, <1>k DEF PointerInv, stateVars
\* Walking ends.
<1>r. ASSUME Reset(cursor), UNCHANGED externalVars PROVE PointerInv'
  BY <1>r, <1>p, ResetGives DEF externalVars
<1>l. ASSUME NEW v, LeaveTo(v), UNCHANGED externalVars PROVE PointerInv'
  BY <1>l, <1>r DEF LeaveTo
<1>1. CASE Input
  <2>1. CASE InputBegins
    BY <2>1, <1>r, <1>s DEF InputBegins
  <2>2. CASE ChangeLeaves
    BY <2>2, <1>l DEF ChangeLeaves, ReturnView, InChange
  <2>3. CASE ChangeWaits \/ ChangeStays \/ ChangeRefused
    <3>1. UNCHANGED <<cursorVars, externalVars, active, inputActive>> /\ at' # "camera"
      BY <2>3 DEF ChangeWaits, ChangeStays, ChangeRefused, ReturnFails, InChange, stateVars
    <3> QED  BY <3>1, <1>k DEF PointerInv
  <2>4. CASE ChangeEnters
    BY <2>4, <1>k DEF ChangeEnters, InChange
  <2>5. CASE MaskSucceeds \/ MaskSkipped \/ InputEnds
    BY <2>5, <1>s DEF MaskSucceeds, MaskSkipped, InputEnds
  <2>6. CASE MaskFailureEnds
    BY <2>6, <1>r, <1>l DEF MaskFailureEnds, ReturnView
  <2>7. CASE MaskFailureHolds
    BY <2>7, <1>k DEF MaskFailureHolds, ReturnFails, PointerInv
  <2>8. ASSUME NEW k \in Keys, KeyEvent(k) PROVE PointerInv'
    BY <2>8, <1>k DEF KeyEvent, PointerInv
  <2> QED  BY <1>1, <2>1, <2>2, <2>3, <2>4, <2>5, <2>6, <2>7, <2>8 DEF Input, Change
<1>2. CASE Select
  <2>1. CASE GameSelects
    BY <2>1, <1>s DEF GameSelects, PointerInv
  <2>2. CASE SelectionRefused
    BY <2>2, <1>s DEF SelectionRefused, gameVars
  <2>3. ASSUME NEW v \in View, GameLeaves(v) PROVE PointerInv'
    BY <2>3, <1>l DEF GameLeaves
  <2> QED  BY <1>2, <2>1, <2>2, <2>3 DEF Select
<1>3. CASE Camera
  <2>1. CASE CameraPasses
    <3>1. PICK fit \in BOOLEAN: CameraBegins(fit) /\ cursor' = Maintained(fit)
      BY <2>1 DEF CameraPasses
    <3>2. /\ ~cursor' => hidden \/ epan'
          /\ epan' => esaved'
      BY <3>1, MaintainPointer DEF CameraBegins
    <3>3. ~hidden /\ UNCHANGED <<hidden, saved, active, inputActive>>
      BY <2>1 DEF CameraPasses, PointerInv, stateVars
    <3> QED  BY <3>2, <3>3 DEF PointerInv, PointerComesBack
  <2>2. CASE CameraLetsGo
    <3>1. PICK fit \in BOOLEAN: CameraBegins(fit) /\ Reset(Maintained(fit))
      BY <2>2 DEF CameraLetsGo
    <3>2. /\ Maintained(fit) \in BOOLEAN
          /\ ~Maintained(fit) => hidden \/ epan'
          /\ epan' => esaved'
      BY <3>1, MaintainPointer, MaintainType DEF CameraBegins
    <3> QED  BY <3>1, <3>2, <1>p, ResetGives
  <2>3. CASE CameraWalks
    <3>1. PICK fit \in BOOLEAN, readable \in BOOLEAN:
            /\ CameraBegins(fit)
            /\ IF pan' THEN HidePointer(Maintained(fit)) ELSE ShowPointer(Maintained(fit))
      BY <2>3 DEF CameraWalks
    <3>2. active /\ view = Static /\ UNCHANGED <<active, inputActive, view>>
      BY <2>3, <3>1 DEF CameraWalks, Stale, CameraBegins, stateVars, gameVars
    <3>3. ~Eligible(fit)  BY <3>2, WalkingAssumption DEF Eligible, WalkingAssumption
    <3>4. ~epan'
      BY <3>1, <3>3, <1>p DEF CameraBegins, Maintain, PanOver, ExternalReset, externalVars
    <3>5. Maintained(fit) \in BOOLEAN /\ (~Maintained(fit) => hidden \/ epan')
      BY <3>1, MaintainPointer, MaintainType DEF CameraBegins
    <3>6. PointerComesBack'
      BY <3>1, <3>4, <3>5, <1>p, ShowGives, HideGives
    <3> QED  BY <3>2, <3>6 DEF PointerInv
  <2>4. CASE CameraEnds
    BY <2>4, <1>s DEF CameraEnds
  <2> QED  BY <1>3, <2>1, <2>2, <2>3, <2>4 DEF Camera
<1>4. CASE Orbit
  <2>1. InOrbit  BY <1>4 DEF Orbit, OrbitPans, OrbitFails, OrbitRests
  <2>2. ~hidden
    BY <2>1, WalkingAssumption DEF InOrbit, PointerInv, WalkingAssumption
  <2>3. UNCHANGED <<hidden, saved, active, inputActive, at, view>>
    BY <2>1 DEF InOrbit, stateVars, gameVars
  <2>4. (~cursor' => epan') /\ (epan' => esaved')
    <3>1. CASE OrbitPans
      <4>1. CASE epan /\ ~PanOver(TRUE)
        BY <3>1, <4>1, <1>p DEF OrbitPans
      <4>2. CASE ~(epan /\ ~PanOver(TRUE))
        BY <3>1, <4>2, <2>2, <1>p DEF OrbitPans, Maintained, AfterOrbit
      <4> QED  BY <4>1, <4>2
    <3>2. CASE OrbitFails
      BY <3>2, <2>2, OrbitPointer DEF OrbitFails, ExternalReset
    <3>3. CASE OrbitRests
      BY <3>3, <2>2, MaintainPointer DEF OrbitRests
    <3> QED  BY <1>4, <3>1, <3>2, <3>3 DEF Orbit
  <2> QED  BY <2>2, <2>3, <2>4 DEF PointerInv, PointerComesBack
<1>5. CASE Message
  <2>1. InWindow
    BY <1>5 DEF Message, ReleaseMessage, CaptureMessage, CursorMessage, OtherMessage
  <2>2. at' = "game" /\ UNCHANGED <<active, inputActive>>
    BY <2>1 DEF InWindow, stateVars
  <2>3. PointerComesBack' /\ (hidden' => active)
    <3>1. CASE ReleaseMessage
      BY <3>1, <1>p, MaintainType, OrbitPointer, ShowGives DEF ReleaseMessage, ExternalReset
    <3>2. CASE CaptureMessage
      BY <3>2, <1>p, OrbitPointer
      DEF CaptureMessage, ExternalReset, PointerComesBack, PointerInv
    <3>3. CASE CursorMessage
      <4>1. PICK fit \in BOOLEAN:
              /\ Maintain(fit)
              /\ IF epan /\ ~PanOver(fit)
                 THEN cursor' = FALSE /\ UNCHANGED <<hidden, saved>>
                 ELSE IF pan /\ inputActive /\ ~halted /\ focus
                 THEN HidePointer(Maintained(fit))
                 ELSE cursor' = TRUE /\ UNCHANGED <<hidden, saved>>
        BY <3>3 DEF CursorMessage
      <4>2. /\ Maintained(fit) \in BOOLEAN
            /\ ~Maintained(fit) => hidden \/ epan'
            /\ epan' => esaved' /\ ~hidden /\ epan /\ ~PanOver(fit)
        BY <4>1, MaintainPointer, MaintainType
      <4>3. CASE epan /\ ~PanOver(fit)
        <5>1. epan' = epan  BY <4>1, <4>3 DEF Maintain, externalVars
        <5> QED  BY <4>1, <4>2, <4>3, <5>1, <1>p DEF PointerComesBack
      <4>4. CASE ~(epan /\ ~PanOver(fit)) /\ pan /\ inputActive /\ ~halted /\ focus
        BY <4>1, <4>2, <4>4, <1>p, HideGives DEF PointerInv
      <4>5. CASE ~(epan /\ ~PanOver(fit)) /\ ~(pan /\ inputActive /\ ~halted /\ focus)
        BY <4>1, <4>2, <4>5, <1>p DEF PointerComesBack, PointerInv
      <4> QED  BY <4>3, <4>4, <4>5
    <3>4. CASE OtherMessage
      BY <3>4, <1>p, MaintainPointer DEF OtherMessage, PointerComesBack, PointerInv
    <3> QED  BY <1>5, <3>1, <3>2, <3>3, <3>4 DEF Message
  <2> QED  BY <2>2, <2>3 DEF PointerInv
<1>6. CASE Lighting
  BY <1>6, <1>k DEF Lighting, Render, RendererShutdown, TrainLightChanges, stateVars,
                    PointerInv, gameVars
<1>7. CASE Game
  <2>1. UNCHANGED <<at, cursorVars, externalVars, stateVars>>
    BY <1>7 DEF Game, TrainChanges, SceneChanges, CameraListChanges, Pauses, FocusChanges,
                ButtonChanges, OnlyGame, OriginMoves, ActionGoes, ActionComes, ActionIsSet,
                OnlyActions
  <2>2. at = "camera" => view' = view
    BY <1>7 DEF Game, TrainChanges, SceneChanges, CameraListChanges, Pauses, FocusChanges,
                ButtonChanges, OriginMoves, ActionGoes, ActionComes, ActionIsSet,
                OnlyActions, gameVars
  <2> QED  BY <2>1, <2>2, <1>s
<1>8. CASE UNCHANGED vars
  BY <1>8, <1>s DEF vars, gameVars
<1> QED  BY <1>1, <1>2, <1>3, <1>4, <1>5, <1>6, <1>7, <1>8 DEF Next

\* A hidden pointer is one pan's to give back and never both pans', however cameras, buttons,
\* focus and messages interleave (walking.h:60-66, external-camera.h:17-83).
THEOREM PointerReturned == Spec => []PointerComesBack
<1>1. PointerInv => PointerComesBack  BY DEF PointerInv
<1> QED  BY <1>1, TypeInit, TypeStep, PointerInit, PointerStep, PTL DEF Spec

(***************************************************************************)
(* The camera that is shown.                                               *)
(***************************************************************************)
LEMMA ShownStep == TypeInv /\ ShownCameraExists /\ [Next]_vars => ShownCameraExists'
<1> SUFFICES ASSUME TypeInv, ShownCameraExists, [Next]_vars PROVE ShownCameraExists'
  OBVIOUS
<1>k. ASSUME view' \in registered \cup {view, Static}, UNCHANGED registered
      PROVE  ShownCameraExists'
  BY <1>k DEF ShownCameraExists
<1>1. CASE Input
  BY <1>1, <1>k
  DEF Input, InputBegins, Change, ChangeWaits, ChangeLeaves, ChangeStays, ChangeRefused,
      ChangeEnters, InChange, ReturnView, ReturnFails, LeaveTo, MaskSucceeds, MaskSkipped,
      MaskFailureEnds, MaskFailureHolds, InputEnds, KeyEvent, gameVars
<1>2. CASE Select
  BY <1>2, <1>k DEF Select, GameSelects, SelectionRefused, GameLeaves, LeaveTo, gameVars
<1>3. CASE Camera
  BY <1>3, <1>k DEF Camera, CameraPasses, CameraLetsGo, CameraWalks, CameraBegins,
                    CameraEnds, gameVars
<1>4. CASE Orbit
  <2>1. InOrbit  BY <1>4 DEF Orbit, OrbitPans, OrbitFails, OrbitRests
  <2> QED  BY <2>1, <1>k DEF InOrbit, gameVars
<1>5. CASE Message
  <2>1. InWindow
    BY <1>5 DEF Message, ReleaseMessage, CaptureMessage, CursorMessage, OtherMessage
  <2> QED  BY <2>1, <1>k DEF InWindow, gameVars
<1>6. CASE Lighting
  BY <1>6, <1>k DEF Lighting, Render, RendererShutdown, TrainLightChanges, gameVars
<1>7. CASE Game
  <2>1. CASE CameraListChanges
    BY <2>1 DEF CameraListChanges, ShownCameraExists
  <2>2. CASE ~CameraListChanges
    BY <1>7, <2>2, <1>k DEF Game, TrainChanges, SceneChanges, Pauses, FocusChanges,
                    ButtonChanges, OriginMoves, ActionGoes, ActionComes, ActionIsSet,
                    OnlyActions, gameVars
  <2> QED  BY <2>1, <2>2
<1>8. CASE UNCHANGED vars
  BY <1>8, <1>k DEF vars, gameVars
<1> QED  BY <1>1, <1>2, <1>3, <1>4, <1>5, <1>6, <1>7, <1>8 DEF Next

\* No camera is shown that the game no longer has, although the one to go back to is kept
\* by address while walking lasts (walking.h:207-225).
THEOREM ShownCameraIsLive == Spec => []ShownCameraExists
<1>1. Init => ShownCameraExists  BY DEF Init, ShownCameraExists
<1> QED  BY <1>1, TypeInit, TypeStep, ShownStep, PTL DEF Spec

(***************************************************************************)
(* The static view and walking.                                            *)
(***************************************************************************)
LEMMA ViewStep ==
    ASSUME TypeInv, ViewIsWalkings, [Next]_vars, view = Static => UNCHANGED train
    PROVE  ViewIsWalkings'
<1>t. view \in View \cup {Static} /\ registered \subseteq View /\ Static \notin View
  BY WalkingAssumption DEF TypeInv, GameType, WalkingAssumption
\* A step that shows a camera of the game, or leaves the view and what walking knows.
<1>k. ASSUME view' \in registered PROVE ViewIsWalkings'
  BY <1>t, <1>k DEF ViewIsWalkings
<1>u. ASSUME view' = view, UNCHANGED <<active, wtrain>> PROVE ViewIsWalkings'
  BY <1>u DEF ViewIsWalkings
<1>l. ASSUME NEW v, LeaveTo(v) PROVE view' \in registered
  BY <1>l DEF LeaveTo
<1>1. CASE Input
  <2>1. CASE InputBegins
    <3>1. CASE Stale
      <4>1. view # Static /\ view' = view
        BY <2>1, <3>1 DEF InputBegins, Stale, ViewIsWalkings, gameVars
      <4> QED  BY <4>1 DEF ViewIsWalkings
    <3> QED  BY <2>1, <3>1, <1>u DEF InputBegins, gameVars, stateVars
  <2>2. CASE ChangeLeaves
    BY <2>2, <1>k, <1>l DEF ChangeLeaves, ReturnView
  <2>3. CASE ChangeEnters
    BY <2>3 DEF ChangeEnters, InChange, ViewIsWalkings
  <2>4. CASE ChangeWaits \/ ChangeStays \/ ChangeRefused
    BY <2>4, <1>u DEF ChangeWaits, ChangeStays, ChangeRefused, ReturnFails, stateVars
  <2>5. CASE MaskFailureEnds
    <3>1. CASE view = Static  BY <2>5, <3>1, <1>k, <1>l DEF MaskFailureEnds, ReturnView
    <3>2. CASE view # Static  BY <2>5, <3>2 DEF MaskFailureEnds, ViewIsWalkings
    <3> QED  BY <3>1, <3>2
  <2>6. CASE MaskSucceeds \/ MaskSkipped \/ MaskFailureHolds \/ InputEnds
             \/ \E k \in Keys: KeyEvent(k)
    BY <2>6, <1>u DEF MaskSucceeds, MaskSkipped, MaskFailureHolds, ReturnFails, InputEnds,
                      KeyEvent, gameVars, stateVars
  <2> QED  BY <1>1, <2>1, <2>2, <2>3, <2>4, <2>5, <2>6 DEF Input, Change
<1>2. CASE Select
  BY <1>2, <1>k, <1>l, <1>u DEF Select, GameSelects, SelectionRefused, GameLeaves, gameVars, stateVars
<1>3. CASE Camera
  <2>1. CASE CameraLetsGo
    <3>1. view # Static /\ view' = view
      BY <2>1 DEF CameraLetsGo, CameraBegins, Stale, ViewIsWalkings, gameVars
    <3> QED  BY <3>1 DEF ViewIsWalkings
  <2> QED
    BY <1>3, <2>1, <1>u DEF Camera, CameraPasses, CameraWalks, CameraBegins, CameraEnds,
                            gameVars, stateVars
<1>4. CASE Orbit
  <2>1. InOrbit  BY <1>4 DEF Orbit, OrbitPans, OrbitFails, OrbitRests
  <2> QED  BY <2>1, <1>u DEF InOrbit, gameVars, stateVars
<1>5. CASE Message
  <2>1. InWindow
    BY <1>5 DEF Message, ReleaseMessage, CaptureMessage, CursorMessage, OtherMessage
  <2> QED  BY <2>1, <1>u DEF InWindow, gameVars, stateVars
<1>6. CASE Lighting
  BY <1>6, <1>u DEF Lighting, Render, RendererShutdown, TrainLightChanges, gameVars, stateVars
<1>7. CASE Game
  <2>1. CASE SceneChanges  BY <2>1, <1>k DEF SceneChanges
  <2>2. CASE TrainChanges
    BY <2>2 DEF TrainChanges, OnlyGame, ViewIsWalkings
  <2>3. CASE ~SceneChanges /\ ~TrainChanges
    BY <1>7, <2>3, <1>u DEF Game, CameraListChanges, Pauses, FocusChanges,
                    ButtonChanges, OriginMoves, ActionGoes, ActionComes, ActionIsSet,
                    OnlyActions, OnlyGame, gameVars, stateVars
  <2> QED  BY <2>1, <2>2, <2>3
<1>8. CASE UNCHANGED vars
  BY <1>8, <1>u DEF vars, gameVars, stateVars
<1> QED  BY <1>1, <1>2, <1>3, <1>4, <1>5, <1>6, <1>7, <1>8 DEF Next

\* While the player keeps the train under the static view, a selection the game accepts
\* always leaves the view, and a rejected one leaves walking as it was: what
\* walking_reject finds needs a train that changes (walking.h:207-225, 346-360).
THEOREM OnlyTrainsStrandTheView == Spec /\ TrainStays => []SelectionLeavesFPV
<1>1. Init => ViewIsWalkings
  BY WalkingAssumption DEF Init, ViewIsWalkings, WalkingAssumption
<1>2. TypeInv /\ ViewIsWalkings /\ [Next]_vars /\ [view = Static => UNCHANGED train]_vars
        => ViewIsWalkings'
  <2>1. UNCHANGED vars => UNCHANGED train  BY DEF vars, gameVars
  <2> QED  BY <2>1, ViewStep
<1>3. ViewIsWalkings => SelectionLeavesFPV
  BY DEF ViewIsWalkings, SelectionLeavesFPV
<1> QED  BY <1>1, <1>2, <1>3, TypeInit, TypeStep, PTL DEF Spec, TrainStays
=============================================================================
