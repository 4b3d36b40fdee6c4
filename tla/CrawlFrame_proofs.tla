-------------------------- MODULE CrawlFrame_proofs --------------------------
(***************************************************************************)
(* Proofs about CrawlFrame for every set of vehicles, every reading period *)
(* and, where a theorem does not say otherwise, every set of faults.       *)
(***************************************************************************)
EXTENDS CrawlFrame, TLAPS

(***************************************************************************)
(* Type correctness.                                                       *)
(***************************************************************************)

\* The frame counter stays within its period.
LEMMA BeatStep ==
    ASSUME beat \in 0..(Every - 1), beat' = (beat + 1) % Every
    PROVE  beat' \in 0..(Every - 1)
  BY CrawlAssumption DEF CrawlAssumption

\* A snapshot marks only vehicles it has seen.
LEMMA SnapshotType ==
    ASSUME NEW cars \in SUBSET Car, snapshot(cars)
    PROVE  known' \subseteq Car /\ knownBent' \subseteq known'
  BY DEF snapshot

LEMMA TypeInit == Init => TypeOK
<1> SUFFICES ASSUME Init PROVE TypeOK
  OBVIOUS
<1>1. beat \in 0..(Every - 1)  BY CrawlAssumption DEF Init
<1>2. got \in [phase : Phases, error : BOOLEAN, enabled : BOOLEAN]
  BY DEF Init, Nothing, Phases
<1>3. GameType /\ InputType /\ CrawlType /\ ConsistType /\ EdgeType
  BY DEF Init, GameType, InputType, CrawlType, ConsistType, EdgeType, Phases, Origins
<1>4. FrameType /\ StatusType /\ ReaderType
  BY <1>1, <1>2 DEF Init, FrameType, StatusType, ReaderType
<1> QED  BY <1>3, <1>4 DEF Init, TypeOK

\* A read of one field keeps the record of the fields read well-formed.
LEMMA GotType ==
    ASSUME CrawlType, ReaderType, NEW f \in Fields,
           got' = [got EXCEPT ![f] =
                      [phase |-> phase, error |-> error, enabled |-> enabled][f]]
    PROVE  got' \in [phase : Phases, error : BOOLEAN, enabled : BOOLEAN]
<1> DEFINE now == [phase |-> phase, error |-> error, enabled |-> enabled]
<1>1. now.phase \in Phases /\ now.error \in BOOLEAN /\ now.enabled \in BOOLEAN
  BY DEF CrawlType
<1>2. CASE f = "phase"
  <2>1. got' = [got EXCEPT !.phase = now.phase]  BY <1>2
  <2> QED  BY <2>1, <1>1 DEF ReaderType
<1>3. CASE f = "error"
  <2>1. got' = [got EXCEPT !.error = now.error]  BY <1>3
  <2> QED  BY <2>1, <1>1 DEF ReaderType
<1>4. CASE f = "enabled"
  <2>1. got' = [got EXCEPT !.enabled = now.enabled]  BY <1>4
  <2> QED  BY <2>1, <1>1 DEF ReaderType
<1> QED  BY <1>2, <1>3, <1>4 DEF Fields

\* What a step leaves alone keeps its type.
LEMMA GameKept == GameType /\ UNCHANGED game => GameType'
  BY DEF GameType, game
LEMMA InputKept == InputType /\ UNCHANGED input => InputType'
  BY DEF InputType, input
LEMMA CrawlKept == CrawlType /\ UNCHANGED crawl => CrawlType'
  BY DEF CrawlType, crawl
LEMMA ConsistKept == ConsistType /\ UNCHANGED consist => ConsistType'
  BY DEF ConsistType, consist
LEMMA EdgeKept == EdgeType /\ UNCHANGED edge => EdgeType'
  BY DEF EdgeType, edge
LEMMA FrameKept == FrameType /\ UNCHANGED frame => FrameType'
  BY DEF FrameType, frame
LEMMA StatusKept == StatusType /\ UNCHANGED status => StatusType'
  BY DEF StatusType, status
LEMMA ReaderKept == ReaderType /\ UNCHANGED reader => ReaderType'
  BY DEF ReaderType, reader

\* fail() leaves a well-typed runtime, and so does clear_activity().
LEMMA FailType == fail => CrawlType'
  BY DEF fail, CrawlType, Phases
LEMMA ClearType == clear_activity => CrawlType' /\ ConsistType' /\ EdgeType'
  BY DEF clear_activity, CrawlType, ConsistType, EdgeType, Phases, Origins

\* The steps of a frame.
LEMMA FrameTypeStep == TypeOK /\ FrameStep => TypeOK'
<1> SUFFICES ASSUME TypeOK, FrameStep PROVE TypeOK'
  OBVIOUS
<1>p. /\ GameType /\ InputType /\ CrawlType /\ ConsistType
      /\ EdgeType /\ FrameType /\ StatusType /\ ReaderType
      /\ excused \in BOOLEAN /\ (odd <=> pc # "idle")
  BY DEF TypeOK
<1>b. ASSUME StartFrame PROVE beat' \in 0..(Every - 1) /\ odd' = TRUE /\ moved' \in BOOLEAN
  BY <1>p, <1>b, BeatStep DEF StartFrame, FrameType
<1>1. CASE SkipFrame
  <2>1. FrameType' /\ StatusType'
    BY <1>1, <1>p, <1>b DEF SkipFrame, FrameType, StatusType
  <2>2. /\ GameType' /\ InputType' /\ CrawlType' /\ ConsistType' /\ EdgeType'
        /\ ReaderType' /\ excused' = excused
    BY <1>1, <1>p, GameKept, InputKept, CrawlKept, ConsistKept, EdgeKept, ReaderKept
    DEF SkipFrame
  <2> QED  BY <1>1, <1>p, <1>b, <2>1, <2>2 DEF SkipFrame, TypeOK
<1>2. CASE NoTrainFrame
  <2>1. FrameType' /\ StatusType'
    BY <1>2, <1>p, <1>b DEF NoTrainFrame, FrameType, StatusType
  <2>2. /\ GameType' /\ InputType' /\ CrawlType' /\ ConsistType' /\ EdgeType'
        /\ ReaderType' /\ excused' = excused
    BY <1>2, <1>p, GameKept, InputKept, ClearType, ReaderKept DEF NoTrainFrame
  <2> QED  BY <1>2, <1>p, <1>b, <2>1, <2>2 DEF NoTrainFrame, TypeOK
<1>3. ASSUME NEW focus \in BOOLEAN, NEW readable \in BOOLEAN, Frame(focus, readable)
      PROVE TypeOK'
  <2>1. /\ request' \in BOOLEAN /\ pending' \in BOOLEAN /\ down' \in BOOLEAN
        /\ paid' \in Origins /\ credit' \in Origins
    BY <1>3, <1>p DEF Frame, ReadInput, Sees, EdgeType, Origins
  <2>2. pc' \in {"out", "snapshot"}  BY <1>3 DEF Frame, Proceed
  <2>3. beat' \in 0..(Every - 1) /\ odd' = TRUE /\ moved' \in BOOLEAN
    BY <1>3, <1>b DEF Frame
  <2>4. EdgeType' /\ FrameType' /\ StatusType'
    BY <2>1, <2>2, <2>3 DEF EdgeType, FrameType, StatusType
  <2>5. /\ GameType' /\ InputType' /\ CrawlType' /\ ConsistType'
        /\ ReaderType' /\ excused' = excused
    BY <1>3, <1>p, GameKept, InputKept, CrawlKept, ConsistKept, ReaderKept DEF Frame
  <2> QED  BY <1>p, <2>2, <2>3, <2>4, <2>5 DEF TypeOK
<1>4. CASE ReadConsist
  <2>1. CrawlType' /\ ConsistType' /\ pc' \in {"derail", "judge", "out"}
    <3>1. CASE snapshot(linked) /\ pc' \in {"derail", "judge"} /\ UNCHANGED crawl
      BY <3>1, <1>p, SnapshotType, CrawlKept DEF GameType, ConsistType
    <3>2. CASE FailFrame /\ UNCHANGED consist
      BY <3>2, <1>p, FailType, ConsistKept DEF FailFrame
    <3> QED  BY <1>4, <3>1, <3>2 DEF ReadConsist
  <2>2. FrameType'  BY <1>4, <1>p, <2>1 DEF ReadConsist, FrameType
  <2>3. /\ GameType' /\ InputType' /\ EdgeType' /\ StatusType' /\ ReaderType'
        /\ excused' = excused
    BY <1>4, <1>p, GameKept, InputKept, EdgeKept, StatusKept, ReaderKept DEF ReadConsist
  <2>4. pc # "idle" /\ odd' = odd  BY <1>4 DEF ReadConsist, status
  <2> QED  BY <1>p, <2>1, <2>2, <2>3, <2>4 DEF TypeOK
<1>5. CASE Derail
  <2>1. CrawlType' /\ bent' \subseteq Car /\ pc' \in {"again", "out"}
    <3>1. CASE bent' = bent \cup known /\ pc' = "again" /\ UNCHANGED crawl
      BY <3>1, <1>p, CrawlKept DEF GameType, ConsistType
    <3>2. CASE FailFrame /\ UNCHANGED bent
      BY <3>2, <1>p, FailType DEF FailFrame, GameType
    <3> QED  BY <1>5, <3>1, <3>2 DEF Derail
  <2>2. GameType' /\ FrameType'  BY <1>5, <1>p, <2>1 DEF Derail, GameType, FrameType
  <2>3. /\ InputType' /\ ConsistType' /\ EdgeType' /\ StatusType' /\ ReaderType'
        /\ excused' = excused
    BY <1>5, <1>p, InputKept, ConsistKept, EdgeKept, StatusKept, ReaderKept DEF Derail
  <2>4. pc # "idle" /\ odd' = odd  BY <1>5 DEF Derail, status
  <2> QED  BY <1>p, <2>1, <2>2, <2>3, <2>4 DEF TypeOK
<1>6. CASE Judge
  <2>1. CrawlType' /\ pc' \in {"push", "out"}
    BY <1>6, <1>p DEF Judge, CrawlType, Phases
  <2>2. FrameType'  BY <1>6, <1>p, <2>1 DEF Judge, FrameType
  <2>3. /\ GameType' /\ InputType' /\ ConsistType' /\ EdgeType' /\ StatusType'
        /\ ReaderType' /\ excused' = excused
    BY <1>6, <1>p, GameKept, InputKept, ConsistKept, EdgeKept, StatusKept, ReaderKept
    DEF Judge
  <2>4. pc # "idle" /\ odd' = odd  BY <1>6 DEF Judge, status
  <2> QED  BY <1>p, <2>1, <2>2, <2>3, <2>4 DEF TypeOK
<1>7. CASE Push
  <2>1. CrawlType' /\ pc' = "out"
    BY <1>7, <1>p, CrawlKept, FailType DEF Push, FailFrame
  <2>2. FrameType'  BY <1>7, <1>p, <2>1 DEF Push, FrameType
  <2>3. /\ GameType' /\ InputType' /\ ConsistType' /\ EdgeType' /\ StatusType'
        /\ ReaderType' /\ excused' = excused
    BY <1>7, <1>p, GameKept, InputKept, ConsistKept, EdgeKept, StatusKept, ReaderKept
    DEF Push
  <2>4. pc # "idle" /\ odd' = odd  BY <1>7 DEF Push, status
  <2> QED  BY <1>p, <2>1, <2>2, <2>3, <2>4 DEF TypeOK
<1>8. CASE EndFrame
  <2>1. EdgeType' /\ FrameType' /\ StatusType' /\ odd' = FALSE /\ pc' = "idle"
    BY <1>8, <1>p DEF EndFrame, EdgeType, FrameType, StatusType, Origins
  <2>2. /\ GameType' /\ InputType' /\ CrawlType' /\ ConsistType' /\ ReaderType'
        /\ excused' = excused
    BY <1>8, <1>p, GameKept, InputKept, CrawlKept, ConsistKept, ReaderKept DEF EndFrame
  <2> QED  BY <1>p, <2>1, <2>2 DEF TypeOK
<1> QED  BY <1>1, <1>2, <1>3, <1>4, <1>5, <1>6, <1>7, <1>8 DEF FrameStep

\* A key event, seen or not, leaves a well-typed edge detector.
LEMMA KeyType ==
    ASSUME EdgeType, NEW isDown \in BOOLEAN, NEW owed \in Origins,
           manual_event(isDown, owed) \/ Unseen(owed)
    PROVE  EdgeType'
<1>1. CASE manual_event(isDown, owed)  BY <1>1 DEF manual_event, EdgeType, Origins
<1>2. CASE Unseen(owed)  BY <1>2 DEF Unseen, EdgeType
<1> QED  BY <1>1, <1>2

\* The other callbacks.
LEMMA CallbackTypeStep == TypeOK /\ Callback => TypeOK'
<1> SUFFICES ASSUME TypeOK, Callback PROVE TypeOK'
  OBVIOUS
<1>p. /\ GameType /\ InputType /\ CrawlType /\ ConsistType
      /\ EdgeType /\ FrameType /\ StatusType /\ ReaderType
      /\ excused \in BOOLEAN /\ (odd <=> pc # "idle")
  BY DEF TypeOK
<1>f. pc \in {"idle", "snapshot", "derail", "again", "judge", "push", "out"}
      /\ credit \in Origins
  BY <1>p DEF FrameType, EdgeType
<1>1. CASE EndActivity
  <2>1. GameType' /\ FrameType' /\ StatusType' /\ odd' = TRUE /\ pc' = "out"
    BY <1>1, <1>p DEF EndActivity, GameType, FrameType, StatusType
  <2>2. /\ InputType' /\ CrawlType' /\ ConsistType' /\ EdgeType' /\ ReaderType'
        /\ excused' = excused
    BY <1>1, <1>p, InputKept, ClearType, ReaderKept DEF EndActivity
  <2> QED  BY <1>p, <2>1, <2>2 DEF TypeOK
<1>2. CASE Press
  <2>1. EdgeType' /\ InputType'
    BY <1>2, <1>p, KeyType DEF Press, InputType, Origins
  <2>2. /\ GameType' /\ CrawlType' /\ ConsistType' /\ FrameType' /\ StatusType'
        /\ ReaderType' /\ excused' = excused /\ odd' = odd /\ pc' = pc
    BY <1>2, <1>p, GameKept, CrawlKept, ConsistKept, FrameKept, StatusKept, ReaderKept
    DEF Press, frame, status
  <2> QED  BY <1>p, <2>1, <2>2 DEF TypeOK
<1>3. CASE Release
  <2>1. EdgeType' /\ InputType'
    BY <1>3, <1>p, KeyType DEF Release, InputType, Origins
  <2>2. /\ GameType' /\ CrawlType' /\ ConsistType' /\ FrameType' /\ StatusType'
        /\ ReaderType' /\ excused' = excused /\ odd' = odd /\ pc' = pc
    BY <1>3, <1>p, GameKept, CrawlKept, ConsistKept, FrameKept, StatusKept, ReaderKept
    DEF Release, frame, status
  <2> QED  BY <1>p, <2>1, <2>2 DEF TypeOK
<1>4. CASE Repeat
  <2>1. EdgeType' /\ InputType'
    BY <1>4, <1>p, <1>f, KeyType, InputKept DEF Repeat
  <2>2. /\ GameType' /\ CrawlType' /\ ConsistType' /\ FrameType' /\ StatusType'
        /\ ReaderType' /\ excused' = excused /\ odd' = odd /\ pc' = pc
    BY <1>4, <1>p, GameKept, CrawlKept, ConsistKept, FrameKept, StatusKept, ReaderKept
    DEF Repeat, frame, status
  <2> QED  BY <1>p, <2>1, <2>2 DEF TypeOK
<1>5. CASE EffectFault
  <2>1. CrawlType' /\ excused' \in BOOLEAN
    BY <1>5, <1>p, FailType DEF EffectFault, Excuse
  <2>2. /\ GameType' /\ InputType' /\ ConsistType' /\ EdgeType' /\ FrameType'
        /\ StatusType' /\ ReaderType' /\ odd' = odd /\ pc' = pc
    BY <1>5, <1>p, GameKept, InputKept, ConsistKept, EdgeKept, FrameKept, StatusKept,
       ReaderKept
    DEF EffectFault, frame, status
  <2> QED  BY <1>p, <2>1, <2>2 DEF TypeOK
<1>6. CASE Uncouple
  <2>1. linked' \subseteq Car /\ GameType'
    BY <1>6, <1>p DEF Uncouple, GameType
  <2>2. CrawlType' /\ ConsistType' /\ excused' \in BOOLEAN
    <3>1. CASE snapshot(linked') /\ UNCHANGED <<crawl, excused>>
      BY <3>1, <1>p, <2>1, CrawlKept DEF snapshot, ConsistType
    <3>2. CASE fail /\ Excuse /\ UNCHANGED consist
      BY <3>2, <1>p, FailType, ConsistKept DEF Excuse
    <3>3. CASE UNCHANGED <<consist, crawl, excused>>
      BY <3>3, <1>p, CrawlKept, ConsistKept
    <3> QED  BY <1>6, <3>1, <3>2, <3>3 DEF Uncouple
  <2>3. /\ InputType' /\ EdgeType' /\ FrameType' /\ StatusType' /\ ReaderType'
        /\ odd' = odd /\ pc' = pc
    BY <1>6, <1>p, InputKept, EdgeKept, FrameKept, StatusKept, ReaderKept
    DEF Uncouple, frame, status
  <2> QED  BY <1>p, <2>1, <2>2, <2>3 DEF TypeOK
<1> QED  BY <1>1, <1>2, <1>3, <1>4, <1>5, <1>6 DEF Callback

\* The game between callbacks.
LEMMA GameTypeStep == TypeOK /\ Game => TypeOK'
<1> SUFFICES ASSUME TypeOK, Game PROVE TypeOK'
  OBVIOUS
<1>p. /\ GameType /\ InputType /\ CrawlType /\ ConsistType
      /\ EdgeType /\ FrameType /\ StatusType /\ ReaderType
      /\ excused \in BOOLEAN /\ (odd <=> pc # "idle")
  BY DEF TypeOK
<1>1. GameType'
  <2>1. CASE Couple  BY <2>1, <1>p DEF Couple, GameType
  <2>2. CASE Accident  BY <2>2, <1>p DEF Accident, GameType
  <2>3. CASE NewTrain  BY <2>3, <1>p DEF NewTrain, GameType
  <2>4. CASE TrainGone  BY <2>4, <1>p DEF TrainGone, GameType
  <2>5. CASE ChangeInput  BY <2>5, <1>p, GameKept DEF ChangeInput
  <2> QED  BY <2>1, <2>2, <2>3, <2>4, <2>5 DEF Game
<1>2. InputType'
  <2>1. CASE Couple \/ Accident \/ NewTrain \/ TrainGone
    BY <2>1, <1>p, InputKept DEF Couple, Accident, NewTrain, TrainGone
  <2>2. CASE ChangeInput  BY <2>2, <1>p DEF ChangeInput, InputType
  <2> QED  BY <2>1, <2>2 DEF Game
<1>3. /\ UNCHANGED <<crawl, consist, edge, frame, status, reader>> /\ excused' = excused
  BY DEF Game, Couple, Accident, NewTrain, TrainGone, ChangeInput
<1>4. /\ CrawlType' /\ ConsistType' /\ EdgeType' /\ FrameType' /\ StatusType'
      /\ ReaderType' /\ odd' = odd /\ pc' = pc
  BY <1>3, <1>p, CrawlKept, ConsistKept, EdgeKept, FrameKept, StatusKept, ReaderKept
  DEF frame, status
<1> QED  BY <1>p, <1>1, <1>2, <1>3, <1>4 DEF TypeOK

\* An empty reading is well-typed.
LEMMA NothingType == Nothing \in [phase : Phases, error : BOOLEAN, enabled : BOOLEAN]
  BY DEF Nothing, Phases

\* The loader's worker.
LEMMA WorkerTypeStep == TypeOK /\ Worker => TypeOK'
<1> SUFFICES ASSUME TypeOK, Worker PROVE TypeOK'
  OBVIOUS
<1>p. /\ GameType /\ InputType /\ CrawlType /\ ConsistType
      /\ EdgeType /\ FrameType /\ StatusType /\ ReaderType
      /\ excused \in BOOLEAN /\ (odd <=> pc # "idle")
  BY DEF TypeOK
<1>1. UNCHANGED <<game, input, consist, edge, frame>> /\ odd' = odd
  BY DEF Worker, HooksLive, SetReady, NextStage, BeginRead, ReadField, EndRead,
         WriteStatus, status
<1>2. /\ GameType' /\ InputType' /\ ConsistType' /\ EdgeType' /\ FrameType'
      /\ pc' = pc
  BY <1>1, <1>p, GameKept, InputKept, ConsistKept, EdgeKept, FrameKept DEF frame
<1>3. CrawlType' /\ StatusType' /\ ReaderType' /\ excused' \in BOOLEAN
  <2>1. CASE HooksLive
    BY <2>1, <1>p, CrawlKept, StatusKept DEF HooksLive, ReaderType
  <2>2. CASE SetReady
    <3>1. CrawlType'  BY <2>2, <1>p DEF SetReady, CrawlType, Phases
    <3> QED  BY <2>2, <1>p, <3>1, StatusKept DEF SetReady, ReaderType
  <2>3. CASE NextStage
    <3>1. CrawlType'  BY <2>3, <1>p, CrawlKept, FailType DEF NextStage
    <3> QED  BY <2>3, <1>p, <3>1, StatusKept DEF NextStage, ReaderType
  <2>4. CASE BeginRead
    BY <2>4, <1>p, CrawlKept, NothingType DEF BeginRead, StatusType, ReaderType
  <2>5. ASSUME NEW f \in Fields, ReadField(f)
        PROVE  CrawlType' /\ StatusType' /\ ReaderType' /\ excused' \in BOOLEAN
    <3>1. got' \in [phase : Phases, error : BOOLEAN, enabled : BOOLEAN]
      BY <2>5, <1>p, GotType DEF ReadField
    <3> QED  BY <2>5, <1>p, <3>1, CrawlKept, StatusKept DEF ReadField, ReaderType
  <2>6. CASE EndRead
    <3>1. got' \in [phase : Phases, error : BOOLEAN, enabled : BOOLEAN]
      BY <2>6, <1>p, NothingType DEF EndRead, ReaderType
    <3>2. worker' \in {"sleep", "write"} /\ moved' = FALSE /\ excused' \in BOOLEAN
      BY <2>6, <1>p DEF EndRead
    <3> QED  BY <2>6, <1>1, <1>p, <3>1, <3>2, CrawlKept DEF EndRead, StatusType, ReaderType
  <2>7. CASE WriteStatus
    BY <2>7, <1>p, CrawlKept, StatusKept, NothingType DEF WriteStatus, ReaderType
  <2> QED  BY <2>1, <2>2, <2>3, <2>4, <2>5, <2>6, <2>7 DEF Worker
<1> QED  BY <1>p, <1>1, <1>2, <1>3 DEF TypeOK

LEMMA TypeStep == TypeOK /\ [Next]_vars => TypeOK'
<1>1. TypeOK /\ UNCHANGED vars => TypeOK'
  <2> SUFFICES ASSUME TypeOK, UNCHANGED vars PROVE TypeOK'
    OBVIOUS
  <2>1. /\ UNCHANGED <<game, input, crawl, consist, edge, frame, status, reader>>
        /\ excused' = excused
    BY DEF vars
  <2> QED
    BY <2>1, GameKept, InputKept, CrawlKept, ConsistKept, EdgeKept, FrameKept,
       StatusKept, ReaderKept
    DEF TypeOK, frame, status
<1> QED  BY <1>1, FrameTypeStep, CallbackTypeStep, GameTypeStep, WorkerTypeStep DEF Next

\* Every variable of the crawl runtime keeps its type: the frame counter its
\* period, the derailed flags the consist they belong to, status_sequence its
\* parity.
THEOREM TypeCorrect == Spec => []TypeOK
<1> QED  BY TypeInit, TypeStep, PTL DEF Spec

(***************************************************************************)
(* The derail key.                                                         *)
(***************************************************************************)

\* A request, waiting or in work, is owed to a press or to a frame blind to the
\* key; and a held key that the edge detector takes for released has one of the
\* two to its name that made no request yet.
PressInv ==
    /\ pending => paid # "none"
    /\ request => paid # "none"
    /\ key /\ ~down => credit # "none"
    /\ pc = "idle" => ~request
    /\ pc = "derail" => request

LEMMA PressInit == Init => PressInv
  BY DEF Init, PressInv

\* One key event.
LEMMA KeyPays ==
    ASSUME PressInv, NEW isDown \in BOOLEAN, NEW owed \in Origins,
           key' <=> isDown, isDown /\ ~down => owed # "none",
           manual_event(isDown, owed) \/ Unseen(owed)
    PROVE  /\ pending' => paid' # "none"
           /\ paid # "none" => paid' # "none"
           /\ key' /\ ~down' => credit' # "none"
<1>1. CASE Unseen(owed)
  BY <1>1 DEF Unseen, PressInv
<1>2. CASE manual_event(isDown, owed)
  <2>1. PICK focus \in BOOLEAN, plain \in BOOLEAN :
           LET allowed == plain /\ ~stopped /\ focus
               asks == allowed /\ isDown /\ ~down
           IN  /\ pending' = (pending \/ asks)
               /\ down' = IF allowed THEN isDown ELSE TRUE
               /\ paid' = IF asks /\ paid # "press" THEN owed ELSE paid
               /\ credit' = IF asks THEN "none" ELSE owed
    BY <1>2 DEF manual_event
  <2> QED  BY <2>1 DEF PressInv
<1> QED  BY <1>1, <1>2

LEMMA PressStep == TypeOK /\ PressInv /\ [Next]_vars => PressInv'
<1> SUFFICES ASSUME TypeOK, PressInv, [Next]_vars PROVE PressInv'
  OBVIOUS
<1>k. ASSUME UNCHANGED <<pending, paid, request, key, down, credit, pc>> PROVE PressInv'
  BY <1>k DEF PressInv
<1>1. CASE SkipFrame  BY <1>1 DEF SkipFrame, StartFrame, Unlocked, PressInv, edge, input
<1>2. CASE NoTrainFrame
  BY <1>2 DEF NoTrainFrame, StartFrame, Unlocked, clear_activity, PressInv, input
<1>3. ASSUME NEW focus \in BOOLEAN, NEW readable \in BOOLEAN, Frame(focus, readable)
      PROVE PressInv'
  <2>1. ReadInput(focus, readable) /\ Proceed /\ key' = key  BY <1>3 DEF Frame, input
  <2>2. pending' = FALSE  BY <2>1 DEF ReadInput
  <2>3. request' => paid' # "none"  BY <2>1 DEF ReadInput, PressInv
  <2>4. key' /\ ~down' => credit' # "none"  BY <2>1 DEF ReadInput, PressInv
  <2>5. pc' \in {"out", "snapshot"}  BY <2>1 DEF Proceed
  <2> QED  BY <2>2, <2>3, <2>4, <2>5 DEF PressInv
<1>4. CASE ReadConsist
  <2>1. UNCHANGED <<pending, paid, request, key, down, credit>>
        /\ (pc' = "derail" => request) /\ pc' # "idle"
    BY <1>4 DEF ReadConsist, FailFrame, edge, input
  <2> QED  BY <2>1 DEF PressInv
<1>5. CASE Derail
  <2>1. UNCHANGED <<pending, paid, request, key, down, credit>> /\ pc' \in {"again", "out"}
    BY <1>5 DEF Derail, FailFrame, edge, input
  <2> QED  BY <2>1 DEF PressInv
<1>6. CASE Judge
  <2>1. UNCHANGED <<pending, paid, request, key, down, credit>> /\ pc' \in {"push", "out"}
    BY <1>6 DEF Judge, edge, input
  <2> QED  BY <2>1 DEF PressInv
<1>7. CASE Push
  <2>1. UNCHANGED <<pending, paid, request, key, down, credit>> /\ pc' = "out"
    BY <1>7 DEF Push, FailFrame, edge, input
  <2> QED  BY <2>1 DEF PressInv
<1>8. CASE EndFrame  BY <1>8 DEF EndFrame, PressInv, input
<1>9. CASE EndActivity
  BY <1>9 DEF EndActivity, Unlocked, clear_activity, PressInv, input
<1>10. CASE Press
  <2>1. /\ pending' => paid' # "none"
        /\ paid # "none" => paid' # "none"
        /\ key' /\ ~down' => credit' # "none"
    BY <1>10, KeyPays DEF Press, Origins
  <2> QED  BY <1>10, <2>1 DEF Press, PressInv, frame
<1>11. CASE Release
  <2>1. /\ pending' => paid' # "none"
        /\ paid # "none" => paid' # "none"
        /\ key' /\ ~down' => credit' # "none"
    BY <1>11, KeyPays DEF Release, Origins
  <2> QED  BY <1>11, <2>1 DEF Release, PressInv, frame
<1>12. CASE Repeat
  <2>1. credit \in Origins  BY DEF TypeOK, EdgeType
  <2>2. /\ pending' => paid' # "none"
        /\ paid # "none" => paid' # "none"
        /\ key' /\ ~down' => credit' # "none"
    BY <1>12, <2>1, KeyPays DEF Repeat, PressInv, input
  <2> QED  BY <1>12, <2>2 DEF Repeat, PressInv, frame
<1>13. CASE EffectFault  BY <1>13, <1>k DEF EffectFault, input, edge, frame
<1>14. CASE Uncouple  BY <1>14, <1>k DEF Uncouple, input, edge, frame
<1>15. CASE Game
  BY <1>15, <1>k DEF Game, Couple, Accident, NewTrain, TrainGone, ChangeInput, input, edge,
                     frame
<1>16. CASE Worker
  BY <1>16, <1>k DEF Worker, HooksLive, SetReady, NextStage, BeginRead, ReadField, EndRead,
                     WriteStatus, input, edge, frame
<1>17. CASE UNCHANGED vars  BY <1>17, <1>k DEF vars, input, edge, frame
<1> QED
  BY <1>1, <1>2, <1>3, <1>4, <1>5, <1>6, <1>7, <1>8, <1>9, <1>10, <1>11, <1>12, <1>13,
     <1>14, <1>15, <1>16, <1>17
  DEF Next, FrameStep, Callback

\* Every derailment uses up a press of its own, or a focused frame that was blind
\* to the held key, with any number of vehicles, lost and repeated key events,
\* pauses, faults and activities.
THEOREM DerailmentsAreOwed == Spec => []OnlyBlindFramesRepeat
<1>1. PressInv => OnlyBlindFramesRepeat  BY DEF PressInv, OnlyBlindFramesRepeat
<1> QED  BY <1>1, TypeInit, TypeStep, PressInit, PressStep, PTL DEF Spec

(***************************************************************************)
(* The consist.                                                            *)
(***************************************************************************)

\* When the derailment starts, the last snapshot is the present consist.
ConsistInv == pc = "derail" => known = linked

LEMMA ConsistStep == ConsistInv /\ [Next]_vars => ConsistInv'
<1> SUFFICES ASSUME ConsistInv, [Next]_vars PROVE ConsistInv'
  OBVIOUS
<1>1. CASE SkipFrame \/ NoTrainFrame \/ EndActivity \/ Derail \/ Judge \/ Push \/ EndFrame
  <2>1. pc' # "derail"
    BY <1>1 DEF SkipFrame, NoTrainFrame, EndActivity, Derail, Judge, Push, EndFrame, FailFrame
  <2> QED  BY <2>1 DEF ConsistInv
<1>2. ASSUME NEW focus \in BOOLEAN, NEW readable \in BOOLEAN, Frame(focus, readable)
      PROVE ConsistInv'
  BY <1>2 DEF Frame, Proceed, ConsistInv
<1>3. CASE ReadConsist
  BY <1>3 DEF ReadConsist, snapshot, FailFrame, game, ConsistInv
<1>4. CASE Press \/ Release \/ Repeat \/ EffectFault \/ Uncouple \/ Game
  <2>1. pc = "idle" /\ pc' = pc
    BY <1>4 DEF Press, Release, Repeat, EffectFault, Uncouple, Game, Couple, Accident,
                NewTrain, TrainGone, ChangeInput, Unlocked, frame
  <2> QED  BY <2>1 DEF ConsistInv
<1>5. CASE Worker \/ UNCHANGED vars
  <2>1. UNCHANGED <<pc, known, linked>>
    BY <1>5 DEF vars, Worker, HooksLive, SetReady, NextStage, BeginRead, ReadField, EndRead,
                WriteStatus, game, consist, frame
  <2> QED  BY <2>1 DEF ConsistInv
<1> QED  BY <1>1, <1>2, <1>3, <1>4, <1>5 DEF Next, FrameStep, Callback

\* A step that ends the derailment has derailed every vehicle of the train.
LEMMA DerailStep ==
    ConsistInv /\ [Next]_vars => (pc = "derail" /\ pc' = "again" => linked \subseteq bent')
<1> SUFFICES ASSUME ConsistInv, [Next]_vars, pc = "derail", pc' = "again"
             PROVE linked \subseteq bent'
  OBVIOUS
<1>1. CASE Derail  BY <1>1 DEF Derail, FailFrame, ConsistInv
<1>2. CASE ReadConsist \/ Judge \/ Push \/ EndFrame
  BY <1>2 DEF ReadConsist, Judge, Push, EndFrame
<1>3. CASE SkipFrame \/ NoTrainFrame \/ EndActivity
  BY <1>3 DEF SkipFrame, NoTrainFrame, EndActivity
<1>4. ASSUME NEW focus \in BOOLEAN, NEW readable \in BOOLEAN, Frame(focus, readable)
      PROVE FALSE
  BY <1>4 DEF Frame, Proceed
<1>5. CASE Press \/ Release \/ Repeat \/ EffectFault \/ Uncouple \/ Game
  BY <1>5 DEF Press, Release, Repeat, EffectFault, Uncouple, Game, Couple, Accident,
              NewTrain, TrainGone, ChangeInput, Unlocked
<1>6. CASE Worker \/ UNCHANGED vars
  BY <1>6 DEF vars, Worker, HooksLive, SetReady, NextStage, BeginRead, ReadField, EndRead,
              WriteStatus, frame
<1> QED  BY <1>1, <1>2, <1>3, <1>4, <1>5, <1>6 DEF Next, FrameStep, Callback

\* A derail command that succeeds derails the whole present consist.
THEOREM WholeConsist == Spec => WholeConsistDerails
<1>1. Init => ConsistInv  BY DEF Init, ConsistInv
<1> QED  BY <1>1, ConsistStep, DerailStep, PTL DEF Spec, WholeConsistDerails

(***************************************************************************)
(* Faults and the status.  Both hold when the stages after the crawl hooks *)
(* can be installed: the worker's own fail() breaks CalmInv.               *)
(***************************************************************************)

\* No fault is recorded while a frame is at work, a fault switches crawling off,
\* and the fields of the status agree.
CalmInv ==
    /\ error <=> blocked
    /\ pc \in {"snapshot", "derail", "again", "judge", "push"} => ~blocked
    /\ blocked => ~enabled
    /\ phase = "fault" => error
    /\ error => phase \in {"fault", "ready"}
    /\ phase = "crawling" => enabled
    /\ phase \in {"waiting-for-activity", "waiting-for-derailment"} => ~enabled

LEMMA CalmInit == Init => CalmInv
  BY DEF Init, CalmInv

\* fail() and clear_activity() set the four variables together.
LEMMA CalmFail == fail /\ pc' \in {"idle", "out"} => CalmInv'
  BY DEF fail, CalmInv
LEMMA CalmClear == clear_activity => CalmInv'
  BY DEF clear_activity, CalmInv
LEMMA CalmKept == CalmInv /\ UNCHANGED crawl /\ (pc' = pc \/ pc' \in {"idle", "out"}) => CalmInv'
  BY DEF crawl, CalmInv

LEMMA CalmStep ==
    ASSUME "install" \notin Faults
    PROVE  CalmInv /\ [Next]_vars => CalmInv'
<1> SUFFICES ASSUME CalmInv, [Next]_vars PROVE CalmInv'
  OBVIOUS
<1>1. CASE SkipFrame  BY <1>1, CalmKept DEF SkipFrame
<1>2. CASE NoTrainFrame \/ EndActivity
  BY <1>2, CalmClear DEF NoTrainFrame, EndActivity
<1>3. ASSUME NEW focus \in BOOLEAN, NEW readable \in BOOLEAN, Frame(focus, readable)
      PROVE CalmInv'
  <2>1. ~blocked /\ UNCHANGED crawl  BY <1>3 DEF Frame
  <2> QED  BY <2>1 DEF CalmInv, crawl
<1>4. CASE ReadConsist
  <2>1. pc \in {"snapshot", "again"} /\ ~blocked  BY <1>4 DEF ReadConsist, CalmInv
  <2>2. CASE UNCHANGED crawl  BY <2>1, <2>2 DEF CalmInv, crawl
  <2>3. CASE FailFrame  BY <2>3, CalmFail DEF FailFrame
  <2> QED  BY <1>4, <2>2, <2>3 DEF ReadConsist
<1>5. CASE Derail
  <2>1. pc = "derail" /\ ~blocked  BY <1>5 DEF Derail, CalmInv
  <2>2. CASE UNCHANGED crawl  BY <2>1, <2>2 DEF CalmInv, crawl
  <2>3. CASE FailFrame  BY <2>3, CalmFail DEF FailFrame
  <2> QED  BY <1>5, <2>2, <2>3 DEF Derail
<1>6. CASE Judge
  <2>1. pc = "judge" /\ ~blocked /\ ~error  BY <1>6 DEF Judge, CalmInv
  <2>2. UNCHANGED <<blocked, error>>  BY <1>6 DEF Judge
  <2>3. \/ enabled' = FALSE /\ phase' = "waiting-for-derailment"
        \/ enabled' = TRUE /\ phase' = "crawling"
    BY <1>6 DEF Judge
  <2> QED  BY <2>1, <2>2, <2>3 DEF CalmInv
<1>7. CASE Push
  <2>1. CASE UNCHANGED crawl /\ pc' = "out"  BY <2>1, CalmKept
  <2>2. CASE FailFrame  BY <2>2, CalmFail DEF FailFrame
  <2> QED  BY <1>7, <2>1, <2>2 DEF Push
<1>8. CASE EndFrame  BY <1>8, CalmKept DEF EndFrame
<1>9. CASE Press \/ Release \/ Repeat \/ Game
  <2>1. UNCHANGED crawl /\ pc' = pc
    BY <1>9 DEF Press, Release, Repeat, Game, Couple, Accident, NewTrain, TrainGone,
                ChangeInput, frame
  <2> QED  BY <2>1, CalmKept
<1>10. CASE EffectFault
  <2>1. fail /\ pc' = "idle"  BY <1>10 DEF EffectFault, Unlocked, frame
  <2> QED  BY <2>1, CalmFail
<1>11. CASE Uncouple
  <2>1. pc = "idle" /\ pc' = pc /\ (fail \/ UNCHANGED crawl)
    BY <1>11 DEF Uncouple, Unlocked, frame
  <2> QED  BY <2>1, CalmFail, CalmKept
<1>12. CASE SetReady
  BY <1>12 DEF SetReady, CalmInv, frame
<1>13. CASE HooksLive \/ NextStage \/ BeginRead \/ (\E f \in Fields : ReadField(f))
            \/ EndRead \/ WriteStatus \/ UNCHANGED vars
  <2>1. UNCHANGED crawl /\ pc' = pc
    BY <1>13 DEF HooksLive, NextStage, BeginRead, ReadField, EndRead, WriteStatus, vars,
                 frame
  <2> QED  BY <2>1, CalmKept
<1> QED
  BY <1>1, <1>2, <1>3, <1>4, <1>5, <1>6, <1>7, <1>8, <1>9, <1>10, <1>11, <1>12, <1>13
  DEF Next, FrameStep, Callback, Worker

\* A fault leaves crawling off until the activity ends, whatever happens in
\* between, unless it is the loader's worker that records it.
THEOREM FaultsAreInert ==
    ASSUME "install" \notin Faults
    PROVE  Spec => []FaultIsInert
<1>1. CalmInv => FaultIsInert  BY DEF CalmInv, FaultIsInert
<1> QED  BY <1>1, CalmInit, CalmStep, PTL DEF Spec

(***************************************************************************)
(* The same for every choice of faults.  The worker's fail() can fall into *)
(* a frame; the step that does is the one that ends the installation.      *)
(***************************************************************************)

\* A fault is inert, and none is recorded under a frame at work.
Settled == /\ FaultIsInert
           /\ pc \in {"snapshot", "derail", "again", "judge", "push"} => ~blocked

\* The same three ways to leave a settled state as for CalmInv.
LEMMA SettledFail == fail /\ pc' \in {"idle", "out"} => Settled'
  BY DEF fail, Settled, FaultIsInert
LEMMA SettledClear == clear_activity => Settled'
  BY DEF clear_activity, Settled, FaultIsInert
LEMMA SettledKept ==
    Settled /\ UNCHANGED <<enabled, blocked>> /\ (pc' = pc \/ pc' \in {"idle", "out"})
    => Settled'
  BY DEF Settled, FaultIsInert

\* Only the end of the installation can unsettle it.
LEMMA SettledStep ==
    Settled /\ [Next]_vars => Settled' \/ (Installing /\ ~Installing')
<1> SUFFICES ASSUME Settled, [Next]_vars
             PROVE  Settled' \/ (Installing /\ ~Installing')
  OBVIOUS
<1>1. CASE SkipFrame  BY <1>1, SettledKept DEF SkipFrame, crawl
<1>2. CASE NoTrainFrame \/ EndActivity
  BY <1>2, SettledClear DEF NoTrainFrame, EndActivity
<1>3. ASSUME NEW focus \in BOOLEAN, NEW readable \in BOOLEAN, Frame(focus, readable)
      PROVE Settled'
  <2>1. ~blocked /\ UNCHANGED crawl  BY <1>3 DEF Frame
  <2> QED  BY <2>1 DEF Settled, FaultIsInert, crawl
<1>4. CASE ReadConsist
  <2>1. pc \in {"snapshot", "again"} /\ ~blocked  BY <1>4 DEF ReadConsist, Settled
  <2>2. CASE UNCHANGED crawl  BY <2>1, <2>2 DEF Settled, FaultIsInert, crawl
  <2>3. CASE FailFrame  BY <2>3, SettledFail DEF FailFrame
  <2> QED  BY <1>4, <2>2, <2>3 DEF ReadConsist
<1>5. CASE Derail
  <2>1. pc = "derail" /\ ~blocked  BY <1>5 DEF Derail, Settled
  <2>2. CASE UNCHANGED crawl  BY <2>1, <2>2 DEF Settled, FaultIsInert, crawl
  <2>3. CASE FailFrame  BY <2>3, SettledFail DEF FailFrame
  <2> QED  BY <1>5, <2>2, <2>3 DEF Derail
\* Judge switches crawling on in a frame that no fault was recorded under.
<1>6. CASE Judge
  <2>1. pc = "judge" /\ ~blocked /\ blocked' = blocked  BY <1>6 DEF Judge, Settled
  <2> QED  BY <2>1 DEF Settled, FaultIsInert
<1>7. CASE Push
  <2>1. CASE UNCHANGED crawl /\ pc' = "out"  BY <2>1, SettledKept DEF crawl
  <2>2. CASE FailFrame  BY <2>2, SettledFail DEF FailFrame
  <2> QED  BY <1>7, <2>1, <2>2 DEF Push
<1>8. CASE EndFrame  BY <1>8, SettledKept DEF EndFrame, crawl
<1>9. CASE Press \/ Release \/ Repeat \/ Game
  <2>1. UNCHANGED crawl /\ pc' = pc
    BY <1>9 DEF Press, Release, Repeat, Game, Couple, Accident, NewTrain, TrainGone,
                ChangeInput, frame
  <2> QED  BY <2>1, SettledKept DEF crawl
<1>10. CASE EffectFault
  <2>1. fail /\ pc' = "idle"  BY <1>10 DEF EffectFault, Unlocked, frame
  <2> QED  BY <2>1, SettledFail
<1>11. CASE Uncouple
  <2>1. pc = "idle" /\ pc' = pc /\ (fail \/ UNCHANGED crawl)
    BY <1>11 DEF Uncouple, Unlocked, frame
  <2> QED  BY <2>1, SettledFail, SettledKept DEF crawl
\* The only step after which a fault can be under a frame at work.
<1>12. CASE NextStage
  BY <1>12 DEF NextStage, Installing
<1>13. CASE HooksLive \/ SetReady \/ BeginRead \/ (\E f \in Fields : ReadField(f))
            \/ EndRead \/ WriteStatus \/ UNCHANGED vars
  <2>1. UNCHANGED <<enabled, blocked>> /\ pc' = pc
    BY <1>13 DEF HooksLive, SetReady, BeginRead, ReadField, EndRead, WriteStatus, vars,
                 frame, crawl
  <2> QED  BY <2>1, SettledKept
<1> QED
  BY <1>1, <1>2, <1>3, <1>4, <1>5, <1>6, <1>7, <1>8, <1>9, <1>10, <1>11, <1>12, <1>13
  DEF Next, FrameStep, Callback, Worker

\* The worker does not come back to the stages.
LEMMA InstallsOnce == ~Installing /\ [Next]_vars => ~Installing'
<1> SUFFICES ASSUME ~Installing, [Next]_vars PROVE ~Installing'
  OBVIOUS
<1>1. CASE HooksLive \/ SetReady \/ NextStage
  BY <1>1 DEF HooksLive, SetReady, NextStage, Installing
<1>2. CASE BeginRead \/ (\E f \in Fields : ReadField(f)) \/ EndRead \/ WriteStatus
  <2>1. worker' = worker \/ worker' \in {"sleep", "read", "write", "done"}
    BY <1>2 DEF BeginRead, ReadField, EndRead, WriteStatus
  <2> QED  BY <2>1 DEF Installing
<1>3. CASE FrameStep \/ Callback \/ Game \/ UNCHANGED vars
  <2>1. worker' = worker
    BY <1>3 DEF FrameStep, Callback, Game, SkipFrame, NoTrainFrame, Frame, ReadConsist,
                Derail, Judge, Push, EndFrame, EndActivity, Press, Release, Repeat,
                EffectFault, Uncouple, Couple, Accident, NewTrain, TrainGone, ChangeInput,
                reader, vars
  <2> QED  BY <2>1 DEF Installing
<1> QED  BY <1>1, <1>2, <1>3 DEF Next, Worker

\* A fault with crawling on is left only by a late stage that fails under a frame
\* at work, whatever else fails.
THEOREM OnlyLateStagesReviveCrawling == Spec => OnlyLateStagesRevive
<1>1. Init => Settled  BY DEF Init, Settled, FaultIsInert
<1>2. (Installing => Settled) /\ [Next]_vars => (Installing => Settled)'
  BY SettledStep, InstallsOnce
<1>3. ~Installing /\ Settled /\ [Next]_vars => (~Installing /\ Settled)'
  BY SettledStep, InstallsOnce
<1>4. Settled => FaultIsInert  BY DEF Settled
<1>5. Unlocked /\ FaultIsInert => Settled  BY DEF Unlocked, Settled
<1> QED  BY <1>1, <1>2, <1>3, <1>4, <1>5, PTL DEF Spec, OnlyLateStagesRevive

\* What has been read with the counter unchanged and nothing to excuse is the
\* present state, between two frames.
Present ==
    /\ pc = "idle"
    /\ "phase" \notin unread => got.phase = phase
    /\ "error" \notin unread => got.error = error
    /\ "enabled" \notin unread => got.enabled = enabled

ReadInv ==
    /\ worker = "read" /\ ~moved /\ ~excused => Present
    /\ worker = "write" => excused \/ Coherent

LEMMA ReadInit == Init => ReadInv
  BY DEF Init, ReadInv

\* The reader's next field is the present value of it.
LEMMA FieldRead ==
    ASSUME ReaderType, Present, NEW f \in Fields, ReadField(f)
    PROVE  Present'
<1> DEFINE now == [phase |-> phase, error |-> error, enabled |-> enabled]
<1>1. /\ unread' = unread \ {f} /\ pc' = "idle"
      /\ phase' = phase /\ error' = error /\ enabled' = enabled
  BY DEF ReadField, Present, crawl, frame
<1>2. got' = [got EXCEPT ![f] = now[f]]  BY DEF ReadField
<1>3. CASE f = "phase"
  <2>1. got' = [got EXCEPT !.phase = phase]  BY <1>2, <1>3
  <2>2. got'.phase = phase /\ got'.error = got.error /\ got'.enabled = got.enabled
    BY <2>1 DEF ReaderType
  <2> QED  BY <1>1, <1>3, <2>2 DEF Present
<1>4. CASE f = "error"
  <2>1. got' = [got EXCEPT !.error = error]  BY <1>2, <1>4
  <2>2. got'.phase = got.phase /\ got'.error = error /\ got'.enabled = got.enabled
    BY <2>1 DEF ReaderType
  <2> QED  BY <1>1, <1>4, <2>2 DEF Present
<1>5. CASE f = "enabled"
  <2>1. got' = [got EXCEPT !.enabled = enabled]  BY <1>2, <1>5
  <2>2. got'.phase = got.phase /\ got'.error = got.error /\ got'.enabled = enabled
    BY <2>1 DEF ReaderType
  <2> QED  BY <1>1, <1>5, <2>2 DEF Present
<1> QED  BY <1>3, <1>4, <1>5 DEF Fields

LEMMA ReadStep ==
    ASSUME "install" \notin Faults
    PROVE  TypeOK /\ CalmInv /\ ReadInv /\ [Next]_vars => ReadInv'
<1> SUFFICES ASSUME TypeOK, CalmInv, ReadInv, [Next]_vars PROVE ReadInv'
  OBVIOUS
<1>t. ReaderType /\ (odd <=> pc # "idle") /\ excused \in BOOLEAN /\ StatusType
  BY DEF TypeOK
<1>i. worker = "read" /\ ~moved /\ ~excused => pc = "idle"
  BY DEF ReadInv, Present
\* A step that leaves the reader alone and marks what it changes.
<1>m. ASSUME UNCHANGED <<reader, excused>>, worker = "read" => moved' \/ excused
      PROVE  ReadInv'
  BY <1>m DEF ReadInv, Coherent, reader
\* A step that changes neither the reader nor what it reads.
<1>k. ASSUME UNCHANGED <<crawl, reader, excused, moved, pc>> PROVE ReadInv'
  BY <1>k DEF ReadInv, Present, Coherent, crawl, reader
\* A fault outside of a frame is excused.
<1>e. ASSUME Excuse, UNCHANGED <<reader, moved>> PROVE ReadInv'
  BY <1>e DEF ReadInv, Excuse, Coherent, reader
<1>1. CASE SkipFrame \/ NoTrainFrame \/ EndActivity \/ EndFrame
  <2>1. UNCHANGED <<reader, excused>> /\ (worker = "read" => moved')
    BY <1>1 DEF SkipFrame, NoTrainFrame, EndActivity, EndFrame, StartFrame
  <2> QED  BY <2>1, <1>m
<1>2. ASSUME NEW focus \in BOOLEAN, NEW readable \in BOOLEAN, Frame(focus, readable)
      PROVE ReadInv'
  <2>1. UNCHANGED <<reader, excused>> /\ (worker = "read" => moved')
    BY <1>2 DEF Frame, StartFrame
  <2> QED  BY <2>1, <1>m
<1>3. CASE ReadConsist \/ Derail \/ Judge \/ Push
  <2>1. pc # "idle" /\ UNCHANGED <<reader, excused>> /\ moved' = moved
    BY <1>3 DEF ReadConsist, Derail, Judge, Push, status
  <2>2. worker = "read" => moved \/ excused  BY <2>1, <1>i
  <2> QED  BY <2>1, <2>2, <1>m
<1>4. CASE Press \/ Release \/ Repeat \/ Game
  <2>1. UNCHANGED <<crawl, reader, excused, moved, pc>>
    BY <1>4 DEF Press, Release, Repeat, Game, Couple, Accident, NewTrain, TrainGone,
                ChangeInput, frame, status
  <2> QED  BY <2>1, <1>k
<1>5. CASE EffectFault
  <2>1. Excuse /\ UNCHANGED <<reader, moved>>  BY <1>5 DEF EffectFault, status
  <2> QED  BY <2>1, <1>e
<1>6. CASE Uncouple
  <2>1. UNCHANGED <<reader, moved, pc>>  BY <1>6 DEF Uncouple, status, frame
  <2>2. Excuse \/ UNCHANGED <<crawl, excused>>  BY <1>6 DEF Uncouple
  <2> QED  BY <2>1, <2>2, <1>e, <1>k
<1>7. CASE HooksLive \/ SetReady \/ NextStage
  <2>1. worker' \in {"ready", "stages", "sleep"}  BY <1>7 DEF HooksLive, SetReady, NextStage
  <2> QED  BY <2>1 DEF ReadInv
<1>8. CASE BeginRead
  <2>1. worker' = "read" /\ unread' = Fields /\ pc' = "idle"
    BY <1>8, <1>t DEF BeginRead, frame
  <2> QED  BY <2>1 DEF ReadInv, Present, Fields
<1>9. ASSUME NEW f \in Fields, ReadField(f) PROVE ReadInv'
  <2>1. worker = "read" /\ worker' = "read" /\ moved' = moved /\ excused' = excused
    BY <1>9 DEF ReadField, status
  <2>2. ~moved /\ ~excused => Present'
    BY <1>9, <1>t, <2>1, FieldRead DEF ReadInv
  <2> QED  BY <2>1, <2>2 DEF ReadInv
<1>10. CASE EndRead
  <2>1. CASE moved
    BY <1>10, <2>1 DEF EndRead, ReadInv
  <2>2. CASE ~moved
    <3>1. /\ worker = "read" /\ unread = {} /\ worker' = "write"
          /\ got' = got /\ excused' = excused
      BY <1>10, <2>2, <1>t DEF EndRead
    <3>2. CASE excused  BY <3>1, <3>2 DEF ReadInv
    <3>3. CASE ~excused
      <4>1. got.phase = phase /\ got.error = error /\ got.enabled = enabled
        BY <2>2, <3>1, <3>3 DEF ReadInv, Present
      <4>2. Coherent  BY <4>1 DEF CalmInv, Coherent
      <4> QED  BY <3>1, <4>2 DEF ReadInv, Coherent
    <3> QED  BY <3>2, <3>3
  <2> QED  BY <2>1, <2>2
<1>11. CASE WriteStatus
  <2>1. worker' \in {"sleep", "done"}  BY <1>11 DEF WriteStatus
  <2> QED  BY <2>1 DEF ReadInv
<1>12. CASE UNCHANGED vars
  <2>1. UNCHANGED <<crawl, reader, excused, moved, pc>>  BY <1>12 DEF vars, status, frame
  <2> QED  BY <2>1, <1>k
<1> QED
  BY <1>1, <1>2, <1>3, <1>4, <1>5, <1>6, <1>7, <1>8, <1>9, <1>10, <1>11, <1>12
  DEF Next, FrameStep, Callback, Worker

\* What is written to status.json is the state of one moment, unless an effect's
\* or an uncoupling's fault fell into the reading.
THEOREM StatusIsOfOneMoment ==
    ASSUME "install" \notin Faults
    PROVE  Spec => []StatusOfOneMoment
<1>1. ReadInv => StatusOfOneMoment  BY DEF ReadInv, StatusOfOneMoment
<1> QED  BY <1>1, TypeInit, TypeStep, CalmInit, CalmStep, ReadInit, ReadStep, PTL DEF Spec
=============================================================================
