----------------------------- MODULE CrawlFrame -----------------------------
(***************************************************************************)
(* The crawl runtime's activity state (runtime/crawl.c, crawl_controls.h,  *)
(* manual_derail.h): what a frame of the simulation does, the end of an    *)
(* activity, the derail key, faults, and the status file.                  *)
(*                                                                         *)
(* Every callback holds state_lock from beginning to end, so a callback is *)
(* one step, except for a frame: it is split into the steps between which  *)
(* the loader's worker, which does not take the lock, can read or write    *)
(* what the frame is changing.  The worker ends the installation, records  *)
(* its failures with fail() and copies the state to status.json.           *)
(*                                                                         *)
(* Vehicles are told apart only by what the code asks of them: connected   *)
(* to the player's train or not, derailed or not.  Thrust and steering are *)
(* left to the physics; a frame's validation of them can fail.             *)
(***************************************************************************)
EXTENDS Naturals

CONSTANTS
    Car,       \* the vehicles
    Every,     \* on rails, a consist is read once in this many frames (6)
    Faults,    \* which faults a run admits, see FaultKinds
    Logging    \* write_status_json

\* "data": what a frame reads is invalid.  "effect": an effect callback finds
\* invalid input.  "lost": the game misses a key event.  "install": the stages
\* after the crawl hooks cannot be installed.
FaultKinds == {"data", "effect", "lost", "install"}

ASSUME CrawlAssumption ==
    /\ Car # {}
    /\ Every \in Nat \ {0}
    /\ Faults \subseteq FaultKinds
    /\ Logging \in BOOLEAN

VARIABLES
    scene,    \* the game has a player's train
    linked,   \* the vehicles connected to it
    bent,     \* the derailed vehicles
    stopped,  \* the game is paused
    walking,  \* walking_input_active
    key,      \* the derail key is held
    enabled, blocked, phase,
    error,    \* last_error is not empty
    known,    \* cars[0..car_count-1], the vehicles of the last snapshot
    knownBent,\* those of them with derailed set
    down,     \* crawl_derail_down
    pending,  \* crawl_derail_pending
    beat,     \* frame_count % Every
    request,  \* the local of update_frame
    pc,       \* where the simulation thread stands in a frame
    odd,      \* status_sequence is odd
    moved,    \* status_sequence has changed since write_status read it; while it reads
    worker,   \* where the loader's worker stands
    unread,   \* the fields write_status has not read yet
    got,      \* what it has read
    credit,   \* what a request made now would be owed to, see Origins (history)
    paid,     \* what the waiting or present request is owed to (history)
    excused   \* a callback other than a frame failed during a read of the state

game    == <<scene, linked, bent>>
input   == <<stopped, walking, key>>
crawl   == <<enabled, blocked, phase, error>>
consist == <<known, knownBent>>
edge    == <<down, pending, credit, paid>>
frame   == <<beat, request, pc>>
status  == <<odd, moved>>
reader  == <<worker, unread, got>>
vars    == <<game, input, crawl, consist, edge, frame, status, reader, excused>>

Phases == {"waiting-for-activity", "ready", "waiting-for-derailment", "crawling", "fault"}

Fields == {"phase", "error", "enabled"}

\* What a request is owed to: a press that has made no other, or a frame that was
\* blind to the held key and took it for released.
Origins == {"none", "press", "blind"}

Nothing == [phase |-> "ready", error |-> FALSE, enabled |-> FALSE]

GameType == /\ scene \in BOOLEAN
            /\ linked \subseteq Car /\ bent \subseteq Car
InputType == stopped \in BOOLEAN /\ walking \in BOOLEAN /\ key \in BOOLEAN
CrawlType == /\ enabled \in BOOLEAN /\ blocked \in BOOLEAN
             /\ phase \in Phases /\ error \in BOOLEAN
ConsistType == known \subseteq Car /\ knownBent \subseteq known
EdgeType == /\ down \in BOOLEAN /\ pending \in BOOLEAN
            /\ credit \in Origins /\ paid \in Origins
FrameType == /\ beat \in 0..(Every - 1) /\ request \in BOOLEAN
             /\ pc \in {"idle", "snapshot", "derail", "again", "judge", "push", "out"}
StatusType == odd \in BOOLEAN /\ moved \in BOOLEAN
ReaderType ==
    /\ worker \in {"install", "ready", "stages", "sleep", "read", "write", "done"}
    /\ unread \subseteq Fields
    /\ got \in [phase : Phases, error : BOOLEAN, enabled : BOOLEAN]

\* Besides the types: the derailed flags are those of the consist, and
\* status_sequence is odd exactly while the state is being changed.
TypeOK == /\ GameType /\ InputType /\ CrawlType /\ ConsistType
          /\ EdgeType /\ FrameType /\ StatusType /\ ReaderType
          /\ excused \in BOOLEAN
          /\ odd <=> pc # "idle"

\* The worker has waited for a driving scene; the crawl hooks are not there yet.
Init ==
    /\ scene = TRUE
    /\ linked \in (SUBSET Car) \ {{}} /\ bent \in SUBSET Car
    /\ stopped \in BOOLEAN /\ walking = FALSE /\ key \in BOOLEAN
    /\ enabled = FALSE /\ blocked = FALSE
    /\ phase = "waiting-for-activity" /\ error = FALSE
    /\ known = {} /\ knownBent = {}
    /\ down = TRUE /\ pending = FALSE
    /\ beat = 0 /\ request = FALSE /\ pc = "idle"
    /\ odd = FALSE /\ moved = FALSE
    /\ worker = "install" /\ unread = {} /\ got = Nothing
    /\ credit = "none" /\ paid = "none" /\ excused = FALSE

-----------------------------------------------------------------------------
(* The parts the callbacks share. *)

\* The hooks are in place.
Hooked == worker # "install"

\* No thread holds state_lock.
Unlocked == pc = "idle"

fail == /\ enabled' = FALSE /\ blocked' = TRUE
        /\ phase' = "fault" /\ error' = TRUE

\* A fault outside of a frame does not advance status_sequence.
Excuse == excused' = (excused \/ worker = "read")

\* Mutant: the key counts as released when an activity ends.
clear_activity_KeyUp ==
    /\ enabled' = FALSE /\ blocked' = FALSE
    /\ phase' = "waiting-for-activity" /\ error' = FALSE
    /\ known' = {} /\ knownBent' = {}
    /\ pending' = FALSE /\ down' = FALSE
    /\ credit' = "none" /\ paid' = "none"

clear_activity ==
    /\ enabled' = FALSE /\ blocked' = FALSE
    /\ phase' = "waiting-for-activity" /\ error' = FALSE
    /\ known' = {} /\ knownBent' = {}
    /\ pending' = FALSE /\ down' = TRUE
    /\ credit' = "none" /\ paid' = "none"

\* Mutant: a vehicle's flag outlives its place in the consist.
snapshot_KeepsFlags(cars) == known' = cars /\ knownBent' = knownBent \cup (cars \cap bent)

\* The vehicles connected to the train, each with its derailed flag of this moment.
snapshot(cars) == known' = cars /\ knownBent' = cars \cap bent

-----------------------------------------------------------------------------
(* update_frame.  Whether the window has the focus in driving mode, and whether  *)
(* a modifier key is held, is asked anew each time: focus, plain, readable.      *)

\* crawl_keyboard_controls does not see the key while walking, with a modifier,
\* or when the key bindings cannot be read.
Sees(readable) == ~walking /\ readable /\ key

StartFrame == /\ Hooked /\ Unlocked
              /\ odd' = TRUE /\ moved' = (worker = "read")
              /\ beat' = (beat + 1) % Every

\* After a fault nothing is done until the activity ends.
SkipFrame ==
    /\ StartFrame /\ blocked
    /\ pc' = "out"
    /\ UNCHANGED <<game, input, crawl, consist, edge, request, reader, excused>>

NoTrainFrame ==
    /\ StartFrame /\ ~blocked /\ ~scene
    /\ clear_activity
    /\ pc' = "out"
    /\ UNCHANGED <<game, input, request, reader, excused>>

\* A request is used up by the frame that sees it, whatever becomes of it; out
\* of focus it is dropped and the key has to be released first.
ReadInput(focus, readable) ==
    LET focused == ~stopped /\ focus
        seen == focused /\ Sees(readable)
    IN  /\ request' = (pending /\ focused)
        /\ pending' = FALSE
        /\ down' = IF ~focused THEN TRUE ELSE down /\ seen
        /\ paid' = IF request' THEN paid ELSE "none"
        /\ credit' = CASE ~focused -> "none"
                       [] focused /\ credit = "none" /\ key /\ ~seen -> "blind"
                       [] OTHER -> credit

\* A frame that has no reason to read the train ends here.
Proceed == pc' = IF ~enabled /\ beat' # 0 /\ ~request' THEN "out" ELSE "snapshot"

\* Mutant: a fault does not keep the next frames from working.
Frame_AfterFault(focus, readable) ==
    /\ StartFrame /\ scene
    /\ ReadInput(focus, readable) /\ Proceed
    /\ UNCHANGED <<game, input, crawl, consist, reader, excused>>

\* Mutant: with crawling already enabled the last snapshot is good enough.
Frame_OldConsist(focus, readable) ==
    /\ StartFrame /\ ~blocked /\ scene
    /\ ReadInput(focus, readable)
    /\ IF enabled /\ request' THEN pc' = "derail" ELSE Proceed
    /\ UNCHANGED <<game, input, crawl, consist, reader, excused>>

\* Mutant: only the frames of a request read the consist.
Frame_NeverReads(focus, readable) ==
    /\ StartFrame /\ ~blocked /\ scene
    /\ ReadInput(focus, readable)
    /\ pc' = IF ~enabled /\ ~request' THEN "out" ELSE "snapshot"
    /\ UNCHANGED <<game, input, crawl, consist, reader, excused>>

Frame(focus, readable) ==
    /\ StartFrame /\ ~blocked /\ scene
    /\ ReadInput(focus, readable) /\ Proceed
    /\ UNCHANGED <<game, input, crawl, consist, reader, excused>>

\* A failure in the frame: nothing more is done in it.
FailFrame == /\ "data" \in Faults
             /\ fail /\ pc' = "out"

\* pc = "snapshot" before a derailment, "again" after it.
ReadConsist ==
    /\ pc \in {"snapshot", "again"}
    /\ \/ /\ snapshot(linked)
          /\ pc' = IF pc = "snapshot" /\ request THEN "derail" ELSE "judge"
          /\ UNCHANGED crawl
       \/ FailFrame /\ UNCHANGED consist
    /\ UNCHANGED <<game, input, edge, beat, request, status, reader, excused>>

\* crawl_derail_consist checks the consist and the native routine before it
\* derails the first vehicle.
Derail ==
    /\ pc = "derail"
    /\ \/ /\ bent' = bent \cup known
          /\ pc' = "again"
          /\ UNCHANGED crawl
       \/ FailFrame /\ UNCHANGED bent
    /\ UNCHANGED <<scene, linked, input, consist, edge, beat, request,
                   status, reader, excused>>

Judge ==
    /\ pc = "judge"
    /\ IF knownBent = {}
       THEN enabled' = FALSE /\ phase' = "waiting-for-derailment" /\ pc' = "out"
       ELSE enabled' = TRUE /\ phase' = "crawling"
            /\ pc' = IF stopped THEN "out" ELSE "push"
    /\ UNCHANGED <<game, input, blocked, error, consist, edge, beat, request,
                   status, reader, excused>>

\* The clock, the thrust and the steering are validated before any vehicle is
\* pushed.
Push ==
    /\ pc = "push"
    /\ \/ pc' = "out" /\ UNCHANGED crawl
       \/ FailFrame
    /\ UNCHANGED <<game, input, consist, edge, beat, request, status, reader, excused>>

EndFrame ==
    /\ pc = "out"
    /\ pc' = "idle" /\ odd' = FALSE /\ moved' = (worker = "read")
    /\ request' = FALSE /\ paid' = IF pending THEN paid ELSE "none"
    /\ UNCHANGED <<game, input, crawl, consist, down, pending, credit, beat, reader, excused>>

-----------------------------------------------------------------------------
(* The other callbacks. *)

\* EXIT: the activity ends, and the game deletes its train.
EndActivity ==
    /\ Hooked /\ Unlocked
    /\ clear_activity
    /\ odd' = TRUE /\ moved' = (worker = "read") /\ pc' = "out"
    /\ scene' = FALSE
    /\ UNCHANGED <<linked, bent, input, beat, request, reader, excused>>

\* crawl_manual_event with crawl_derail_edge; while walking, walking_event has
\* the key.  "owed": what a request by this event is owed to.
manual_event(isDown, owed) ==
    \E focus, plain \in BOOLEAN :
       LET allowed == plain /\ ~stopped /\ focus
           asks == allowed /\ isDown /\ ~down
       IN  /\ Hooked /\ ~walking
           /\ pending' = (pending \/ asks)
           /\ down' = IF allowed THEN isDown ELSE TRUE
           /\ paid' = IF asks /\ paid # "press" THEN owed ELSE paid
           /\ credit' = IF asks THEN "none" ELSE owed

\* The callback is not there, walking keeps the key from it, or the event is lost.
Unseen(owed) ==
    /\ ~Hooked \/ walking \/ "lost" \in Faults
    /\ credit' = owed
    /\ UNCHANGED <<pending, down, paid>>

Press ==
    /\ Unlocked /\ ~key
    /\ key' = TRUE
    /\ manual_event(TRUE, "press") \/ Unseen("press")
    /\ UNCHANGED <<game, stopped, walking, crawl, consist, frame, status, reader, excused>>

Release ==
    /\ Unlocked /\ key
    /\ key' = FALSE
    /\ manual_event(FALSE, "none") \/ Unseen("none")
    /\ UNCHANGED <<game, stopped, walking, crawl, consist, frame, status, reader, excused>>

\* The game reports a held key again.
Repeat ==
    /\ Unlocked /\ key
    /\ manual_event(TRUE, credit)
    /\ UNCHANGED <<game, input, crawl, consist, frame, status, reader, excused>>

\* An effect callback refuses its input.
EffectFault ==
    /\ "effect" \in Faults /\ Hooked /\ Unlocked
    /\ enabled /\ ~stopped
    /\ fail /\ Excuse
    /\ UNCHANGED <<game, input, consist, edge, frame, status, reader>>

\* SPLIT: vehicles are uncoupled; crawling takes a new snapshot.
Uncouple ==
    /\ Unlocked /\ scene
    /\ linked' \in (SUBSET linked) \ {{}, linked}
    /\ IF Hooked /\ enabled /\ ~stopped
       THEN \/ snapshot(linked') /\ UNCHANGED <<crawl, excused>>
            \/ "data" \in Faults /\ fail /\ Excuse /\ UNCHANGED consist
       ELSE UNCHANGED <<consist, crawl, excused>>
    /\ UNCHANGED <<scene, bent, input, edge, frame, status, reader>>

-----------------------------------------------------------------------------
(* The rest of the game, between two callbacks of the simulation thread. *)

Couple ==
    /\ Unlocked /\ scene
    /\ linked' \in {s \in SUBSET Car : linked \subseteq s}
    /\ UNCHANGED <<scene, bent, input, crawl, consist, edge, frame, status, reader, excused>>

Accident ==
    /\ Unlocked /\ scene
    /\ bent' \in {s \in SUBSET Car : bent \subseteq s}
    /\ UNCHANGED <<scene, linked, input, crawl, consist, edge, frame, status, reader, excused>>

\* Another activity, or another train of this one.
NewTrain ==
    /\ Unlocked
    /\ scene' = TRUE
    /\ linked' \in (SUBSET Car) \ {{}} /\ bent' \in SUBSET Car
    /\ UNCHANGED <<input, crawl, consist, edge, frame, status, reader, excused>>

\* The train goes without the activity ending.
TrainGone ==
    /\ Unlocked
    /\ scene' = FALSE
    /\ UNCHANGED <<linked, bent, input, crawl, consist, edge, frame, status, reader, excused>>

\* Pausing, and free walking, which begins with no key held, after its stage.
ChangeInput ==
    /\ Unlocked
    /\ \/ stopped' = ~stopped /\ UNCHANGED walking
       \/ /\ walking \/ (~stopped /\ ~key /\ worker \notin {"install", "ready"})
          /\ walking' = ~walking /\ UNCHANGED stopped
    /\ UNCHANGED <<game, key, crawl, consist, edge, frame, status, reader, excused>>

-----------------------------------------------------------------------------
(* The worker: delayed_start after the readiness gate, and write_status.  It *)
(* takes no lock.                                                            *)

\* install_hooks has resumed the game's threads.
HooksLive ==
    /\ worker = "install" /\ Unlocked
    /\ worker' = "ready"
    /\ UNCHANGED <<game, input, crawl, consist, edge, frame, status, unread, got, excused>>

SetReady ==
    /\ worker = "ready"
    /\ phase' = "ready" /\ worker' = "stages"
    /\ UNCHANGED <<game, input, enabled, blocked, error, consist, edge, frame, status,
                   unread, got, excused>>

\* The walking and the external camera stage.  A failing one ends the worker
\* after one more status.
NextStage ==
    /\ worker = "stages" /\ worker' = "sleep"
    /\ \/ UNCHANGED crawl
       \/ "install" \in Faults /\ fail
    /\ UNCHANGED <<game, input, consist, edge, frame, status, unread, got, excused>>

\* Sleep is over, or the last attempt failed.  After four attempts nothing is
\* written and the next second begins afresh, which looks like another attempt.
\* Without logging the worker has ended.
BeginRead ==
    /\ worker = "sleep" /\ Logging /\ ~odd
    /\ worker' = "read" /\ moved' = FALSE
    /\ unread' = Fields /\ got' = Nothing /\ excused' = FALSE
    /\ UNCHANGED <<game, input, crawl, consist, edge, frame, odd>>

\* The compiler chooses in which order the arguments of snprintf are read.
ReadField(f) ==
    /\ worker = "read" /\ f \in unread
    /\ unread' = unread \ {f}
    /\ got' = [got EXCEPT ![f] = [phase |-> phase, error |-> error, enabled |-> enabled][f]]
    /\ UNCHANGED <<game, input, crawl, consist, edge, frame, status, worker, excused>>

\* Mutant: what was read is written without a second look at the counter.
EndRead_Unchecked ==
    /\ worker = "read" /\ unread = {}
    /\ worker' = "write" /\ moved' = FALSE
    /\ UNCHANGED <<game, input, crawl, consist, edge, frame, odd, unread, got, excused>>

EndRead ==
    /\ worker = "read" /\ unread = {}
    /\ worker' = IF moved THEN "sleep" ELSE "write"
    /\ moved' = FALSE
    /\ got' = IF moved THEN Nothing ELSE got
    /\ excused' = (excused /\ ~moved)
    /\ UNCHANGED <<game, input, crawl, consist, edge, frame, odd, unread>>

\* The worker is done after the status that reports a stage's failure.
WriteStatus ==
    /\ worker = "write"
    /\ worker' \in {"sleep", "done"}
    /\ got' = Nothing /\ excused' = FALSE
    /\ UNCHANGED <<game, input, crawl, consist, edge, frame, status, unread>>

-----------------------------------------------------------------------------
FrameStep == \/ SkipFrame \/ NoTrainFrame
             \/ \E focus, readable \in BOOLEAN : Frame(focus, readable)
             \/ ReadConsist \/ Derail \/ Judge \/ Push \/ EndFrame

Callback == EndActivity \/ Press \/ Release \/ Repeat \/ EffectFault \/ Uncouple

Game == Couple \/ Accident \/ NewTrain \/ TrainGone \/ ChangeInput

Worker == \/ HooksLive \/ SetReady \/ NextStage \/ BeginRead
          \/ (\E f \in Fields : ReadField(f)) \/ EndRead \/ WriteStatus

Next == FrameStep \/ Callback \/ Game \/ Worker

Spec == Init /\ [][Next]_vars

\* The game calls its activity checker, which is the frame hook, every frame.
FairSpec == Spec /\ WF_vars(FrameStep)

-----------------------------------------------------------------------------
(* Properties. *)

\* "Press \ once to derail ... does not repeat while held": every derailment uses
\* up a press of its own.
PressPays == pc = "derail" => paid = "press"

\* A held key derails again only after a focused frame that was blind to it: each
\* derailment uses up a press or such a frame.  Without one, a key held through
\* loading, a pause, a loss of focus that a frame has seen or the end of the
\* activity cannot.
OnlyBlindFramesRepeat == pc = "derail" => paid # "none"

\* The whole present consist derails, whatever was coupled or uncoupled since
\* the last snapshot.
WholeConsistDerails == [][pc = "derail" /\ pc' = "again" => linked \subseteq bent']_vars

\* A fault switches crawling off until the activity ends, in whatever order
\* faults, frames and callbacks come.
FaultIsInert == blocked => ~enabled

\* The stages after the crawl hooks are still to be installed.
Installing == worker \in {"install", "ready", "stages"}

\* Whatever the faults, only a late stage that fails under a frame at work can
\* leave a fault with crawling on: until the stages are over a fault is inert, and
\* once they are over it stays so, from the first moment between two callbacks in
\* which it is.
OnlyLateStagesRevive ==
    /\ [](Installing => FaultIsInert)
    /\ [](~Installing /\ Unlocked /\ FaultIsInert => []FaultIsInert)

\* What write_status writes is the state of one moment: its three fields agree.
\* A fault in an effect or in an uncoupling is not covered by status_sequence
\* and can tear one status.
Coherent ==
    /\ got.phase = "fault" => got.error
    /\ got.error => got.phase \in {"fault", "ready"}
    /\ got.phase = "crawling" => got.enabled
    /\ got.phase \in {"waiting-for-activity", "waiting-for-derailment"} => ~got.enabled

StatusOfOneMoment == worker = "write" => excused \/ Coherent

\* A derailed consist does not wait for ever: crawling is switched on, or a fault
\* says why not.
CrawlingBegins ==
    []<>(Hooked => ~scene \/ linked \cap bent = {} \/ enabled \/ blocked)
=============================================================================
