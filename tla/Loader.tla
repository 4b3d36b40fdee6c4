------------------------------- MODULE Loader -------------------------------
(***************************************************************************)
(* How the toolkit starts in the game's process (runtime/loader.c resolve, *)
(* delayed_start; window.h toolkit_command_line).                          *)
(*                                                                         *)
(* Two functions of the game are redirected and prepare something the      *)
(* first time one of its threads calls them: the command line, with the    *)
(* hooks of the window's side, and the forwarding of DirectInput, which    *)
(* starts the worker.  Threads that come meanwhile spin until it is there. *)
(* The worker waits for a driving scene that has lasted, and then installs *)
(* the stages of the simulation's side, which assume that the objects of   *)
(* the scene are complete.                                                 *)
(*                                                                         *)
(* The time of the simulation is counted in steps of more than 0.25 s.     *)
(***************************************************************************)
EXTENDS Naturals

CONSTANTS
    Caller,   \* threads that call a redirected function
    Train,    \* the addresses the player's train can have
    Polls,    \* the polls a scene must have lasted for (20)
    Latest    \* bound: the highest time of the simulation

ASSUME LoaderAssumption == Polls \in Nat \ {0} /\ Latest \in Nat /\ "none" \notin Train

VARIABLES
    once,     \* once[e]: initialized, window_initialized
    caller,   \* what a thread has called, and how far it is
    prepared, \* prepared[e]: what the threads that called e are answered with
    early,    \* a thread was answered before there was an answer (history)
    workers,  \* how often the worker was started (history)
    worker,   \* where delayed_start is
    poll,     \* previous, first and stable
    scene,    \* the player's train, or none
    simtime,  \* the time of the simulation
    loading,  \* a scene has ended and was not polled since
    lasted,   \* the polls of this very scene, and when they began (history)
    let_on    \* lasted, and the time, when the worker went on (history)

onceVars   == <<once, caller, prepared, early>>
sceneVars  == <<scene, simtime, loading>>
loaderVars == <<onceVars, workers, worker, poll, sceneVars, lasted, let_on>>

Entry  == {"input", "window"}
Stages == {"cab", "native", "walking", "external"}

LoaderTypeOK ==
    /\ once \in [Entry -> 0..2]
    /\ caller \in [Caller -> [of : Entry, at : {"out", "first", "ready", "spinning"}]]
    /\ prepared \in [Entry -> {"unset", "made", "missing"}]
    /\ {early, loading} \subseteq BOOLEAN
    /\ workers \in Nat
    /\ worker \in {"none", "starting", "polling", "status", "ended"} \cup Stages
    /\ poll \in [previous : Train \cup {"none"}, first : 0..Latest, stable : 0..Polls]
    /\ scene \in Train \cup {"none"} /\ simtime \in 0..Latest
    /\ lasted \in [polls : 0..Polls, from : 0..Latest]
    /\ let_on \in [polls : 0..Polls, from : 0..Latest, to : 0..Latest]

LoaderInit ==
    /\ once = [e \in Entry |-> 0]
    /\ caller = [t \in Caller |-> [of |-> "window", at |-> "out"]]
    /\ prepared = [e \in Entry |-> "unset"]
    /\ early = FALSE /\ workers = 0 /\ worker = "none"
    /\ poll = [previous |-> "none", first |-> 0, stable |-> 0]
    /\ scene = "none" /\ simtime = 0 /\ loading = FALSE
    /\ lasted = [polls |-> 0, from |-> 0]
    /\ let_on = [polls |-> 0, from |-> 0, to |-> 0]

-----------------------------------------------------------------------------
(* The first call. *)

\* InterlockedCompareExchange(&initialized, 1, 0).
Enter(t, e) ==
    /\ caller[t].at = "out"
    /\ caller' = [caller EXCEPT ![t] =
          [of |-> e, at |-> IF once[e] = 0 THEN "first" ELSE "spinning"]]
    /\ once' = [once EXCEPT ![e] = IF @ = 0 THEN 1 ELSE @]
    /\ UNCHANGED <<prepared, early, workers, worker, poll, sceneVars, lasted, let_on>>

\* LoadLibraryW and CreateThread can both fail, and so can every installation of
\* the window's side; the answer is there in any case.
Prepare(t, made) ==
    LET e == caller[t].of
    IN  /\ caller[t].at = "first"
        /\ caller' = [caller EXCEPT ![t].at = "ready"]
        /\ prepared' = [prepared EXCEPT ![e] = made]
        /\ \/ e = "input" /\ worker' = "starting" /\ workers' = workers + 1
           \/ UNCHANGED <<worker, workers>>
        /\ UNCHANGED <<once, early, poll, sceneVars, lasted, let_on>>

\* InterlockedExchange(&initialized, 2), and the winner's own answer.
Publish(t) ==
    LET e == caller[t].of
    IN  /\ caller[t].at = "ready"
        /\ once' = [once EXCEPT ![e] = 2]
        /\ caller' = [caller EXCEPT ![t].at = "out"]
        /\ UNCHANGED <<prepared, early, workers, worker, poll, sceneVars, lasted, let_on>>

\* while(initialized != 2) Sleep(0).
Answered(t) ==
    LET e == caller[t].of
    IN  /\ caller[t].at = "spinning" /\ once[e] = 2
        /\ caller' = [caller EXCEPT ![t].at = "out"]
        /\ early' = (early \/ prepared[e] = "unset")
        /\ UNCHANGED <<once, prepared, workers, worker, poll, sceneVars, lasted, let_on>>

-----------------------------------------------------------------------------
(* The worker. *)

\* It ends in the toolset, for another image, for invalid settings, and when no
\* feature of the simulation's side is asked for.
StartWorker ==
    /\ worker = "starting"
    /\ worker' \in {"polling", "ended"}
    /\ UNCHANGED <<onceVars, workers, poll, sceneVars, lasted, let_on>>

Counted == [lasted EXCEPT !.polls = IF @ < Polls THEN @ + 1 ELSE @,
                          !.from = IF lasted.polls = 0 THEN simtime ELSE @]

\* Mutant: an object that is missing is passed over.
PollMissing_PassedOver ==
    /\ worker = "polling"
    /\ loading' = FALSE
    /\ UNCHANGED <<onceVars, workers, worker, poll, scene, simtime, lasted, let_on>>

\* An object of the scene is missing: without a scene always, and in one that is
\* not complete.
PollMissing ==
    /\ worker = "polling"
    /\ poll' = [poll EXCEPT !.previous = "none", !.stable = 0]
    /\ loading' = FALSE
    /\ UNCHANGED <<onceVars, workers, worker, scene, simtime, lasted, let_on>>

\* stable counts on past the limit while the simulation is paused.
PollScene ==
    LET new    == scene # poll.previous
        first  == IF new THEN simtime ELSE poll.first
        stable == (IF new THEN 0 ELSE poll.stable) + 1
    IN  /\ worker = "polling" /\ scene # "none"
        /\ poll' = [previous |-> scene, first |-> first,
                    stable |-> IF stable < Polls THEN stable ELSE Polls]
        /\ lasted' = Counted
        /\ IF stable >= Polls /\ simtime > first
           THEN /\ worker' = "cab"
                /\ let_on' = [polls |-> lasted'.polls, from |-> lasted'.from, to |-> simtime]
           ELSE UNCHANGED <<worker, let_on>>
        /\ loading' = FALSE
        /\ UNCHANGED <<onceVars, workers, scene, simtime>>

After(stage) == CASE stage = "cab" -> {"native"} [] stage = "native" -> {"walking"}
                  [] stage = "walking" -> {"external"} [] OTHER -> {"status", "ended"}

\* The worker ends at the first stage that fails; after the last one it ends, or
\* writes the status file for ever.
InstallStage ==
    /\ worker \in Stages
    /\ worker' \in After(worker) \cup {"ended"}
    /\ UNCHANGED <<onceVars, workers, poll, sceneVars, lasted, let_on>>

-----------------------------------------------------------------------------
(* The game. *)

SceneBegins(train) ==
    /\ scene = "none" /\ ~(loading /\ worker = "polling")
    /\ scene' = train /\ simtime' = 0
    /\ UNCHANGED <<onceVars, workers, worker, poll, loading, lasted, let_on>>

\* To end a scene and load another takes longer than the worker sleeps between two
\* polls; the new train can have the old one's address.
SceneEnds ==
    /\ scene # "none"
    /\ scene' = "none" /\ loading' = TRUE
    /\ lasted' = [polls |-> 0, from |-> 0]
    /\ UNCHANGED <<onceVars, workers, worker, poll, simtime, let_on>>

\* Unless the game is paused.
SimulationSteps ==
    /\ scene # "none" /\ simtime < Latest
    /\ simtime' = simtime + 1
    /\ UNCHANGED <<onceVars, workers, worker, poll, scene, loading, lasted, let_on>>

LoaderNext ==
    \/ \E t \in Caller :
          \/ \E e \in Entry : Enter(t, e)
          \/ \E made \in {"made", "missing"} : Prepare(t, made)
          \/ Publish(t) \/ Answered(t)
    \/ StartWorker \/ PollMissing \/ PollScene \/ InstallStage
    \/ \E train \in Train : SceneBegins(train)
    \/ SceneEnds \/ SimulationSteps

-----------------------------------------------------------------------------
(* Properties. *)

\* "Require five seconds of a valid driving scene with advancing simulation time":
\* the hooks of the simulation's side are installed by one worker, after one scene
\* was found for that long and moved on, even when another was loaded with a train
\* at the same address; and no thread is answered from a preparation that another
\* has not finished.
LoaderWaits ==
    /\ ~early /\ workers <= 1
    /\ worker \in Stages \cup {"status"} =>
          let_on.polls >= Polls /\ let_on.to > let_on.from

=============================================================================
