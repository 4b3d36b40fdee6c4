---------------------------- MODULE Session_proofs ----------------------------
(***************************************************************************)
(* Theorems about the parts of a session, for any signals, displays,       *)
(* clocks, threads, trains, editors and keys.  Each part has an invariant  *)
(* of its own, which its steps keep; a step of the session is one of them, *)
(* or leaves the part alone.  The invariants of the calls and of the log   *)
(* are in CrawlCalls_proofs and StartupLog_proofs.                         *)
(***************************************************************************)
EXTENDS Session, StartupLog_proofs, CrawlCalls_proofs, TLAPS

-----------------------------------------------------------------------------
(* Signal: as long as every scan was complete, what is remembered is what was     *)
(* passed, and both flags tell whether that has been told.                        *)

SignalInv == /\ SignalTypeOK /\ NoticeDue
             /\ known /\ scanned => seen = passed

LEMMA SignalStarts == SignalInit => SignalInv
BY DEF SignalInit, SignalInv, SignalTypeOK, NoticeDue

LEMMA SignalStep == SignalInv /\ [SignalNext]_signalVars => SignalInv'
<1> SUFFICES ASSUME SignalInv, [SignalNext]_signalVars PROVE SignalInv'
  OBVIOUS
<1>k. SignalTypeOK /\ NoticeDue /\ (known /\ scanned => seen = passed)
  BY DEF SignalInv
<1>1. ASSUME NEW list \in SUBSET Signal, NEW sound \in BOOLEAN, NEW red \in SUBSET list,
             signal_monitor(list, red, sound)
      PROVE  SignalInv'
  <2> DEFINE old == IF known THEN seen ELSE {}
             was == IF known THEN passed \cap list ELSE {}
             keep == (old \cap list) \cup red
             complete == sound /\ Cardinality(keep) <= Capacity
  <2>1. /\ known' = TRUE
        /\ seen' = IF complete THEN keep ELSE old
        /\ pending' = ((known /\ pending) \/ (complete /\ ~(keep \subseteq old)))
        /\ failed' = IF complete THEN pending' ELSE failed \/ red # {}
        /\ passed' = was \cup red
        /\ owed' = ((known /\ owed) \/ ~(red \subseteq was))
        /\ scanned' = ((~known \/ scanned) /\ complete)
        /\ popup' = popup
    BY <1>1 DEF signal_monitor, signal_collect
  <2> HIDE DEF complete
  <2>2. complete \in BOOLEAN  BY DEF complete
  <2>3. SignalTypeOK'
    <3>1. old \subseteq Signal /\ was \subseteq Signal /\ keep \subseteq Signal
      BY <1>k DEF SignalTypeOK
    <3> QED  BY <1>k, <2>1, <2>2, <3>1 DEF SignalTypeOK
  <2>4. ASSUME scanned' PROVE old \cap list = was /\ complete
    BY <2>1, <2>4, <1>k
  <2>5. ASSUME scanned' PROVE ~(keep \subseteq old) <=> ~(red \subseteq was)
    BY <2>4, <2>5
  <2>6. known' /\ scanned' => seen' = passed'
    BY <2>1, <2>4
  <2>7. NoticeDue'
    BY <1>k, <2>1, <2>4, <2>5 DEF NoticeDue
  <2> QED  BY <2>3, <2>6, <2>7 DEF SignalInv
<1>2. CASE signal_init
  BY <1>2, <1>k DEF signal_init, reset, SignalInv, SignalTypeOK, NoticeDue
<1>3. CASE signal_notice
  BY <1>3, <1>k DEF signal_notice, SignalInv, SignalTypeOK, NoticeDue
<1>4. CASE NewController
  BY <1>4, <1>k DEF NewController, SignalInv, SignalTypeOK, NoticeDue
<1>5. CASE PopupChanges
  BY <1>5, <1>k DEF PopupChanges, SignalInv, SignalTypeOK, NoticeDue
<1>6. CASE UNCHANGED signalVars
  BY <1>6, <1>k DEF signalVars, SignalInv, SignalTypeOK, NoticeDue
<1> QED  BY <1>1, <1>2, <1>3, <1>4, <1>5, <1>6 DEF SignalNext

-----------------------------------------------------------------------------
(* Timing.  The pace: unless the counter was set since, it tells how long ago the *)
(* last frame was.  The clocks: a rest that still belongs to its clock is exactly *)
(* what the clock is behind.                                                      *)

PaceType ==
    /\ {limited, started, timed, stepped} \subseteq BOOLEAN
    /\ since \in Span /\ real \in 0..Horizon
    /\ rate \in [period : Period, known : BOOLEAN, age : 0..Stale]
    /\ display \in Period
    /\ frame \in Frame \cup {NoFrame}

PaceInv == /\ PaceType /\ PacedApart
           /\ started \/ timed => stepped \/ since = real

LEMMA LeastBound ==
    ASSUME NEW a \in Int, NEW b \in Nat
    PROVE  Least(a, b) \in Int /\ Least(a, b) <= b /\ (a >= 0 => Least(a, b) \in Nat)
BY DEF Least

\* No frame satisfies what is said of one.
LEMMA NoFrameHolds ==
    /\ NoFrame.sure = FALSE /\ NoFrame.timed = FALSE
    /\ NoFrame.asked = 0 /\ NoFrame.period = 0
BY DEF NoFrame

LEMMA PaceStarts == TimingInit => PaceInv
<1> SUFFICES ASSUME TimingInit PROVE PaceInv
  OBVIOUS
<1>1. 0 \in Span /\ 0 \in 0..Horizon /\ 0 \in 0..Stale
  BY TimingAssumption DEF TimingAssumption, Span
<1>2. PaceType
  BY <1>1, TimingAssumption DEF TimingInit, TimingAssumption, PaceType
<1>3. PacedApart
  BY NoFrameHolds DEF TimingInit, PacedApart
<1> QED  BY <1>2, <1>3 DEF TimingInit, PaceInv

LEMMA AskedType ==
    ASSUME PaceType
    PROVE  /\ Asked \in [period : Period, known : BOOLEAN, age : 0..Stale]
           /\ Rated \in [period : Period, known : BOOLEAN, age : 0..Stale]
           /\ Remaining \in Nat
           /\ Remaining <= Rated.period /\ Rated.period \in Nat
           /\ limited /\ started /\ since >= 0 => since + Remaining >= Rated.period
<1>1. /\ Asked \in [period : Period, known : BOOLEAN, age : 0..Stale]
      /\ Rated \in [period : Period, known : BOOLEAN, age : 0..Stale]
  BY TimingAssumption DEF TimingAssumption, PaceType, Asked, Rated
<1>2. Asked.period \in Nat /\ Rated.period \in Nat /\ (limited => Rated.period = Asked.period)
  BY <1>1, TimingAssumption DEF TimingAssumption, Rated
<1>3. since \in Int  BY TimingAssumption DEF PaceType, Span, TimingAssumption
<1> QED  BY <1>1, <1>2, <1>3 DEF Remaining

LEMMA AgedType ==
    ASSUME NEW r \in [period : Period, known : BOOLEAN, age : 0..Stale], NEW ticks \in Nat
    PROVE  Aged(r, ticks) \in [period : Period, known : BOOLEAN, age : 0..Stale]
<1>1. Least(r.age + ticks, Stale) \in 0..Stale
  BY TimingAssumption, LeastBound DEF TimingAssumption, Least
<1> QED  BY <1>1 DEF Aged

LEMMA PaceStep == PaceInv /\ [PaceNext]_paceVars => PaceInv'
<1> SUFFICES ASSUME PaceInv, [PaceNext]_paceVars PROVE PaceInv'
  OBVIOUS
<1>k. /\ PaceType /\ PacedApart /\ (started \/ timed => stepped \/ since = real)
      /\ {limited, started, timed, stepped} \subseteq BOOLEAN
      /\ since \in Int /\ real \in Nat /\ Horizon \in Nat /\ Longest \in Nat /\ Stale \in Nat
  BY TimingAssumption DEF PaceInv, PaceType, TimingAssumption, Span
<1>1. ASSUME NEW wait \in Waits, timing_frame(wait) PROVE PaceInv'
  <2> DEFINE p == Prepared(wait)
  <2>1. wait \in Nat /\ Remaining \in Nat
    BY <1>k, AskedType DEF Waits
  <2>2. /\ p.gap = real + wait /\ p.asked = Remaining /\ p.wait = wait
        /\ p.period = Rated.period
        /\ p.step = (IF timed /\ since + wait >= 0 THEN Least(since + wait, Longest) ELSE 0)
        /\ p.sure = (limited /\ started /\ ~stepped) /\ p.timed = (timed /\ ~stepped)
    BY DEF Prepared
  <2>3. p \in Frame
    <3>1. p.step \in Nat
      <4>1. since + wait \in Int  BY <1>k, <2>1
      <4>2. since + wait >= 0 => Least(since + wait, Longest) \in Nat
        BY <1>k, <4>1, LeastBound
      <4> QED  BY <2>2, <4>2
    <3>2. p.gap \in Nat /\ p.asked \in Nat /\ p.wait \in Nat /\ p.period \in Period
      BY <1>k, <2>1, <2>2, AskedType
    <3>3. p.sure \in BOOLEAN /\ p.timed \in BOOLEAN  BY <1>k, <2>2
    <3> QED  BY <3>1, <3>2, <3>3 DEF Prepared, Frame
  <2>4. p.sure => p.gap + (p.asked - Least(p.wait, p.asked)) >= p.period
    <3>1. SUFFICES ASSUME limited, started, ~stepped
                   PROVE  real + wait + (Remaining - Least(wait, Remaining)) >= Rated.period
      BY <2>2
    <3>2. since = real /\ real + Remaining >= Rated.period /\ Rated.period \in Nat
      BY <1>k, <3>1, AskedType
    <3>3. wait >= Least(wait, Remaining) /\ Least(wait, Remaining) \in Nat
      BY <2>1 DEF Least
    <3> QED  BY <1>k, <2>1, <3>2, <3>3
  <2>5. p.asked <= p.period  BY <1>k, <2>2, AskedType
  <2>6. p.timed => p.step = Least(p.gap, Longest)
    <3>1. SUFFICES ASSUME timed, ~stepped PROVE p.step = Least(p.gap, Longest)
      BY <2>2
    <3>2. since = real  BY <1>k, <3>1
    <3>3. since + wait = real + wait /\ since + wait >= 0  BY <1>k, <2>1, <3>2
    <3> QED  BY <2>2, <3>1, <3>3
  <2>7. /\ frame' = p /\ since' = 0 /\ real' = 0 /\ stepped' = FALSE /\ started' = limited
        /\ timed' = TRUE /\ rate' = Aged(Rated, wait) /\ UNCHANGED <<limited, display>>
    BY <1>1 DEF timing_frame
  <2>8. rate' \in [period : Period, known : BOOLEAN, age : 0..Stale]
    BY <1>k, <2>1, <2>7, AskedType, AgedType
  <2> HIDE DEF p
  <2>9. PaceType'
    <3>1. limited \in BOOLEAN /\ display \in Period  BY <1>k DEF PaceType
    <3>2. 0 \in Span /\ 0 \in 0..Horizon  BY <1>k DEF Span
    <3> QED  BY <2>3, <2>7, <2>8, <3>1, <3>2 DEF PaceType
  <2> QED  BY <2>4, <2>5, <2>6, <2>7, <2>9 DEF PaceInv, PacedApart
<1>e. ASSUME frame' = NoFrame PROVE PacedApart'
  BY <1>e, NoFrameHolds DEF PacedApart
<1>2. CASE FirstCountFails
  <2>1. PacedApart'  BY <1>2, <1>e DEF FirstCountFails
  <2>2. PaceType'  BY <1>2, <1>k DEF FirstCountFails, PaceType
  <2> QED  BY <1>2, <1>k, <2>1, <2>2 DEF FirstCountFails, PaceInv
<1>3. ASSUME NEW wait \in Waits, SecondCountFails(wait) PROVE PaceInv'
  <2>0. wait \in Nat  BY <1>k, AskedType DEF Waits
  <2>1. Aged(Asked, wait) \in [period : Period, known : BOOLEAN, age : 0..Stale]
    BY <1>k, <2>0, AskedType, AgedType
  <2>2. PacedApart'  BY <1>3, <1>e DEF SecondCountFails
  <2>3. PaceType'  BY <1>3, <1>k, <2>1 DEF SecondCountFails, PaceType
  <2> QED  BY <1>3, <1>k, <2>2, <2>3 DEF SecondCountFails, PaceInv
<1>4. CASE Tick
  <2>1. Aged(rate, 1) \in [period : Period, known : BOOLEAN, age : 0..Stale]
    BY <1>k, AgedType DEF PaceType
  <2> QED  BY <1>4, <1>k, <2>1 DEF Tick, PaceInv, PaceType, PacedApart, Span
<1>5. CASE \E to \in Span : CounterSet(to)
  BY <1>5, <1>k DEF CounterSet, PaceInv, PaceType, PacedApart
<1>6. CASE \E to \in Period : DisplayChanges(to)
  BY <1>6, <1>k DEF DisplayChanges, PaceInv, PaceType, PacedApart
<1>7. CASE UNCHANGED paceVars
  BY <1>7, <1>k DEF paceVars, PaceInv, PaceType, PacedApart
<1> QED  BY <1>1, <1>2, <1>3, <1>4, <1>5, <1>6, <1>7 DEF PaceNext

Halves(x) == 2 * x <= Grain /\ -Grain <= 2 * x

ClockInv ==
    /\ time \in [Clock -> Nat] /\ drift \in [Clock -> Int]
    /\ rest \in [Clock -> [error : Int, last : Nat, valid : BOOLEAN]]
    /\ \A c \in Clock :
          /\ rest[c].valid => Halves(rest[c].error)
          /\ drift[c] = IF rest[c].valid /\ time[c] = rest[c].last THEN -rest[c].error ELSE 0

LEMMA ClockStarts == TimingInit => ClockInv
BY DEF TimingInit, ClockInv

LEMMA RoundedNear ==
    ASSUME NEW t \in Int, NEW r \in Rounded(t)
    PROVE  r \in Nat /\ Halves(t - r) /\ Halves(r - t)
BY TimingAssumption DEF Rounded, Halves, TimingAssumption

LEMMA ClockStep == ClockInv /\ [ClockNext]_clockVars => ClockInv'
<1> SUFFICES ASSUME ClockInv, [ClockNext]_clockVars PROVE ClockInv'
  OBVIOUS
<1>k. /\ time \in [Clock -> Nat] /\ drift \in [Clock -> Int]
      /\ rest \in [Clock -> [error : Int, last : Nat, valid : BOOLEAN]]
      /\ Grain \in Nat /\ Step \subseteq Nat
  BY TimingAssumption DEF ClockInv, TimingAssumption
<1>1. ASSUME NEW c \in Clock, NEW dt \in Step, timing_add(c, dt) PROVE ClockInv'
  <2> DEFINE kept  == rest[c].valid /\ time[c] = rest[c].last
             exact == time[c] + dt + IF kept THEN rest[c].error ELSE 0
  <2>1. exact \in Int  BY <1>k
  <2>2. PICK r \in Rounded(exact) :
           /\ time' = [time EXCEPT ![c] = r]
           /\ rest' = [rest EXCEPT ![c] = [error |-> exact - r, last |-> r, valid |-> TRUE]]
           /\ drift' = [drift EXCEPT ![c] = @ + r - (time[c] + dt)]
    BY <1>1 DEF timing_add
  <2>3. r \in Nat /\ Halves(exact - r)  BY <2>1, <2>2, RoundedNear
  <2>4. drift[c] + r - (time[c] + dt) = -(exact - r)
    BY <1>k, <2>3 DEF ClockInv
  <2> HIDE DEF exact, kept
  <2> QED  BY <1>k, <2>1, <2>2, <2>3, <2>4 DEF ClockInv
<1>2. ASSUME NEW c \in Clock, NEW dt \in Step, timing_accumulate_native(c, dt) PROVE ClockInv'
  <2>1. time[c] + dt \in Int  BY <1>k
  <2>2. PICK r \in Rounded(time[c] + dt) :
           /\ time' = [time EXCEPT ![c] = r]
           /\ rest' = [x \in Clock |-> [error |-> 0, last |-> 0, valid |-> FALSE]]
           /\ drift' = [x \in Clock |-> 0]
    BY <1>2 DEF timing_accumulate_native
  <2>3. r \in Nat  BY <2>1, <2>2, RoundedNear
  <2> QED  BY <1>k, <2>2, <2>3 DEF ClockInv
<1>3. ASSUME NEW c \in Clock, NEW to \in 0..MaxTime, ClockSet(c, to) PROVE ClockInv'
  BY <1>3, <1>k, TimingAssumption DEF ClockSet, ClockInv, TimingAssumption
<1>4. CASE UNCHANGED clockVars
  BY <1>4 DEF clockVars, ClockInv
<1> QED  BY <1>1, <1>2, <1>3, <1>4 DEF ClockNext

LEMMA ClocksAreNear == ClockInv => NoDrift
BY TimingAssumption DEF ClockInv, NoDrift, Halves, TimingAssumption

-----------------------------------------------------------------------------
(* Loader.  Of the threads that call one entry at most one prepares it, before    *)
(* anyone is answered.  What the worker has counted, it has counted in the scene   *)
(* that is there: a poll between two scenes makes it begin again.                  *)

At(t, e, places) == caller[t].of = e /\ caller[t].at \in places

OnceHolds ==
    /\ \A e \in Entry :
          /\ once[e] = 2 => prepared[e] # "unset"
          /\ once[e] = 0 => prepared[e] = "unset"
    /\ \A t \in Caller :
          /\ caller[t].at \in {"first", "ready"} => once[caller[t].of] = 1
          /\ caller[t].at = "first" => prepared[caller[t].of] = "unset"
          /\ caller[t].at = "ready" => prepared[caller[t].of] # "unset"
    /\ \A t \in Caller, u \in Caller, e \in Entry :
          At(t, e, {"first", "ready"}) /\ At(u, e, {"first", "ready"}) => t = u
    /\ ~early
    /\ workers <= 1 /\ (prepared["input"] = "unset" => workers = 0)

WorkerHolds ==
    /\ worker = "none" <=> workers = 0
    /\ worker \in {"none", "starting"} => poll.previous = "none"
    /\ lasted.polls > 0 => lasted.from <= simtime
    /\ scene = "none" => lasted.polls = 0
    /\ worker = "polling" /\ scene = "none" /\ ~loading => poll.previous = "none"
    /\ worker = "polling" /\ scene # "none" /\ poll.previous # "none" =>
          /\ poll.previous = scene /\ lasted.polls > 0
          /\ poll.stable <= lasted.polls /\ lasted.from <= poll.first

GateHolds ==
    worker \in Stages \cup {"status"} => let_on.polls >= Polls /\ let_on.to > let_on.from

LoaderInv == LoaderTypeOK /\ OnceHolds /\ WorkerHolds /\ GateHolds

LEMMA LoaderStarts == LoaderInit => LoaderInv
<1> SUFFICES ASSUME LoaderInit PROVE LoaderInv
  OBVIOUS
<1>1. LoaderTypeOK
  <2>1. 0 \in 0..Polls /\ 0 \in 0..Latest
    BY LoaderAssumption DEF LoaderAssumption
  <2>2. /\ poll \in [previous : Train \cup {"none"}, first : 0..Latest, stable : 0..Polls]
        /\ lasted \in [polls : 0..Polls, from : 0..Latest]
        /\ let_on \in [polls : 0..Polls, from : 0..Latest, to : 0..Latest]
    BY <2>1 DEF LoaderInit
  <2>3. early \in BOOLEAN /\ loading \in BOOLEAN
    BY DEF LoaderInit
  <2> QED  BY <2>1, <2>2, <2>3 DEF LoaderInit, LoaderTypeOK, Entry
<1>2. OnceHolds
  BY DEF LoaderInit, OnceHolds, Entry, At
<1>3. WorkerHolds
  BY DEF LoaderInit, WorkerHolds
<1>4. GateHolds
  BY DEF LoaderInit, GateHolds, Stages
<1> QED  BY <1>1, <1>2, <1>3, <1>4 DEF LoaderInv

\* The calls.
LEMMA OnceStep ==
    LoaderTypeOK /\ OnceHolds /\ WorkerHolds /\ [LoaderNext]_loaderVars => OnceHolds'
<1> SUFFICES ASSUME LoaderTypeOK, OnceHolds, WorkerHolds, [LoaderNext]_loaderVars
             PROVE  OnceHolds'
  OBVIOUS
<1>k. /\ once \in [Entry -> 0..2]
      /\ caller \in [Caller -> [of : Entry, at : {"out", "first", "ready", "spinning"}]]
      /\ prepared \in [Entry -> {"unset", "made", "missing"}] /\ workers \in Nat
      /\ "input" \in Entry
  BY DEF LoaderTypeOK, Entry
<1>1. ASSUME NEW t \in Caller, NEW e \in Entry, Enter(t, e) PROVE OnceHolds'
  BY <1>1, <1>k DEF Enter, OnceHolds, At
<1>2. ASSUME NEW t \in Caller, NEW made \in {"made", "missing"}, Prepare(t, made)
      PROVE  OnceHolds'
  BY <1>2, <1>k DEF Prepare, OnceHolds, At
<1>3. ASSUME NEW t \in Caller, Publish(t) PROVE OnceHolds'
  BY <1>3, <1>k DEF Publish, OnceHolds, At
<1>4. ASSUME NEW t \in Caller, Answered(t) PROVE OnceHolds'
  <2>1. caller[t].of \in Entry
    BY <1>k
  <2>2. prepared[caller[t].of] # "unset" /\ ~early
    BY <1>4, <2>1 DEF Answered, OnceHolds
  <2>3. ~early'
    BY <1>4, <2>2 DEF Answered
  <2> QED  BY <1>4, <1>k, <2>3 DEF Answered, OnceHolds, At
<1>5. ASSUME UNCHANGED <<onceVars, workers>> PROVE OnceHolds'
  BY <1>5 DEF onceVars, OnceHolds, At
<1> QED  BY <1>1, <1>2, <1>3, <1>4, <1>5
         DEF LoaderNext, loaderVars, StartWorker, PollMissing, PollScene, InstallStage,
             SceneBegins, SceneEnds, SimulationSteps

LEMMA LoaderTypeStep == LoaderTypeOK /\ [LoaderNext]_loaderVars => LoaderTypeOK'
<1> SUFFICES ASSUME LoaderTypeOK, [LoaderNext]_loaderVars PROVE LoaderTypeOK'
  OBVIOUS
<1> USE LoaderAssumption DEF LoaderAssumption
<1>1. ASSUME NEW t \in Caller, NEW e \in Entry, Enter(t, e) PROVE LoaderTypeOK'
  BY <1>1 DEF Enter, LoaderTypeOK, sceneVars
<1>2. ASSUME NEW t \in Caller, NEW made \in {"made", "missing"}, Prepare(t, made)
      PROVE  LoaderTypeOK'
  BY <1>2 DEF Prepare, LoaderTypeOK, sceneVars
<1>3. ASSUME NEW t \in Caller, Publish(t) PROVE LoaderTypeOK'
  BY <1>3 DEF Publish, LoaderTypeOK, sceneVars
<1>4. ASSUME NEW t \in Caller, Answered(t) PROVE LoaderTypeOK'
  BY <1>4 DEF Answered, LoaderTypeOK, sceneVars
<1>5. CASE StartWorker
  BY <1>5 DEF StartWorker, LoaderTypeOK, onceVars, sceneVars
<1>6. CASE PollMissing
  <2>1. poll' \in [previous : Train \cup {"none"}, first : 0..Latest, stable : 0..Polls]
    <3>1. poll.first \in 0..Latest /\ 0 \in 0..Polls
      BY DEF LoaderTypeOK
    <3>2. poll' = [previous |-> "none", first |-> poll.first, stable |-> 0]
      BY <1>6 DEF PollMissing, LoaderTypeOK
    <3> QED  BY <3>1, <3>2
  <2>2. early' \in BOOLEAN /\ loading' \in BOOLEAN
    BY <1>6 DEF PollMissing, LoaderTypeOK, onceVars
  <2> QED  BY <1>6, <2>1, <2>2 DEF PollMissing, LoaderTypeOK, onceVars
<1>7. CASE PollScene
  <2>1. lasted' \in [polls : 0..Polls, from : 0..Latest]
    <3>1. /\ lasted \in [polls : 0..Polls, from : 0..Latest] /\ simtime \in 0..Latest
          /\ lasted.polls \in 0..Polls /\ lasted.from \in 0..Latest
      BY DEF LoaderTypeOK
    <3>2. lasted' = [polls |-> IF lasted.polls < Polls THEN lasted.polls + 1 ELSE lasted.polls,
                     from |-> IF lasted.polls = 0 THEN simtime ELSE lasted.from]
      BY <1>7, <3>1 DEF PollScene, Counted
    <3> QED  BY <3>1, <3>2
  <2>2. poll' \in [previous : Train \cup {"none"}, first : 0..Latest, stable : 0..Polls]
    BY <1>7 DEF PollScene, LoaderTypeOK
  <2>3. let_on' \in [polls : 0..Polls, from : 0..Latest, to : 0..Latest]
    BY <1>7, <2>1 DEF PollScene, LoaderTypeOK
  <2> QED  BY <1>7, <2>1, <2>2, <2>3 DEF PollScene, LoaderTypeOK, onceVars, Stages
<1>8. CASE InstallStage
  BY <1>8 DEF InstallStage, After, Stages, LoaderTypeOK, onceVars, sceneVars
<1>9. CASE \E train \in Train : SceneBegins(train)
  BY <1>9 DEF SceneBegins, LoaderTypeOK, onceVars
<1>10. CASE SceneEnds
  BY <1>10 DEF SceneEnds, LoaderTypeOK, onceVars
<1>11. CASE SimulationSteps
  BY <1>11 DEF SimulationSteps, LoaderTypeOK, onceVars
<1>12. CASE UNCHANGED loaderVars
  BY <1>12 DEF loaderVars, LoaderTypeOK, onceVars, sceneVars
<1> QED  BY <1>1, <1>2, <1>3, <1>4, <1>5, <1>6, <1>7, <1>8, <1>9, <1>10, <1>11, <1>12
         DEF LoaderNext

\* The worker.
LEMMA WorkerStep ==
    LoaderTypeOK /\ OnceHolds /\ WorkerHolds /\ GateHolds /\ [LoaderNext]_loaderVars
        => WorkerHolds' /\ GateHolds'
<1> SUFFICES ASSUME LoaderTypeOK, OnceHolds, WorkerHolds, GateHolds, [LoaderNext]_loaderVars
             PROVE  WorkerHolds' /\ GateHolds'
  OBVIOUS
<1> USE LoaderAssumption DEF LoaderAssumption
<1>t. /\ poll \in [previous : Train \cup {"none"}, first : 0..Latest, stable : 0..Polls]
      /\ simtime \in 0..Latest /\ lasted \in [polls : 0..Polls, from : 0..Latest]
      /\ let_on \in [polls : 0..Polls, from : 0..Latest, to : 0..Latest]
      /\ scene \in Train \cup {"none"} /\ workers \in Nat
  BY DEF LoaderTypeOK
<1>1. ASSUME UNCHANGED <<workers, worker, poll, sceneVars, lasted, let_on>>
      PROVE  WorkerHolds' /\ GateHolds'
  BY <1>1 DEF sceneVars, WorkerHolds, GateHolds
<1>2. ASSUME NEW t \in Caller, NEW made \in {"made", "missing"}, Prepare(t, made)
      PROVE  WorkerHolds' /\ GateHolds'
  <2>1. CASE worker' = "starting" /\ workers' = workers + 1 /\ caller[t].of = "input"
    <3>1. workers = 0 /\ worker = "none"
      BY <1>2, <2>1 DEF Prepare, OnceHolds, WorkerHolds
    <3> QED  BY <1>2, <1>t, <2>1, <3>1 DEF Prepare, sceneVars, WorkerHolds, GateHolds, Stages
  <2>2. CASE UNCHANGED <<worker, workers>>
    BY <1>1, <1>2, <2>2 DEF Prepare
  <2> QED  BY <1>2, <2>1, <2>2 DEF Prepare
<1>3. CASE StartWorker
  BY <1>3, <1>t DEF StartWorker, sceneVars, WorkerHolds, GateHolds, Stages
<1>4. CASE PollMissing
  BY <1>4, <1>t DEF PollMissing, WorkerHolds, GateHolds, Stages
<1>5. CASE PollScene
  <2> DEFINE new    == scene # poll.previous
             first  == IF new THEN simtime ELSE poll.first
             stable == (IF new THEN 0 ELSE poll.stable) + 1
  <2>1. /\ worker = "polling" /\ scene # "none" /\ workers # 0
        /\ poll' = [previous |-> scene, first |-> first,
                    stable |-> IF stable < Polls THEN stable ELSE Polls]
        /\ lasted' = Counted
        /\ UNCHANGED <<scene, simtime, workers>>
        /\ \/ /\ stable >= Polls /\ simtime > first /\ worker' = "cab"
              /\ let_on' = [polls |-> lasted'.polls, from |-> lasted'.from, to |-> simtime]
           \/ UNCHANGED <<worker, let_on>>
    BY <1>5 DEF PollScene, WorkerHolds
  <2>2. ~new => lasted.polls > 0 /\ poll.stable <= lasted.polls /\ lasted.from <= poll.first
    BY <2>1 DEF WorkerHolds
  <2>3. /\ lasted'.polls = IF lasted.polls < Polls THEN lasted.polls + 1 ELSE lasted.polls
        /\ lasted'.from = IF lasted.polls = 0 THEN simtime ELSE lasted.from
    BY <2>1, <1>t DEF Counted
  <2>4. /\ lasted'.polls > 0 /\ lasted'.polls \in 0..Polls
        /\ stable >= Polls => lasted'.polls >= Polls
        /\ (IF stable < Polls THEN stable ELSE Polls) <= lasted'.polls
    BY <1>t, <2>2, <2>3
  <2>5. lasted'.from <= simtime /\ lasted'.from <= first
    BY <1>t, <2>2, <2>3 DEF WorkerHolds
  <2>6. poll' = [previous |-> scene, first |-> first,
                 stable |-> IF stable < Polls THEN stable ELSE Polls]
    BY <2>1
  <2> HIDE DEF stable, first, new
  <2>7. /\ poll'.previous = scene /\ poll'.first = first
        /\ poll'.stable = IF stable < Polls THEN stable ELSE Polls
    BY <2>6
  <2>8. worker' \in {"polling", "cab"} /\ workers' # 0
    BY <2>1
  <2>9. WorkerHolds'
    BY <2>1, <2>4, <2>5, <2>7, <2>8 DEF WorkerHolds
  <2>10. GateHolds'
    <3>1. CASE worker' = "polling"
      BY <3>1 DEF GateHolds, Stages
    <3>2. CASE worker' # "polling"
      <4>1. /\ stable >= Polls /\ simtime > first
            /\ let_on' = [polls |-> lasted'.polls, from |-> lasted'.from, to |-> simtime]
        BY <2>1, <3>2
      <4>2. first \in Int /\ lasted'.from \in Int
        BY <1>t, <2>3 DEF first
      <4>3. let_on'.polls >= Polls /\ let_on'.to > let_on'.from
        BY <1>t, <2>4, <2>5, <4>1, <4>2
      <4> QED  BY <4>3 DEF GateHolds
    <3> QED  BY <3>1, <3>2
  <2> QED  BY <2>9, <2>10
<1>6. CASE InstallStage
  <2>1. worker # "none" /\ worker' \notin {"none", "starting", "polling"}
    BY <1>6 DEF InstallStage, After, Stages
  <2> QED  BY <1>6, <2>1 DEF InstallStage, sceneVars, WorkerHolds, GateHolds
<1>7. CASE \E train \in Train : SceneBegins(train)
  BY <1>7, <1>t DEF SceneBegins, WorkerHolds, GateHolds
<1>8. CASE SceneEnds
  BY <1>8, <1>t DEF SceneEnds, WorkerHolds, GateHolds
<1>9. CASE SimulationSteps
  BY <1>9, <1>t DEF SimulationSteps, WorkerHolds, GateHolds
<1> QED  BY <1>1, <1>2, <1>3, <1>4, <1>5, <1>6, <1>7, <1>8, <1>9
         DEF LoaderNext, loaderVars, Enter, Publish, Answered

LEMMA LoaderStep == LoaderInv /\ [LoaderNext]_loaderVars => LoaderInv'
BY LoaderTypeStep, OnceStep, WorkerStep DEF LoaderInv

LEMMA WorkerHasWaited == LoaderInv => LoaderWaits
BY DEF LoaderInv, OnceHolds, GateHolds, LoaderWaits

-----------------------------------------------------------------------------
(* Editors.  Whatever was toggled, the frame that would be left belongs to the     *)
(* mode of the last frame, and in an editor the launcher's is kept; a key that is  *)
(* taken to be down belongs to a key that is held.                                 *)

WindowType ==
    /\ mode \in Editor \cup {"launcher"} /\ last_mode \in Editor \cup {"launcher"}
    /\ windows \in BOOLEAN /\ fullscreen \in BOOLEAN /\ resize \in BOOLEAN
    /\ sizing \in BOOLEAN /\ unseen \in BOOLEAN
    /\ frame_of \in Style /\ saved \in Style /\ base \in Style
    /\ size \in Size /\ rendered \in Size

FrameHolds ==
    windows =>
       /\ IF fullscreen THEN frame_of = "none" /\ saved # "none" ELSE frame_of # "none"
       /\ Plain = IF last_mode = "launcher" THEN "launcher" ELSE "editor"
       /\ last_mode # "launcher" => base = "launcher"

WindowInv == WindowType /\ FrameHolds /\ FrameRestored

LEMMA WindowStarts == EditorsInit => WindowInv
BY EditorsAssumption
   DEF EditorsAssumption, EditorsInit, WindowInv, WindowType, FrameHolds, FrameRestored,
       Plain, Style

LEMMA WindowStep == WindowInv /\ [WindowNext]_windowVars => WindowInv'
<1> SUFFICES ASSUME WindowInv, [WindowNext]_windowVars PROVE WindowInv'
  OBVIOUS
<1>k. WindowType /\ FrameHolds /\ FrameRestored
  BY DEF WindowInv
<1>1. ASSUME NEW due \in BOOLEAN, NEW accepted \in BOOLEAN, NEW to \in Size,
             EditorFrame(due, accepted, to)
      PROVE  WindowInv'
  <2> DEFINE entered == mode # last_mode
             apply   == (resize \/ entered) /\ due /\ ~sizing
  <2>1. /\ mode # "launcher" /\ windows
        /\ IF entered THEN EnterEditor(to)
                      ELSE UNCHANGED <<fullscreen, base, frame_of, size>>
        /\ resize' = ((resize \/ entered) /\ ~apply)
        /\ IF apply THEN editor_rebuild(accepted) ELSE UNCHANGED <<windows, rendered>>
        /\ unseen' = (unseen /\ ~entered)
        /\ last_mode' = mode
        /\ UNCHANGED <<mode, saved, sizing>>
    BY <1>1 DEF EditorFrame
  <2>2. /\ fullscreen' \in BOOLEAN /\ base' \in Style /\ frame_of' \in Style /\ size' \in Size
    BY <1>k, <2>1 DEF EnterEditor, WindowType, Plain, Style
  <2>3. windows' \in BOOLEAN /\ rendered' \in Size
    BY <1>k, <2>1, <2>2 DEF editor_rebuild, WindowType
  <2>4. WindowType'
    BY <1>k, <2>1, <2>2, <2>3 DEF WindowType
  <2>5. FrameHolds'
    BY <1>k, <2>1 DEF EnterEditor, FrameHolds, Plain, WindowType
  <2>6. windows' /\ ~resize' => rendered' = size' \/ unseen'
    BY <1>k, <2>1 DEF editor_rebuild, FrameRestored, WindowType
  <2> QED  BY <2>1, <2>4, <2>5, <2>6 DEF WindowInv, FrameRestored, FrameHolds, Plain
<1>2. CASE LauncherFrame
  BY <1>k, <1>2 DEF LauncherFrame, WindowInv, WindowType, FrameHolds, FrameRestored, Plain
<1>3. ASSUME NEW to \in Size, editor_toggle_fullscreen(to) PROVE WindowInv'
  BY <1>k, <1>3 DEF editor_toggle_fullscreen, WindowInv, WindowType, FrameHolds,
                    FrameRestored, Plain, Style
<1>4. ASSUME NEW to \in Size, WindowSized(to) PROVE WindowInv'
  BY <1>k, <1>4 DEF WindowSized, WindowInv, WindowType, FrameHolds, FrameRestored, Plain
<1>5. ASSUME NEW enter \in BOOLEAN, SizeMove(enter) PROVE WindowInv'
  BY <1>k, <1>5 DEF SizeMove, WindowInv, WindowType, FrameHolds, FrameRestored, Plain
<1>6. ASSUME NEW to \in Editor \cup {"launcher"}, NEW built \in Size, ModeChanges(to, built)
      PROVE  WindowInv'
  BY <1>k, <1>6 DEF ModeChanges, WindowInv, WindowType, FrameHolds, FrameRestored, Plain
<1>7. CASE UNCHANGED windowVars
  BY <1>k, <1>7 DEF windowVars, WindowInv, WindowType, FrameHolds, FrameRestored, Plain
<1> QED  BY <1>1, <1>2, <1>3, <1>4, <1>5, <1>6, <1>7 DEF WindowNext

KeysInv ==
    /\ routes \in [Key -> Key \cup {"nothing", "not held"}]
    /\ down \subseteq Key /\ mods \subseteq {"ctrl", "alt"} /\ focus \in BOOLEAN
    /\ pressed \subseteq Key /\ stuck \subseteq Key
    /\ KeysReleased

LEMMA KeysStart == EditorsInit => KeysInv
BY DEF EditorsInit, KeysInv, KeysReleased

LEMMA SwapType ==
    ASSUME NEW k \in Key
    PROVE  editor_key_swap(k) \in Key \cup {"nothing"}
BY EditorsAssumption DEF EditorsAssumption, editor_key_swap, Key

LEMMA NoKey == "nothing" \notin Key /\ "not held" \notin Key
BY EditorsAssumption DEF EditorsAssumption, Key

LEMMA KeysStep == KeysInv /\ [KeysNext]_keyVars => KeysInv'
<1> SUFFICES ASSUME KeysInv, [KeysNext]_keyVars PROVE KeysInv'
  OBVIOUS
<1>1. ASSUME NEW k \in Key, Press(k) PROVE KeysInv'
  <2> DEFINE mapped == IF focus THEN editor_key_swap(k) ELSE k
  <2>1. mapped \in Key \cup {"nothing"}  BY SwapType
  <2>2. /\ k \notin down /\ down' = down \cup {k}
        /\ routes' = [routes EXCEPT ![k] = mapped]
        /\ pressed' = pressed \cup ({mapped} \ {"nothing"})
        /\ stuck' = stuck \ {mapped}
        /\ UNCHANGED <<focus, mods>>
    BY <1>1 DEF Press
  <2> HIDE DEF mapped
  <2>3. \A x \in down : Meaning(x)' = Meaning(x)
    BY <2>2 DEF KeysInv, Meaning
  <2>4. Meaning(k)' = mapped
    BY <2>1, <2>2, NoKey DEF KeysInv, Meaning
  <2>5. KeysReleased'
    <3>1. SUFFICES ASSUME NEW p \in pressed'
                   PROVE  p \in stuck' \/ \E x \in down' : p = Meaning(x)'
      BY DEF KeysReleased
    <3>2. CASE p = mapped
      BY <2>2, <2>4, <3>2
    <3>3. CASE p # mapped
      <4>1. p \in pressed  BY <2>2, <3>1, <3>3
      <4>2. p \in stuck \/ \E x \in down : p = Meaning(x)
        BY <4>1 DEF KeysInv, KeysReleased
      <4> QED  BY <2>2, <2>3, <3>3, <4>2
    <3> QED  BY <3>2, <3>3
  <2> QED  BY <2>1, <2>2, <2>5, NoKey DEF KeysInv
<1>2. ASSUME NEW k \in Key, Release(k) PROVE KeysInv'
  <2>1. \A x \in down \ {k} : Meaning(x)' = Meaning(x)
    BY <1>2 DEF Release, KeysInv, Meaning
  <2>2. KeysReleased'
    BY <1>2, <2>1 DEF Release, KeysInv, KeysReleased
  <2> QED  BY <1>2, <2>2 DEF Release, KeysInv
<1>3. ASSUME NEW k \in Key, PressElsewhere(k) PROVE KeysInv'
  BY <1>3 DEF PressElsewhere, KeysInv, KeysReleased, Meaning
<1>4. ASSUME NEW k \in Key, ReleaseElsewhere(k) PROVE KeysInv'
  <2>1. \A x \in Key : Meaning(x)' = Meaning(x)
    BY <1>4 DEF ReleaseElsewhere, Meaning
  <2>2. KeysReleased'
    <3>1. SUFFICES ASSUME NEW p \in pressed
                   PROVE  p \in stuck' \/ \E x \in down' : p = Meaning(x)'
      BY <1>4 DEF ReleaseElsewhere, KeysReleased
    <3>2. p \in stuck \/ \E x \in down : p = Meaning(x)
      BY DEF KeysInv, KeysReleased
    <3>3. CASE p \in stuck \/ p = Meaning(k)
      BY <1>4, <3>3 DEF ReleaseElsewhere
    <3>4. CASE \E x \in down \ {k} : p = Meaning(x)
      BY <1>4, <2>1, <3>4 DEF ReleaseElsewhere, KeysInv
    <3> QED  BY <3>2, <3>3, <3>4
  <2> QED  BY <1>4, <2>2 DEF ReleaseElsewhere, KeysInv
<1>5. ASSUME NEW m \in {"ctrl", "alt"}, Modifier(m) PROVE KeysInv'
  BY <1>5 DEF Modifier, KeysInv, KeysReleased, Meaning
<1>6. CASE FocusChanges
  BY <1>6 DEF FocusChanges, KeysInv, KeysReleased, Meaning
<1>7. CASE UNCHANGED keyVars
  BY <1>7 DEF keyVars, KeysInv, KeysReleased, Meaning
<1> QED  BY <1>1, <1>2, <1>3, <1>4, <1>5, <1>6, <1>7 DEF KeysNext

-----------------------------------------------------------------------------
(* The session. *)

\* Whatever a part does, the others' variables stay what they are.
LEMMA PartsApart ==
    [SessionNext]_sessionVars =>
       /\ [SignalNext]_signalVars /\ [PaceNext]_paceVars /\ [ClockNext]_clockVars
       /\ [LoaderNext]_loaderVars /\ [WindowNext]_windowVars /\ [KeysNext]_keyVars
       /\ [CallsNext]_callsVars /\ [LogNext]_logVars
       /\ features' = features
<1> SUFFICES ASSUME [SessionNext]_sessionVars
             PROVE  /\ [SignalNext]_signalVars /\ [PaceNext]_paceVars /\ [ClockNext]_clockVars
                    /\ [LoaderNext]_loaderVars /\ [WindowNext]_windowVars /\ [KeysNext]_keyVars
                    /\ [CallsNext]_callsVars /\ [LogNext]_logVars
                    /\ features' = features
  OBVIOUS
<1>1. PaceNext => UNCHANGED clockVars
  BY DEF PaceNext, timing_frame, FirstCountFails, SecondCountFails, Tick, CounterSet,
         DisplayChanges
<1>2. ClockNext => UNCHANGED paceVars
  BY DEF ClockNext, timing_add, timing_accumulate_native, ClockSet
<1>3. WindowNext => UNCHANGED keyVars
  BY DEF WindowNext, EditorFrame, LauncherFrame, editor_toggle_fullscreen, WindowSized,
         SizeMove, ModeChanges
<1>4. KeysNext => UNCHANGED windowVars
  BY DEF KeysNext, Press, Release, PressElsewhere, ReleaseElsewhere, Modifier, FocusChanges
<1> QED  BY <1>1, <1>2, <1>3, <1>4 DEF SessionNext, sessionVars, timingVars, editorsVars

\* Between two looks at the train's list, and through a new train, a failed scan
\* and a notice that has to wait, a signal that was passed at danger is told of, and
\* told of once (signal.h signal_collect, signal_monitor, signal_notice).
THEOREM SignalsAreTold == SessionSpec => []NoticeDue
<1>1. SessionInit => SignalInv
  BY SignalStarts DEF SessionInit
<1>2. SignalInv /\ [SessionNext]_sessionVars => SignalInv'
  BY SignalStep, PartsApart
<1>3. SignalInv => NoticeDue
  BY DEF SignalInv
<1> QED  BY <1>1, <1>2, <1>3, PTL DEF SessionSpec

\* A frame is as far from the last one as the display asks for, less what its own
\* wait was cut short, and is told of the time that has passed, for any rates, any
\* length of the waits and any step of the counter in between (refresh-cap.h
\* refresh_wait, refresh_pace, timing.h timing_frame).
THEOREM FramesArePaced == SessionSpec => []PacedApart
<1>1. SessionInit => PaceInv
  BY PaceStarts DEF SessionInit
<1>2. PaceInv /\ [SessionNext]_sessionVars => PaceInv'
  BY PaceStep, PartsApart
<1>3. PaceInv => PacedApart
  BY DEF PaceInv
<1> QED  BY <1>1, <1>2, <1>3, PTL DEF SessionSpec

\* However many steps are added to a clock, it is never further than half a grain
\* from their sum (timing.h timing_add).
THEOREM ClocksKeepTime == SessionSpec => []NoDrift
<1>1. SessionInit => ClockInv
  BY ClockStarts DEF SessionInit
<1>2. ClockInv /\ [SessionNext]_sessionVars => ClockInv'
  BY ClockStep, PartsApart
<1> QED  BY <1>1, <1>2, ClocksAreNear, PTL DEF SessionSpec

\* For any number of threads and trains: one worker, no call answered too early, and
\* no hook of the simulation's side before one scene has lasted and moved
\* (loader.c resolve, delayed_start).
THEOREM HooksWaitForTheScene == SessionSpec => []LoaderWaits
<1>1. SessionInit => LoaderInv
  BY LoaderStarts DEF SessionInit
<1>2. LoaderInv /\ [SessionNext]_sessionVars => LoaderInv'
  BY LoaderStep, PartsApart
<1> QED  BY <1>1, <1>2, WorkerHasWaited, PTL DEF SessionSpec

\* The launcher gets its frame back and an editor's renderer its size, through any
\* order of toggling, sizing, entering and leaving (editors.h editor_frame).
THEOREM FramesAreRestored == SessionSpec => []FrameRestored
<1>1. SessionInit => WindowInv
  BY WindowStarts DEF SessionInit
<1>2. WindowInv /\ [SessionNext]_sessionVars => WindowInv'
  BY WindowStep, PartsApart
<1>3. WindowInv => FrameRestored
  BY DEF WindowInv
<1> QED  BY <1>1, <1>2, <1>3, PTL DEF SessionSpec

\* For any bindings: no key the game takes to be down outlives the key that was
\* pressed, unless the release itself was lost (editor_keyboard.h).
THEOREM KeysAreReleased == SessionSpec => []KeysReleased
<1>1. SessionInit => KeysInv
  BY KeysStart DEF SessionInit
<1>2. KeysInv /\ [SessionNext]_sessionVars => KeysInv'
  BY KeysStep, PartsApart
<1>3. KeysInv => KeysReleased
  BY DEF KeysInv
<1> QED  BY <1>1, <1>2, <1>3, PTL DEF SessionSpec

\* A redirected call returns to its caller and takes its rates back with it, for any
\* threads, nesting and stack, whatever faults in between (crawl.c push_call,
\* hook_leave).
THEOREM CallsAreUndone == SessionSpec => []CallsUndone
<1>1. SessionInit => CallsInv
  BY CallsStart DEF SessionInit
<1>2. CallsInv /\ [SessionNext]_sessionVars => CallsInv'
  BY CallsStep, PartsApart
<1> QED  BY <1>1, <1>2, CallsComeBack, PTL DEF SessionSpec

\* To the game a redirected call is a call like any other: the saved returns and rates, the
\* faults, pauses and ended activities are unseen, and a rate is crawling's exactly while a
\* drawing call that was given it is in progress (crawl.c push_call, hook_enter, hook_leave).
THEOREM CallsAreTransparent == SessionSpec => CallsAsEver
<1>1. SessionInit => CallsInv /\ Native!Init
  BY CallsStart, StartsAsEver DEF SessionInit
<1>2. CallsInv /\ [SessionNext]_sessionVars => CallsInv'
  BY CallsStep, PartsApart
<1>3. CallsInv => RatesHold
  BY RatesFollow
<1>4. CallsInv /\ RatesHold' /\ [SessionNext]_sessionVars => [Native!Next]_(Native!vars)
  BY StepsAsEver, PartsApart
<1> QED  BY <1>1, <1>2, <1>3, <1>4, PTL DEF SessionSpec, CallsAsEver, Native!Spec

\* No derivative of the physics computes with the filtered orientation of another
\* (crawl.c enter_effect).
THEOREM InputsAreOwn == SessionSpec => []OwnInputOnly
<1>1. SessionInit => CallsInv
  BY CallsStart DEF SessionInit
<1>2. CallsInv /\ [SessionNext]_sessionVars => CallsInv'
  BY CallsStep, PartsApart
<1>3. CallsInv => OwnInputOnly
  BY DEF CallsInv
<1> QED  BY <1>1, <1>2, <1>3, PTL DEF SessionSpec

\* For any number of backups and any size: the files keep their order and their
\* limit, and only the oldest kept is lost, through refused operations, deaths of
\* the process and changes of the retention (startup-log.h startup_open_log).
THEOREM LogIsKept == SessionSpec => LogKept
<1>1. SessionInit => LogInv
  BY LogStarts DEF SessionInit
<1>2. LogInv /\ [SessionNext]_sessionVars => LogInv' /\ [OnlySurplusLost]_logVars
  BY LogStep, PartsApart
<1>3. LogInv => LogOrdered
  BY DEF LogInv
<1> QED  BY <1>1, <1>2, <1>3, PTL DEF SessionSpec, LogKept

\* Every part keeps to the values its code can produce.
THEOREM SessionIsTyped == SessionSpec => []SessionTypeOK
<1> DEFINE Inv == /\ SignalInv /\ PaceInv /\ ClockInv /\ LoaderInv /\ WindowInv /\ KeysInv
                  /\ CallsInv /\ LogInv /\ features \in Selections
<1>1. SessionInit => Inv
  BY SignalStarts, PaceStarts, ClockStarts, LoaderStarts, WindowStarts, KeysStart, CallsStart,
     LogStarts
     DEF SessionInit
<1>2. Inv /\ [SessionNext]_sessionVars => Inv'
  BY SignalStep, PaceStep, ClockStep, LoaderStep, WindowStep, KeysStep, CallsStep, LogStep,
     PartsApart
<1>3. Inv => SessionTypeOK
  <2> SUFFICES ASSUME Inv PROVE SessionTypeOK
    OBVIOUS
  <2>1. TimingTypeOK
    BY DEF PaceInv, PaceType, ClockInv, TimingTypeOK
  <2>2. EditorsTypeOK
    BY DEF WindowInv, WindowType, KeysInv, EditorsTypeOK
  <2>3. CallsTypeOK /\ SignalTypeOK /\ LogTypeOK /\ LoaderTypeOK
    BY DEF CallsInv, SignalInv, LogInv, LoaderInv
  <2> QED  BY <2>1, <2>2, <2>3 DEF SessionTypeOK
<1> HIDE DEF Inv
<1> QED  BY <1>1, <1>2, <1>3, PTL DEF SessionSpec

=============================================================================
