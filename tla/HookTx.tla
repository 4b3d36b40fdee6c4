------------------------------- MODULE HookTx -------------------------------
(***************************************************************************)
(* The runtime's checked mutation transaction (runtime/hooks.h): how the   *)
(* DINPUT.dll patches the code of the running train.exe while the other    *)
(* threads of the process execute it.  prepare_hooks checks a plan,        *)
(* install_hooks suspends every peer thread, writes the plan hook by hook, *)
(* rolls it back on a mismatch, claims the ranges and resumes the peers.   *)
(*                                                                         *)
(* The stages of the runtime call the pair one after the other: some from  *)
(* the command-line stage on the main thread (window.h), the others from   *)
(* delayed_start on the worker thread (loader.c).                          *)
(***************************************************************************)
EXTENDS Integers, Sequences, FiniteSets

CONSTANTS
    Thread,      \* the threads the process may have
    Addr,        \* the addresses of the code the hooks lie in
    Slot,        \* the import slot of GetCommandLineA, outside that code
    Stage,       \* the stages in the order they are installed, see StageType
    MaxClaims,   \* MAX_HOOK_CLAIMS
    MaxThreads,  \* the bound of the array threads[]
    ForeignAddr, \* the addresses another module of the process may patch
    Faults       \* which environment faults a run admits, see FaultKinds

\* "os": a Win32 call of the transaction fails.  "cut": Thread32Next fails, which
\* ends the list of the threads like its last entry does.  "late": threads start
\* while their peers are being suspended.
FaultKinds == {"os", "cut", "late"}

\* A detour or a raw replacement of len bytes at start.  What original[] holds
\* is either the bytes of the clean executable or, after another patch of this
\* runtime, the patched ones.
HookType == [start : Addr, len : Nat \ {0}, expects : {"original", "patched"}]

\* self calls prepare_hooks once and install_hooks up to tries times; early
\* stages run from the redirected GetCommandLineA; a stage that stops the worker
\* when it fails has stops.
StageType == [self : Thread, hooks : Seq(HookType), tries : Nat \ {0},
              early : BOOLEAN, stops : BOOLEAN]

Cells(h) == h.start .. (h.start + h.len - 1)

ASSUME ThreadAssumption == IsFiniteSet(Thread)

ASSUME AddrAssumption == Addr \subseteq Nat /\ Slot \in Nat /\ Slot \notin Addr

ASSUME StageAssumption ==
    /\ Stage \in Seq(StageType)
    /\ \A k \in 1..Len(Stage) : \A j \in 1..Len(Stage[k].hooks) :
          Cells(Stage[k].hooks[j]) \subseteq Addr

ASSUME BoundAssumption ==
    /\ MaxClaims \in Nat /\ MaxThreads \in Nat
    /\ ForeignAddr \subseteq Addr \cup {Slot} /\ Faults \subseteq FaultKinds

VARIABLES
    mem,        \* what each byte is: "original", "patched" or "foreign"
    claims,     \* claimed[0..claim_count-1]
    redirected, \* toolkit_command_line is in the slot
    alive,      \* the threads that exist
    eip,        \* where in the code each of them stands, or Outside
    missed,     \* history: the threads that ran while a hook of a stage was written
    suspended,  \* the threads install_hooks has suspended
    k,          \* the stage being installed
    pc,         \* where that stage stands
    seen,       \* the slot's value redirect_command_line read
    toOpen,     \* threads of the snapshot not opened yet
    opened,     \* threads opened and not suspended yet
    i,          \* index of the next hook to write or to undo
    ok,         \* install_hooks' result
    tried,      \* install_hooks calls of each stage
    outcome     \* what became of each stage

Outside == -1

code  == <<mem, claims, redirected>>
peers == <<alive, eip, missed>>
local == <<seen, toOpen, opened, i, ok>>
book  == <<k, tried, outcome>>
vars  == <<code, peers, suspended, pc, local, book>>

Stages  == 1..Len(Stage)
Running == k \in Stages
Self    == Stage[k].self
Plan    == Stage[k].hooks

Outcome == {"pending", "on", "skipped", "refused", "busy", "failed"}

Pcs == {"boot", "swap", "next", "snapshot", "open", "suspend", "write", "undo",
        "resume", "sleep"}

TypeOK ==
    /\ mem \in [Addr \cup {Slot} -> {"original", "patched", "foreign"}]
    /\ claims \in Seq([start : Nat, len : Nat])
    /\ redirected \in BOOLEAN
    /\ alive \subseteq Thread
    /\ eip \in [Thread -> Addr \cup {Outside}]
    /\ missed \in [Stages -> SUBSET Thread]
    /\ suspended \subseteq Thread
    /\ k \in 1..(Len(Stage) + 1)
    /\ pc \in Pcs
    /\ seen \in {"original", "patched", "foreign"}
    /\ toOpen \subseteq Thread /\ opened \subseteq Thread
    /\ i \in Nat
    /\ ok \in BOOLEAN
    /\ tried \in [Stages -> Nat] /\ \A j \in Stages : tried[j] <= Stage[j].tries
    /\ outcome \in [Stages -> Outcome]

Installers == {Stage[j].self : j \in Stages}

\* The loader maps the clean image; a compatibility layer may have redirected
\* the import already.
Init ==
    /\ \E s \in {"original", "foreign"} :
          mem = [a \in Addr \cup {Slot} |-> IF a = Slot THEN s ELSE "original"]
    /\ claims = <<>>
    /\ redirected = FALSE
    /\ alive \in {Installers, Thread}
    /\ eip = [t \in Thread |-> Outside]
    /\ missed = [j \in Stages |-> {}]
    /\ suspended = {}
    /\ k = 1 /\ pc = "boot"
    /\ seen = "original" /\ toOpen = {} /\ opened = {} /\ i = 0 /\ ok = FALSE
    /\ tried = [j \in Stages |-> 0]
    /\ outcome = [j \in Stages |-> "pending"]

-----------------------------------------------------------------------------
(* redirect_command_line, from DllMain. *)

ReadSlot ==
    /\ pc = "boot"
    /\ \/ seen' = mem[Slot] /\ pc' = "swap"
       \/ "os" \in Faults /\ pc' = "next" /\ UNCHANGED seen
    /\ UNCHANGED <<code, peers, suspended, toOpen, opened, i, ok, book>>

\* The compare-and-swap fails when the slot changed after it was read.
SwapSlot ==
    /\ pc = "swap"
    /\ pc' = "next"
    /\ IF mem[Slot] = seen /\ Len(claims) < MaxClaims
       THEN /\ mem' = [mem EXCEPT ![Slot] = "patched"]
            /\ claims' = Append(claims, [start |-> Slot, len |-> 1])
            /\ redirected' = TRUE
       ELSE UNCHANGED code
    /\ UNCHANGED <<peers, suspended, local, book>>

-----------------------------------------------------------------------------
(* prepare_hooks. *)

Overlap(g, h) == g.start < h.start + h.len /\ h.start < g.start + g.len

Matches(h) == \A a \in Cells(h) : mem[a] = h.expects

\* Mutant: the ranges of earlier stages are not looked at.
Acceptable_OwnPlanOnly(plan) ==
    /\ Len(claims) + Len(plan) <= MaxClaims
    /\ \A j \in 1..Len(plan) :
          Matches(plan[j]) /\ \A l \in 1..(j - 1) : ~Overlap(plan[l], plan[j])

Acceptable(plan) ==
    /\ Len(claims) + Len(plan) <= MaxClaims
    /\ \A j \in 1..Len(plan) :
          /\ Matches(plan[j])
          /\ \A l \in 1..(j - 1) : ~Overlap(plan[l], plan[j])
          /\ \A c \in 1..Len(claims) : ~Overlap(claims[c], plan[j])

\* The stage is over; the next one begins, unless this failure ends the worker.
Finish(result) ==
    /\ outcome' = [outcome EXCEPT ![k] = result]
    /\ k' = IF result # "on" /\ Stage[k].stops THEN Len(Stage) + 1 ELSE k + 1
    /\ pc' = "next"

\* Without the redirected command line the early stages never run.
SkipStage ==
    /\ pc = "next" /\ Running
    /\ Stage[k].early /\ ~redirected
    /\ outcome' = [outcome EXCEPT ![k] = "skipped"]
    /\ k' = k + 1
    /\ UNCHANGED <<code, peers, suspended, pc, local, tried>>

Prepare ==
    /\ pc = "next" /\ Running
    /\ Stage[k].early => redirected
    /\ \/ Acceptable(Plan) /\ pc' = "snapshot" /\ UNCHANGED <<k, outcome>>
       \/ (~Acceptable(Plan) \/ "os" \in Faults) /\ Finish("refused")
    /\ UNCHANGED <<code, peers, suspended, local, tried>>

-----------------------------------------------------------------------------
(* install_hooks. *)

\* Mutant: one try too many.
TryFailed_OneMore(why) ==
    IF tried'[k] <= Stage[k].tries
    THEN /\ outcome' = [outcome EXCEPT ![k] = why]
         /\ pc' = "sleep" /\ UNCHANGED k
    ELSE Finish(why)

\* After a failed try: sleep and try again, or give the stage up.
TryFailed(why) ==
    IF tried'[k] < Stage[k].tries
    THEN /\ outcome' = [outcome EXCEPT ![k] = why]
         /\ pc' = "sleep" /\ UNCHANGED k
    ELSE Finish(why)

\* Mutant: the tries are not counted.
Snapshot_Uncounted ==
    /\ pc = "snapshot"
    /\ UNCHANGED tried
    /\ \/ /\ toOpen' = alive \ {Self}
          /\ pc' = "open" /\ UNCHANGED <<k, outcome>>
       \/ "os" \in Faults /\ TryFailed("failed") /\ UNCHANGED toOpen
    /\ opened' = {} /\ ok' = TRUE /\ i' = 1
    /\ UNCHANGED <<code, peers, suspended, seen>>

Snapshot ==
    /\ pc = "snapshot"
    /\ tried' = [tried EXCEPT ![k] = @ + 1]
    /\ \/ /\ toOpen' = alive \ {Self}
          /\ pc' = "open" /\ UNCHANGED <<k, outcome>>
       \/ "os" \in Faults /\ TryFailed("failed") /\ UNCHANGED toOpen
    /\ opened' = {} /\ ok' = TRUE /\ i' = 1
    /\ UNCHANGED <<code, peers, suspended, seen>>

\* A thread that ended meanwhile, a full array and a denied open all end the try.
OpenThread ==
    /\ pc = "open" /\ toOpen # {}
    /\ \/ \E t \in toOpen \cap alive :
             /\ Cardinality(opened) < MaxThreads
             /\ opened' = opened \cup {t}
             /\ toOpen' = toOpen \ {t}
             /\ UNCHANGED <<pc, book>>
       \/ /\ Cardinality(opened) >= MaxThreads \/ ~(toOpen \subseteq alive) \/ "os" \in Faults
          /\ UNCHANGED tried /\ TryFailed("failed")
          /\ toOpen' = {} /\ opened' = {}
    /\ UNCHANGED <<code, peers, suspended, seen, i, ok>>

\* while(Thread32Next(...)): any failure of it passes for the end of the list, and
\* the threads behind it are neither suspended nor looked at.
AllOpen ==
    /\ pc = "open" /\ (toOpen = {} \/ "cut" \in Faults)
    /\ pc' = "suspend"
    /\ toOpen' = {}
    /\ UNCHANGED <<code, peers, suspended, seen, opened, i, ok, book>>

\* Mutant: only a thread about to execute the first byte is inside a prefix.
InTarget_AtStart(t) == \E j \in 1..Len(Plan) : eip[t] = Plan[j].start

InTarget(t) == \E j \in 1..Len(Plan) : eip[t] \in Cells(Plan[j])

GiveUp(why) == /\ ok' = FALSE
               /\ outcome' = [outcome EXCEPT ![k] = why]

\* SuspendThread, GetThreadContext and the comparison of Eip with the plan.
SuspendThread ==
    /\ pc = "suspend"
    /\ \E t \in opened :
          /\ opened' = opened \ {t}
          /\ \/ /\ t \in alive
                /\ suspended' = suspended \cup {t}
                /\ \/ ~InTarget(t) /\ UNCHANGED <<pc, ok, outcome>>
                   \/ InTarget(t) /\ GiveUp("busy") /\ pc' = "resume"
                   \/ "os" \in Faults /\ GiveUp("failed") /\ pc' = "resume"
             \/ /\ t \notin alive \/ "os" \in Faults
                /\ GiveUp("failed") /\ pc' = "resume"
                /\ UNCHANGED suspended
    /\ UNCHANGED <<code, peers, seen, toOpen, i, k, tried>>

AllSuspended ==
    /\ pc = "suspend" /\ opened = {}
    /\ pc' = "write"
    /\ UNCHANGED <<code, peers, suspended, local, book>>

Fill(h, value) == [a \in DOMAIN mem |-> IF a \in Cells(h) THEN value ELSE mem[a]]

\* The threads that run on while the installer writes.
StillRunning == alive \ ({Self} \cup suspended)

\* The bytes are compared again: they may have changed since prepare_hooks.
WriteHook ==
    /\ pc = "write" /\ i <= Len(Plan)
    /\ \/ /\ Matches(Plan[i])
          /\ mem' = Fill(Plan[i], "patched")
          /\ missed' = [missed EXCEPT ![k] = @ \cup StillRunning]
          /\ i' = i + 1
          /\ UNCHANGED <<pc, ok, outcome>>
       \/ /\ ~Matches(Plan[i]) \/ "os" \in Faults
          /\ GiveUp("failed") /\ pc' = "undo"
          /\ UNCHANGED <<mem, missed, i>>
    /\ UNCHANGED <<claims, redirected, alive, eip, suspended, seen, toOpen, opened, k, tried>>

\* while(i) ... hooks[--i]: from the last hook written to the first.
UndoHook ==
    /\ pc = "undo"
    /\ IF i > 1
       THEN /\ mem' = Fill(Plan[i - 1], Plan[i - 1].expects)
            /\ i' = i - 1
            /\ UNCHANGED pc
       ELSE pc' = "resume" /\ UNCHANGED <<mem, i>>
    /\ UNCHANGED <<claims, redirected, peers, suspended, seen, toOpen, opened, ok, book>>

ClaimsOf(plan) == [j \in 1..Len(plan) |-> [start |-> plan[j].start, len |-> plan[j].len]]

\* Mutant: each stage begins the registry anew.
ClaimAll_Afresh ==
    /\ pc = "write" /\ i > Len(Plan)
    /\ claims' = ClaimsOf(Plan)
    /\ pc' = "resume"
    /\ UNCHANGED <<mem, redirected, peers, suspended, local, book>>

ClaimAll ==
    /\ pc = "write" /\ i > Len(Plan)
    /\ claims' = claims \o ClaimsOf(Plan)
    /\ pc' = "resume"
    /\ UNCHANGED <<mem, redirected, peers, suspended, local, book>>

\* while(done)ResumeThread(threads[--done]).
ResumeThread ==
    /\ pc = "resume"
    /\ \E t \in suspended : suspended' = suspended \ {t}
    /\ UNCHANGED <<code, peers, pc, local, book>>

\* Mutant: not every suspended peer is resumed.
EndTry_Early ==
    /\ pc = "resume"
    /\ UNCHANGED tried
    /\ IF ok THEN Finish("on") ELSE TryFailed(outcome[k])
    /\ opened' = {}
    /\ UNCHANGED <<code, peers, suspended, seen, toOpen, i, ok>>

EndTry ==
    /\ pc = "resume" /\ suspended = {}
    /\ UNCHANGED tried
    /\ IF ok THEN Finish("on") ELSE TryFailed(outcome[k])
    /\ opened' = {}
    /\ UNCHANGED <<code, peers, suspended, seen, toOpen, i, ok>>

\* Sleep(25) between two tries of the same prepared plan.
Retry ==
    /\ pc = "sleep"
    /\ pc' = "snapshot"
    /\ UNCHANGED <<code, peers, suspended, local, book>>

-----------------------------------------------------------------------------
(* The other threads. *)

\* The worker never runs the game's code, the main thread does once its early
\* stages are over.
Workers == {Stage[j].self : j \in {l \in Stages : ~Stage[l].early}}

InGame(t) ==
    /\ t \in alive \ Workers
    /\ \A j \in Stages : j >= k /\ Stage[j].early => Stage[j].self # t

Free(t) == InGame(t) /\ t \notin suspended

\* The hooks on bytes of the executable itself.
Prologue == {h \in UNION {{Stage[j].hooks[l] : l \in 1..Len(Stage[j].hooks)} : j \in Stages} :
                h.expects = "original"}

\* A call enters one of the hooked prologues.  An unpatched one is executed
\* instruction by instruction, a patched one jumps away at its first byte.
Enter(t) ==
    /\ Free(t) /\ eip[t] = Outside
    /\ \E h \in Prologue :
          eip' = [eip EXCEPT ![t] = IF mem[h.start] = "original" THEN h.start ELSE Outside]
    /\ UNCHANGED <<code, alive, missed, suspended, pc, local, book>>

\* The next instruction, the way out of the prologue, or a detour further on.
Advance(t) ==
    /\ Free(t) /\ eip[t] # Outside
    /\ \/ eip' = [eip EXCEPT ![t] = Outside]
       \/ /\ \E h \in Prologue : {eip[t], eip[t] + 1} \subseteq Cells(h)
          /\ mem[eip[t] + 1] # "patched"
          /\ eip' = [eip EXCEPT ![t] = @ + 1]
    /\ UNCHANGED <<code, alive, missed, suspended, pc, local, book>>

ThreadExit(t) ==
    /\ Free(t) /\ t \notin Installers /\ eip[t] = Outside
    /\ alive' = alive \ {t}
    /\ UNCHANGED <<code, eip, missed, suspended, pc, local, book>>

\* A thread that runs starts another one.
ThreadStart(t) ==
    /\ t \in Thread \ (alive \cup toOpen \cup opened)
    /\ \E u \in alive : Free(u)
    /\ "late" \in Faults \/ pc \in {"boot", "swap", "next", "sleep"}
    /\ alive' = alive \cup {t}
    /\ UNCHANGED <<code, eip, missed, suspended, pc, local, book>>

\* Another module of the process patches the code, or redirects the import; once
\* this runtime has looked at the slot it does not look again.
ForeignPatch(a) ==
    /\ a = Slot => pc \in {"boot", "swap"}
    /\ \E t \in alive : Free(t)
    /\ mem' = [mem EXCEPT ![a] = "foreign"]
    /\ UNCHANGED <<claims, redirected, peers, suspended, pc, local, book>>

-----------------------------------------------------------------------------
Step == \/ ReadSlot \/ SwapSlot \/ SkipStage \/ Prepare
        \/ Snapshot \/ OpenThread \/ AllOpen \/ SuspendThread \/ AllSuspended
        \/ WriteHook \/ UndoHook \/ ClaimAll \/ ResumeThread \/ EndTry \/ Retry

Others == \/ \E t \in Thread : Enter(t) \/ Advance(t) \/ ThreadExit(t) \/ ThreadStart(t)
          \/ \E a \in ForeignAddr : ForeignPatch(a)

Next == Step \/ Others

Spec == Init /\ [][Next]_vars

Active  == pc \notin {"boot", "swap", "next"}
Writing == pc \in {"write", "undo"}
Holding == pc \in {"suspend", "write", "undo", "resume"}

\* A prepared stage goes on: between prepare_hooks and the end of the last try there
\* are calls of the system and Sleep(25), nothing the installing thread waits for.
\* Between two stages it may stand for ever, in wait_driving_scene or a message box.
FairSpec == Spec /\ WF_vars(Active /\ Step)

-----------------------------------------------------------------------------
(* Properties. *)

\* "Every selected mutation claims an address range in a registry shared across
\* window and gameplay stages": no two claims overlap, whichever stages failed,
\* and the registry is never overrun.
ClaimsDisjoint ==
    /\ Len(claims) <= MaxClaims
    /\ \A c \in 1..Len(claims) : \A d \in 1..(c - 1) : ~Overlap(claims[d], claims[c])

Claimed(a) == \E c \in 1..Len(claims) : a \in Cells(claims[c])

\* A transaction that fails at any hook leaves none of its bytes behind: outside
\* the writing itself every patched byte belongs to a claim.
PatchedIsClaimed ==
    pc \notin {"write", "undo"} => \A a \in DOMAIN mem : mem[a] = "patched" => Claimed(a)

\* The patched bytes are those of the claims, and every one has one owner.
ClaimsExact == ClaimsDisjoint /\ PatchedIsClaimed

PlanBytes(j) == UNION {Cells(Stage[j].hooks[l]) : l \in 1..Len(Stage[j].hooks)}

Torn(t) == eip[t] # Outside /\ mem[eip[t]] = "patched"

\* "Peer threads are temporarily suspended while bytes are checked and applied": no
\* thread ever stands in bytes that were replaced under it.
NobodyTorn == \A t \in alive : ~Torn(t)

\* Whatever fails, a thread stands in replaced bytes only if the stage they belong to
\* was written while it ran: one that started late or that a cut list left out.  A
\* thread that was suspended is never caught inside, by no stage and no rollback.
OnlyMissedAreTorn ==
    \A t \in alive : Torn(t) => \E j \in Stages : t \in missed[j] /\ eip[t] \in PlanBytes(j)

\* Whatever failed, no thread stays suspended once install_hooks is over, and
\* the installing thread never suspends itself.
NobodyLeftSuspended ==
    /\ pc \notin {"suspend", "write", "undo", "resume"} => suspended = {}
    /\ suspended \subseteq alive
    /\ Running => Self \notin suspended

\* The stage in hand stopped every peer before it wrote.
WorldStopped == Running => missed[k] = {}

\* No later stage, and no rollback of one, takes back what an earlier one
\* installed.
ClaimsStay ==
    [][/\ \A c \in 1..Len(claims) : c <= Len(claims') /\ claims'[c] = claims[c]
       /\ \A a \in Addr : Claimed(a) /\ mem[a] = "patched" => mem'[a] # "original"]_vars

\* Bytes another module wrote into the code are not overwritten, not even by the
\* rollback of a stage that stopped its peers.
ForeignBytesKept ==
    [][WorldStopped => \A a \in Addr : mem[a] = "foreign" => mem'[a] = "foreign"]_vars

\* What is installed stays installed, by this runtime or by anybody else.
PatchesStay == ClaimsStay /\ ForeignBytesKept

-----------------------------------------------------------------------------
(* The inductive invariant. *)

\* Where the installer stands in its stages, tries and hooks.
ProgressHolds ==
    /\ Active => Running
    /\ \A j \in Stages : j > k \/ (j = k /\ ~Active) => tried[j] = 0
    /\ pc \in {"snapshot", "sleep"} => tried[k] < Stage[k].tries
    /\ pc \in {"boot", "swap"} => claims = <<>>
    /\ pc \in {"open", "suspend"} => i = 1 /\ ok
    /\ pc = "write" => i \in 1..(Len(Plan) + 1) /\ ok
    /\ pc = "undo" => i \in 1..Len(Plan) /\ ~ok

\* Until it is claimed, the plan meets no claim and none of its hooks another.
PlanIsFree ==
    /\ Len(claims) + Len(Plan) <= MaxClaims
    /\ \A j \in 1..Len(Plan) :
          /\ \A l \in 1..(j - 1) : ~Overlap(Plan[l], Plan[j])
          /\ \A c \in 1..Len(claims) : ~Overlap(claims[c], Plan[j])

PlanHolds == Active /\ ~(pc = "resume" /\ ok) => PlanIsFree

\* Patched bytes are claimed, or were clean and have just been written.
PatchesHold ==
    /\ Writing => \A j \in 1..(i - 1) : Plan[j].expects = "original"
    /\ \A a \in DOMAIN mem : mem[a] = "patched" =>
          Claimed(a) \/ (Writing /\ \E j \in 1..(i - 1) : a \in Cells(Plan[j]))

PeersHold ==
    /\ ~Holding => suspended = {}
    /\ suspended \subseteq alive
    /\ Holding \/ pc = "open" => Self \notin toOpen \cup opened \cup suspended

IInv == /\ TypeOK /\ ProgressHolds /\ ClaimsDisjoint /\ PlanHolds
        /\ PatchesHold /\ PeersHold

\* A stage that missed nobody has stopped the whole process once it has written.
WorldStops ==
    Writing /\ i > 1 /\ WorldStopped => alive \subseteq {Self} \cup suspended

\* When no thread starts during a transaction and no list is cut, it stops them all.
AllHeld ==
    /\ pc = "open" => alive \subseteq {Self} \cup toOpen \cup opened
    /\ pc = "suspend" => alive \subseteq {Self} \cup opened \cup suspended
    /\ Writing => alive \subseteq {Self} \cup suspended

\* Only threads that run the game's code stand in it, and those suspended while
\* bytes are written stand outside the plan.
EipsHold ==
    /\ \A t \in Thread : eip[t] # Outside => InGame(t)
    /\ pc \in {"suspend", "write", "undo"} => \A t \in suspended : ~InTarget(t)

\* What has been written is still there to be undone.
WrittenHolds ==
    Writing /\ WorldStopped =>
        \A j \in 1..(i - 1) : \A a \in Cells(Plan[j]) : mem[a] = "patched"

WorldInv == IInv /\ WorldStops /\ EipsHold /\ WrittenHolds /\ OnlyMissedAreTorn

-----------------------------------------------------------------------------
(* What the transaction promises: AtomicHooks. *)

Plans == [j \in Stages |-> PlanBytes(j)]

\* Bytes that are written and not yet claimed do not count: nobody executes them.
Written == IF Writing THEN UNION {Cells(Plan[j]) : j \in 1..(i - 1)} ELSE {}

Shown ==
    IF Written = {} THEN mem ELSE [a \in DOMAIN mem |-> IF a \in Written THEN "original" ELSE mem[a]]

Owned == UNION {Cells(claims[c]) : c \in 1..Len(claims)}

\* A stage is on when its ranges are claimed.
Installed == {j \in Stages : outcome[j] = "on" \/ (j = k /\ pc = "resume" /\ ok)}

AtOnce == INSTANCE AtomicHooks WITH
              bytes <- Shown,
              owned <- Owned,
              on    <- Installed

\* "Peer threads are temporarily suspended [...] A later byte mismatch rolls back
\* earlier writes": to every thread and every other module of the process a stage
\* that ran while no peer did is installed in one instant, on clean bytes in which
\* no thread stands, and one that fails is never seen.  Only the steps of a stage
\* that missed a thread are excused; what it leaves does not spoil the next stage.
AppearsAtOnce ==
    AtOnce!Init /\ [][WorldStopped /\ WorldStopped' => AtOnce!Next]_(AtOnce!vars)

\* What the refinement needs besides WorldInv: a stage that is on is behind us.
OutcomesHold ==
    \A j \in Stages : outcome[j] = "on" => j < k /\ pc \notin {"boot", "swap"}

-----------------------------------------------------------------------------
\* A stage that has begun comes to an end, on, refused or failed, however long a
\* thread stays in a prefix and whoever else patches or starts: no peer is held for
\* ever and no stage is tried without end.
TransactionsEnd == Active ~> ~Active

\* How far it is to the end of the last stage: the stages and the tries of this one
\* that are left, and within a try the phases, and the threads or hooks of the phase.
StagesLeft == Len(Stage) + 1 - k

TriesLeft == IF Running THEN Stage[k].tries - tried[k] ELSE 0

PhasesLeft ==
    [boot |-> 9, swap |-> 8, next |-> 7, open |-> 6, suspend |-> 5, write |-> 4,
     undo |-> 3, resume |-> 2, sleep |-> 1, snapshot |-> 0][pc]

PhaseLeft == CASE pc = "open"    -> Cardinality(toOpen)
               [] pc = "suspend" -> Cardinality(opened)
               [] pc = "write"   -> Len(Plan) + 1 - i
               [] pc = "undo"    -> i
               [] pc = "resume"  -> Cardinality(suspended)
               [] OTHER          -> 0

Ahead == <<StagesLeft, TriesLeft, PhasesLeft, PhaseLeft>>

Nearer ==
    \/ StagesLeft' < StagesLeft
    \/ /\ StagesLeft' = StagesLeft
       /\ \/ TriesLeft' < TriesLeft
          \/ /\ TriesLeft' = TriesLeft
             /\ \/ PhasesLeft' < PhasesLeft
                \/ PhasesLeft' = PhasesLeft /\ PhaseLeft' < PhaseLeft

\* Every step of the installing threads brings them nearer to the end, in an order
\* of tuples of naturals that cannot descend for ever, and nothing that game threads
\* or other modules do between the steps sets them back: no step is retried without
\* limit.
OnlyForward ==
    /\ [](Ahead \in Nat \X Nat \X Nat \X Nat)
    /\ [][(Step => Nearer) /\ (Others => UNCHANGED Ahead)]_vars
=============================================================================
