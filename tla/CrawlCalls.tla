----------------------------- MODULE CrawlCalls -----------------------------
(***************************************************************************)
(* The calls of the game that the crawl hooks redirect (runtime/crawl.c    *)
(* hook_enter, enter_effect, hook_leave; hooks.h fast_gate, gateway).      *)
(*                                                                         *)
(* A hooked prologue jumps to a gate that reads two flags without a lock,  *)
(* and from there to hook_enter, which takes state_lock and reads them     *)
(* again.  A call that must be seen again at its end is pushed: its return *)
(* address is saved on the thread's stack of calls, and replaced by the    *)
(* address of the hook's leave gateway.  That gateway knows neither the    *)
(* return address nor what to put back: it takes both from the top of the  *)
(* stack.                                                                  *)
(*                                                                         *)
(* Native calls nest in any way the game likes.  It works on trains on one *)
(* thread, which also runs the frame, the end of an activity and the pause,*)
(* and draws each vehicle on one thread, which may be another.             *)
(***************************************************************************)
EXTENDS Naturals, Sequences, FiniteSets

CONSTANTS
    Thread,   \* the threads of the game
    Sim,      \* the one that works on trains
    Vehicle,
    Drawer,   \* Drawer[v]: the thread that draws vehicle v
    Depth,    \* the calls a stack can hold (64)
    Nesting   \* bound: native calls in progress on all threads together

ASSUME CallsAssumption ==
    /\ Sim \in Thread
    /\ Drawer \in [Vehicle -> Thread]
    /\ Depth \in Nat /\ Nesting \in Nat

VARIABLES
    native,   \* the hooked native calls in progress on each thread, innermost last
    calls,    \* ThreadCalls
    gate,     \* how far the innermost of them has come into its hook
    visual,   \* visual[d][v]: what the rate that drawing routine d reads for v is
    fed,      \* whose filtered input the last orientation call read (history)
    enabled, blocked, stopped  \* stopped: the game is paused

callsVars == <<native, calls, gate, visual, fed, enabled, blocked, stopped>>
flags == <<enabled, blocked, stopped>>

Visual == {"WHEEL", "ROD"}
Pushing == {"PITCH", "SPLIT"} \cup Visual

\* left: the return address is that of the leave gateway.
NativeCall == [fn : Pushing, of : Vehicle, left : BOOLEAN]

\* home: the native call whose return address is saved, by its place.  bits is
\* what slot held; pitch says that there is a filtered input.
Call == [home : Nat, slot : Visual \cup {"none"}, of : Vehicle,
         bits : {"game", "crawl"}, pitch : BOOLEAN]

CallsTypeOK ==
    /\ native \in [Thread -> Seq(NativeCall)]
    /\ calls \in [Thread -> Seq(Call)]
    /\ gate \in [Thread -> {"through", "enabled", "pause", "lock"}]
    /\ visual \in [Visual -> [Vehicle -> {"game", "crawl"}]]
    /\ fed \in {"nobody", "own", "other"}
    /\ enabled \in BOOLEAN /\ blocked \in BOOLEAN /\ stopped \in BOOLEAN

CallsInit ==
    /\ native = [t \in Thread |-> <<>>]
    /\ calls = [t \in Thread |-> <<>>]
    /\ gate = [t \in Thread |-> "through"]
    /\ visual = [d \in Visual |-> [v \in Vehicle |-> "game"]]
    /\ fed = "nobody"
    /\ enabled = FALSE /\ blocked = FALSE /\ stopped = FALSE

Top(stack) == stack[Len(stack)]
Pop(stack) == SubSeq(stack, 1, Len(stack) - 1)

-----------------------------------------------------------------------------
(* The way in. *)

InProgress(t) == Len(native[t])

Room == Cardinality(UNION {{t} \X DOMAIN native[t] : t \in Thread}) < Nesting

\* The game calls a hooked function.
NativeEnter(t, fn, v) ==
    /\ gate[t] = "through"
    /\ Room
    /\ t = IF fn \in Visual THEN Drawer[v] ELSE Sim
    /\ native' = [native EXCEPT ![t] = Append(@, [fn |-> fn, of |-> v, left |-> FALSE])]
    /\ gate' = [gate EXCEPT ![t] = "enabled"]
    /\ UNCHANGED <<calls, visual, fed, flags>>

\* fast_gate: a closed gate leads back to the original function.
FastGate(t) ==
    /\ \/ gate[t] = "enabled"
          /\ gate' = [gate EXCEPT ![t] = IF enabled THEN "pause" ELSE "through"]
       \/ gate[t] = "pause"
          /\ gate' = [gate EXCEPT ![t] = IF stopped THEN "through" ELSE "lock"]
    /\ UNCHANGED <<native, calls, visual, fed, flags>>

fail == enabled' = FALSE /\ blocked' = TRUE /\ UNCHANGED stopped

push_call(t, call) ==
    IF Len(calls[t]) = Depth
    THEN fail /\ UNCHANGED <<calls, native>>
    ELSE /\ calls' = [calls EXCEPT ![t] = Append(@, call)]
         /\ native' = [native EXCEPT ![t][InProgress(t)].left = TRUE]
         /\ UNCHANGED flags

NewCall(t) == [home |-> InProgress(t), slot |-> "none", of |-> Top(native[t]).of,
               bits |-> "game", pitch |-> FALSE]

\* Mutant: a derivative on the rails is not pushed.
EnterPitch_EligibleOnly(t) ==
    /\ \/ push_call(t, [NewCall(t) EXCEPT !.pitch = TRUE])
       \/ UNCHANGED <<calls, native, flags>>
    /\ UNCHANGED visual

\* A derivative is pushed whether its body is eligible or not, which masks an
\* outer one; its input can be invalid.
EnterPitch(t) ==
    /\ \/ \E eligible \in BOOLEAN : push_call(t, [NewCall(t) EXCEPT !.pitch = eligible])
       \/ /\ Len(calls[t]) < Depth
          /\ calls' = [calls EXCEPT ![t] = Append(@, NewCall(t))]
          /\ native' = [native EXCEPT ![t][InProgress(t)].left = TRUE]
          /\ fail
    /\ UNCHANGED visual

EnterSplit(t) == push_call(t, NewCall(t)) /\ UNCHANGED visual

\* A vehicle that is not derailed is drawn as ever; speed and factor can be
\* invalid; a call that cannot be pushed writes nothing.
EnterVisual(t, d, v) ==
    \/ /\ push_call(t, [NewCall(t) EXCEPT !.slot = d, !.bits = visual[d][v]])
       /\ visual' = IF Len(calls[t]) = Depth THEN visual
                    ELSE [visual EXCEPT ![d][v] = "crawl"]
    \/ fail /\ UNCHANGED <<calls, native, visual>>
    \/ UNCHANGED <<calls, native, visual, flags>>

\* enabled and the pause are read again under state_lock.
hook_enter(t) ==
    LET n == Top(native[t])
    IN  /\ gate[t] = "lock"
        /\ gate' = [gate EXCEPT ![t] = "through"]
        /\ IF enabled /\ ~stopped
           THEN CASE n.fn = "PITCH" -> EnterPitch(t)
                  [] n.fn = "SPLIT" -> EnterSplit(t)
                  [] OTHER -> EnterVisual(t, n.fn, n.of)
           ELSE UNCHANGED <<native, calls, visual, flags>>
        /\ UNCHANGED fed

\* VECTOR and CROSS: a derivative asks for its orientation input, at the two
\* places that are hooked.  It gets the filtered one of the top of the stack.
\* Nothing happens between this hook's own gate and the lock that counts here.
EnterVector ==
    /\ gate[Sim] = "through" /\ native[Sim] # <<>> /\ Top(native[Sim]).fn = "PITCH"
    /\ enabled /\ ~stopped
    /\ LET body == Top(native[Sim]).of
       IN  IF calls[Sim] = <<>> \/ ~Top(calls[Sim]).pitch
           THEN fed' = "nobody" /\ UNCHANGED flags
           ELSE IF Top(calls[Sim]).of # body
                THEN fail /\ UNCHANGED fed
                ELSE /\ fed' = IF Top(calls[Sim]).home = InProgress(Sim)
                               THEN "own" ELSE "other"
                     /\ UNCHANGED flags
    /\ UNCHANGED <<native, calls, gate, visual>>

-----------------------------------------------------------------------------
(* The way out. *)

\* A call that was not pushed returns by itself.
PlainReturn(t) ==
    /\ gate[t] = "through" /\ native[t] # <<>> /\ ~Top(native[t]).left
    /\ native' = [native EXCEPT ![t] = Pop(@)]
    /\ UNCHANGED <<calls, gate, visual, fed, flags>>

\* Mutant: after a fault the saved rate is not put back.
hook_leave_Faulted(t) ==
    /\ gate[t] = "through" /\ native[t] # <<>> /\ Top(native[t]).left
    /\ calls[t] # <<>>
    /\ LET c == Top(calls[t])
       IN  /\ visual' = IF c.slot = "none" \/ blocked THEN visual
                        ELSE [visual EXCEPT ![c.slot][c.of] = c.bits]
           /\ native' = [native EXCEPT ![t] = SubSeq(@, 1, c.home - 1)]
    /\ calls' = [calls EXCEPT ![t] = Pop(@)]
    /\ UNCHANGED <<gate, fed, flags>>

\* The return address and the saved rate are those of the top of the stack, and
\* control goes where they say.  After an uncoupling that changed the links a
\* new snapshot is taken, which can fail.  The code ends the process when the
\* stack is empty.
hook_leave(t) ==
    /\ gate[t] = "through" /\ native[t] # <<>> /\ Top(native[t]).left
    /\ calls[t] # <<>>
    /\ LET c == Top(calls[t])
       IN  /\ visual' = IF c.slot = "none" THEN visual
                        ELSE [visual EXCEPT ![c.slot][c.of] = c.bits]
           /\ native' = [native EXCEPT ![t] = SubSeq(@, 1, c.home - 1)]
    /\ calls' = [calls EXCEPT ![t] = Pop(@)]
    /\ \/ UNCHANGED flags
       \/ Top(native[t]).fn = "SPLIT" /\ enabled /\ fail
    /\ UNCHANGED <<gate, fed>>

-----------------------------------------------------------------------------
(* What opens and closes the gate. *)

\* FRAME, between two calls of its thread: crawling begins, ends or fails.  A
\* fault of the loader can come in the middle of it (CrawlFrame).
FrameFlags ==
    /\ native[Sim] = <<>> /\ ~blocked
    /\ enabled' \in BOOLEAN /\ blocked' \in BOOLEAN
    /\ UNCHANGED <<native, calls, gate, visual, fed, stopped>>

\* EXIT: the calls in progress stay on their stacks.
ExitFlags ==
    /\ native[Sim] = <<>>
    /\ enabled' = FALSE /\ blocked' = FALSE
    /\ UNCHANGED <<native, calls, gate, visual, fed, stopped>>

PauseFlags ==
    /\ native[Sim] = <<>>
    /\ stopped' = ~stopped
    /\ UNCHANGED <<native, calls, gate, visual, fed, enabled, blocked>>

\* A later stage of the loader fails; another effect finds invalid input.
OtherFault ==
    /\ fail
    /\ UNCHANGED <<native, calls, gate, visual, fed>>

CallsNext ==
    \/ \E t \in Thread :
          \/ \E fn \in Pushing, v \in Vehicle : NativeEnter(t, fn, v)
          \/ FastGate(t) \/ hook_enter(t) \/ PlainReturn(t) \/ hook_leave(t)
    \/ EnterVector \/ FrameFlags \/ ExitFlags \/ PauseFlags \/ OtherFault

CallsSpec == CallsInit /\ [][CallsNext]_callsVars

-----------------------------------------------------------------------------
(* Properties. *)

\* "Every leave is paired with push_call on this thread, even after a fault": the
\* top of the stack is the call that returns next by way of the gateway, whatever
\* faulted, was paused or ended in between, so each call returns to its caller.
ReturnsHome ==
    \A t \in Thread :
       /\ \A i \in 1..Len(native[t]) :
             native[t][i].left <=> \E k \in 1..Len(calls[t]) : calls[t][k].home = i
       /\ \A k \in 1..Len(calls[t]), l \in 1..Len(calls[t]) :
             k < l => calls[t][k].home < calls[t][l].home

\* A vehicle's rates are the game's own outside of the drawing calls that were
\* given another: whatever faults, nothing of crawling stays in a vehicle.
RatesRestored ==
    \A d \in Visual, v \in Vehicle :
       visual[d][v] = "crawl" =>
          \E i \in 1..Len(native[Drawer[v]]) :
             LET n == native[Drawer[v]][i] IN n.fn = d /\ n.of = v /\ n.left

\* What a redirected call has changed is undone when it ends, and no sooner.
CallsUndone == ReturnsHome /\ RatesRestored

\* "Push even an ineligible nested derivative to mask an outer pitch context": no
\* derivative computes with the filtered input of another one.
OwnInputOnly == fed # "other"

\* The calls as the game knows them: without the addresses they return to.
GameCalls ==
    [t \in Thread |->
        [i \in 1..Len(native[t]) |->
            [fn |-> native[t][i].fn, of |-> native[t][i].of,
             given |-> native[t][i].fn \in Visual /\ native[t][i].left]]]

Native == INSTANCE NestedCalls
              WITH Routine <- Pushing, Drawing <- Visual, stack <- GameCalls, rate <- visual

\* To the game a redirected call is a call like any other: whatever nests, faults, is paused or
\* ends, each comes back to the one that made it, and a vehicle's rate is crawling's as long as a
\* drawing call that was given it is in progress, no longer and no shorter.
CallsAsEver == Native!Spec
=============================================================================
