----------------------------- MODULE AtomicHooks -----------------------------
(***************************************************************************)
(* What the checked mutation transaction (runtime/hooks.h) promises to the *)
(* threads and the other modules of the process: a stage is installed in   *)
(* one instant, on clean bytes that nobody owns and in which no thread     *)
(* stands, or it is never seen at all.                                     *)
(***************************************************************************)
EXTENDS Naturals

CONSTANTS
    Thread, Addr, Slot, Outside,
    Plans        \* the bytes each stage replaces

VARIABLES
    bytes,  \* what each byte is, as its executing threads can tell
    owned,  \* the bytes that are claimed
    on,     \* the stages that are installed
    eip     \* where in the code each thread stands, or Outside

vars == <<bytes, owned, on, eip>>

Init ==
    /\ \E s \in {"original", "foreign"} :
          bytes = [a \in Addr \cup {Slot} |-> IF a = Slot THEN s ELSE "original"]
    /\ owned = {} /\ on = {}
    /\ eip = [t \in Thread |-> Outside]

\* The import slot is the first thing that is taken.
Redirect ==
    /\ UNCHANGED <<on, eip>>
    /\ owned = {} /\ on = {}
    /\ owned' = {Slot}
    /\ bytes' = [bytes EXCEPT ![Slot] = "patched"]

Install(j) ==
    /\ on' = on \cup {j} /\ UNCHANGED eip
    /\ \A l \in on : l < j
    /\ \A t \in Thread : eip[t] \notin Plans[j]
    /\ Plans[j] \cap owned = {}
    /\ owned' = owned \cup Plans[j]
    /\ \A a \in Plans[j] : bytes[a] = "original"
    /\ bytes' = [a \in DOMAIN bytes |-> IF a \in Plans[j] THEN "patched" ELSE bytes[a]]

\* Threads walk over bytes that are not replaced, and leave them.
Walk(t) ==
    /\ \E a \in Addr \cup {Outside} :
          /\ eip' = [eip EXCEPT ![t] = a]
          /\ a # Outside => bytes[a] # "patched"
    /\ UNCHANGED <<bytes, owned, on>>

ForeignPatch(a) ==
    /\ UNCHANGED <<on, eip, owned>>
    /\ bytes' = [bytes EXCEPT ![a] = "foreign"]

Next == \/ Redirect
        \/ \E j \in DOMAIN Plans : Install(j)
        \/ \E t \in Thread : Walk(t)
        \/ \E a \in Addr \cup {Slot} : ForeignPatch(a)

Spec == Init /\ [][Next]_vars
=============================================================================
