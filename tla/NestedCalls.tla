----------------------------- MODULE NestedCalls -----------------------------
(***************************************************************************)
(* What the redirected calls (CrawlCalls) are to the game: its own calls.  *)
(* They nest on each thread and come back innermost first, each to the one *)
(* that made it.  A drawing call may give its vehicle another rate, and    *)
(* the vehicle has that rate exactly as long as such a call is in          *)
(* progress.  Here is no saved return address, no stack of saved rates, no *)
(* fault, no pause and no end of an activity.                              *)
(***************************************************************************)
EXTENDS Naturals, Sequences

CONSTANTS Thread, Routine, Drawing, Vehicle

VARIABLES stack,  \* the calls in progress on each thread, innermost last
          rate    \* rate[d][v]: the rate that drawing routine d reads for v

vars == <<stack, rate>>

\* A call of d that gives v another rate is in progress.
Given(d, v) ==
    \E t \in Thread : \E i \in DOMAIN stack[t] :
       stack[t][i] = [fn |-> d, of |-> v, given |-> TRUE]

Rates == [d \in Drawing |-> [v \in Vehicle |-> IF Given(d, v) THEN "crawl" ELSE "game"]]

Begin(t, fn, v) ==
    stack' = [stack EXCEPT ![t] = Append(@, [fn |-> fn, of |-> v, given |-> FALSE])]

Give(t) ==
    /\ stack[t] # <<>>
    /\ stack[t][Len(stack[t])].fn \in Drawing
    /\ stack' = [stack EXCEPT ![t][Len(stack[t])].given = TRUE]

End(t) ==
    /\ stack[t] # <<>>
    /\ stack' = [stack EXCEPT ![t] = SubSeq(@, 1, Len(@) - 1)]

Init == stack = [t \in Thread |-> <<>>] /\ rate = Rates

Next ==
    /\ \E t \in Thread :
          \/ \E fn \in Routine, v \in Vehicle : Begin(t, fn, v)
          \/ Give(t) \/ End(t)
    /\ rate' = Rates'

Spec == Init /\ [][Next]_vars
=============================================================================
