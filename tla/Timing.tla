------------------------------- MODULE Timing -------------------------------
(***************************************************************************)
(* The frame clock of the FPS option (runtime/timing.h, refresh-cap.h).    *)
(*                                                                         *)
(* A frame that the game accepts reads the performance counter, waits      *)
(* until a period of the display has passed since the last one, reads the  *)
(* counter again and gives the game the time between the two frames.  The  *)
(* counter can fail or be set back, the display can change, and its rate   *)
(* is asked for once a second.  The game adds its steps to two clocks that *)
(* hold less than the sum: what is rounded off is added to the next step.  *)
(*                                                                         *)
(* Time is counted in ticks, in which a millionth of a second is nothing.  *)
(* After every frame that keeps its previous count, refresh_previous and   *)
(* timing_previous are the same, so the distance to both is one variable.  *)
(***************************************************************************)
EXTENDS Integers

CONSTANTS
    Period,    \* the periods a display can have, in ticks
    Usual,     \* the one of 60 Hz
    Stale,     \* the age at which the rate is asked for again (1000 ms)
    Longest,   \* the longest step the game is given (0.3 s)
    Horizon,   \* bound: ticks between two frames, either way
    Clock,     \* the clocks of the game that are corrected
    Grain,     \* what a clock can tell apart
    Step,      \* the steps that are added to a clock
    MaxTime    \* bound: the highest time of a clock

ASSUME TimingAssumption ==
    /\ Period \subseteq Nat /\ Usual \in Period
    /\ Stale \in Nat /\ Longest \in Nat /\ Horizon \in Nat
    /\ Grain \in Nat \ {0} /\ Step \subseteq Nat /\ MaxTime \in Nat

VARIABLES
    limited,  \* limit_vsync
    started,  \* refresh_started
    timed,    \* timing_started
    since,    \* the counter less refresh_previous
    rate,     \* [period, known, age]: refresh_hz, refresh_known, refresh_checked
    display,  \* the period of the display
    real,     \* ticks since the last frame (history)
    stepped,  \* the counter was set since then (history)
    frame,    \* the frame that was just prepared (history)
    time,     \* the clocks
    rest,     \* timing_remainders
    drift     \* what a clock is ahead of the sum of its steps (history)

paceVars  == <<limited, started, timed, since, rate, display, real, stepped, frame>>
clockVars == <<time, rest, drift>>

Span == -Horizon..Horizon

\* gap: the time since the frame before; asked: how long a wait it asked for; wait:
\* how long it waited; step: what the game is given; sure: both counts were taken,
\* and the counter was not set in between.
Frame == [gap : Nat, asked : Nat, wait : Nat, step : Nat, period : Period,
          sure : BOOLEAN, timed : BOOLEAN]
NoFrame == [gap |-> 0, asked |-> 0, wait |-> 0, step |-> 0, period |-> 0,
            sure |-> FALSE, timed |-> FALSE]

TimingTypeOK ==
    /\ {limited, started, timed, stepped} \subseteq BOOLEAN
    /\ since \in Span /\ real \in 0..Horizon
    /\ rate \in [period : Period, known : BOOLEAN, age : 0..Stale]
    /\ display \in Period
    /\ frame \in Frame \cup {NoFrame}
    /\ time \in [Clock -> Nat] /\ drift \in [Clock -> Int]
    /\ rest \in [Clock -> [error : Int, last : Nat, valid : BOOLEAN]]

TimingInit ==
    /\ limited \in BOOLEAN
    /\ started = FALSE /\ timed = FALSE /\ stepped = FALSE
    /\ since = 0 /\ real = 0
    /\ display = Usual
    /\ rate = [period |-> Usual, known |-> FALSE, age |-> 0]
    /\ frame = NoFrame
    /\ time = [c \in Clock |-> 0] /\ drift = [c \in Clock |-> 0]
    /\ rest = [c \in Clock |-> [error |-> 0, last |-> 0, valid |-> FALSE]]

-----------------------------------------------------------------------------
(* Frames. *)

\* refresh_display_rate, at most once a second.
Asked == IF ~rate.known \/ rate.age = Stale
         THEN [period |-> display, known |-> TRUE, age |-> 0] ELSE rate

\* What refresh_pace waits for: nothing after a frame without a count, or when the
\* counter is behind it.
Remaining ==
    IF limited /\ started /\ 0 <= since /\ since < Asked.period
    THEN Asked.period - since ELSE 0

Least(a, b) == IF a < b THEN a ELSE b

Rated == IF limited THEN Asked ELSE rate

\* How long refresh_wait can take.  Nobody looks at what became of it: a wait that
\* fails is over at once, and Sleep can end before its time as well as after it.
Waits == IF Remaining = 0 THEN {0} ELSE 0..(Remaining + 1)

Prepared(wait) ==
    LET passed == since + wait
    IN  [gap |-> real + wait, asked |-> Remaining, wait |-> wait, period |-> Rated.period,
         step |-> IF timed /\ passed >= 0 THEN Least(passed, Longest) ELSE 0,
         sure |-> limited /\ started /\ ~stepped, timed |-> timed /\ ~stepped]

Aged(r, ticks) == [r EXCEPT !.age = Least(@ + ticks, Stale)]

\* Mutant: the count of before the wait is kept.
timing_frame_OldCount(wait) ==
    /\ started' = limited /\ timed' = TRUE
    /\ frame' = Prepared(wait)
    /\ since' = wait
    /\ real' = 0 /\ stepped' = FALSE
    /\ rate' = Aged(Rated, wait)
    /\ UNCHANGED <<limited, display, clockVars>>

\* timing_frame, with both counts read.  The second one is taken as it is, however
\* long the wait has been.
timing_frame(wait) ==
    /\ started' = limited /\ timed' = TRUE
    /\ frame' = Prepared(wait)
    /\ since' = 0
    /\ real' = 0 /\ stepped' = FALSE
    /\ rate' = Aged(Rated, wait)
    /\ UNCHANGED <<limited, display, clockVars>>

\* timing_frame without the first count: the pace is kept.
FirstCountFails ==
    /\ timed' = FALSE
    /\ frame' = NoFrame
    /\ UNCHANGED <<limited, started, since, rate, display, real, stepped, clockVars>>

\* timing_frame without the count after the wait.
SecondCountFails(wait) ==
    /\ Remaining > 0
    /\ started' = FALSE /\ timed' = FALSE
    /\ frame' = NoFrame
    /\ rate' = Aged(Asked, wait)
    /\ UNCHANGED <<limited, since, display, real, stepped, clockVars>>

\* The world outside.
Tick ==
    /\ since < Horizon /\ real < Horizon
    /\ since' = since + 1 /\ real' = real + 1
    /\ rate' = Aged(rate, 1)
    /\ UNCHANGED <<limited, started, timed, display, stepped, frame, clockVars>>

CounterSet(to) ==
    /\ since' = to
    /\ stepped' = TRUE
    /\ UNCHANGED <<limited, started, timed, rate, display, real, frame, clockVars>>

DisplayChanges(to) ==
    /\ display' = to
    /\ UNCHANGED <<limited, started, timed, since, rate, real, stepped, frame, clockVars>>

-----------------------------------------------------------------------------
(* Clocks. *)

\* The times a clock can show that are nearest to t; between two, either.
Rounded(t) == {r \in 0..MaxTime : r % Grain = 0 /\ 2 * (t - r) <= Grain /\ 2 * (r - t) <= Grain}

\* Mutant: the rest is kept when the game has set the clock.
timing_add_KeepRest(c, dt) ==
    LET exact == time[c] + dt + rest[c].error
    IN  \E r \in Rounded(exact) :
           /\ time' = [time EXCEPT ![c] = r]
           /\ rest' = [rest EXCEPT ![c] = [error |-> exact - r, last |-> r, valid |-> TRUE]]
           /\ drift' = [drift EXCEPT ![c] = @ + r - (time[c] + dt)]
           /\ UNCHANGED paceVars

\* A rest belongs to the time it was left at.
timing_add(c, dt) ==
    LET kept  == rest[c].valid /\ time[c] = rest[c].last
        exact == time[c] + dt + IF kept THEN rest[c].error ELSE 0
    IN  \E r \in Rounded(exact) :
           /\ time' = [time EXCEPT ![c] = r]
           /\ rest' = [rest EXCEPT ![c] = [error |-> exact - r, last |-> r, valid |-> TRUE]]
           /\ drift' = [drift EXCEPT ![c] = @ + r - (time[c] + dt)]
           /\ UNCHANGED paceVars

\* In the mode that is left to the game all rests are given up.
timing_accumulate_native(c, dt) ==
    \E r \in Rounded(time[c] + dt) :
       /\ time' = [time EXCEPT ![c] = r]
       /\ rest' = [x \in Clock |-> [error |-> 0, last |-> 0, valid |-> FALSE]]
       /\ drift' = [x \in Clock |-> 0]
       /\ UNCHANGED paceVars

\* The game sets a clock, for an activity that is loaded or saved.  A setting to
\* the very time a step left cannot be told from none, and is none here.
ClockSet(c, to) ==
    /\ to % Grain = 0
    /\ ~(rest[c].valid /\ to = rest[c].last)
    /\ time' = [time EXCEPT ![c] = to]
    /\ drift' = [drift EXCEPT ![c] = 0]
    /\ UNCHANGED <<rest, paceVars>>

PaceNext ==
    \/ \E wait \in Waits : timing_frame(wait) \/ SecondCountFails(wait)
    \/ FirstCountFails \/ Tick
    \/ \E to \in Span : CounterSet(to)
    \/ \E to \in Period : DisplayChanges(to)

ClockNext ==
    \E c \in Clock :
       \/ \E dt \in Step : timing_add(c, dt) \/ timing_accumulate_native(c, dt)
       \/ \E to \in 0..MaxTime : ClockSet(c, to)

-----------------------------------------------------------------------------
(* Properties. *)

\* "Measure elapsed time independently of rendering throughput": a frame is ahead
\* of the display, whose period is the one last asked for, by no more than its own
\* wait was cut short, so that early and late frames never add up; it asks for no
\* longer a wait than a period; and the game is given the time that has really
\* passed, the wait included, up to the limit.  All this whichever count failed
\* before, and except across a setting of the counter.
PacedApart ==
    /\ frame.sure => frame.gap + (frame.asked - Least(frame.wait, frame.asked)) >= frame.period
    /\ frame.asked <= frame.period
    /\ frame.timed => frame.step = Least(frame.gap, Longest)

\* "Float-clock compensation": however many steps are added, and however small, a
\* clock is never further from their sum than half of what it can tell apart, from
\* the last time the game set it.
NoDrift == \A c \in Clock : 2 * drift[c] <= Grain /\ -Grain <= 2 * drift[c]

=============================================================================
