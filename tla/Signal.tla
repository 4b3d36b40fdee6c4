------------------------------- MODULE Signal -------------------------------
(***************************************************************************)
(* Driving on after a red signal (runtime/signal.h).                       *)
(*                                                                         *)
(* The game's monitor sets the failure bit of the train's controller       *)
(* whenever an entry of its list of signals is red and close, and its      *)
(* dispatcher ends the activity when it finds the bit set.  Both are        *)
(* wrapped: the monitor's scan is repeated, and the bit is left set only   *)
(* for a signal that was not passed before, and the dispatcher's call       *)
(* shows a notice that can be dismissed, as soon as no other popup is up.  *)
(* All of it runs on the thread that simulates and draws.                  *)
(***************************************************************************)
EXTENDS Naturals, FiniteSets

CONSTANTS
    Signal,    \* the signals there are
    Capacity   \* how many the toolkit remembers (64)

ASSUME SignalAssumption == Capacity \in Nat

VARIABLES
    seen,     \* signal_seen: the signals of the list that were passed
    pending,  \* signal_pending
    known,    \* signal_controller and signal_root are those of the game
    failed,   \* the failure bit of the controller
    popup,    \* a popup of the game is up, or fading
    passed,   \* signals that have been red since they came into the list (history)
    owed,     \* one of them was passed after the last notice (history)
    scanned   \* every scan since the last reset was complete (history)

signalVars == <<seen, pending, known, failed, popup, passed, owed, scanned>>

SignalTypeOK ==
    /\ seen \subseteq Signal /\ passed \subseteq Signal
    /\ {pending, known, failed, popup, owed, scanned} \subseteq BOOLEAN

SignalInit ==
    /\ seen = {} /\ passed = {}
    /\ pending = FALSE /\ known = FALSE /\ failed = FALSE /\ popup = FALSE
    /\ owed = FALSE /\ scanned = TRUE

\* signal_reset, and a new account of the notices.
reset == /\ seen' = {} /\ pending' = FALSE /\ known' = FALSE
         /\ passed' = {} /\ owed' = FALSE /\ scanned' = TRUE

\* The game starts an activity: its own initialisation may clear the bit.
signal_init ==
    /\ reset
    /\ failed' \in {failed, FALSE}
    /\ UNCHANGED popup

\* Mutant: a signal is remembered while it is red.
signal_collect_RedOnly(old, list, red) == (old \cap red) \cup red

\* The signals to remember after a scan: those of the list that were passed, and
\* those that are red and close.
signal_collect(old, list, red) == (old \cap list) \cup red

\* list: the signals in the game's list; red: those of them that are red, close
\* and not exempt; sound: the list has no hole and at most 256 nodes.  After an
\* incomplete scan the bit stays as the game left it.
signal_monitor(list, red, sound) ==
    LET old  == IF known THEN seen ELSE {}
        keep == signal_collect(old, list, red)
        was  == IF known THEN passed \cap list ELSE {}
        complete == sound /\ Cardinality(keep) <= Capacity
    IN  /\ known' = TRUE
        /\ seen' = IF complete THEN keep ELSE old
        /\ pending' = ((known /\ pending) \/ (complete /\ ~(keep \subseteq old)))
        /\ failed' = IF complete THEN pending' ELSE failed \/ red # {}
        /\ passed' = was \cup red
        /\ owed' = ((known /\ owed) \/ ~(red \subseteq was))
        /\ scanned' = ((~known \/ scanned) /\ complete)
        /\ UNCHANGED popup

\* The dispatcher's call for a failed activity.  There may be no GUI, and its
\* popup may not come up: then the notice waits, as it does for another popup.
signal_notice ==
    /\ failed /\ ~popup
    /\ popup' = TRUE
    /\ failed' = FALSE /\ pending' = FALSE
    /\ owed' = FALSE
    /\ UNCHANGED <<seen, known, passed, scanned>>

\* The player takes another train: another controller, with a bit of its own.
NewController ==
    /\ known' = FALSE
    /\ failed' \in BOOLEAN
    /\ UNCHANGED <<seen, pending, popup, passed, owed, scanned>>

\* A popup of the game comes up, or is dismissed.
PopupChanges ==
    /\ popup' = ~popup
    /\ UNCHANGED <<seen, pending, known, failed, passed, owed, scanned>>

SignalNext ==
    \/ \E list \in SUBSET Signal, sound \in BOOLEAN :
          \E red \in SUBSET list : signal_monitor(list, red, sound)
    \/ signal_init \/ signal_notice \/ NewController \/ PopupChanges

\* "Already-notified identities remain remembered while present in the list,
\* including an aspect change.  Once absent, a subsequent appearance can warn
\* again.  Simultaneous new entries share one notice": as long as every scan was
\* complete, the bit is set, and stays set behind other popups, exactly while a
\* passing is still to be told of: none is lost and none is told of twice.
NoticeDue == known /\ scanned => (failed <=> owed) /\ (pending <=> owed)

=============================================================================
