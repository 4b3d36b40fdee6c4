------------------------------- MODULE Session -------------------------------
(***************************************************************************)
(* The small parts of the toolkit that work beside each other in one       *)
(* process of the game: the redirected calls of the crawl runtime, the     *)
(* continuation after a red signal, the log, the frame clock, the loader   *)
(* and the editors.  Each keeps its own variables and reads nobody else's. *)
(*                                                                         *)
(* Which of them work is decided once, at the first call of the command    *)
(* line (runtime/window.h toolkit_command_line): by the settings, by what  *)
(* could be installed, and by whether the process is the editors' or the   *)
(* game's.  Only the log outlives a process; StartupLog has its own        *)
(* sessions.                                                               *)
(***************************************************************************)
EXTENDS CrawlCalls, Signal, StartupLog, Timing, Loader, Editors

CONSTANT Selections  \* the sets of parts that are looked at together

Feature == {"crawl", "signal", "log", "pace", "clocks", "loader", "window", "keys"}
Toolset == {"window", "keys"}

\* "Game launch defaults, border removal, timing and gameplay UI hooks must not
\* reach editors": without -toolset there is no editor, with it nothing else.
ASSUME SessionAssumption ==
    /\ Selections \subseteq SUBSET Feature
    /\ \A s \in Selections : s \cap Toolset = {} \/ s \subseteq Toolset \cup {"log", "loader"}

VARIABLE features  \* what this process has of them

timingVars  == <<paceVars, clockVars>>
sessionVars == <<callsVars, signalVars, logVars, timingVars, loaderVars, editorsVars, features>>

SessionTypeOK ==
    /\ CallsTypeOK /\ SignalTypeOK /\ LogTypeOK /\ TimingTypeOK
    /\ LoaderTypeOK /\ EditorsTypeOK
    /\ features \in Selections

SessionInit ==
    /\ CallsInit /\ SignalInit /\ LogInit /\ TimingInit /\ LoaderInit /\ EditorsInit
    /\ features \in Selections

SessionNext ==
    /\ UNCHANGED features
    /\ \/ /\ "crawl" \in features /\ CallsNext
          /\ UNCHANGED <<signalVars, logVars, timingVars, loaderVars, editorsVars>>
       \/ /\ "signal" \in features /\ SignalNext
          /\ UNCHANGED <<callsVars, logVars, timingVars, loaderVars, editorsVars>>
       \/ /\ "log" \in features /\ LogNext
          /\ UNCHANGED <<callsVars, signalVars, timingVars, loaderVars, editorsVars>>
       \/ /\ "pace" \in features /\ PaceNext
          /\ UNCHANGED <<callsVars, signalVars, logVars, loaderVars, editorsVars>>
       \/ /\ "clocks" \in features /\ ClockNext
          /\ UNCHANGED <<callsVars, signalVars, logVars, loaderVars, editorsVars>>
       \/ /\ "loader" \in features /\ LoaderNext
          /\ UNCHANGED <<callsVars, signalVars, logVars, timingVars, editorsVars>>
       \/ /\ "window" \in features /\ WindowNext
          /\ UNCHANGED <<callsVars, signalVars, logVars, timingVars, loaderVars>>
       \/ /\ "keys" \in features /\ KeysNext
          /\ UNCHANGED <<callsVars, signalVars, logVars, timingVars, loaderVars>>

SessionSpec == SessionInit /\ [][SessionNext]_sessionVars

=============================================================================
