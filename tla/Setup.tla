-------------------------------- MODULE Setup --------------------------------
(***************************************************************************)
(* nemt.exe, at the two levels at which it has a state worth following:    *)
(* the panel, for which installing is one step, and the transaction that   *)
(* makes it one.  A run of the program is looked at on one level at a      *)
(* time; what joins them is OwnedFiles, which InstallTx implements and     *)
(* Panel takes for granted.                                                *)
(***************************************************************************)
EXTENDS InstallTx, Panel

CONSTANT Levels  \* the levels that are looked at

ASSUME SetupAssumption == Levels \subseteq {"panel", "transaction"}

VARIABLE level

setupVars == <<vars, panelVars, level>>

SetupTypeOK == TypeOK /\ PanelTypeOK /\ level \in Levels

\* The level that is not looked at begins in one state only.
SetupInit ==
    /\ Init /\ PanelInit /\ level \in Levels
    /\ level = "panel" => disk = NoFiles /\ dir = "none"
    /\ level = "transaction" => cpu /\ displays = {} /\ exe = "narrow" /\ files.state = "none"

\* install_settings handles no messages: no handler of the panel runs within it.
SetupNext ==
    /\ UNCHANGED level
    /\ \/ level = "transaction" /\ Next /\ UNCHANGED panelVars
       \/ level = "panel" /\ PanelNext /\ UNCHANGED vars

SetupSpec == SetupInit /\ [][SetupNext]_setupVars
=============================================================================
