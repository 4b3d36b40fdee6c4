------------------------------ MODULE MCSetup ------------------------------
(***************************************************************************)
(* The installer on a small instance: two settings and two releases for    *)
(* the transaction, one display that comes and goes for the panel; see     *)
(* README.md for the choice of the options.                                *)
(***************************************************************************)
EXTENDS Setup, TLC

AllFaults == FaultKinds

Symmetry == Permutations(Config) \cup Permutations(Release)

MCClickable == {"crawl", "end", "fps", "window", "cores"}
MCEditable == {"crawl", "cores", "vsync"}
=============================================================================
