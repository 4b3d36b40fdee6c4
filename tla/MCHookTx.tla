------------------------------ MODULE MCHookTx ------------------------------
(***************************************************************************)
(* HookTx on six bytes of code.  The stages stand for the real ones: an    *)
(* early one with one try (window.h, timing.h, ...), an early one that     *)
(* wants bytes the first has patched, a late one with retries that ends    *)
(* the worker when it fails (cab.h, crawl.c), and a last one (walking.h).  *)
(***************************************************************************)
EXTENDS HookTx

CONSTANTS main, worker, game

Peers == {main, worker, game}
Code   == 0..5
Import == 7
Touched == {2, Import}

HookAt(start, len, expects) == [start |-> start, len |-> len, expects |-> expects]

Early(hooks) == [self |-> main, hooks |-> hooks, tries |-> 1, early |-> TRUE, stops |-> FALSE]
Late(hooks, tries) ==
    [self |-> worker, hooks |-> hooks, tries |-> tries, early |-> FALSE, stops |-> TRUE]

FourStages == <<Early(<<HookAt(0, 2, "original")>>),
                Early(<<HookAt(1, 1, "patched")>>),
                Late(<<HookAt(4, 1, "original"), HookAt(2, 2, "original")>>, 2),
                Late(<<HookAt(5, 1, "original")>>, 1)>>

AllFaults == FaultKinds
NoCut == FaultKinds \ {"cut"}
=============================================================================
