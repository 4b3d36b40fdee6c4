------------------------------ MODULE MCSession ------------------------------
EXTENDS Session, TLC

CONSTANTS sim, draw, v1, v2, s1, s2, s3, c1, c2, t1, t2, train, up, forward, rise

Threads == {sim, draw}
Vehicles == {v1, v2}
TwoDrawers == (v1 :> sim) @@ (v2 :> draw)
Signals == {s1, s2, s3}
Clocks == {c1, c2}
Callers == {t1, t2}
Trains == {train}
Up == {up}
Letters == {forward, rise}
UpIsForward == up :> forward
CtrlUpIsRise == up :> rise

\* The parts share nothing, so one is looked at at a time.
EachAlone == {{f} : f \in Feature}

=============================================================================
