----------------------------- MODULE MCWalking -----------------------------
(***************************************************************************)
(* Walking with two cameras, one of them orbited by the mouse, one train   *)
(* that can be lost and found, and the actions of Escape and of a lever.   *)
(***************************************************************************)
EXTENDS Walking

CONSTANTS cab, front, mine, lever, drive, escape, l1, l2

Cameras == {cab, front}
Orbited == {front}
OneTrain == {mine}
OneNode == {lever}
NoNode == {}
Actions == {drive, escape}
Allowed == {escape}
Lights == {l1, l2}
OneLight == {l1}

\* What is explored together with the cameras: the actions the game registers, the pointer,
\* the lights, or the origin.
NoActions == node = NoMasks
NoLights == ~light /\ "light" \notin held /\ \A a \in Lamps: lights[a] = "free"
NoPan == ~button /\ ~pan /\ ~hidden /\ ~epan
AtOrigin == origin = 0 /\ worigin = 0 /\ world = 0

OneConcern ==
    \/ NoLights /\ NoPan /\ AtOrigin
    \/ NoActions /\ NoLights /\ AtOrigin
    \/ NoActions /\ NoPan /\ (NoLights \/ AtOrigin)
=============================================================================
