----------------------------- MODULE Flashlight -----------------------------
(***************************************************************************)
(* The camera light of free walking (runtime/flashlight.h): one cone light *)
(* allocated, registered and released by the game's renderer, which also   *)
(* owns the lights of the trains and frees all of them when it shuts down. *)
(* All callbacks run on the game's frame thread.                           *)
(*                                                                         *)
(* Lights are addresses.  An address that was freed can be allocated again *)
(* for a light of a train, which looks exactly like ours: flashlight_owned *)
(* compares the table, the state and the type, not who made it.            *)
(***************************************************************************)
EXTENDS Naturals

CONSTANT Lamps      \* the addresses the renderer allocates lights at

NoLamp == "no lamp"

ASSUME NoLampAssumption == NoLamp \notin Lamps

VARIABLES
    lamp,     \* flashlight_object
    lights,   \* what is registered at an address: "ours", "train" or "free"
    slot,     \* the one light that object shaders use, 0x8287b0
    beam      \* flashlight_frame_active

lampVars == <<lamp, lights, slot, beam>>

LampType ==
    /\ lamp \in Lamps \cup {NoLamp}
    /\ lights \in [Lamps -> {"ours", "train", "free"}]
    /\ slot \in Lamps \cup {NoLamp}
    /\ beam \in BOOLEAN

LampInit ==
    /\ lamp = NoLamp
    /\ lights = [a \in Lamps |-> "free"]
    /\ slot = NoLamp
    /\ beam = FALSE

-----------------------------------------------------------------------------
\* flashlight_owned
Owned == lamp # NoLamp /\ lights[lamp] # "free"

\* What flashlight_stop leaves selected and registered.
SlotWithout == IF slot = lamp THEN NoLamp ELSE slot

LightsWithout == IF Owned THEN [lights EXCEPT ![lamp] = "free"] ELSE lights

\* flashlight_stop
LampStop ==
    /\ slot' = SlotWithout
    /\ lights' = LightsWithout
    /\ lamp' = NoLamp
    /\ beam' = FALSE

\* flashlight_update, past the checks of the camera: a light is created, or the one
\* there is gets new parameters.
LampShow ==
    /\ \/ /\ Owned
          /\ lamp' = lamp
          /\ lights' = lights
       \/ /\ ~Owned
          /\ \E a \in Lamps:
                /\ lights[a] = "free"
                /\ lamp' = a
                /\ lights' = [lights EXCEPT ![a] = "ours"]
    /\ slot' = IF slot = NoLamp \/ (slot = lamp /\ ~Owned) THEN lamp' ELSE slot
    /\ beam' = TRUE

\* flashlight_update when flashlight_verify or flashlight_create fails: a reference that is
\* no longer registered is dropped, the light itself is left as it is.
LampFails ==
    /\ slot' = IF Owned THEN slot ELSE SlotWithout
    /\ lamp' = IF Owned THEN lamp ELSE NoLamp
    /\ lights' = lights
    /\ beam' = FALSE

\* flashlight_update(camera, enabled); an unreadable camera counts as not enabled.
LampUpdate(enabled) ==
    IF enabled THEN LampShow \/ LampFails ELSE LampStop

\* Mutant: the reference is left for flashlight_owned to find stale.
LampForget_Keeps ==
    /\ lamp' = lamp
    /\ beam' = FALSE

\* The references flashlight_renderer_shutdown drops before the renderer frees its lists.
LampForget ==
    /\ lamp' = NoLamp
    /\ beam' = FALSE

\* The shutdown of the renderer, with the callback at its entry.
LampShutdown ==
    /\ LampForget
    /\ lights' = [a \in Lamps |-> "free"]
    /\ slot' = NoLamp

\* A train switches its light on.  The renderer may select it.
TrainLightOn ==
    /\ \E a \in Lamps:
          /\ lights[a] = "free"
          /\ lights' = [lights EXCEPT ![a] = "train"]
          /\ slot' \in {slot, a}
    /\ UNCHANGED <<lamp, beam>>

\* A train switches its light off; the renderer forgets its selection.
TrainLightOff ==
    /\ \E a \in Lamps:
          /\ lights[a] = "train"
          /\ lights' = [lights EXCEPT ![a] = "free"]
          /\ slot' = IF slot = a THEN NoLamp ELSE slot
    /\ UNCHANGED <<lamp, beam>>

TrainLight == TrainLightOn \/ TrainLightOff

-----------------------------------------------------------------------------
\* The reference is to a light this code made, it has made no other that is still
\* registered, and the shaders never use a light that was freed: a light is released once,
\* and never one of a train's (flashlight.h:31-47, 63-67).
LampIsOurs ==
    /\ lamp # NoLamp => lights[lamp] = "ours"
    /\ \A a \in Lamps: lights[a] = "ours" => lamp = a
    /\ slot # NoLamp => lights[slot] # "free"
=============================================================================
