---------------------------- MODULE PinwheelApp -----------------------------
(***************************************************************************)
(* What the simulator promises its user, without threads: the application  *)
(* holds the simulation during an update or the drawing of a frame and     *)
(* then sees and changes a state between two steps; the simulation steps   *)
(* only while nobody holds it, on the top snapshot, and no more often than *)
(* it was told to.                                                         *)
(***************************************************************************)
EXTENDS SimState

VARIABLE holder   \* "update", "render" or "none"

appVars == <<dataVars, holder>>

AppInit == DataInit /\ holder = "none"

Hold    == holder = "none" /\ holder' \in {"update", "render"} /\ UNCHANGED dataVars
Handle  == holder = "update" /\ Event /\ UNCHANGED holder
Finish  == holder = "update" /\ Schedule /\ UNCHANGED holder
Release == holder # "none" /\ holder' = "none" /\ UNCHANGED dataVars
Step    == holder = "none" /\ busy /\ Tick(Len(states)) /\ UNCHANGED holder

AppNext == Hold \/ Handle \/ Finish \/ Release \/ Step

AppSpec == AppInit /\ [][AppNext]_appVars
=============================================================================
