------------------------------ MODULE SimState ------------------------------
(***************************************************************************)
(* The data the simulator's two threads share, and what the application's  *)
(* event handlers and the simulation do to it.  A snapshot is represented  *)
(* by its tick counter alone.                                              *)
(***************************************************************************)
EXTENDS Integers, Sequences

CONSTANTS
  TickCount,    \* 2^32: range of the core's tick counter
  SlowSteps,    \* 100: steps of a frame while running
  FastSteps,    \* 0x10000000: the same in fast mode
  ManualSteps,  \* {1, 3, 10, ... 3000}: steps of one key press
  MaxStates     \* bound on the snapshots, not in the code

VARIABLES
  states,    \* tick counters of the snapshots; the last is the top
  steps,     \* steps the simulation still has to do
  running, fastmode,
  manual     \* manual_steps of the event loop in progress

dataVars == <<states, steps, running, fastmode, manual>>

ASSUME SimAssumption ==
  /\ TickCount \in Nat \ {0} /\ MaxStates \in Nat \ {0}
  /\ {SlowSteps, FastSteps} \subseteq Nat \ {0} /\ ManualSteps \subseteq Nat \ {0}

DataOK ==
  /\ states \in Seq(0 .. TickCount - 1) /\ states # <<>>
  /\ {steps, manual} \subseteq Nat
  /\ {running, fastmode} \subseteq BOOLEAN

(* Mutant: the last step is followed by one more.                          *)
busy_Still == steps >= 0

busy == steps > 0

DataInit ==
  /\ states = <<0>> /\ steps = 0 /\ manual = 0
  /\ running = FALSE /\ fastmode = FALSE

----------------------------------------------------------------------------
(* StatePointerStack: push clones the top; the first state stays.          *)
push == states' = Append(states, states[Len(states)])

pop == states' = IF Len(states) > 1 THEN SubSeq(states, 1, Len(states) - 1) ELSE states

(* Right arrow: a snapshot, then some steps from it.                       *)
StepKey ==
  /\ ~running /\ Len(states) < MaxStates
  /\ push /\ manual' \in ManualSteps
  /\ UNCHANGED <<steps, running, fastmode>>

(* r starts and stops.                                                     *)
RunKey ==
  /\ running' = ~running /\ steps' = IF running THEN 0 ELSE steps
  /\ UNCHANGED <<states, fastmode, manual>>

FastKey == fastmode' = ~fastmode /\ UNCHANGED <<states, steps, running, manual>>

(* Left arrow: back to the last snapshot.                                  *)
BackKey == ~running /\ pop /\ UNCHANGED <<steps, running, fastmode, manual>>

Event == StepKey \/ RunKey \/ FastKey \/ BackKey

(* The end of app_update: what is left of the last frame's steps is        *)
(* replaced, not added to.                                                 *)
Schedule ==
  /\ steps' = IF running THEN IF fastmode THEN FastSteps ELSE SlowSteps ELSE manual
  /\ manual' = 0
  /\ UNCHANGED <<states, running, fastmode>>

(* PinwheelSim::step on the snapshot that was the top when it began.       *)
Tick(top) ==
  /\ states' = IF busy THEN [states EXCEPT ![top] = (@ + 1) % TickCount] ELSE states
  /\ steps' = IF busy THEN steps - 1 ELSE steps
  /\ UNCHANGED <<running, fastmode, manual>>
=============================================================================
