----------------------------- MODULE SimThread ------------------------------
(***************************************************************************)
(* The application thread and the simulator thread of sim_thread.cpp, with *)
(* their atomic flags, mutex and condition variable.  Each read or write   *)
(* of a flag or of the shared data is a step.  A thread that waits on the  *)
(* condition variable is "asleep" until it is notified or wakes up by      *)
(* itself, which a condition variable may always do.                       *)
(*                                                                         *)
(* set and clear are two steps (the flag, then notify_all).  Where the     *)
(* caller holds the mutex they are written as one: whoever is woken cannot *)
(* go on before the mutex is released.                                     *)
(***************************************************************************)
EXTENDS SimState

VARIABLES
  app,    \* where the application thread is
  frame,  \* the handler it is in, "update" or "render"
  sim,    \* where the simulator thread is
  top,    \* the snapshot PinwheelSim::step works on
  flags,  \* AtomicFlags::flags
  mut     \* who has the mutex

threadVars == <<app, frame, sim, top, flags, mut>>
allVars    == <<dataVars, threadVars>>

AppAt == {"start", "frame", "pause", "acked", "block", "asleep", "relock",
          "owner", "resume", "notify", "exiting", "join", "stopped"}
SimAt == {"unborn", "lock", "check", "checkBusy", "ack", "wantExit", "wantRun",
          "wantWork", "block", "asleep", "relock", "unack", "woken", "exit", "enter",
          "loop", "loopFlags", "step", "stepping", "left", "done"}
Flag  == {"REQ_PAUSE", "ACK_PAUSE", "REQ_EXIT", "ACK_EXIT"}

TypeOK ==
  /\ DataOK
  /\ app \in AppAt /\ sim \in SimAt /\ frame \in {"update", "render"}
  /\ top \in Nat /\ flags \subseteq Flag /\ mut \in {"none", "app", "sim"}

Init ==
  /\ DataInit
  /\ app = "start" /\ sim = "unborn" /\ frame = "update"
  /\ top = 0 /\ flags = {} /\ mut = "none"

Awake(at) == IF at = "asleep" THEN "relock" ELSE at

----------------------------------------------------------------------------
(* The simulator thread: thread_main.                                      *)
SimGo(from, to) == sim = from /\ sim' = to

SimStill == UNCHANGED <<dataVars, app, frame, top, flags, mut>>

SimAcquire(from, to) ==
  /\ SimGo(from, to) /\ mut = "none" /\ mut' = "sim"
  /\ UNCHANGED <<dataVars, app, frame, top, flags>>

SimLock   == SimAcquire("lock", "check")
SimRelock == SimAcquire("relock", "wantExit")

Check ==
  /\ SimGo("check", IF "REQ_PAUSE" \in flags THEN "ack" ELSE "checkBusy")
  /\ SimStill

CheckBusy == SimGo("checkBusy", IF busy THEN "exit" ELSE "ack") /\ SimStill

(* Mutant: nobody is notified.                                             *)
Ack_Silent ==
  /\ SimGo("ack", "wantExit") /\ flags' = flags \union {"ACK_PAUSE"}
  /\ UNCHANGED <<dataVars, app, frame, top, mut>>

Ack ==
  /\ SimGo("ack", "wantExit")
  /\ flags' = flags \union {"ACK_PAUSE"} /\ app' = Awake(app)
  /\ UNCHANGED <<dataVars, frame, top, mut>>

(* The predicate of the wait, read by read.                                *)
WantExit ==
  SimGo("wantExit", IF "REQ_EXIT" \in flags THEN "unack" ELSE "wantRun") /\ SimStill

WantRun ==
  SimGo("wantRun", IF "REQ_PAUSE" \in flags THEN "block" ELSE "wantWork") /\ SimStill
WantWork == SimGo("wantWork", IF busy THEN "unack" ELSE "block") /\ SimStill

SimBlock ==
  /\ SimGo("block", "asleep") /\ mut' = "none"
  /\ UNCHANGED <<dataVars, app, frame, top, flags>>

SimSpurious == SimGo("asleep", "relock") /\ SimStill

(* Mutant: the acknowledgement is left standing.                           *)
Unack_Keeps == SimGo("unack", "woken") /\ SimStill

Unack ==
  /\ SimGo("unack", "woken")
  /\ flags' = flags \ {"ACK_PAUSE"} /\ app' = Awake(app)
  /\ UNCHANGED <<dataVars, frame, top, mut>>

(* What woke it up?  The answer is for the log, but busy() is read.        *)
Woken == SimGo("woken", "exit") /\ SimStill

Exit ==
  /\ SimGo("exit", IF "REQ_EXIT" \in flags THEN "done" ELSE "enter")
  /\ flags' = IF "REQ_EXIT" \in flags THEN flags \union {"ACK_EXIT"} ELSE flags
  /\ mut' = "none"
  /\ UNCHANGED <<dataVars, app, frame, top>>

Enter == SimGo("enter", IF busy THEN "loop" ELSE "lock") /\ SimStill
Loop  == SimGo("loop", IF busy THEN "loopFlags" ELSE "left") /\ SimStill

(* Mutant: the loop goes on until the work is done.                        *)
LoopFlags_WorksOn ==
  /\ SimGo("loopFlags", IF "REQ_EXIT" \in flags THEN "left" ELSE "step") /\ SimStill

LoopFlags ==
  /\ SimGo("loopFlags",
           IF flags \intersect {"REQ_PAUSE", "REQ_EXIT"} # {} THEN "left" ELSE "step")
  /\ SimStill

(* Why did the loop end?  Again busy() is read, and without the mutex.     *)
Left == SimGo("left", "lock") /\ SimStill

(* PinwheelSim::step takes a reference to the top state, then works on it. *)
BeginStep ==
  /\ SimGo("step", "stepping") /\ top' = Len(states)
  /\ UNCHANGED <<dataVars, app, frame, flags, mut>>

EndStep ==
  SimGo("stepping", "loop") /\ Tick(top) /\ UNCHANGED <<app, frame, top, flags, mut>>

SimStep ==
  \/ Check \/ CheckBusy \/ Ack \/ WantExit \/ WantRun \/ WantWork \/ SimBlock
  \/ Unack \/ Woken \/ Exit \/ Enter \/ Loop \/ LoopFlags \/ Left \/ BeginStep \/ EndStep

SimNext == SimLock \/ SimRelock \/ SimSpurious \/ SimStep

----------------------------------------------------------------------------
(* The application thread.                                                 *)
AppGo(from, to) == app = from /\ app' = to

AppStill == UNCHANGED <<dataVars, frame, sim, top, flags, mut>>

Start ==
  /\ AppGo("start", "frame") /\ sim' = "lock"
  /\ UNCHANGED <<dataVars, frame, top, flags, mut>>

Frame ==
  /\ AppGo("frame", "pause") /\ frame' \in {"update", "render"}
  /\ UNCHANGED <<dataVars, sim, top, flags, mut>>

(* pause: the mutex, then set(REQ_PAUSE).                                  *)
Pause ==
  /\ AppGo("pause", "acked") /\ mut = "none" /\ mut' = "app"
  /\ flags' = flags \union {"REQ_PAUSE"} /\ sim' = Awake(sim)
  /\ UNCHANGED <<dataVars, frame, top>>

AppRelock ==
  /\ AppGo("relock", "acked") /\ mut = "none" /\ mut' = "app"
  /\ UNCHANGED <<dataVars, frame, sim, top, flags>>

(* Mutant: pause returns without looking for the acknowledgement.          *)
Acked_Any ==
  /\ AppGo("acked", "owner") /\ mut' = "none"
  /\ UNCHANGED <<dataVars, frame, sim, top, flags>>

(* Its predicate, and the return.                                          *)
Acked ==
  /\ AppGo("acked", IF "ACK_PAUSE" \in flags THEN "owner" ELSE "block")
  /\ mut' = IF "ACK_PAUSE" \in flags THEN "none" ELSE mut
  /\ UNCHANGED <<dataVars, frame, sim, top, flags>>

AppBlock ==
  /\ AppGo("block", "asleep") /\ mut' = "none"
  /\ UNCHANGED <<dataVars, frame, sim, top, flags>>

AppSpurious == AppGo("asleep", "relock") /\ AppStill

(* app_update's event loop and its end; app_render_frame only looks.       *)
AppEvent == app = "owner" /\ frame = "update" /\ Event /\ UNCHANGED threadVars

FinishUpdate ==
  /\ AppGo("owner", "resume") /\ frame = "update" /\ Schedule
  /\ UNCHANGED <<frame, sim, top, flags, mut>>

FinishRender == AppGo("owner", "resume") /\ frame = "render" /\ AppStill

(* resume: clear(REQ_PAUSE), without the mutex.                            *)
Resume ==
  /\ AppGo("resume", "notify") /\ flags' = flags \ {"REQ_PAUSE"}
  /\ UNCHANGED <<dataVars, frame, sim, top, mut>>

(* Mutant: app_update sets the steps after resume(), not before it.        *)
NotifyResume_Schedules ==
  /\ AppGo("notify", "frame") /\ sim' = Awake(sim)
  /\ IF frame = "update" THEN Schedule ELSE UNCHANGED dataVars
  /\ UNCHANGED <<frame, top, flags, mut>>

NotifyResume ==
  /\ AppGo("notify", "frame") /\ sim' = Awake(sim)
  /\ UNCHANGED <<dataVars, frame, top, flags, mut>>

(* stop: set(REQ_EXIT), without the mutex, and join.                       *)
Stop ==
  /\ AppGo("frame", "exiting") /\ flags' = flags \union {"REQ_EXIT"}
  /\ UNCHANGED <<dataVars, frame, sim, top, mut>>

NotifyStop ==
  /\ AppGo("exiting", "join") /\ sim' = Awake(sim)
  /\ UNCHANGED <<dataVars, frame, top, flags, mut>>

Join == AppGo("join", "stopped") /\ sim = "done" /\ AppStill

AppStep ==
  \/ Start \/ Acked \/ AppBlock \/ FinishUpdate \/ FinishRender
  \/ Resume \/ NotifyResume \/ NotifyStop \/ Join

AppNext == Frame \/ Pause \/ AppRelock \/ AppSpurious \/ AppEvent \/ Stop \/ AppStep

----------------------------------------------------------------------------
Next == SimNext \/ AppNext

(* Both threads are scheduled; who wants the mutex gets it if it is free   *)
(* again and again.  The events of a frame come to an end (AppStep), but   *)
(* no frame has to come, and nobody has to wake up spuriously.             *)
Fairness ==
  /\ WF_allVars(SimStep) /\ SF_allVars(SimLock) /\ SF_allVars(SimRelock)
  /\ WF_allVars(AppStep) /\ SF_allVars(Pause) /\ SF_allVars(AppRelock)

Spec     == Init /\ [][Next]_allVars
FairSpec == Spec /\ Fairness

----------------------------------------------------------------------------
Holding == app \in {"owner", "resume"}

App == INSTANCE PinwheelApp
         WITH holder <- IF Holding THEN frame ELSE "none"

(* The two threads behave like one: updates and drawing fall between two   *)
(* steps of the simulation, and every step is one that was asked for, on   *)
(* the top snapshot.                                                       *)
ImplementsApp == App!AppSpec

(* While the application works on the simulation, the simulator thread     *)
(* neither reads nor writes it, not even the step counter that its tests   *)
(* and log messages look at, most of them without the mutex                *)
(* (sim_thread.cpp:46, 79-86, 102-112).                                    *)
NoDataRace ==
  Holding => sim \notin {"checkBusy", "wantWork", "woken", "enter", "loop", "step",
                        "stepping", "left"}

(* pause() always returns, whatever the simulator thread is doing          *)
(* (sim_thread.cpp:41-51).                                                 *)
PauseReturns == app = "pause" ~> app = "owner"

(* Because: from where a pause can find it, the simulator thread has a     *)
(* handful of steps of its own to the acknowledgement, one of them at most *)
(* a step of the simulation.                                               *)
StepsToAck(at) ==
  CASE at \in {"wantExit", "wantRun", "block", "asleep", "relock"} -> 0
    [] at = "ack" -> 1       [] at = "check" -> 2 [] at = "lock" -> 3
    [] at = "left" -> 4      [] at = "loopFlags" -> 5
    [] at = "loop" -> 6      [] at \in {"enter", "stepping"} -> 7
    [] at = "step" -> 8      [] OTHER -> 9

(* A pause is acknowledged after at most eight steps of the simulator      *)
(* thread, and the acknowledgement stands until the application resumes,   *)
(* although a thread out of work sets and clears the same flag             *)
(* (sim_thread.cpp:41-51, 75-107).                                         *)
PauseIsPrompt ==
  []["REQ_PAUSE" \in flags /\ "REQ_PAUSE" \in flags' =>
       IF "ACK_PAUSE" \in flags THEN "ACK_PAUSE" \in flags'
       ELSE sim' = sim \/ StepsToAck(sim') < StepsToAck(sim)]_allVars

(* The application does not sleep through it: while it sleeps, there is no *)
(* acknowledgement yet and the simulator thread is on the way to one       *)
(* (sim_thread.cpp:41-51, 75-78).                                          *)
PauseIsHeard ==
  app = "asleep" => "ACK_PAUSE" \notin flags /\ StepsToAck(sim) \in 1 .. 8

(* A simulator thread that halts goes on when it has work and is not       *)
(* paused, or has to exit: so resume() is heard and stop() returns         *)
(* (sim_thread.cpp:29-37, 55-61, 75-84).                                   *)
HaltEnds ==
  sim = "asleep" /\ ("REQ_EXIT" \in flags \/ ("REQ_PAUSE" \notin flags /\ busy))
    ~> sim # "asleep"

(* How flags, mutex and the places of the two threads belong together:     *)
(* pause() returns under the mutex with ACK_PAUSE set, so it finds the     *)
(* simulator thread in its wait, and as long as REQ_PAUSE is set the wait  *)
(* does not get as far as reading the step counter.                        *)
SimLocked == {"check", "checkBusy", "ack", "wantExit", "wantRun", "wantWork",
              "block", "unack", "woken", "exit"}

Handshake ==
  /\ mut = "sim" <=> sim \in SimLocked
  /\ mut = "app" <=> app \in {"acked", "block"}
  /\ "ACK_PAUSE" \in flags <=>
       sim \in {"wantExit", "wantRun", "wantWork", "block", "asleep", "relock", "unack"}
  /\ "REQ_PAUSE" \in flags <=>
       app \in {"acked", "block", "asleep", "relock", "owner", "resume"}
  /\ "REQ_EXIT" \in flags <=> app \in {"exiting", "join", "stopped"}
  /\ app = "start" <=> sim = "unborn"
  /\ Holding => sim \in {"asleep", "relock", "wantExit", "wantRun", "block"}
  /\ sim = "stepping" => top = Len(states)
=============================================================================
