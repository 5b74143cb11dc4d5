-------------------------- MODULE SimThreadProofs ---------------------------
(***************************************************************************)
(* The application and the simulator thread exclude each other, for every  *)
(* number of steps and snapshots.  TypeOK /\ Handshake is inductive.       *)
(***************************************************************************)
EXTENDS SimThread, SequenceTheorems, TLAPS

(* What the handlers do to the shared data keeps it well-formed.           *)
LEMMA StatesSeq ==
  ASSUME DataOK
  PROVE  /\ states \in Seq(0 .. TickCount - 1) /\ Len(states) \in Nat \ {0}
         /\ Len(states) \in 1 .. Len(states)
         /\ states[Len(states)] \in 0 .. TickCount - 1
<1> DEFINE S == 0 .. TickCount - 1
<1>1. states \in Seq(S) /\ states # <<>>
  BY DEF DataOK
<1> HIDE DEF S
<1>2. Len(states) \in Nat /\ Len(states) # 0
  BY <1>1, LenProperties, EmptySeq
<1>3. Len(states) \in 1 .. Len(states)
  BY <1>2
<1>4. states[Len(states)] \in S
  BY <1>1, <1>3, ElementOfSeq
<1> QED
  BY <1>1, <1>2, <1>3, <1>4 DEF S

LEMMA EventData ==
  ASSUME DataOK, Event PROVE DataOK'
<1> DEFINE S == 0 .. TickCount - 1
<1>1. /\ states \in Seq(S) /\ Len(states) \in Nat \ {0}
      /\ states[Len(states)] \in S
      /\ \A i \in 1 .. Len(states) : states[i] \in S
  BY StatesSeq, ElementOfSeq
<1> HIDE DEF S
<1>2. ASSUME StepKey PROVE DataOK'
  <2>1. states' = Append(states, states[Len(states)])
    BY <1>2 DEF StepKey, push
  <2>2. states' \in Seq(S) /\ states' # <<>>
    BY <1>1, <2>1, AppendProperties
  <2> QED
    BY <1>2, <2>2, SimAssumption DEF StepKey, DataOK, S
<1>3. ASSUME RunKey PROVE DataOK'
  BY <1>3 DEF RunKey, DataOK
<1>4. ASSUME FastKey PROVE DataOK'
  BY <1>4 DEF FastKey, DataOK
<1>5. ASSUME BackKey PROVE DataOK'
  <2>1. CASE Len(states) > 1
    <3>1. states' = SubSeq(states, 1, Len(states) - 1)
      BY <1>5, <2>1 DEF BackKey, pop
    <3>2. states' \in Seq(S) /\ Len(states') = Len(states) - 1
      <4>1. \A i \in 1 .. Len(states) - 1 : states[i] \in S
        BY <1>1
      <4>2. Len(states) - 1 \in Int /\ 1 <= Len(states) - 1
        BY <1>1, <2>1
      <4> QED
        BY <3>1, <4>1, <4>2, SubSeqProperties
    <3>3. states' # <<>>
      BY <1>1, <2>1, <3>2, EmptySeq
    <3> QED
      BY <1>5, <3>2, <3>3 DEF BackKey, DataOK, S
  <2>2. CASE ~(Len(states) > 1)
    BY <1>5, <2>2 DEF BackKey, pop, DataOK
  <2> QED
    BY <2>1, <2>2
<1> QED
  BY <1>2, <1>3, <1>4, <1>5 DEF Event

LEMMA ScheduleData ==
  ASSUME DataOK, Schedule PROVE DataOK'
  BY SimAssumption DEF Schedule, DataOK

LEMMA TickData ==
  ASSUME DataOK, Tick(Len(states)) PROVE DataOK'
<1> DEFINE S == 0 .. TickCount - 1
           n == Len(states)
           next == [states EXCEPT ![n] = (@ + 1) % TickCount]
<1>1. states \in Seq(S) /\ n \in 1 .. n /\ states[n] \in S /\ n # 0
  BY StatesSeq
<1>2. (states[n] + 1) % TickCount \in S
  BY <1>1, SimAssumption
<1> HIDE DEF S, n
<1>3. next \in Seq(S) /\ Len(next) = n
  BY <1>1, <1>2, ExceptSeq DEF n
<1>4. next # <<>>
  BY <1>1, <1>3, EmptySeq
<1>5. states' \in Seq(S) /\ states' # <<>>
  BY <1>3, <1>4 DEF Tick, DataOK, S, n
<1> QED
  BY <1>5 DEF Tick, DataOK, busy, S

----------------------------------------------------------------------------
LEMMA HandshakeInit == Init => TypeOK /\ Handshake
<1> SUFFICES ASSUME Init PROVE TypeOK /\ Handshake
  OBVIOUS
<1>1. states = <<0>> /\ 0 \in 0 .. TickCount - 1
  BY SimAssumption DEF Init, DataInit
<1>2. states \in Seq(0 .. TickCount - 1) /\ states # <<>>
  BY <1>1
<1>3. {steps, manual} \subseteq Nat
  BY DEF Init, DataInit
<1>4. {running, fastmode} \subseteq BOOLEAN
  BY Zenon DEF Init, DataInit
<1>5. DataOK
  BY <1>2, <1>3, <1>4 DEF DataOK
<1> QED
  BY <1>5 DEF Init, TypeOK, Handshake, AppAt, SimAt, Flag, SimLocked, Holding

LEMMA SimPreserves ==
  ASSUME TypeOK, Handshake, SimNext PROVE TypeOK' /\ Handshake'
<1> USE DEF TypeOK, Handshake, AppAt, SimAt, Flag, SimLocked, Holding, SimGo, SimStill,
            dataVars, Awake
<1>1. ASSUME UNCHANGED dataVars PROVE DataOK'
  BY <1>1 DEF DataOK
<1>2. CASE SimLock
  BY <1>1, <1>2 DEF SimLock, SimAcquire
<1>3. CASE SimRelock
  BY <1>1, <1>3 DEF SimRelock, SimAcquire
<1>4. CASE SimSpurious
  BY <1>1, <1>4 DEF SimSpurious
<1>5. CASE Check
  BY <1>1, <1>5 DEF Check
<1>6. CASE CheckBusy
  BY <1>1, <1>6 DEF CheckBusy
<1>7. CASE Ack
  BY <1>1, <1>7 DEF Ack
<1>8. CASE WantExit
  BY <1>1, <1>8 DEF WantExit
<1>9. CASE WantRun
  BY <1>1, <1>9 DEF WantRun
<1>10. CASE WantWork
  BY <1>1, <1>10 DEF WantWork
<1>11. CASE SimBlock
  BY <1>1, <1>11 DEF SimBlock
<1>12. CASE Unack
  BY <1>1, <1>12 DEF Unack
<1>13. CASE Exit
  BY <1>1, <1>13 DEF Exit
<1>14. CASE Loop
  BY <1>1, <1>14 DEF Loop
<1>15. CASE LoopFlags
  BY <1>1, <1>15 DEF LoopFlags
<1>16. CASE BeginStep
  <2>1. Len(states) \in Nat
    BY DEF DataOK
  <2> QED
    BY <1>1, <1>16, <2>1 DEF BeginStep
<1>17. CASE EndStep
  <2>1. DataOK'
    BY <1>17, TickData DEF EndStep
  <2> QED
    BY <1>17, <2>1 DEF EndStep
<1>18. CASE Woken
  BY <1>1, <1>18 DEF Woken
<1>19. CASE Enter
  BY <1>1, <1>19 DEF Enter
<1>20. CASE Left
  BY <1>1, <1>20 DEF Left
<1> QED
  BY <1>2, <1>3, <1>4, <1>5, <1>6, <1>7, <1>8, <1>9, <1>10, <1>11, <1>12, <1>13, <1>14,
     <1>15, <1>16, <1>17, <1>18, <1>19, <1>20 DEF SimNext, SimStep

LEMMA AppPreserves ==
  ASSUME TypeOK, Handshake, AppNext PROVE TypeOK' /\ Handshake'
<1> USE DEF TypeOK, Handshake, AppAt, SimAt, Flag, SimLocked, Holding, AppGo, AppStill,
            dataVars, threadVars, Awake
<1>1. ASSUME UNCHANGED dataVars PROVE DataOK'
  BY <1>1 DEF DataOK
<1>2. CASE Frame
  BY <1>1, <1>2 DEF Frame
<1>3. CASE Pause
  BY <1>1, <1>3 DEF Pause
<1>4. CASE AppRelock
  BY <1>1, <1>4 DEF AppRelock
<1>5. CASE AppSpurious
  BY <1>1, <1>5 DEF AppSpurious
<1>6. CASE AppEvent
  <2>1. DataOK'
    BY <1>6, EventData DEF AppEvent
  <2> QED
    BY <1>6, <2>1 DEF AppEvent
<1>7. CASE Stop
  BY <1>1, <1>7 DEF Stop
<1>8. CASE Start
  BY <1>1, <1>8 DEF Start
<1>9. CASE Acked
  BY <1>1, <1>9 DEF Acked
<1>10. CASE AppBlock
  BY <1>1, <1>10 DEF AppBlock
<1>11. CASE FinishUpdate
  <2>1. DataOK'
    BY <1>11, ScheduleData DEF FinishUpdate
  <2> QED
    BY <1>11, <2>1 DEF FinishUpdate
<1>12. CASE FinishRender
  BY <1>1, <1>12 DEF FinishRender
<1>13. CASE Resume
  BY <1>1, <1>13 DEF Resume
<1>14. CASE NotifyResume
  BY <1>1, <1>14 DEF NotifyResume
<1>15. CASE NotifyStop
  BY <1>1, <1>15 DEF NotifyStop
<1>16. CASE Join
  BY <1>1, <1>16 DEF Join
<1> QED
  BY <1>2, <1>3, <1>4, <1>5, <1>6, <1>7, <1>8, <1>9, <1>10, <1>11, <1>12, <1>13, <1>14,
     <1>15, <1>16 DEF AppNext, AppStep

LEMMA Stutter ==
  ASSUME TypeOK, Handshake, UNCHANGED allVars PROVE TypeOK' /\ Handshake'
  BY DEF TypeOK, DataOK, Handshake, Holding, allVars, dataVars, threadVars

(* The handshake of flags and mutex holds at every step of both threads    *)
(* (sim_thread.cpp:41-122).                                                *)
THEOREM HandshakeHolds == Spec => [](TypeOK /\ Handshake)
<1>1. TypeOK /\ Handshake /\ [Next]_allVars => TypeOK' /\ Handshake'
  BY SimPreserves, AppPreserves, Stutter DEF Next
<1> QED
  BY <1>1, HandshakeInit, PTL DEF Spec

(* Flags, mutex and positions of the threads are what they are meant to    *)
(* be, and a snapshot to go back to is always there (pinwheel_app:156).    *)
THEOREM TypeCorrect == Spec => []TypeOK
  BY HandshakeHolds, PTL

(* The simulator thread keeps its hands off the shared data between        *)
(* pause() and resume() (sim_thread.cpp:46, 79-84, 102-107).               *)
THEOREM NoDataRaceHolds == Spec => []NoDataRace
<1>1. Handshake => NoDataRace
  BY DEF Handshake, NoDataRace
<1> QED
  BY <1>1, HandshakeHolds, PTL

----------------------------------------------------------------------------
(* A pause finds the simulator thread without the mutex, so it is neither  *)
(* between the two tests of its loop nor about to leave its wait; and only *)
(* who has the mutex goes to sleep, so nothing was acknowledged before.    *)
PauseInv ==
  /\ "REQ_PAUSE" \in flags => StepsToAck(sim) \in 0 .. 8
  /\ app \in {"block", "asleep"} => "ACK_PAUSE" \notin flags
  /\ sim = "done" => "REQ_EXIT" \in flags

LEMMA PauseSim ==
  ASSUME TypeOK, Handshake, PauseInv, SimNext
  PROVE  /\ PauseInv'
         /\ "REQ_PAUSE" \in flags =>
              IF "ACK_PAUSE" \in flags THEN "ACK_PAUSE" \in flags'
              ELSE StepsToAck(sim') < StepsToAck(sim)
<1> USE DEF TypeOK, Handshake, PauseInv, AppAt, SimAt, Flag, SimLocked, SimGo, SimStill,
            Awake, StepsToAck
<1>1. CASE SimLock \/ SimRelock
  BY <1>1 DEF SimLock, SimRelock, SimAcquire
<1>2. CASE SimSpurious
  BY <1>2 DEF SimSpurious
<1>3. CASE Check
  BY <1>3 DEF Check
<1>4. CASE CheckBusy
  BY <1>4 DEF CheckBusy
<1>5. CASE Ack
  BY <1>5 DEF Ack
<1>6. CASE WantExit
  BY <1>6 DEF WantExit
<1>7. CASE WantRun
  BY <1>7 DEF WantRun
<1>8. CASE WantWork
  BY <1>8 DEF WantWork
<1>9. CASE SimBlock
  BY <1>9 DEF SimBlock
<1>10. CASE Unack
  BY <1>10 DEF Unack
<1>11. CASE Exit
  BY <1>11 DEF Exit
<1>12. CASE Loop
  BY <1>12 DEF Loop
<1>13. CASE LoopFlags
  BY <1>13 DEF LoopFlags
<1>14. CASE BeginStep
  BY <1>14 DEF BeginStep
<1>15. CASE EndStep
  BY <1>15 DEF EndStep
<1>16. CASE Woken
  BY <1>16 DEF Woken
<1>17. CASE Enter
  BY <1>17 DEF Enter
<1>18. CASE Left
  BY <1>18 DEF Left
<1> QED
  BY <1>1, <1>2, <1>3, <1>4, <1>5, <1>6, <1>7, <1>8, <1>9, <1>10, <1>11, <1>12, <1>13, <1>14,
     <1>15, <1>16, <1>17, <1>18 DEF SimNext, SimStep

LEMMA PauseApp ==
  ASSUME TypeOK, Handshake, PauseInv, AppNext
  PROVE  /\ PauseInv'
         /\ "REQ_PAUSE" \in flags /\ "REQ_PAUSE" \in flags' =>
              /\ "ACK_PAUSE" \in flags => "ACK_PAUSE" \in flags'
              /\ "ACK_PAUSE" \notin flags => sim' = sim
<1> USE DEF TypeOK, Handshake, PauseInv, AppAt, SimAt, Flag, SimLocked, AppGo, AppStill,
            threadVars, Awake, StepsToAck
<1>1. CASE Frame
  BY <1>1 DEF Frame
<1>2. CASE Pause
  BY <1>2 DEF Pause
<1>3. CASE AppRelock
  BY <1>3 DEF AppRelock
<1>4. CASE AppSpurious
  BY <1>4 DEF AppSpurious
<1>5. CASE AppEvent
  BY <1>5 DEF AppEvent
<1>6. CASE Stop
  BY <1>6 DEF Stop
<1>7. CASE Start
  BY <1>7 DEF Start
<1>8. CASE Acked
  BY <1>8 DEF Acked
<1>9. CASE AppBlock
  BY <1>9 DEF AppBlock
<1>10. CASE FinishUpdate
  BY <1>10 DEF FinishUpdate
<1>11. CASE FinishRender
  BY <1>11 DEF FinishRender
<1>12. CASE Resume
  BY <1>12 DEF Resume
<1>13. CASE NotifyResume
  BY <1>13 DEF NotifyResume
<1>14. CASE NotifyStop
  BY <1>14 DEF NotifyStop
<1>15. CASE Join
  BY <1>15 DEF Join
<1> QED
  BY <1>1, <1>2, <1>3, <1>4, <1>5, <1>6, <1>7, <1>8, <1>9, <1>10, <1>11, <1>12, <1>13, <1>14, <1>15 DEF AppNext, AppStep

LEMMA PauseStep ==
  TypeOK /\ Handshake /\ PauseInv /\ [Next]_allVars =>
    /\ PauseInv'
    /\ ["REQ_PAUSE" \in flags /\ "REQ_PAUSE" \in flags' =>
          IF "ACK_PAUSE" \in flags THEN "ACK_PAUSE" \in flags'
          ELSE sim' = sim \/ StepsToAck(sim') < StepsToAck(sim)]_allVars
<1>1. UNCHANGED allVars /\ PauseInv => PauseInv'
  BY DEF allVars, threadVars, PauseInv
<1> QED
  BY <1>1, PauseSim, PauseApp DEF Next

LEMMA PauseStart == Init => PauseInv
  BY DEF Init, PauseInv

LEMMA PauseAlways == Spec => []PauseInv
  BY PauseStart, PauseStep, HandshakeHolds, PTL DEF Spec

(* The application sleeps only while its acknowledgement is still to come  *)
(* (sim_thread.cpp:41-51).                                                 *)
THEOREM PauseIsAlwaysHeard == Spec => []PauseIsHeard
<1>1. Handshake /\ PauseInv /\ TypeOK => PauseIsHeard
  BY DEF Handshake, PauseInv, PauseIsHeard, StepsToAck, TypeOK, SimAt
<1> QED
  BY <1>1, HandshakeHolds, PauseAlways, PTL

(* It comes within eight steps of the simulator thread, and stays          *)
(* (sim_thread.cpp:75-107).                                                *)
THEOREM PauseIsAlwaysPrompt == Spec => PauseIsPrompt
  BY PauseStep, HandshakeHolds, PauseAlways, PTL DEF Spec, PauseIsPrompt

----------------------------------------------------------------------------
(* Every step of the two threads is a step of PinwheelApp or a stutter.    *)
LEMMA AppStart == Init => App!AppInit
  BY DEF Init, App!AppInit, App!DataInit, DataInit, Holding

LEMMA SameEvent == Event => App!Event
<1>1. StepKey => App!StepKey
  BY DEF StepKey, App!StepKey, push, App!push
<1>2. RunKey => App!RunKey
  BY DEF RunKey, App!RunKey
<1>3. FastKey => App!FastKey
  BY DEF FastKey, App!FastKey
<1>4. BackKey => App!BackKey
  BY DEF BackKey, App!BackKey, pop, App!pop
<1> QED
  BY <1>1, <1>2, <1>3, <1>4 DEF Event, App!Event

LEMMA SimRefines ==
  ASSUME TypeOK, Handshake, SimNext PROVE [App!AppNext]_App!appVars
<1> DEFINE held == IF Holding THEN frame ELSE "none"
<1>1. ASSUME sim # "stepping" PROVE UNCHANGED <<dataVars, held>>
  BY <1>1 DEF SimNext, SimStep, SimLock, SimRelock, SimAcquire, SimSpurious, Check, CheckBusy,
       Ack, WantExit, WantRun, WantWork, SimBlock, Unack, Exit, Loop, LoopFlags, Woken, Enter,
       Left, BeginStep, EndStep, SimGo, SimStill, Awake, Holding
<1>2. ASSUME sim = "stepping" PROVE App!Step \/ UNCHANGED <<dataVars, held>>
  <2>1. EndStep
    BY <1>2 DEF SimNext, SimStep, SimLock, SimRelock, SimAcquire, SimSpurious, Check, CheckBusy,
         Ack, WantExit, WantRun, WantWork, SimBlock, Unack, Exit, Loop, LoopFlags, Woken, Enter, Left,
         BeginStep, SimGo
  <2>2. ~Holding /\ ~Holding' /\ top = Len(states)
    BY <1>2, <2>1 DEF Handshake, EndStep, Holding
  <2>3. Tick(Len(states))
    BY <2>1, <2>2 DEF EndStep
  <2>4. CASE busy
    BY <2>2, <2>3, <2>4 DEF App!Step, App!Tick, Tick, App!busy, busy
  <2>5. CASE ~busy
    BY <2>2, <2>3, <2>5 DEF Tick, dataVars
  <2> QED
    BY <2>4, <2>5
<1> QED
  BY <1>1, <1>2 DEF App!AppNext, App!appVars, App!dataVars, dataVars

LEMMA AppRefines ==
  ASSUME TypeOK, Handshake, AppNext PROVE [App!AppNext]_App!appVars
<1> DEFINE held == IF Holding THEN frame ELSE "none"
<1>1. frame \in {"update", "render"}
  BY DEF TypeOK
<1>2. CASE Acked /\ "ACK_PAUSE" \in flags
  <2>1. App!Hold
    BY <1>1, <1>2 DEF Acked, AppGo, App!Hold, Holding, dataVars, App!dataVars
  <2> QED
    BY <2>1 DEF App!AppNext
<1>3. CASE AppEvent
  <2>1. App!Handle
    BY <1>3, SameEvent DEF AppEvent, App!Handle, Holding, threadVars
  <2> QED
    BY <2>1 DEF App!AppNext
<1>4. CASE FinishUpdate
  <2>1. App!Finish
    BY <1>4 DEF FinishUpdate, AppGo, App!Finish, App!Schedule, Schedule, Holding
  <2> QED
    BY <2>1 DEF App!AppNext
<1>5. CASE Resume
  <2>1. App!Release
    BY <1>1, <1>5 DEF Resume, AppGo, App!Release, Holding, dataVars, App!dataVars
  <2> QED
    BY <2>1 DEF App!AppNext
<1>6. CASE ~AppEvent /\ ~FinishUpdate /\ ~Resume /\ ~(Acked /\ "ACK_PAUSE" \in flags)
  <2>1. UNCHANGED <<dataVars, held>>
    BY <1>6 DEF AppNext, AppStep, Frame, Pause, AppRelock, AppSpurious, Stop, Start, Acked,
         AppBlock, FinishRender, NotifyResume, NotifyStop, Join, AppGo, AppStill, Holding
  <2> QED
    BY <2>1 DEF App!appVars, App!dataVars, dataVars
<1> QED
  BY <1>2, <1>3, <1>4, <1>5, <1>6

(* Two threads behave like one: the updates and the drawing of frames fall *)
(* between two steps of the simulation, on its top snapshot                *)
(* (sim_thread.cpp:41-122, pinwheel_app.cpp:112-185).                      *)
THEOREM AppImplemented == Spec => ImplementsApp
<1>1. TypeOK /\ Handshake /\ [Next]_allVars => [App!AppNext]_App!appVars
  <2>1. UNCHANGED allVars => UNCHANGED App!appVars
    BY DEF allVars, dataVars, threadVars, App!appVars, App!dataVars, Holding
  <2> QED
    BY <2>1, SimRefines, AppRefines DEF Next
<1> QED
  BY <1>1, AppStart, HandshakeHolds, PTL DEF Spec, ImplementsApp, App!AppSpec
=============================================================================
