------------------------ MODULE StreamSession_proofs -------------------------
(***************************************************************************)
(* Proofs about StreamSession, for every backoff, queue and number of      *)
(* signals, and for adapters with and without a stream.                    *)
(***************************************************************************)
EXTENDS StreamSession, TLAPS

(***************************************************************************)
(* Why a second trading loop is never started: the main task leaves "join" *)
(* only when the loop is over, and passes it whenever the loop is not.     *)
(***************************************************************************)
LEMMA OneLoopInit == Init => OneLoop
  BY DEF Init, OneLoop, LoopAlive

LEMMA OneLoopStep == OneLoop /\ [Next]_vars => OneLoop'
<1> SUFFICES ASSUME OneLoop, [Next]_vars PROVE OneLoop'
  OBVIOUS
<1> USE DEF OneLoop, LoopAlive
<1>1. ASSUME NEW ok \in BOOLEAN, Setup(ok) PROVE OneLoop'
  BY <1>1 DEF Setup
<1>2. CASE SetupRaises
  BY <1>2 DEF SetupRaises, loopVars
<1>3. CASE StreamCancelled
  BY <1>3 DEF StreamCancelled, LeaveStream
<1>4. CASE Join
  BY <1>4 DEF Join, loopVars
<1>5. CASE StopStreaming
  BY <1>5 DEF StopStreaming, loopVars
<1>6. ASSUME NEW jitter \in {0, 1}, BackoffOver(jitter) PROVE OneLoop'
  BY <1>6 DEF BackoffOver, loopVars
<1>7. CASE BackoffCancelled
  BY <1>7 DEF BackoffCancelled, loopVars
<1>8. CASE Loop
  <2>1. UNCHANGED main
    BY <1>8 DEF Loop, LoopStart, LoopGet, LoopProcess, LoopWake, LoopCancelled,
                mainVars
  <2>2. LoopAlive
    BY <1>8 DEF Loop, LoopStart, LoopGet, LoopProcess, LoopWake, LoopCancelled
  <2> QED
    BY <2>1, <2>2
<1>9. CASE ConnectionLost
  BY <1>9 DEF ConnectionLost, LeaveStream
<1>10. CASE Item \/ AutoCancel \/ BrokerEnds
  BY <1>10 DEF Item, AutoCancel, BrokerEnds, mainVars, loopVars
<1>11. CASE Signal
  BY <1>11 DEF Signal
<1>12. CASE UNCHANGED vars
  BY <1>12 DEF vars
<1> QED
  BY <1>1, <1>2, <1>3, <1>4, <1>5, <1>6, <1>7, <1>8, <1>9, <1>10, <1>11, <1>12
  DEF Next, Main

\* Two trading loops never share one TradingState, and none goes on trading
\* after the session ended: whatever is cancelled, lost or failing.
THEOREM NeverTwoLoops == Spec => []OneLoop
  BY OneLoopInit, OneLoopStep, PTL DEF Spec

-----------------------------------------------------------------------------

LEMMA SessionTypeStep == TypeOK /\ [Next]_vars => TypeOK'
<1> SUFFICES ASSUME TypeOK, [Next]_vars PROVE TypeOK'
  OBVIOUS
<1> USE DEF TypeOK
<1>1. ASSUME NEW ok \in BOOLEAN, Setup(ok) PROVE TypeOK'
  BY <1>1 DEF Setup, orderVars, session
<1>2. CASE SetupRaises
  BY <1>2 DEF SetupRaises, loopVars, orderVars, session
<1>3. CASE StreamCancelled
  BY <1>3, ZenonT(40)
  DEF StreamCancelled, LeaveStream, orderVars, session
<1>4. CASE Join
  BY <1>4 DEF Join, loopVars, orderVars, session
<1>5. CASE StopStreaming
  BY <1>5, ZenonT(40) DEF StopStreaming, loopVars, orderVars, session
<1>6. ASSUME NEW jitter \in {0, 1}, BackoffOver(jitter) PROVE TypeOK'
  <2>1. Smaller(MaxDelay, 2 * delay) \in InitialDelay..MaxDelay
    BY SessionAssumption DEF Smaller
  <2>2. delay' \in InitialDelay .. MaxDelay + 1
    BY <1>6, <2>1, SessionAssumption DEF BackoffOver, NextDelay
  <2>3. main' \in {"setup", "ended"}
    BY <1>6 DEF BackoffOver, AfterBackoff
  <2>4. UNCHANGED <<unwinding, mainCancel, stopRequested, loopTask, loopCancel,
                    lost, queue, order, cancelTask, streams, testMode,
                    signals>>
    BY <1>6 DEF BackoffOver, loopVars, orderVars, session
  <2> QED
    BY <2>2, <2>3, <2>4
<1>7. CASE BackoffCancelled
  BY <1>7, ZenonT(40)
  DEF BackoffCancelled, loopVars, orderVars, session
<1>8. CASE LoopStart \/ LoopWake \/ LoopCancelled
  BY <1>8, ZenonT(40)
  DEF LoopStart, LoopWake, LoopCancelled, mainVars, orderVars, session
<1>9. CASE LoopGet
  <2>1. queue' \in 0..MaxQueue
    BY <1>9, SessionAssumption DEF LoopGet
  <2>2. /\ loopTask' = "got"
        /\ UNCHANGED <<mainVars, loopCancel, lost, orderVars, session>>
    BY <1>9 DEF LoopGet
  <2> QED
    BY <2>1, <2>2 DEF mainVars, orderVars, session
<1>10. ASSUME NEW outcome \in Outcomes, LoopProcess(outcome) PROVE TypeOK'
  BY <1>10, ZenonT(40)
  DEF LoopProcess, LeftOfCancel, mainVars, orderVars, session
<1>11. CASE ConnectionLost
  BY <1>11, ZenonT(40)
  DEF ConnectionLost, LeaveStream, orderVars, session
<1>12. CASE Item
  <2>1. queue' \in 0..MaxQueue
    BY <1>12, SessionAssumption DEF Item
  <2>2. UNCHANGED <<mainVars, loopVars, orderVars, session>>
    BY <1>12 DEF Item
  <2> QED
    BY <2>1, <2>2 DEF mainVars, loopVars, orderVars, session
<1>13. CASE AutoCancel \/ BrokerEnds
  <2>1. order' \in {order, "closed"} /\ cancelTask' \in BOOLEAN
    BY <1>13 DEF AutoCancel, BrokerEnds
  <2>2. UNCHANGED <<mainVars, loopVars, queue, session>>
    BY <1>13 DEF AutoCancel, BrokerEnds
  <2> QED
    BY <2>1, <2>2 DEF mainVars, loopVars, session
<1>14. CASE Signal
  <2>1. signals' \in 0..MaxSignals
    BY <1>14, SessionAssumption DEF Signal
  <2>2. /\ mainCancel' \in BOOLEAN /\ loopCancel' \in BOOLEAN
        /\ cancelTask' \in BOOLEAN
    <3>1. /\ mainCancel' = (main # "join")
          /\ loopCancel' = (loopTask \notin {"none", "done"})
          /\ cancelTask' = FALSE
      BY <1>14 DEF Signal, LoopAlive
    <3> QED
      BY <3>1
  <2>3. UNCHANGED <<streams, testMode, main, unwinding, stopRequested, delay,
                    loopTask, lost, queue, order>>
    BY <1>14 DEF Signal
  <2> QED
    BY <2>1, <2>2, <2>3
<1>15. CASE UNCHANGED vars
  BY <1>15 DEF vars
<1> QED
  BY <1>1, <1>2, <1>3, <1>4, <1>5, <1>6, <1>7, <1>8, <1>9, <1>10, <1>11, <1>12,
     <1>13, <1>14, <1>15
  DEF Next, Main, Loop

\* The types of StreamSession's variables; among them, the backoff never
\* falls below its first value nor exceeds max_delay by more than the jitter.
THEOREM SessionTypeCorrect == Spec => []TypeOK
<1>1. ASSUME Init PROVE TypeOK
  <2>1. delay \in InitialDelay .. MaxDelay + 1 /\ queue \in 0..MaxQueue
        /\ signals \in 0..MaxSignals
    BY <1>1, SessionAssumption DEF Init
  <2>2. streams \in BOOLEAN /\ testMode \in BOOLEAN
    BY <1>1, SessionAssumption DEF Init
  <2> QED
    BY <1>1, <2>1, <2>2 DEF Init, TypeOK
<1> QED
  BY <1>1, SessionTypeStep, PTL DEF Spec

-----------------------------------------------------------------------------
(***************************************************************************)
(* Where a cancellation is.  The main task has one pending only where it   *)
(* will receive it, and once it unwinds it does not come back to "setup".  *)
(***************************************************************************)
SignalInv ==
  /\ mainCancel => main \in {"streaming", "stopws", "backoff"}
  /\ unwinding => main \in {"join", "stopws", "backoff", "ended"}

\* The loop's tasks do not touch the main task.
LEMMA LoopLeavesMain ==
  ASSUME Loop \/ Item \/ AutoCancel \/ BrokerEnds \/ UNCHANGED vars
  PROVE  UNCHANGED <<main, unwinding, mainCancel>>
<1>1. CASE Loop
  BY <1>1 DEF Loop, LoopStart, LoopGet, LoopProcess, LoopWake, LoopCancelled,
              mainVars
<1>2. CASE Item \/ AutoCancel \/ BrokerEnds
  BY <1>2 DEF Item, AutoCancel, BrokerEnds, mainVars
<1>3. CASE UNCHANGED vars
  BY <1>3 DEF vars
<1> QED
  BY <1>1, <1>2, <1>3

LEMMA SignalStep ==
  ASSUME SignalInv, [Next]_vars
  PROVE  SignalInv' /\ (mainCancel \/ unwinding => main' # "setup")
<1> DEFINE Good == SignalInv' /\ (mainCancel \/ unwinding => main' # "setup")
<1> USE DEF SignalInv
<1>1. ASSUME NEW ok \in BOOLEAN, Setup(ok) PROVE Good
  BY <1>1 DEF Setup
<1>2. ASSUME SetupRaises PROVE Good
  BY <1>2 DEF SetupRaises
<1>3. ASSUME StreamCancelled PROVE Good
  BY <1>3 DEF StreamCancelled, LeaveStream
<1>4. ASSUME Join PROVE Good
  BY <1>4 DEF Join
<1>5. ASSUME StopStreaming PROVE Good
  BY <1>5 DEF StopStreaming
<1>6. ASSUME NEW jitter \in {0, 1}, BackoffOver(jitter) PROVE Good
  BY <1>6 DEF BackoffOver, AfterBackoff
<1>7. ASSUME BackoffCancelled PROVE Good
  BY <1>7 DEF BackoffCancelled
<1>8. ASSUME ConnectionLost PROVE Good
  BY <1>8 DEF ConnectionLost, LeaveStream
<1>9. ASSUME Signal PROVE Good
  BY <1>9 DEF Signal
<1>10. ASSUME Loop \/ Item \/ AutoCancel \/ BrokerEnds \/ UNCHANGED vars
       PROVE  Good
  BY <1>10, LoopLeavesMain
<1>11. Good
  <2> HIDE DEF Good
  <2> QED
    BY <1>1, <1>2, <1>3, <1>4, <1>5, <1>6, <1>7, <1>8, <1>9, <1>10
    DEF Next, Main
<1> QED
  BY <1>11

\* A signal that reached the main task is the end of reconnecting.
THEOREM SignalsAreFinal == Spec => NoAttemptAfterSignal
<1>1. Init => SignalInv
  BY DEF Init, SignalInv
<1>2. SignalInv /\ [Next]_vars => SignalInv'
  BY SignalStep
<1>3. SignalInv /\ [Next]_vars
        => [mainCancel \/ unwinding => main' # "setup"]_vars
  BY SignalStep
<1> QED
  BY <1>1, <1>2, <1>3, PTL DEF Spec, NoAttemptAfterSignal

\* What the main task waits for is a loop, and one that is told to stop.
JoinInv ==
  main = "join" =>
    /\ loopTask # "none"
    /\ loopTask = "done" \/ loopCancel \/ lost

LEMMA JoinStep == JoinInv /\ [Next]_vars => JoinInv'
<1> SUFFICES ASSUME JoinInv, [Next]_vars PROVE JoinInv'
  OBVIOUS
<1> USE DEF JoinInv
<1>1. ASSUME NEW ok \in BOOLEAN, Setup(ok) PROVE JoinInv'
  BY <1>1 DEF Setup
<1>2. CASE StreamCancelled \/ ConnectionLost
  BY <1>2 DEF StreamCancelled, ConnectionLost, LeaveStream, LoopAlive
<1>3. CASE SetupRaises \/ Join \/ StopStreaming \/ BackoffCancelled
  BY <1>3 DEF SetupRaises, Join, StopStreaming, BackoffCancelled
<1>4. ASSUME NEW jitter \in {0, 1}, BackoffOver(jitter)
      PROVE  JoinInv'
  BY <1>4 DEF BackoffOver, AfterBackoff
<1>5. CASE LoopStart \/ LoopGet \/ LoopWake \/ LoopCancelled
  BY <1>5 DEF LoopStart, LoopGet, LoopWake, LoopCancelled, mainVars
<1>6. ASSUME NEW outcome \in Outcomes, LoopProcess(outcome)
      PROVE  JoinInv'
  <2>1. /\ loopTask = "got" /\ UNCHANGED main
        /\ loopTask' # "none" /\ lost' = (lost \/ loopCancel)
    BY <1>6 DEF LoopProcess, LeftOfCancel, mainVars
  <2> QED
    BY <2>1
<1>7. CASE Item \/ AutoCancel \/ BrokerEnds
  BY <1>7 DEF Item, AutoCancel, BrokerEnds, mainVars, loopVars
<1>8. CASE Signal
  BY <1>8 DEF Signal, LoopAlive
<1>9. CASE UNCHANGED vars
  BY <1>9 DEF vars
<1> QED
  BY <1>1, <1>2, <1>3, <1>4, <1>5, <1>6, <1>7, <1>8, <1>9 DEF Next, Main, Loop

\* The main task never waits for a trading loop nobody has told to stop.
THEOREM WaitsAreAnswered == Spec => []JoinedIsCancelled
<1>1. Init => JoinInv
  BY DEF Init, JoinInv
<1>2. JoinInv => JoinedIsCancelled
  BY DEF JoinInv, JoinedIsCancelled
<1> QED
  BY <1>1, <1>2, JoinStep, PTL DEF Spec
==============================================================================
