---------------------------- MODULE StreamSession ----------------------------
(***************************************************************************)
(* One live session as a set of asyncio tasks: run_trading_session and     *)
(* _run_stream_with_reconnect (the main task), trading_loop, the           *)
(* auto-cancel task of an order, and _shutdown, which a signal starts.     *)
(* What is modelled is who waits for whom and where a cancellation goes:   *)
(*                                                                         *)
(*   - cancel() of a task that waits on another task cancels the other     *)
(*     one, and the main task ignores the CancelledError it then gets;     *)
(*   - asyncio.wait_for, in the Python this project is tied to, returns    *)
(*     an item that has arrived and forgets a cancellation that came       *)
(*     after it (lines "got" below);                                       *)
(*   - CancelledError is not an Exception, so run_trading_session's        *)
(*     handler, the only caller of stop_trading, does not see it.          *)
(*                                                                         *)
(* What the trading loop does with an item is the subject of LiveTrading;  *)
(* here it may place an order, whose auto-cancel task it then starts.      *)
(***************************************************************************)
EXTENDS Integers

CONSTANTS
  InitialDelay, MaxDelay, \* backoff of _run_stream_with_reconnect, in
                          \* seconds; the jitter is sampled at 0 and 1
  Adapters,     \* whether the broker adapter has the stream methods
  TestModes,    \* values of no_fill_test_mode.enabled to consider
  MaxQueue,     \* bound: items in data_queue
  MaxSignals    \* bound: SIGINTs and SIGTERMs

ASSUME SessionAssumption ==
  /\ InitialDelay \in Nat \ {0}
  /\ MaxDelay \in Nat /\ MaxDelay >= InitialDelay
  /\ Adapters \subseteq BOOLEAN
  /\ TestModes \subseteq BOOLEAN
  /\ MaxQueue \in Nat
  /\ MaxSignals \in Nat

VARIABLES
  streams,       \* whether the adapter of this session streams
  testMode,      \* no_fill_test_mode.enabled
  main,          \* where the main task is
  unwinding,     \* it is inside "finally" because of a CancelledError
  mainCancel,    \* a cancellation it has not received yet
  stopRequested, \* _stop_requested
  delay,         \* seconds to the next attempt
  loopTask,      \* trading_loop's task
  loopCancel,    \* a cancellation it has not received yet
  queue,         \* items in data_queue
  order,         \* the order of the session: "none", "open", "closed"
  cancelTask,    \* whether its _auto_cancel_test_order task is asleep
  signals,       \* signals received so far
  lost           \* observation: the loop has forgotten a cancellation

vars == <<streams, testMode, main, unwinding, mainCancel, stopRequested, delay,
          loopTask, loopCancel, queue, order, cancelTask, signals, lost>>

session == <<streams, testMode, signals>>
mainVars == <<main, unwinding, mainCancel, stopRequested, delay>>
loopVars == <<loopTask, loopCancel, lost>>
orderVars == <<order, cancelTask>>

LoopAlive == loopTask \notin {"none", "done"}

Init ==
  /\ streams \in Adapters
  /\ testMode \in TestModes
  /\ main = "setup"
  /\ unwinding = FALSE
  /\ mainCancel = FALSE
  /\ stopRequested = FALSE
  /\ delay = InitialDelay
  /\ loopTask = "none"
  /\ loopCancel = FALSE
  /\ queue = 0
  /\ order = "none"
  /\ cancelTask = FALSE
  /\ signals = 0
  /\ lost = FALSE

-----------------------------------------------------------------------------
(* The main task. *)

\* A "finally" that waits for the loop without cancelling it.
LeaveUncancelled ==
  /\ main' = IF LoopAlive THEN "join" ELSE "stopws"
  /\ UNCHANGED loopCancel

\* A "finally" that does not wait for the loop it cancels.
LeaveUnjoined == main' = "stopws" /\ loopCancel' = LoopAlive

\* "finally": cancel the trading loop, and wait for it if it was running.
LeaveStream ==
  IF LoopAlive THEN main' = "join" /\ loopCancel' = TRUE
               ELSE main' = "stopws" /\ UNCHANGED loopCancel

\* setup_stream, and the trading loop's task.  When setup_stream failed,
\* start_streaming raises at once and the task is cancelled unstarted.
Setup(ok) ==
  /\ main = "setup"
  /\ streams
  /\ loopTask' = "created"
  /\ main' = IF ok THEN "streaming" ELSE "join"
  /\ loopCancel' = ~ok
  /\ lost' = FALSE
  /\ UNCHANGED <<unwinding, mainCancel, stopRequested, delay, queue, orderVars,
                 session>>

\* Without stream methods setup_stream is an AttributeError and "finally"
\* asks None whether it is done: the error reaches run_trading_session,
\* which calls stop_trading.
SetupRaises ==
  /\ main = "setup"
  /\ ~streams
  /\ main' = "ended"
  /\ stopRequested' = TRUE
  /\ UNCHANGED <<unwinding, mainCancel, delay, loopVars, queue, orderVars,
                 session>>

\* start_streaming raises or returns.
ConnectionLost ==
  /\ main = "streaming"
  /\ ~mainCancel
  /\ LeaveStream
  /\ UNCHANGED <<unwinding, mainCancel, stopRequested, delay, loopTask, lost,
                 queue, orderVars, session>>

StreamCancelled ==
  /\ main = "streaming"
  /\ mainCancel
  /\ mainCancel' = FALSE
  /\ unwinding' = TRUE
  /\ LeaveStream
  /\ UNCHANGED <<stopRequested, delay, loopTask, lost, queue, orderVars,
                 session>>

\* The awaited loop is over, and so is any CancelledError met here.
Join ==
  /\ main = "join"
  /\ loopTask = "done"
  /\ main' = "stopws"
  /\ UNCHANGED <<unwinding, mainCancel, stopRequested, delay, loopVars, queue,
                 orderVars, session>>

\* stop_streaming; a cancellation ends the session there.
StopStreaming ==
  /\ main = "stopws"
  /\ main' = IF mainCancel THEN "ended" ELSE "backoff"
  /\ mainCancel' = FALSE
  /\ UNCHANGED <<unwinding, stopRequested, delay, loopVars, queue, orderVars,
                 session>>

Smaller(a, b) == IF a <= b THEN a ELSE b

\* Doubled without a limit.
DoubledDelay(jitter) == 2 * delay + jitter

NextDelay(jitter) == Smaller(MaxDelay, 2 * delay) + jitter

\* The next attempt is made unless "finally" was entered by cancellation.
AlwaysAgain == "setup"

AfterBackoff == IF unwinding THEN "ended" ELSE "setup"

BackoffOver(jitter) ==
  /\ main = "backoff"
  /\ ~mainCancel
  /\ delay' = NextDelay(jitter)
  /\ main' = AfterBackoff
  /\ UNCHANGED <<unwinding, mainCancel, stopRequested, loopVars, queue,
                 orderVars, session>>

BackoffCancelled ==
  /\ main = "backoff"
  /\ mainCancel
  /\ mainCancel' = FALSE
  /\ main' = "ended"
  /\ UNCHANGED <<unwinding, stopRequested, delay, loopVars, queue, orderVars,
                 session>>

-----------------------------------------------------------------------------
(* trading_loop and the tasks it starts. *)

\* handle_trade and handle_bar put what the stream brings.
Item ==
  /\ main = "streaming"
  /\ queue < MaxQueue
  /\ queue' = queue + 1
  /\ UNCHANGED <<mainVars, loopVars, orderVars, session>>

LoopStart ==
  /\ loopTask = "created"
  /\ loopTask' = IF loopCancel THEN "done" ELSE "waiting"
  /\ loopCancel' = FALSE
  /\ UNCHANGED <<mainVars, lost, queue, orderVars, session>>

\* queue.get is done, the loop not yet woken.
LoopGet ==
  /\ loopTask = "waiting"
  /\ ~loopCancel
  /\ queue > 0
  /\ loopTask' = "got"
  /\ queue' = queue - 1
  /\ UNCHANGED <<mainVars, loopCancel, lost, orderVars, session>>

\* What is left of a cancellation when wait_for returns an item.
LeftOfCancel == FALSE

\* wait_for returns the item.  Processing it may fail (the loop then sleeps
\* for 5 s), and may place an order; one per session here.
LoopProcess(outcome) ==
  /\ loopTask = "got"
  /\ loopCancel' = LeftOfCancel
  /\ lost' = (lost \/ (loopCancel /\ ~LeftOfCancel))
  /\ \/ outcome = "fails" /\ loopTask' = "sleeping" /\ UNCHANGED orderVars
     \/ outcome = "done" /\ loopTask' = "waiting" /\ UNCHANGED orderVars
     \/ /\ outcome = "order" /\ loopTask' = "waiting"
        /\ order = "none"
        /\ order' = "open"
        /\ cancelTask' = testMode
  /\ UNCHANGED <<mainVars, queue, session>>

LoopWake ==
  /\ loopTask = "sleeping"
  /\ ~loopCancel
  /\ loopTask' = "waiting"
  /\ UNCHANGED <<mainVars, loopCancel, lost, queue, orderVars, session>>

LoopCancelled ==
  /\ loopTask \in {"waiting", "sleeping"}
  /\ loopCancel
  /\ loopTask' = "done"
  /\ loopCancel' = FALSE
  /\ UNCHANGED <<mainVars, lost, queue, orderVars, session>>

AutoCancel ==
  /\ cancelTask
  /\ cancelTask' = FALSE
  /\ order' \in {order, "closed"}
  /\ UNCHANGED <<mainVars, loopVars, queue, session>>

BrokerEnds ==
  /\ order = "open"
  /\ order' = "closed"
  /\ UNCHANGED <<mainVars, loopVars, queue, cancelTask, session>>

-----------------------------------------------------------------------------
(***************************************************************************)
(* _shutdown cancels every task.  The main task waits on the loop while it *)
(* joins it: then only the loop is cancelled.                              *)
(***************************************************************************)
Signal ==
  /\ main \in {"streaming", "join", "stopws", "backoff"}
  /\ signals < MaxSignals
  /\ signals' = signals + 1
  /\ mainCancel' = (main # "join")
  /\ loopCancel' = LoopAlive
  /\ cancelTask' = FALSE
  /\ UNCHANGED <<streams, testMode, main, unwinding, stopRequested, delay,
                 loopTask, lost, queue, order>>

Outcomes == {"fails", "done", "order"}

Main ==
  \/ \E ok \in BOOLEAN : Setup(ok)
  \/ SetupRaises
  \/ StreamCancelled
  \/ Join
  \/ StopStreaming
  \/ \E jitter \in {0, 1} : BackoffOver(jitter)
  \/ BackoffCancelled

Loop ==
  \/ LoopStart
  \/ LoopGet
  \/ \E outcome \in Outcomes : LoopProcess(outcome)
  \/ LoopWake
  \/ LoopCancelled

Next == Main \/ Loop \/ ConnectionLost \/ Item \/ AutoCancel \/ BrokerEnds
          \/ Signal

Spec == Init /\ [][Next]_vars

\* The event loop runs every task that is ready; it promises nothing about
\* the stream, the broker or signals.
Fairness == WF_vars(Main) /\ WF_vars(Loop)

FairSpec == Spec /\ Fairness

-----------------------------------------------------------------------------
(* Properties. *)

\* The tasks are where they can be, and the wait between attempts stays
\* within max_delay and its jitter.
TypeOK ==
  /\ main \in {"setup", "streaming", "join", "stopws", "backoff", "ended"}
  /\ streams \in BOOLEAN /\ testMode \in BOOLEAN
  /\ unwinding \in BOOLEAN /\ mainCancel \in BOOLEAN
  /\ stopRequested \in BOOLEAN /\ loopCancel \in BOOLEAN
  /\ cancelTask \in BOOLEAN /\ lost \in BOOLEAN
  /\ delay \in InitialDelay .. MaxDelay + 1
  /\ loopTask \in {"none", "created", "waiting", "got", "sleeping", "done"}
  /\ queue \in 0..MaxQueue
  /\ order \in {"none", "open", "closed"}
  /\ signals \in 0..MaxSignals

\* A trading loop runs only while the main task streams or waits for it to
\* end: two never share TradingState, and none trades on after the session.
OneLoop == LoopAlive => main \in {"streaming", "join"}

(***************************************************************************)
(* However often the stream is lost, a new attempt follows or the session  *)
(* ends: the loop always gets the cancellation the main task waits for.    *)
(* The one exception is a cancellation wait_for has forgotten.             *)
(***************************************************************************)
ReconnectsOrLoses ==
  main \in {"join", "stopws", "backoff"} ~> main \in {"setup", "ended"} \/ lost

\* The same without the exception: the "resilient reconnection loop" of
\* run_live_trading.py:723.
Reconnects ==
  main \in {"join", "stopws", "backoff"} ~> main \in {"setup", "ended"}

\* A signal that reached the main task ends the session, however the tasks
\* interleave, unless wait_for has forgotten a cancellation.
SignalEnds == mainCancel \/ unwinding ~> main = "ended" \/ lost

(***************************************************************************)
(* The "finally" of a stream waits only for a loop that is over or has     *)
(* been told to stop: with SignalEnds and ReconnectsOrLoses in mind, the   *)
(* only wait that can last is one for a loop that forgot it was told.      *)
(***************************************************************************)
JoinedIsCancelled == main = "join" => loopTask = "done" \/ loopCancel \/ lost

\* After a signal has reached the main task no stream is set up again,
\* whatever the backoff, the adapter and the loop do.
NoAttemptAfterSignal == [][mainCancel \/ unwinding => main' # "setup"]_vars

\* When a session has ended, no order of it is left at the broker.
NoOrderLeft == main = "ended" => order # "open"
==============================================================================
