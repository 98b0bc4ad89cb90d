----------------------------- MODULE LiveTrading -----------------------------
(***************************************************************************)
(* The live trading core: TradingState (live_components.py) as it is       *)
(* changed by the coroutines of EnhancedTradingSystem                      *)
(* (scripts/run_live_trading.py) that share it on one event loop:          *)
(*                                                                         *)
(*   - trading_loop, one signal per item of the data queue, and its        *)
(*     periodic refresh of position and order status over REST;            *)
(*   - handle_trade_update, called for every order update of the stream;   *)
(*   - _auto_cancel_test_order, one task per test order;                   *)
(*                                                                         *)
(* together with the broker they talk to: it works orders, moves the real  *)
(* position and pushes an update for each event.  Whatever runs between    *)
(* two awaits is one action.  REST calls are synchronous: they block the   *)
(* event loop, and the broker goes on meanwhile, so a refresh that makes   *)
(* two of them is two actions between which no other coroutine runs.       *)
(*                                                                         *)
(* handle_trade_update reads an update as a dict with order_id, status and *)
(* filled_qty.  Nothing in the repository makes such a dict: setup_stream  *)
(* of the Alpaca adapter passes on the object of the Alpaca library, whose *)
(* order is nested and which has no get().  What an update looks like is   *)
(* therefore a parameter, Forms, and what is said of one form only says    *)
(* so.                                                                     *)
(***************************************************************************)
EXTENDS Integers, Sequences, FiniteSets, OrderPlan

CONSTANTS
  OrderQty,         \* live_trading.default_order_qty
  LotSize,          \* live_trading.broker.lot_size
  InitialPositions, \* what the account may hold when the session starts
  TestModes,        \* values of no_fill_test_mode.enabled to consider
  DbAttached,       \* whether the system was built with a db_handler
  Refreshes,        \* whether the session outlives the 300 s refresh interval
  EndStatuses,      \* how the broker may end an order without filling it
  Forms,            \* forms of the updates the handler is given to consider
  MaxOrders,        \* bound: orders the broker ever accepts
  MaxRestErrors,    \* bound: failed REST reads and cancels
  MaxLost,          \* bound: accepted orders whose answer never arrives
  MaxDrops          \* bound: stream disconnections

NoOrder == 0
OrderIds == 1..MaxOrders
EntryQty == RoundToLot(OrderQty, LotSize)

(***************************************************************************)
(* The statuses the code knows: the four that end an order, by the list in *)
(* handle_trade_update and in the refresh, and two that do not.            *)
(***************************************************************************)
Terminal == {"filled", "canceled", "expired", "rejected"}
Working  == {"new", "partially_filled"}

(***************************************************************************)
(* "native": the object as the adapter delivers it.  "order": a dict with  *)
(* the fields of the order, whose filled_qty is unsigned and counts from   *)
(* its start.  "change": a dict whose filled_qty is what the handler adds  *)
(* up, the signed number of shares filled since the previous update.       *)
(***************************************************************************)
UpdateForms == {"native", "order", "change"}

ASSUME ConstantsAssumption ==
  /\ OrderQty \in Nat \ {0}
  /\ LotSize \in Nat
  /\ InitialPositions \subseteq -EntryQty .. EntryQty
  /\ TestModes \subseteq BOOLEAN
  /\ DbAttached \in BOOLEAN
  /\ Refreshes \in BOOLEAN
  /\ EndStatuses \subseteq Terminal \ {"filled"}
  /\ Forms \subseteq UpdateForms
  /\ {MaxOrders, MaxRestErrors, MaxLost, MaxDrops} \subseteq Nat

VARIABLES
  (* the program *)
  testMode,      \* no_fill_test_mode.enabled, fixed for a session
  form,          \* what updates look like, fixed for a session
  position,      \* TradingState.current_position_qty
  active,        \* TradingState.active_order_id
  streamStatus,  \* TradingState.last_known_stream_status, "none" for None
  loop,          \* trading_loop: "stopped", awaiting the queue, or mid-refresh
  autoCancel,    \* orders whose _auto_cancel_test_order task is asleep
  (* the broker *)
  order,         \* every order slot
  placed,        \* how many slots are used
  brokerPos,     \* the position at the broker
  connected,     \* whether the broker has a stream to push to
  stream,        \* updates pushed and not yet handled
  (* observation and bounds *)
  orphans,       \* accepted orders whose answer was lost
  restErrors,
  drops

vars == <<testMode, form, position, active, streamStatus, loop, autoCancel,
          order, placed, brokerPos, connected, stream, orphans, restErrors,
          drops>>

brokerVars == <<order, placed, brokerPos, connected, stream>>

Order == [status: Working \union Terminal \union {"unused"},
          side: Sides, qty: Nat, filled: Nat]

\* total: the shares of the order filled so far.  delta: the change of the
\* position by the event.  before: observation, the position before it.
Update == [order: OrderIds, status: Working \union Terminal,
           total: Nat, delta: Int, before: Int]

Unused == [status |-> "unused", side |-> "buy", qty |-> 0, filled |-> 0]

IsOpen(o) == order[o].status \in Working

(***************************************************************************)
(* start_live_trading: the position is read once; a read that fails looks  *)
(* like no position.                                                       *)
(***************************************************************************)
Init ==
  /\ testMode \in TestModes
  /\ form \in Forms
  /\ brokerPos \in InitialPositions
  /\ \/ position = brokerPos /\ restErrors = 0
     \/ position = 0 /\ restErrors = 1 /\ MaxRestErrors > 0
  /\ active = NoOrder
  /\ streamStatus = "none"
  /\ loop = "wait"
  /\ autoCancel = {}
  /\ order = [o \in OrderIds |-> Unused]
  /\ placed = 0
  /\ connected = TRUE
  /\ stream = << >>
  /\ orphans = {}
  /\ drops = 0

-----------------------------------------------------------------------------
(* The broker. *)

\* The stream hands every event to the callback that setup_stream was given;
\* without a stream it is lost, and nothing replays it later.
Push(u) == stream' = IF connected THEN Append(stream, u) ELSE stream

BrokerFill(o, n) ==
  LET delta  == Signed(order[o].side, n)
      status == IF order[o].filled + n = order[o].qty
                THEN "filled" ELSE "partially_filled"
  IN /\ IsOpen(o)
     /\ order[o].filled + n <= order[o].qty
     /\ order' = [order EXCEPT ![o].status = status,
                             ![o].filled = order[o].filled + n]
     /\ brokerPos' = brokerPos + delta
     /\ Push([order |-> o, status |-> status,
              total |-> order[o].filled + n, delta |-> delta,
              before |-> brokerPos])
     /\ UNCHANGED <<testMode, form, position, active, streamStatus, loop,
                    autoCancel, placed, connected, orphans, restErrors, drops>>

EndOrder(o, status) ==
  /\ IsOpen(o)
  /\ status = "rejected" => order[o].filled = 0
  /\ order' = [order EXCEPT ![o].status = status]
  /\ Push([order |-> o, status |-> status, total |-> order[o].filled,
           delta |-> 0, before |-> brokerPos])
  /\ UNCHANGED <<brokerPos, placed, connected>>

BrokerEnd(o, status) ==
  /\ EndOrder(o, status)
  /\ UNCHANGED <<testMode, form, position, active, streamStatus, loop,
                 autoCancel, orphans, restErrors, drops>>

-----------------------------------------------------------------------------
(* Order updates from the stream. *)

\* The REST calls of a refresh block the event loop: no callback runs.
LoopFree == loop # "refresh_order"

EndsAnyOrder(u) == u.status \in Terminal

EndsActive(u) == u.status \in Terminal /\ u.order = active

StatusKept(u) == IF u.order = active THEN u.status ELSE streamStatus

\* update_stream_order_status, then clear_active_order if the order is over.
StatusAfter(u) ==
  IF EndsActive(u) THEN "none"
  ELSE IF u.order = active THEN u.status ELSE streamStatus

\* The handler's first statement is a get() on the update: on the object of
\* the library it raises, is caught and logged, and nothing was done.
Readable == form # "native"

FilledQty(u) == IF form = "order" THEN u.total ELSE u.delta

(***************************************************************************)
(* With a db_handler, a "filled" update is first passed, as a dict and     *)
(* with an await, to log_trade_record, a plain method that takes a         *)
(* TradeLog: it raises, and the handler ends before the position update.   *)
(***************************************************************************)
RaisesBeforePosition(u) == DbAttached /\ u.status = "filled"

HandleTradeUpdate ==
  LET u == Head(stream)
  IN /\ LoopFree
     /\ stream # << >>
     /\ stream' = Tail(stream)
     /\ \/ /\ Readable
           /\ active' = IF EndsActive(u) THEN NoOrder ELSE active
           /\ streamStatus' = StatusAfter(u)
           /\ position' = IF RaisesBeforePosition(u) THEN position
                          ELSE position + FilledQty(u)
        \/ /\ ~Readable
           /\ UNCHANGED <<active, streamStatus, position>>
     /\ UNCHANGED <<testMode, form, loop, autoCancel, order, placed, brokerPos,
                    connected, orphans, restErrors, drops>>

-----------------------------------------------------------------------------
(* trading_loop: one item of the data queue. *)

(***************************************************************************)
(* LiveMeanReversionStrategy.get_signal: the z-score is any number, so a   *)
(* held position may be kept or closed and a flat one may enter.           *)
(***************************************************************************)
GetSignal(held) ==
  IF held = 0 THEN {"BUY", "SELL", "HOLD"} ELSE {"CLOSE", "HOLD"}

MayAlwaysTrade == TRUE

MayTrade == active = NoOrder

(***************************************************************************)
(* place_order as trading_loop sees it.  Either the broker's answer comes  *)
(* back and _handle_execution_result tracks the order (and in test mode    *)
(* starts its auto-cancel task), or the broker accepted the order and the  *)
(* answer is lost: place_order returns None, like for a refused order, and *)
(* nothing is tracked.  A refused order changes nothing.                   *)
(***************************************************************************)
Submit(plan) ==
  LET o == placed + 1
  IN /\ placed < MaxOrders
     /\ placed' = o
     /\ order' = [order EXCEPT ![o] =
                    [status |-> "new", side |-> plan.side, qty |-> plan.qty,
                     filled |-> 0]]
     /\ \/ /\ active' = o
           /\ streamStatus' = "none"
           /\ autoCancel' = autoCancel \union (IF testMode THEN {o} ELSE {})
           /\ UNCHANGED orphans
        \/ /\ Cardinality(orphans) < MaxLost
           /\ orphans' = orphans \union {o}
           /\ UNCHANGED <<active, streamStatus, autoCancel>>

(***************************************************************************)
(* The loop body and _execute_trade.  The broker adapters have no "api"    *)
(* attribute, so a CLOSE always takes the market-order fallback, and test  *)
(* mode skips it.  Risk checks that fail end the iteration: they change    *)
(* nothing, like a HOLD.                                                   *)
(***************************************************************************)
Trade(signal) ==
  /\ loop = "wait"
  /\ signal \in GetSignal(position)
  /\ HasTarget(signal)
  /\ MayTrade
  /\ IF signal = "CLOSE"
     THEN ~testMode /\ Submit(BuildClosePlan(position))
     ELSE Submit(BuildOrderPlan(signal, TargetQty(signal, OrderQty, position),
                                LotSize))
  /\ UNCHANGED <<testMode, form, position, loop, brokerPos, connected, stream,
                 restErrors, drops>>

-----------------------------------------------------------------------------
(* trading_loop: the periodic refresh. *)

\* Whether a REST call answers; a failed one is returned as None.
RestCall(answers) ==
  IF answers THEN UNCHANGED restErrors
  ELSE restErrors < MaxRestErrors /\ restErrors' = restErrors + 1

\* A position is only ever raised to what REST says.
RefreshOnlyHeld(answers) ==
  /\ Refreshes
  /\ loop = "wait"
  /\ RestCall(answers)
  /\ position' = IF answers /\ brokerPos # 0 THEN brokerPos ELSE position
  /\ loop' = IF active # NoOrder THEN "refresh_order" ELSE "wait"
  /\ UNCHANGED <<testMode, form, active, streamStatus, autoCancel, brokerVars,
                 orphans, drops>>

\* get_position returns None for an error and for no position alike: 0.
RefreshPosition(answers) ==
  /\ Refreshes
  /\ loop = "wait"
  /\ RestCall(answers)
  /\ position' = IF answers THEN brokerPos ELSE 0
  /\ loop' = IF active # NoOrder THEN "refresh_order" ELSE "wait"
  /\ UNCHANGED <<testMode, form, active, streamStatus, autoCancel, brokerVars,
                 orphans, drops>>

RestStatus(answers) == IF answers THEN order[active].status ELSE "not_found"

\* An order the broker does not report is taken for finished.
NotFoundIsTerminal(status) == status \in Terminal \union {"not_found"}

NeverCleared(status) == FALSE

ClearsActive(status) == status \in Terminal

\* A stream that never spoke counts as "unknown".
RefreshOrder(answers) ==
  LET rest  == RestStatus(answers)
      known == IF streamStatus = "none" THEN "unknown" ELSE streamStatus
  IN /\ loop = "refresh_order"
     /\ RestCall(answers)
     /\ loop' = "wait"
     /\ \/ /\ known = rest
           /\ UNCHANGED <<active, streamStatus>>
        \/ /\ known # rest
           /\ active' = IF ClearsActive(rest) THEN NoOrder ELSE active
           /\ streamStatus' = IF ClearsActive(rest) THEN "none" ELSE rest
     /\ UNCHANGED <<testMode, form, position, autoCancel, brokerVars, orphans,
                    drops>>

-----------------------------------------------------------------------------
(* _auto_cancel_test_order wakes up: one attempt, its result only logged. *)

AutoCancel(o) ==
  /\ LoopFree
  /\ o \in autoCancel
  /\ autoCancel' = autoCancel \ {o}
  /\ \/ /\ EndOrder(o, "canceled")
        /\ UNCHANGED restErrors
     \/ /\ ~IsOpen(o)
        /\ UNCHANGED <<brokerVars, restErrors>>
     \/ /\ RestCall(FALSE)
        /\ UNCHANGED brokerVars
  /\ UNCHANGED <<testMode, form, position, active, streamStatus, loop, orphans,
                 drops>>

-----------------------------------------------------------------------------
(***************************************************************************)
(* _run_stream_with_reconnect, as far as it touches this state (the tasks  *)
(* themselves are in StreamSession): a lost connection cancels             *)
(* trading_loop, which can only be at an await, and which stops unless it  *)
(* loses the cancellation.  The new trading_loop is started before the     *)
(* stream is up, and the data queue still holds the items left in it, so   *)
(* it may trade before it.  Neither reads position or orders again.        *)
(***************************************************************************)
Disconnect ==
  /\ connected
  /\ loop = "wait"
  /\ drops < MaxDrops
  /\ connected' = FALSE
  /\ stream' = << >>
  /\ loop' \in {"stopped", "wait"}
  /\ drops' = drops + 1
  /\ UNCHANGED <<testMode, form, position, active, streamStatus, autoCancel,
                 order, placed, brokerPos, orphans, restErrors>>

RestartLoop ==
  /\ loop = "stopped"
  /\ loop' = "wait"
  /\ UNCHANGED <<testMode, form, position, active, streamStatus, autoCancel,
                 brokerVars, orphans, restErrors, drops>>

Connect ==
  /\ loop = "wait"
  /\ ~connected
  /\ connected' = TRUE
  /\ UNCHANGED <<testMode, form, position, active, streamStatus, loop,
                 autoCancel, order, placed, brokerPos, stream, orphans,
                 restErrors, drops>>

-----------------------------------------------------------------------------

Next ==
  \/ \E o \in OrderIds, n \in 1..EntryQty : BrokerFill(o, n)
  \/ \E o \in OrderIds, status \in EndStatuses : BrokerEnd(o, status)
  \/ HandleTradeUpdate
  \/ \E signal \in Signals : Trade(signal)
  \/ \E answers \in BOOLEAN : RefreshPosition(answers)
  \/ \E answers \in BOOLEAN : RefreshOrder(answers)
  \/ \E o \in autoCancel : AutoCancel(o)
  \/ Disconnect
  \/ RestartLoop
  \/ Connect

Spec == Init /\ [][Next]_vars

(***************************************************************************)
(* Fairness.  Every order is placed with time_in_force "day": the broker   *)
(* ends it sooner or later.  The event loop runs a ready callback, a       *)
(* trading_loop that was stopped is started again, its refresh falls due   *)
(* as long as it is left alone for the interval, and a REST call returns.  *)
(* Nothing is assumed of the strategy, of fills, of the cancel task or of  *)
(* the stream coming back.                                                 *)
(***************************************************************************)
Fairness ==
  /\ \A o \in OrderIds :
       WF_vars(\E status \in EndStatuses : BrokerEnd(o, status))
  /\ WF_vars(HandleTradeUpdate)
  /\ WF_vars(\E answers \in BOOLEAN : RefreshPosition(answers))
  /\ WF_vars(\E answers \in BOOLEAN : RefreshOrder(answers))
  /\ WF_vars(RestartLoop)

FairSpec == Spec /\ Fairness

-----------------------------------------------------------------------------
(* Properties. *)

\* Every variable has its type, only orders that were placed are tracked,
\* and a stream status is remembered only for an active order.
TypeOK ==
  /\ testMode \in BOOLEAN
  /\ form \in UpdateForms
  /\ position \in Int
  /\ active \in {NoOrder} \union 1..placed
  /\ streamStatus \in Working \union Terminal \union {"none", "not_found"}
  /\ loop \in {"stopped", "wait", "refresh_order"}
  /\ autoCancel \subseteq 1..placed
  /\ order \in [OrderIds -> Order]
  /\ placed \in 0..MaxOrders
  /\ brokerPos \in Int
  /\ connected \in BOOLEAN
  /\ stream \in Seq(Update)
  /\ orphans \subseteq 1..placed
  /\ restErrors \in Nat
  /\ drops \in Nat
  /\ \A o \in OrderIds : order[o].status = "unused" <=> o > placed
  /\ active = NoOrder => streamStatus = "none"
  /\ loop = "refresh_order" => active # NoOrder

(***************************************************************************)
(* An order the broker still works is the one trading_loop waits for,      *)
(* unless its answer was lost.  The gate "active_order_id is None"         *)
(* (run_live_trading.py:971) keeps orders apart only if this holds: what   *)
(* releases the gate, a stream update or a status read by the refresh,     *)
(* must always be about that order and mean that it is over.               *)
(***************************************************************************)
OpenOrderIsTracked ==
  \A o \in OrderIds : IsOpen(o) /\ o \notin orphans => active = o

(***************************************************************************)
(* The orders with an answer, seen as OrderLifecycle sees them.            *)
(***************************************************************************)
Phase == IF active = NoOrder THEN "idle"
         ELSE IF IsOpen(active) THEN "working" ELSE "ended"

Lifecycle == INSTANCE OrderLifecycle
  WITH Orders <- OrderIds, None <- NoOrder, current <- active, phase <- Phase,
       done <- (1..placed) \ (orphans \union {active})

\* Whatever the stream and REST do, tracked orders are worked one after the
\* other, and an order is let go of only after the broker ended it.
ImplementsLifecycle == Lifecycle!FairSpec

(***************************************************************************)
(* What the order open last may have done to the position unseen.          *)
(***************************************************************************)
MayMiss ==
  IF placed = 0 THEN {0}
  ELSE {Signed(order[placed].side, n) : n \in 0..order[placed].filled}

(***************************************************************************)
(* With the updates the adapter delivers, the refresh alone moves the      *)
(* tracked position, and it reads the position (line 817) before the order *)
(* status (line 857).  When it lets go of an order it may have missed some *)
(* of that order's fills, but never a fill of an earlier one: orders       *)
(* follow each other, so an error is one order's at most and never adds    *)
(* up.                                                                     *)
(***************************************************************************)
StaleByOneOrder ==
  form = "native" /\ restErrors = 0 /\ orphans = {} /\ active = NoOrder
    => brokerPos - position \in MayMiss

(***************************************************************************)
(* An entry is ordered only from a flat account: "if there is no position, *)
(* enter" (docs/strategy-reference.md:29).                                 *)
(***************************************************************************)
EntersFlat ==
  [][\A signal \in {"BUY", "SELL"} : Trade(signal) => brokerPos = 0]_vars

(***************************************************************************)
(* The gate is not kept shut for nothing: when the active order is over at *)
(* the broker, the update that says so is waiting to be handled.  Without  *)
(* a stream to push to, or with updates that cannot be read, it is the     *)
(* refresh that must find out.                                             *)
(***************************************************************************)
EndIsAnnounced ==
  Readable /\ active # NoOrder /\ ~IsOpen(active)
    => \E i \in 1..Len(stream) : EndsActive(stream[i])

(***************************************************************************)
(* The broker's position never exceeds one entry, long or short, however   *)
(* partial fills, cancellations and signals interleave: an entry happens   *)
(* only from a flat position and a CLOSE undoes at most what is held.      *)
(***************************************************************************)
ExposureBounded == brokerPos \in -EntryQty .. EntryQty

\* A CLOSE works a position down to flat at most: no fill turns a long
\* position into a short one or the other way round.
NoFlip ==
  [][/\ brokerPos > 0 => brokerPos' >= 0
     /\ brokerPos < 0 => brokerPos' <= 0]_vars

\* A tracked order is released in the end, even if the update that ends it
\* is lost with the stream or a REST read fails: trading never locks up.
ActiveReleased == active # NoOrder ~> active = NoOrder

\* When trading pauses, the tracked position ends up equal to the broker's
\* and stays so, whatever was lost, misread or counted twice before.
EventuallyInStep == <>[](position = brokerPos)
==============================================================================
