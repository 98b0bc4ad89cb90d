------------------------------ MODULE RiskGate ------------------------------
(* The pre-trade checks of the live loop (trading_loop, RiskManager) in      *)
(* front of the two ways to trade: an order at the broker, or a target for   *)
(* the external execution engine (qee_execution_backend.py).                 *)
(*                                                                           *)
(* The checks see the portfolio value of the last refresh and the position   *)
(* as tracked; the account goes its own way.  Prices and values are whole    *)
(* numbers, ratios are pairs <<numerator, denominator>>.  An order is filled *)
(* at once and at one price; how the loop tracks orders is in LiveTrading.   *)
EXTENDS OrderPlan, Sequences, Functions

CONSTANTS
    OrderQty,        \* live_trading.default_order_qty
    LotSize,         \* live_trading.broker.lot_size
    Prices,          \* prices the market may show, a bad tick of 0 included
    Volumes,         \* volumes of a bar
    Capital,         \* live_trading.initial_capital, and cash at the start
    MaxExposure,     \* max_gross_exposure, a ratio
    MaxParticipation,\* max_order_participation_ratio
    Window,          \* var_window, the length of the histories
    MaxTrades,       \* bound: signals that pass the checks
    MaxMoves         \* bound: changes of price, bars, failed reads

EntryQty == RoundToLot(OrderQty, LotSize)

ASSUME RiskAssumption ==
    /\ OrderQty \in Nat \ {0} /\ LotSize \in Nat
    /\ Prices \subseteq Nat /\ Volumes \subseteq Nat
    /\ Capital \in Nat \ {0} /\ Window \in Nat \ {0}
    /\ MaxExposure \in Nat \X (Nat \ {0})
    /\ MaxParticipation \in Nat \X (Nat \ {0})
    /\ MaxTrades \in Nat /\ MaxMoves \in Nat

VARIABLES
    (* the program *)
    backend,         \* "broker", or "qee" for the execution engine
    tracked,         \* TradingState.current_position_qty
    value,           \* last_known_portfolio_value, 0 for None
    fed,             \* is RiskManager.update_market_data called at all?
    prices, volumes, \* RiskManager.price_history, volume_history
    (* the account and the market *)
    price, cash, held,
    work,            \* the order or the target being worked, or NoWork
    (* bounds *)
    trades, moves

manager == <<fed, prices, volumes>>
account == <<price, cash, held>>
vars == <<backend, tracked, value, manager, account, work, trades, moves>>

Equity == cash + held * price

\* qty: a signed quantity for the broker, a target for the engine.  exact:
\* history, the loop knew the account as it was when it made its checks, and
\* the price has not moved since.
Work   == [busy : BOOLEAN, qty : Int, exact : BOOLEAN]
NoWork == [busy |-> FALSE, qty |-> 0, exact |-> FALSE]

Init ==
    /\ backend \in {"broker", "qee"}
    /\ tracked = 0 /\ value \in {0, Capital}
    /\ fed \in BOOLEAN /\ prices = << >> /\ volumes = << >>
    /\ price \in Prices \ {0} /\ cash = Capital /\ held = 0
    /\ work = NoWork /\ trades = 0 /\ moves = 0

Move == moves < MaxMoves /\ moves' = moves + 1

----------------------------------------------------------------------------
(* RiskManager.update_market_data.  The live loop reads the histories it     *)
(* fills, but does not call it: fed is FALSE for the program as it is, whose *)
(* histories stay empty, and TRUE for a caller that feeds it every bar, as   *)
(* docs/risk-engine.md says and tests/unit/test_risk_manager.py does.  What  *)
(* is stated below holds for both.                                           *)

Last(s) == s[Len(s)]

\* mutant: one entry too many
RememberLate(s, x) == IF Len(s) <= Window THEN Append(s, x)
                      ELSE Append(SubSeq(s, 2, Len(s)), x)

\* deque(maxlen=var_window)
Remember(s, x) == IF Len(s) < Window THEN Append(s, x)
                  ELSE Append(SubSeq(s, 2, Len(s)), x)

\* The return since the last price: with a last price of 0 it raises, before
\* anything is recorded.
ReturnComputes == prices # << >> => Last(prices) # 0

UpdateMarketData(p, v) ==
    /\ fed /\ Move /\ ReturnComputes
    /\ prices' = Remember(prices, p) /\ volumes' = Remember(volumes, v)
    /\ UNCHANGED <<backend, fed, tracked, value, account, work, trades>>

----------------------------------------------------------------------------
(* The checks *)

Total(s) == FoldFunction(LAMBDA x, y : x + y, 0, s)

\* check_liquidity_and_impact: without a volume above zero it is skipped.
LiquidityPasses ==
    Total(volumes) > 0 =>
        OrderQty * Len(volumes) * MaxParticipation[2]
            <= MaxParticipation[1] * Larger(Total(volumes), Len(volumes))

\* A value of 0 is as good as none.
PortfolioValue == IF value = 0 THEN Capital ELSE value

\* mutant: what is held counts, the proposed trade does not
HeldWithin == PortfolioValue > 0 /\ Magnitude(tracked) * price
                  * MaxExposure[2] <= MaxExposure[1] * PortfolioValue

\* check_leverage_and_exposure, with default_order_qty whatever the signal
ExposurePasses ==
    /\ PortfolioValue > 0
    /\ (Magnitude(tracked) + OrderQty) * price * MaxExposure[2]
            <= MaxExposure[1] * PortfolioValue

\* mutant: a CLOSE is not checked
ClosePasses(signal) ==
    LiquidityPasses /\ (signal = "CLOSE" \/ ExposurePasses)

\* Both checks, for every signal alike
Passes(signal) == LiquidityPasses /\ ExposurePasses

----------------------------------------------------------------------------
(* Trading *)

\* get_signal, by the tracked position
SignalsAt(position) == IF position # 0 THEN {"CLOSE"} ELSE {"BUY", "SELL"}

Begin(qty) == work' = [busy |-> TRUE, qty |-> qty,
                       exact |-> tracked = held /\ PortfolioValue = Equity]

\* The plan of an entry is rounded to lots, the plan of a CLOSE is not.
PlanQty(signal) ==
    LET plan == IF signal = "CLOSE" THEN BuildClosePlan(tracked)
                ELSE BuildOrderPlan(signal, OrderQty, LotSize)
    IN Signed(plan.side, plan.qty)

\* mutant: the exporter adds the order to what is tracked
TargetAdds(signal) == IF signal = "BUY" THEN held + OrderQty ELSE 0

\* signal_to_targets: long only
EngineTarget(signal) == IF signal = "BUY" THEN OrderQty ELSE 0

Trade ==
    /\ trades < MaxTrades
    /\ \E signal \in SignalsAt(tracked) :
        /\ Passes(signal)
        /\ \/ backend = "broker" /\ ~work.busy /\ Begin(PlanQty(signal))
           \/ backend = "qee" /\ signal # "SELL" /\ Begin(EngineTarget(signal))
    /\ trades' = trades + 1
    /\ UNCHANGED <<backend, tracked, value, manager, account, moves>>

\* The engine or the broker moves the account.  The update of the stream
\* reaches the loop, or it does not.
Fill(qty) ==
    /\ held' = held + qty /\ cash' = cash - qty * price
    /\ tracked' \in {tracked, tracked + qty}
    /\ UNCHANGED <<backend, value, manager, price, trades, moves>>

BrokerFills ==
    /\ backend = "broker" /\ work.busy
    /\ Fill(work.qty) /\ work' = NoWork

\* One share towards the latest target
EngineFills ==
    /\ backend = "qee" /\ work.busy /\ held # work.qty
    /\ Fill(IF held < work.qty THEN 1 ELSE -1) /\ UNCHANGED work

\* The order is refused or cancelled; the engine fails, at any point.
WorkEnds ==
    /\ work.busy /\ work' = NoWork
    /\ UNCHANGED <<backend, tracked, value, manager, account, trades, moves>>

----------------------------------------------------------------------------
(* The refresh, and the market *)

\* get_account and get_position answer.
Refresh ==
    /\ value' = Equity /\ tracked' = held
    /\ UNCHANGED <<backend, manager, account, work, trades, moves>>

\* A failed account read changes nothing, a failed position read is 0.
RefreshFails ==
    /\ Move
    /\ \/ value' = Equity /\ tracked' = 0
       \/ UNCHANGED value /\ tracked' \in {held, 0}
    /\ UNCHANGED <<backend, manager, account, work, trades>>

PriceMoves ==
    /\ Move /\ price' \in Prices \ {0, price}
    /\ work' = [work EXCEPT !.exact = FALSE]
    /\ UNCHANGED <<backend, tracked, value, manager, cash, held, trades>>

Next ==
    \/ \E p \in Prices, v \in Volumes : UpdateMarketData(p, v)
    \/ Trade \/ BrokerFills \/ EngineFills \/ WorkEnds
    \/ Refresh \/ RefreshFails \/ PriceMoves

Spec == Init /\ [][Next]_vars

----------------------------------------------------------------------------
(* Properties *)

TypeOK ==
    /\ backend \in {"broker", "qee"} /\ tracked \in Int /\ value \in Int
    /\ fed \in BOOLEAN /\ prices \in Seq(Prices) /\ volumes \in Seq(Volumes)
    /\ Len(prices) = Len(volumes) /\ Len(prices) <= Window
    /\ price \in Prices \ {0} /\ cash \in Int /\ held \in Int
    /\ work \in Work /\ trades \in 0..MaxTrades /\ moves \in 0..MaxMoves

\* What a lot adds to the quantity that was checked
LotExcess == IF backend = "broker" /\ EntryQty > OrderQty
             THEN EntryQty - OrderQty ELSE 0

WithinLimit(qty, equity) ==
    (Magnitude(qty) - LotExcess) * price * MaxExposure[2]
        <= MaxExposure[1] * equity

(* When the loop knew the account as it was, and as long as the price stays, *)
(* no fill takes the exposure past max_gross_exposure of the equity, by more *)
(* than the lot the order was rounded up to: the checks are made for         *)
(* default_order_qty, the order is sized and worked later.                   *)
ExactChecksHold ==
    [][work.exact /\ held' # held => WithinLimit(held', Equity')]_vars

(* Through the execution engine the account stays between flat and one       *)
(* entry: no active order holds signals back there and the tracked position  *)
(* may be stale, but a repeated signal repeats its target, and the target of *)
(* a CLOSE is zero whatever is held.                                         *)
EngineWithinEntry == backend = "qee" => held \in 0..OrderQty

\* Over the limit, nothing being worked, and the loop knows the account.
Stuck == /\ ~ExposurePasses /\ ~work.busy
         /\ tracked = held /\ PortfolioValue = Equity

(* A position that is over the limit is not left by the program: the checks  *)
(* add the quantity of an entry to it for a CLOSE too, and neither a refresh *)
(* nor new market data changes that.  The price has to move, or a position   *)
(* read has to fail and let the loop believe that it is flat.                *)
OverLimitIsStuck ==
    [][Stuck => /\ held' = held
                /\ Stuck' \/ price' # price \/ (tracked' = 0 /\ held # 0)]_vars
=============================================================================
