------------------------------ MODULE Backtest ------------------------------
(* The backtest strategies (strategies/) on backtrader's event loop, as      *)
(* backtest/engine.py runs it: a bar arrives, the broker settles the pending *)
(* orders, the strategy's next() decides.                                    *)
(*                                                                           *)
(* A bar is one price.  What the indicators say is a score, any of -2..2,    *)
(* where they are ready; a size is one unit, or zero when the allocation     *)
(* buys less than one share.  The broker is backtrader's: a market order is  *)
(* filled at the next bar or refused for lack of cash, a limit order waits.  *)
EXTENDS Integers, Sequences

CONSTANTS
    Bars,            \* the length of the feed
    Warmup,          \* the bars before the indicators are ready
    Prices,          \* prices of a bar
    Offset,          \* limit_price_offset_pct, as ticks
    Trail            \* 1 - trailing_stop_pct, a ratio

ASSUME BacktestAssumption ==
    /\ Bars \in Nat \ {0} /\ Warmup \in Nat
    /\ Prices \subseteq Nat \ {0}
    /\ Offset \in Nat /\ \A p \in Prices : Offset < p
    /\ Trail \in Nat \X (Nat \ {0})

VARIABLES
    strategy, force, limit, trail,  \* what is run: the class, its parameters
    phase,           \* "settle", "decide", "decided"
    bar, price,      \* len(self), and the bar's price
    due,             \* how many orders the broker has still to look at
    orders,          \* pending orders, self.order the last of them
    position,        \* position.size, in units
    done,            \* _forced_liquidation_done
    highest, stop,   \* _highest_close, _trailing_stop_price; 0 for None
    fills,           \* the trades of the run
    peak             \* history: highest close since the entry was ordered

config  == <<strategy, force, limit, trail>>
feed    == <<bar, price>>
stops   == <<highest, stop, peak>>
btVars  == <<config, phase, feed, due, orders, position, done, stops, fills>>

Averaging == {"zscore", "ratio"}

\* dir is 1 to buy, -1 to sell; a limit of 0 is a market order.
Order == [entry : BOOLEAN, dir : {-1, 1}, limit : Nat]
Fill  == [at : 1..Bars, dir : {-1, 1}, price : Prices]

\* Only the Z-score strategy can order at a limit, only the crossover trails.
Init ==
    /\ strategy \in Averaging \union {"ema", "hold"}
    /\ force \in (IF strategy = "hold" THEN {FALSE} ELSE BOOLEAN)
    /\ limit \in (IF strategy = "zscore" THEN BOOLEAN ELSE {FALSE})
    /\ trail \in (IF strategy = "ema" THEN BOOLEAN ELSE {FALSE})
    /\ phase = "decided" /\ bar = 0 /\ price \in Prices
    /\ due = 0 /\ orders = << >> /\ position = 0 /\ done = FALSE
    /\ highest = 0 /\ stop = 0 /\ peak = 0 /\ fills = << >>

----------------------------------------------------------------------------
(* backtrader: the feed and the broker *)

NewBar(p) ==
    /\ phase = "decided" /\ bar < Bars
    /\ bar' = bar + 1 /\ price' = p
    /\ due' = Len(orders)
    /\ phase' = IF orders = << >> THEN "decide" ELSE "settle"
    /\ UNCHANGED <<config, orders, position, done, stops, fills>>

Reached(order) == \/ order.limit = 0
                  \/ order.dir = 1 /\ price <= order.limit
                  \/ order.dir = -1 /\ price >= order.limit

\* notify_order: a terminal status clears self.order.
Settled ==
    /\ phase = "settle"
    /\ due' = due - 1 /\ phase' = IF due = 1 THEN "decide" ELSE "settle"
    /\ UNCHANGED <<config, feed, done, stops>>

Completes ==
    /\ Settled /\ Reached(Head(orders))
    /\ position' = position + Head(orders).dir
    /\ fills' = Append(fills, [at |-> bar, dir |-> Head(orders).dir,
                               price |-> price])
    /\ orders' = Tail(orders)

\* Margin: the cash does not do for a buy, when it is submitted or filled; a
\* short that is closed at a loss is bought back, too.  Selling needs none.
Refused ==
    /\ Settled /\ Head(orders).dir = 1
    /\ orders' = Tail(orders) /\ UNCHANGED <<position, fills>>

\* Orders are good till cancelled, and nothing cancels them.
StaysPending ==
    /\ Settled /\ ~Reached(Head(orders))
    /\ orders' = Append(Tail(orders), Head(orders))
    /\ UNCHANGED <<position, fills>>

----------------------------------------------------------------------------
(* What a strategy wants, given a score *)

\* Z-score and ratio: -2 is below the lower threshold, 2 above the upper.
AveragingSignal(score) == IF score = -2 THEN 1 ELSE IF score = 2 THEN -1 ELSE 0

AveragingExit(score) == IF position > 0 THEN score >= 0 ELSE score <= 0

\* Crossover: 2 is a cross upwards with the trend, -2 a cross downwards.
CrossoverSignal(score) == IF score = 2 THEN 1 ELSE 0

TrailingStopHit(s) == position > 0 /\ s # 0 /\ price * Trail[2] <= s

CrossoverExit(score, s) == score = -2 \/ TrailingStopHit(s)

GenerateSignal(score) == IF strategy = "ema" THEN CrossoverSignal(score)
                         ELSE AveragingSignal(score)

ShouldExit(score, s) == IF strategy = "ema" THEN CrossoverExit(score, s)
                        ELSE AveragingExit(score)

\* Prices of stops are scaled by Trail[2].
StopAt(high) == high * Trail[1]

Higher(a, b) == IF a >= b THEN a ELSE b

\* mutant: a stop never falls, that of the next entry neither
StopOfEntryKept(old) == IF trail THEN Higher(old, StopAt(price)) ELSE 0

\* _update_trailing_stop(initial=True), with the close as the highest
StopOfEntry(old) == IF trail THEN StopAt(price) ELSE 0

\* The strategy's next before the base class's: the close and the stop rise.
Raised == IF position > 0 THEN Higher(highest, price) ELSE highest

RaisedStop == IF ~trail THEN 0
              ELSE IF position > 0 THEN Higher(stop, StopAt(Raised)) ELSE stop

----------------------------------------------------------------------------
(* BaseStrategy.next *)

\* mutant: next does not look at the order it has sent
NeverBusy == FALSE

Busy == orders # << >>

IndicatorsReady == bar > Warmup

\* mutant: the sign of the order in its price
LimitSigned(dir) == IF limit THEN dir * (price + Offset) ELSE 0

LimitPrice(dir) == IF limit THEN price + dir * Offset ELSE 0

\* place_entry and its size: some unit, or none
EnterPosition(dir) ==
    \/ /\ orders' = Append(orders, [entry |-> TRUE, dir |-> dir,
                                    limit |-> LimitPrice(dir)])
       /\ IF strategy = "ema"
          THEN highest' = price /\ stop' = StopOfEntry(stop) /\ peak' = price
          ELSE UNCHANGED stops
    \/ UNCHANGED <<orders, stops>>

\* close(): an order the other way, and no more stop
ExitPosition ==
    /\ orders' = Append(orders, [entry |-> FALSE, limit |-> 0,
                                 dir |-> IF position > 0 THEN -1 ELSE 1])
    /\ highest' = 0 /\ stop' = 0 /\ UNCHANGED peak

\* len(self.data): the bars delivered so far
DataLength == bar

\* The condition on self.order: no exit was ordered just now.
Forces(exits) == force /\ ~exits /\ position # 0 /\ bar >= DataLength /\ ~done

Keep ==
    /\ highest' = (IF strategy = "ema" THEN Raised ELSE highest)
    /\ stop' = (IF strategy = "ema" THEN RaisedStop ELSE stop)
    /\ peak' = (IF position > 0 THEN Higher(peak, price) ELSE peak)
    /\ UNCHANGED orders

Decision(score) ==
    IF Busy \/ ~IndicatorsReady THEN Keep /\ UNCHANGED done
    ELSE IF position = 0
    THEN /\ IF GenerateSignal(score) = 0 THEN Keep
            ELSE EnterPosition(GenerateSignal(score))
         /\ UNCHANGED done
    ELSE LET exits == ShouldExit(score, RaisedStop) IN
         /\ IF exits \/ Forces(exits) THEN ExitPosition ELSE Keep
         /\ done' = (done \/ Forces(exits))

Decides == /\ phase = "decide" /\ phase' = "decided"
           /\ UNCHANGED <<config, feed, due, position, fills>>

BaseNext ==
    /\ Decides /\ strategy # "hold"
    /\ \E score \in -2..2 : Decision(score)

\* BuyAndHoldStrategy.next, which keeps no self.order
HoldNext ==
    /\ Decides /\ strategy = "hold"
    /\ IF position = 0 THEN EnterPosition(1) ELSE UNCHANGED <<orders, stops>>
    /\ UNCHANGED done

Next ==
    \/ \E p \in Prices : NewBar(p)
    \/ Completes \/ Refused \/ StaysPending
    \/ BaseNext \/ HoldNext

Spec == Init /\ [][Next]_btVars
=============================================================================
