------------------------------ MODULE OrderPlan ------------------------------
(***************************************************************************)
(* The pure part of the execution pipeline, Signal -> SignalTarget ->      *)
(* OrderPlan: execution/targets.py and execution/order_plan.py.            *)
(*                                                                         *)
(* Quantities and positions are whole shares; a short position is          *)
(* negative.  Symbol, market, strategy name, notes and client order ids    *)
(* are left out: nothing below depends on them.                            *)
(***************************************************************************)
EXTENDS Integers

Sides == {"buy", "sell"}

Signals == {"BUY", "SELL", "CLOSE", "HOLD"}

Magnitude(n) == IF n >= 0 THEN n ELSE -n

Larger(a, b) == IF a >= b THEN a ELSE b

\* The change of position that n shares on a side make.
Signed(side, n) == IF side = "buy" THEN n ELSE -n

(***************************************************************************)
(* signal_to_target.  HOLD and unknown signals have no target.             *)
(***************************************************************************)
HasTarget(signal) == signal \in {"BUY", "SELL", "CLOSE"}

TargetQty(signal, orderQty, position) ==
  CASE signal = "BUY"   -> orderQty
    [] signal = "SELL"  -> IF position > 0 THEN position ELSE orderQty
    [] signal = "CLOSE" -> Magnitude(position)

(***************************************************************************)
(* _round_to_lot: down to a multiple of the lot, but never below one lot   *)
(* (one share when the market has no lots).                                *)
(***************************************************************************)
RoundToLot(qty, lot) ==
  IF lot <= 1 THEN Larger(1, qty) ELSE Larger(lot, (qty \div lot) * lot)

\* build_order_plan, quantity and side: every signal but BUY is a sale.
BuildOrderPlan(signal, targetQty, lot) ==
  [side |-> IF signal = "BUY" THEN "buy" ELSE "sell",
   qty  |-> RoundToLot(targetQty, lot)]

\* A close plan sized like an entry, by the lot.
CloseByLot(position) ==
  [side |-> IF position > 0 THEN "sell" ELSE "buy",
   qty  |-> RoundToLot(Magnitude(position), 2)]

\* build_close_plan: a market order for the whole position, not rounded.
BuildClosePlan(position) ==
  [side |-> IF position > 0 THEN "sell" ELSE "buy",
   qty  |-> Magnitude(position)]
==============================================================================
