--------------------------- MODULE RiskGate_proofs ---------------------------
(***************************************************************************)
(* Proofs about RiskGate, for every quantity, lot, limit, set of prices    *)
(* and window of the histories, and for both ways to trade.                *)
(***************************************************************************)
EXTENDS RiskGate, SequenceTheorems, TLAPS

----------------------------------------------------------------------------
(* Lots *)

\* The quotient rounded down, multiplied back, is less than one divisor short.
LEMMA Quotient ==
  ASSUME NEW q \in Nat, NEW d \in Nat \ {0}
  PROVE  /\ q \div d \in Nat
         /\ (q \div d) * d <= q
         /\ q < (q \div d) * d + d
<1>1. q \div d \in Int /\ q \div d >= 0
  OBVIOUS
<1>2. q = d * (q \div d) + (q % d)
  OBVIOUS
<1>3. q % d \in 0..(d-1)
  OBVIOUS
<1> QED BY <1>1, <1>2, <1>3

\* _round_to_lot keeps what its callers count on: the quantity it returns is a
\* positive whole number of lots (of shares where the market has none), it is
\* more than was asked for only when less than one lot was, and it falls short
\* by less than a lot.
THEOREM LotRounding ==
  ASSUME NEW qty \in Nat \ {0}, NEW lot \in Nat
  PROVE  LET size == Larger(1, lot)
             rounded == RoundToLot(qty, lot)
         IN  /\ \E lots \in Nat \ {0} : rounded = lots * size
             /\ rounded <= Larger(qty, size)
             /\ qty < rounded + size
<1>1. CASE lot <= 1
  BY <1>1 DEF RoundToLot, Larger
<1>2. CASE lot > 1
  <2> DEFINE lots == qty \div lot
  <2>1. lots \in Nat /\ lots * lot <= qty /\ qty < lots * lot + lot
    BY <1>2, Quotient
  <2> HIDE DEF lots
  <2>2. Larger(1, lot) = lot /\ RoundToLot(qty, lot) = Larger(lot, lots * lot)
    BY <1>2 DEF RoundToLot, Larger, lots
  <2>3. CASE lots = 0
    BY <1>2, <2>1, <2>2, <2>3 DEF Larger
  <2>4. CASE lots > 0
    <3>1. lots * lot >= lot
      BY <1>2, <2>1, <2>4
    <3>2. lots * lot \in Nat
      BY <2>1
    <3> QED
      BY <1>2, <2>1, <2>2, <2>4, <3>1, <3>2 DEF Larger
  <2> QED
    BY <2>1, <2>3, <2>4
<1> QED
  BY <1>1, <1>2

USE RiskAssumption

----------------------------------------------------------------------------
(* Arithmetic *)

LEMMA Ratios ==
  /\ MaxExposure[1] \in Nat /\ MaxExposure[2] \in Nat /\ MaxExposure[2] > 0
  OBVIOUS

LEMMA EntryIsNat == EntryQty \in Nat
<1>1. CASE LotSize <= 1
  BY <1>1 DEF EntryQty, RoundToLot, Larger
<1>2. CASE LotSize > 1
  <2>1. (OrderQty \div LotSize) * LotSize \in Int
    BY <1>2
  <2> QED
    BY <1>2, <2>1 DEF EntryQty, RoundToLot, Larger
<1> QED
  BY <1>1, <1>2

LEMMA ExcessType ==
  LotExcess \in Nat /\ (backend = "broker" => EntryQty - LotExcess <= OrderQty)
  BY EntryIsNat DEF LotExcess

\* A smaller position of the same price is within the same limit.
LEMMA Scaled ==
  ASSUME NEW a \in Int, NEW b \in Int, NEW p \in Nat, NEW d \in Nat, a <= b
  PROVE  a * p * d <= b * p * d
<1>1. \A x, y \in Int : \A k \in Nat : x <= y => x * k <= y * k
  <2> SUFFICES ASSUME NEW x \in Int, NEW y \in Int, NEW k \in Nat, x <= y
               PROVE  0 <= (y - x) * k
    OBVIOUS
  <2>1. y - x \in Nat
    OBVIOUS
  <2>2. \A m, n \in Nat : 0 <= m * n
    OBVIOUS
  <2> QED
    BY <2>1, <2>2
<1>2. a * p \in Int /\ b * p \in Int /\ a * p <= b * p
  BY <1>1
<1> QED
  BY <1>1, <1>2

\* What is bought at the price adds nothing to the equity.
LEMMA EquityKept ==
  ASSUME NEW c \in Int, NEW h \in Int, NEW q \in Int, NEW p \in Int
  PROVE  (c - q * p) + (h + q) * p = c + h * p
  OBVIOUS

LEMMA PlanType ==
  ASSUME NEW signal \in {"BUY", "SELL", "CLOSE"}, tracked \in Int
  PROVE  /\ PlanQty(signal) \in Int
         /\ signal = "CLOSE" => PlanQty(signal) = -tracked
         /\ signal # "CLOSE" => Magnitude(PlanQty(signal)) = EntryQty
<1>1. CASE signal = "CLOSE"
  BY <1>1 DEF PlanQty, BuildClosePlan, Signed, Magnitude
<1>2. CASE signal # "CLOSE"
  <2>1. PlanQty(signal) = IF signal = "BUY" THEN EntryQty ELSE -EntryQty
    BY <1>2 DEF PlanQty, BuildOrderPlan, Signed, EntryQty
  <2> QED
    BY <1>2, <2>1, EntryIsNat DEF Magnitude
<1> QED
  BY <1>1, <1>2

----------------------------------------------------------------------------
(* Types *)

LEMMA RememberType ==
  ASSUME NEW S, NEW s \in Seq(S), NEW x \in S, Len(s) <= Window
  PROVE  /\ Remember(s, x) \in Seq(S)
         /\ Len(Remember(s, x)) = IF Len(s) < Window THEN Len(s) + 1 ELSE Window
<1>1. CASE Len(s) < Window
  BY <1>1, AppendProperties DEF Remember
<1>2. CASE Len(s) = Window
  <2>1. SubSeq(s, 2, Len(s)) \in Seq(S) /\ Len(SubSeq(s, 2, Len(s))) = Len(s) - 1
    BY <1>2, SubSeqProperties
  <2> QED
    BY <1>2, <2>1, AppendProperties DEF Remember
<1> QED
  BY <1>1, <1>2

LEMMA BeginType ==
  ASSUME NEW q \in Int, Begin(q)
  PROVE  /\ work' \in Work /\ work'.busy /\ work'.qty = q
         /\ work'.exact => tracked = held /\ PortfolioValue = Equity
<1>1. (tracked = held /\ PortfolioValue = Equity) \in BOOLEAN
  OBVIOUS
<1> QED
  BY <1>1 DEF Begin, Work

LEMMA RiskTypeInit == Init => TypeOK
<1> SUFFICES ASSUME Init PROVE TypeOK
  OBVIOUS
<1>1. NoWork \in Work
  BY DEF NoWork, Work
<1>2. prices \in Seq(Prices) /\ volumes \in Seq(Volumes)
      /\ Len(prices) = 0 /\ Len(volumes) = 0
  BY DEF Init
<1> QED
  BY <1>1, <1>2 DEF Init, TypeOK

LEMMA FillType ==
  ASSUME TypeOK, NEW q \in Int, Fill(q), work' \in Work PROVE TypeOK'
<1>1. q * price \in Int
  BY DEF TypeOK
<1>2. held' \in Int /\ cash' \in Int /\ tracked' \in Int
  BY <1>1 DEF TypeOK, Fill
<1> QED
  BY <1>2 DEF TypeOK, Fill, manager

LEMMA MoveType == ASSUME TypeOK, Move PROVE moves' \in 0..MaxMoves
  BY DEF TypeOK, Move

LEMMA RiskTypeStep == TypeOK /\ [Next]_vars => TypeOK'
<1> SUFFICES ASSUME TypeOK, [Next]_vars PROVE TypeOK'
  OBVIOUS
<1> USE DEF manager, account
<1>1. NoWork \in Work /\ work.qty \in Int /\ (held * price) \in Int
  BY DEF NoWork, Work, TypeOK
<1>2. ASSUME NEW p \in Prices, NEW v \in Volumes, UpdateMarketData(p, v)
      PROVE  TypeOK'
  <2>1. /\ prices' \in Seq(Prices) /\ volumes' \in Seq(Volumes)
        /\ Len(prices') = Len(volumes') /\ Len(prices') <= Window
    <3>1. prices' = Remember(prices, p) /\ volumes' = Remember(volumes, v)
      BY <1>2 DEF UpdateMarketData
    <3>2. /\ Remember(prices, p) \in Seq(Prices)
          /\ Len(Remember(prices, p))
                = IF Len(prices) < Window THEN Len(prices) + 1 ELSE Window
      BY RememberType DEF TypeOK
    <3>3. /\ Remember(volumes, v) \in Seq(Volumes)
          /\ Len(Remember(volumes, v))
                = IF Len(volumes) < Window THEN Len(volumes) + 1 ELSE Window
      BY RememberType DEF TypeOK
    <3>4. Len(prices) = Len(volumes) /\ Len(prices) <= Window /\ Len(prices) \in Nat
      BY DEF TypeOK
    <3> QED
      BY <3>1, <3>2, <3>3, <3>4
  <2>2. moves' \in 0..MaxMoves
    BY <1>2, MoveType DEF UpdateMarketData
  <2> QED
    BY <1>2, <2>1, <2>2 DEF UpdateMarketData, TypeOK
<1>3. CASE Trade
  <2>1. PICK q \in Int : Begin(q)
    <3>1. PICK signal \in SignalsAt(tracked) :
            Begin(PlanQty(signal)) \/ Begin(EngineTarget(signal))
      BY <1>3 DEF Trade
    <3>2. PlanQty(signal) \in Int /\ EngineTarget(signal) \in Int
      BY <3>1, PlanType DEF SignalsAt, EngineTarget, TypeOK
    <3> QED
      BY <3>1, <3>2
  <2>2. work' \in Work
    BY <2>1, BeginType
  <2>3. trades' \in 0..MaxTrades
    BY <1>3 DEF Trade, TypeOK
  <2> QED
    BY <1>3, <2>2, <2>3 DEF Trade, TypeOK
<1>4. CASE BrokerFills
  BY <1>1, <1>4, FillType DEF BrokerFills
<1>5. CASE EngineFills
  <2>1. PICK q \in Int : Fill(q)
    BY <1>5 DEF EngineFills
  <2> QED
    BY <1>5, <2>1, FillType DEF EngineFills, TypeOK
<1>6. CASE WorkEnds
  BY <1>1, <1>6 DEF WorkEnds, TypeOK
<1>7. CASE Refresh \/ RefreshFails
  <2>1. value' \in Int /\ tracked' \in Int
    <3>1. Equity \in Int /\ value \in Int /\ held \in Int /\ 0 \in Int
      BY <1>1 DEF Equity, TypeOK
    <3>2. value' \in {value, Equity} /\ tracked' \in {held, 0}
      BY <1>7 DEF Refresh, RefreshFails
    <3> QED
      BY <3>1, <3>2
  <2>2. moves' \in 0..MaxMoves
    BY <1>7, MoveType DEF Refresh, RefreshFails, TypeOK
  <2> QED
    BY <1>7, <2>1, <2>2 DEF Refresh, RefreshFails, TypeOK
<1>8. CASE PriceMoves
  <2>1. work' \in Work
    BY <1>8 DEF PriceMoves, TypeOK, Work
  <2>2. moves' \in 0..MaxMoves
    BY <1>8, MoveType DEF PriceMoves
  <2> QED
    BY <1>8, <2>1, <2>2 DEF PriceMoves, TypeOK
<1>9. CASE UNCHANGED vars
  BY <1>9 DEF vars, TypeOK
<1> QED
  BY <1>2, <1>3, <1>4, <1>5, <1>6, <1>7, <1>8, <1>9 DEF Next

\* The loop, the manager and the account stay within their types; the two
\* histories have one length, var_window at most.
THEOREM RiskTypes == Spec => []TypeOK
  BY RiskTypeInit, RiskTypeStep, PTL DEF Spec

(***************************************************************************)
(* The execution engine                                                    *)
(***************************************************************************)
Target == backend = "qee" =>
             /\ held \in 0..OrderQty
             /\ work.busy => work.qty \in 0..OrderQty

LEMMA SameBackend == ASSUME [Next]_vars PROVE backend' = backend
<1>1. Trade => backend' = backend
  BY DEF Trade
<1>2. \A q : Fill(q) => backend' = backend
  BY DEF Fill
<1>3. \A p \in Prices, v \in Volumes : UpdateMarketData(p, v) => backend' = backend
  BY DEF UpdateMarketData
<1> QED
  BY <1>1, <1>2, <1>3
  DEF Next, vars, BrokerFills, EngineFills, WorkEnds, Refresh, RefreshFails,
      PriceMoves

LEMMA TargetStep == TypeOK /\ Target /\ [Next]_vars => Target'
<1> SUFFICES ASSUME TypeOK, Target, [Next]_vars PROVE Target'
  OBVIOUS
<1> SUFFICES ASSUME backend = "qee" PROVE Target'
  BY SameBackend DEF Target
<1> USE DEF account
<1>1. CASE Trade
  <2>1. PICK q \in {0, OrderQty} : Begin(q)
    BY <1>1 DEF Trade, EngineTarget
  <2>2. work'.qty = q /\ q \in 0..OrderQty
    BY <2>1, BeginType
  <2> QED
    BY <1>1, <2>2 DEF Trade, Target
<1>2. CASE EngineFills
  <2>1. held' = held + (IF held < work.qty THEN 1 ELSE -1) /\ work' = work
    BY <1>2 DEF EngineFills, Fill
  <2>2. held' \in 0..OrderQty
    BY <1>2, <2>1 DEF EngineFills, Target
  <2> QED
    BY <2>1, <2>2 DEF Target
<1>3. CASE WorkEnds
  BY <1>3 DEF WorkEnds, NoWork, Target
<1>4. CASE PriceMoves
  <2>1. work'.busy = work.busy /\ work'.qty = work.qty
    BY <1>4 DEF PriceMoves, TypeOK, Work
  <2> QED
    BY <1>4, <2>1 DEF PriceMoves, Target
<1> QED
  BY <1>1, <1>2, <1>3, <1>4
  DEF Next, vars, UpdateMarketData, BrokerFills, Refresh, RefreshFails, Target

LEMMA TargetInit == Init => Target
  BY DEF Init, Target, NoWork

\* Through the execution engine the account never holds less than nothing nor
\* more than one entry, whatever the loop believes about it.
THEOREM EngineHoldsOneEntry == Spec => []EngineWithinEntry
<1>1. Target => EngineWithinEntry
  BY DEF Target, EngineWithinEntry
<1> QED
  BY <1>1, RiskTypes, TargetInit, TargetStep, PTL DEF Spec

(***************************************************************************)
(* The checks hold for the fills of what they let pass.                    *)
(***************************************************************************)
Within(n) == n * price * MaxExposure[2] <= MaxExposure[1] * Equity

Checked ==
    work.exact =>
        /\ work.busy
        /\ backend = "broker" => Within(Magnitude(held + work.qty) - LotExcess)
        /\ backend = "qee" => Within(OrderQty)

LEMMA SmallerIsWithin ==
  ASSUME TypeOK, NEW a \in Int, NEW b \in Int, a <= b, Within(b)
  PROVE  Within(a)
<1>1. price \in Nat /\ Equity \in Int
  <2>1. held * price \in Int /\ price \in Nat
    BY DEF TypeOK
  <2> QED
    BY <2>1 DEF TypeOK, Equity
<1>2. a * price * MaxExposure[2] <= b * price * MaxExposure[2]
  BY <1>1, Scaled, Ratios
<1>3. /\ a * price * MaxExposure[2] \in Int /\ b * price * MaxExposure[2] \in Int
      /\ MaxExposure[1] * Equity \in Int
  BY <1>1, Ratios
<1> QED
  BY <1>2, <1>3 DEF Within

\* The checks with the account as it is
LEMMA PassedIsWithin ==
  ASSUME TypeOK, ExposurePasses, tracked = held, PortfolioValue = Equity
  PROVE  Within(Magnitude(held) + OrderQty)
  BY DEF ExposurePasses, Within

LEMMA CheckedTrade ==
  ASSUME TypeOK, Trade, work'.exact PROVE Checked'
<1>1. PICK signal \in SignalsAt(tracked) :
        /\ ExposurePasses
        /\ \/ backend = "broker" /\ Begin(PlanQty(signal))
           \/ backend = "qee" /\ Begin(EngineTarget(signal))
  BY DEF Trade, Passes
<1>2. /\ signal \in {"BUY", "SELL", "CLOSE"}
      /\ signal = "CLOSE" <=> tracked # 0
  BY <1>1 DEF SignalsAt
<1>3. UNCHANGED <<backend, price, cash, held>>
  BY DEF Trade, account
<1>4. held \in Int /\ tracked \in Int /\ backend \in {"broker", "qee"}
  BY DEF TypeOK
<1>5. PlanQty(signal) \in Int /\ EngineTarget(signal) \in Int
  BY <1>2, <1>4, PlanType DEF EngineTarget
<1>6. tracked = held /\ PortfolioValue = Equity /\ work'.busy
  BY <1>1, <1>5, BeginType
<1>7. Within(Magnitude(held) + OrderQty)
  BY <1>1, <1>6, PassedIsWithin
<1>8. Magnitude(held) \in Nat /\ LotExcess \in Nat
  BY <1>4, ExcessType DEF Magnitude
<1>9. CASE backend = "broker"
  <2>1. work'.qty = PlanQty(signal)
    BY <1>1, <1>5, <1>9, BeginType
  <2>2. Magnitude(held + PlanQty(signal)) - LotExcess \in Int
    BY <1>4, <1>5, <1>8 DEF Magnitude
  <2>3. Magnitude(held + PlanQty(signal)) - LotExcess <= Magnitude(held) + OrderQty
    <3>1. CASE signal = "CLOSE"
      <4>1. held + PlanQty(signal) = 0
        BY <1>2, <1>4, <1>6, <3>1, PlanType
      <4> QED
        BY <1>8, <4>1 DEF Magnitude
    <3>2. CASE signal # "CLOSE"
      <4>1. held = 0 /\ Magnitude(PlanQty(signal)) = EntryQty
        BY <1>2, <1>4, <1>6, <3>2, PlanType
      <4>2. held + PlanQty(signal) = PlanQty(signal)
        BY <1>5, <4>1
      <4>3. EntryQty - LotExcess <= OrderQty
        BY <1>9, ExcessType
      <4> QED
        BY <1>8, <4>1, <4>2, <4>3, EntryIsNat
    <3> QED
      BY <3>1, <3>2
  <2>4. Within(Magnitude(held + PlanQty(signal)) - LotExcess)
    BY <1>7, <1>8, <2>2, <2>3, SmallerIsWithin
  <2> QED
    BY <1>3, <1>6, <1>9, <2>1, <2>4 DEF Checked, Within, Equity, LotExcess
<1>10. CASE backend = "qee"
  <2>1. Within(OrderQty)
    BY <1>7, <1>8, SmallerIsWithin
  <2> QED
    BY <1>3, <1>6, <1>10, <2>1 DEF Checked, Within, Equity
<1> QED
  BY <1>4, <1>9, <1>10

LEMMA CheckedStep == TypeOK /\ Checked /\ Target /\ [Next]_vars => Checked'
<1> SUFFICES ASSUME TypeOK, Checked, Target, [Next]_vars, work'.exact
             PROVE  Checked'
  BY DEF Checked
<1> USE DEF account
<1>1. CASE Trade
  BY <1>1, CheckedTrade
<1>2. ASSUME work' = work, UNCHANGED <<backend, price, cash, held>>
      PROVE  Checked'
  BY <1>2 DEF Checked, Within, Equity, LotExcess
<1>3. BrokerFills \/ WorkEnds => ~work'.exact
  BY DEF BrokerFills, WorkEnds, NoWork
<1>4. CASE EngineFills
  <2>1. /\ UNCHANGED <<backend, price, work>> /\ backend = "qee"
        /\ \E q \in Int : held' = held + q /\ cash' = cash - q * price
    BY <1>4 DEF EngineFills, Fill
  <2>2. Equity' = Equity
    <3>1. PICK q \in Int : held' = held + q /\ cash' = cash - q * price
      BY <2>1
    <3>2. (cash - q * price) + (held + q) * price = cash + held * price
      BY <3>1, EquityKept DEF TypeOK
    <3> QED
      BY <2>1, <3>1, <3>2 DEF Equity
  <2> QED
    BY <2>1, <2>2 DEF Checked, Within
<1>5. PriceMoves => ~work'.exact
  BY DEF PriceMoves, TypeOK, Work
<1> QED
  BY <1>1, <1>2, <1>3, <1>4, <1>5
  DEF Next, vars, UpdateMarketData, Refresh, RefreshFails

LEMMA CheckedInit == Init => Checked
  BY DEF Init, Checked, NoWork

\* A fill of what the checks let pass, when the loop knew the account and the
\* price stays, is within the limit and the lot it was rounded up to.
THEOREM FillsAreWithin == Spec => ExactChecksHold
<1>1. TypeOK /\ Checked /\ Target /\ Target' /\ [Next]_vars
        => [work.exact /\ held' # held => WithinLimit(held', Equity')]_vars
  <2> SUFFICES ASSUME TypeOK, Checked, Target, Target', [Next]_vars, work.exact,
                      held' # held
               PROVE  WithinLimit(held', Equity')
    OBVIOUS
  <2>1. ASSUME NEW q \in Int, Fill(q), Within(Magnitude(held + q) - LotExcess)
        PROVE  WithinLimit(held', Equity')
    <3>1. held' = held + q /\ cash' = cash - q * price /\ price' = price
      BY <2>1 DEF Fill
    <3>2. (cash - q * price) + (held + q) * price = cash + held * price
      BY EquityKept DEF TypeOK
    <3>3. Equity' = Equity
      BY <3>1, <3>2 DEF Equity
    <3> QED
      BY <2>1, <3>1, <3>3 DEF WithinLimit, Within
  <2>2. CASE BrokerFills
    BY <2>1, <2>2 DEF BrokerFills, Checked, TypeOK, Work
  <2>3. CASE EngineFills
    <3>1. PICK q \in Int : Fill(q)
      BY <2>3 DEF EngineFills
    <3>2. held' = held + q /\ held' \in 0..OrderQty /\ LotExcess \in Nat
      BY <2>3, <3>1, SameBackend, ExcessType DEF Fill, EngineFills, Target
    <3>3. /\ Magnitude(held + q) - LotExcess \in Int
          /\ Magnitude(held + q) - LotExcess <= OrderQty
      BY <3>2 DEF Magnitude
    <3>4. Within(OrderQty)
      BY <2>3 DEF Checked, EngineFills
    <3>5. Within(Magnitude(held + q) - LotExcess)
      BY <3>3, <3>4, SmallerIsWithin
    <3> QED
      BY <2>1, <3>1, <3>5
  <2> QED
    BY <2>2, <2>3
    DEF Next, vars, account, UpdateMarketData, Trade, WorkEnds, Refresh,
        RefreshFails, PriceMoves
<1>2. Spec => [](TypeOK /\ Checked /\ Target)
  BY RiskTypeInit, RiskTypeStep, TargetInit, TargetStep, CheckedInit,
     CheckedStep, PTL DEF Spec
<1> QED
  BY <1>1, <1>2, PTL DEF Spec, ExactChecksHold

(***************************************************************************)
(* What the checks keep the program from doing                             *)
(***************************************************************************)
\* A position over the limit is left neither by a CLOSE nor by anything else
\* the loop sends: whatever is sent passes the checks of an entry first.  A
\* refresh of what is known already changes nothing.
THEOREM NoWayOut == Spec => OverLimitIsStuck
<1>1. TypeOK /\ [Next]_vars
        => [Stuck => /\ held' = held
                     /\ Stuck' \/ price' # price
                               \/ (tracked' = 0 /\ held # 0)]_vars
  <2> SUFFICES ASSUME TypeOK, [Next]_vars, Stuck
               PROVE  /\ held' = held
                      /\ Stuck' \/ price' # price \/ (tracked' = 0 /\ held # 0)
    OBVIOUS
  <2>1. ~Trade /\ ~BrokerFills /\ ~EngineFills /\ ~WorkEnds
    BY DEF Stuck, Trade, Passes, BrokerFills, EngineFills, WorkEnds
  <2>2. CASE PriceMoves
    BY <2>2 DEF PriceMoves, TypeOK
  <2>3. ASSUME UNCHANGED <<account, work>>, tracked' = tracked,
               value' = value \/ value' = Equity
        PROVE  Stuck'
    <3>1. Equity' = Equity /\ PortfolioValue' = PortfolioValue
      BY <2>3 DEF account, Equity, PortfolioValue, Stuck
    <3> QED
      BY <2>3, <3>1 DEF Stuck, ExposurePasses, account
  <2>4. CASE Refresh
    BY <2>3, <2>4 DEF Refresh, Stuck, account
  <2>5. CASE RefreshFails
    <3>1. tracked' = tracked \/ (tracked' = 0 /\ held # 0)
      BY <2>5 DEF RefreshFails, Stuck
    <3> QED
      BY <2>3, <2>5, <3>1 DEF RefreshFails, account
  <2>6. CASE (\E p \in Prices, v \in Volumes : UpdateMarketData(p, v))
             \/ UNCHANGED vars
    BY <2>3, <2>6 DEF UpdateMarketData, vars, account
  <2> QED
    BY <2>1, <2>2, <2>3, <2>4, <2>5, <2>6 DEF Next, Refresh, RefreshFails, account
<1> QED
  BY <1>1, RiskTypes, PTL DEF Spec, OverLimitIsStuck
=============================================================================
