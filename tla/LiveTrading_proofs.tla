------------------------- MODULE LiveTrading_proofs --------------------------
(***************************************************************************)
(* Proofs about LiveTrading, for every value of its constants.             *)
(***************************************************************************)
EXTENDS LiveTrading, TLAPS, SequenceTheorems

\* RoundToLot never returns less than one share: every entry order asks for
\* something, whatever the lot of the market.
LEMMA RoundToLotPositive ==
  ASSUME NEW qty \in Nat, NEW lot \in Nat
  PROVE  RoundToLot(qty, lot) \in Nat \ {0}
<1>1. CASE lot <= 1
  BY <1>1 DEF RoundToLot, Larger
<1>2. CASE lot > 1
  <2>1. (qty \div lot) * lot \in Int
    BY <1>2
  <2> QED
    BY <1>2, <2>1 DEF RoundToLot, Larger
<1> QED
  BY <1>1, <1>2

LEMMA EntryQtyPositive == EntryQty \in Nat \ {0}
  BY RoundToLotPositive, ConstantsAssumption DEF EntryQty

\* The quantity of the order a signal leads to, and its side.
Plan(signal) ==
  IF signal = "CLOSE" THEN BuildClosePlan(position)
  ELSE BuildOrderPlan(signal, TargetQty(signal, OrderQty, position), LotSize)

LEMMA PlanType ==
  ASSUME NEW signal \in {"BUY", "SELL", "CLOSE"}, position \in Int
  PROVE  Plan(signal) \in [side : Sides, qty : Nat]
<1>1. CASE signal = "CLOSE"
  BY <1>1 DEF Plan, BuildClosePlan, Magnitude, Sides
<1>2. CASE signal # "CLOSE"
  <2>1. TargetQty(signal, OrderQty, position) \in Nat
    BY <1>2, ConstantsAssumption DEF TargetQty
  <2>2. RoundToLot(TargetQty(signal, OrderQty, position), LotSize) \in Nat
    BY <2>1, RoundToLotPositive, ConstantsAssumption
  <2> QED
    BY <1>2, <2>2 DEF Plan, BuildOrderPlan, Sides
<1> QED
  BY <1>1, <1>2

-----------------------------------------------------------------------------
(* Type correctness. *)

LEMMA TypeInit == Init => TypeOK
<1> SUFFICES ASSUME Init PROVE TypeOK
  OBVIOUS
<1>1. Unused \in Order
  BY DEF Unused, Order, Sides
<1>2. order \in [OrderIds -> Order]
  BY <1>1 DEF Init
<1>3. stream \in Seq(Update)
  BY DEF Init
<1>5. \A o \in OrderIds : order[o].status = "unused" <=> o > placed
  BY ConstantsAssumption DEF Init, Unused, OrderIds
<1>4. brokerPos \in Int /\ position \in Int
  BY ConstantsAssumption, EntryQtyPositive DEF Init
<1> QED
  BY <1>2, <1>3, <1>4, <1>5, ConstantsAssumption
  DEF Init, TypeOK, NoOrder, Working, Terminal

LEMMA PushType ==
  ASSUME stream \in Seq(Update), NEW u \in Update, Push(u)
  PROVE  stream' \in Seq(Update)
  BY DEF Push

\* An order keeps its type when the broker works it.
LEMMA WorkedOrder ==
  ASSUME NEW r \in Order, NEW status \in Working \union Terminal,
         NEW filled \in Nat
  PROVE  /\ [r EXCEPT !.status = status, !.filled = filled] \in Order
         /\ [r EXCEPT !.status = status, !.filled = filled].status = status
  BY DEF Order

LEMMA TypeStep == TypeOK /\ [Next]_vars => TypeOK'
<1> SUFFICES ASSUME TypeOK, [Next]_vars PROVE TypeOK'
  OBVIOUS
<1> USE ConstantsAssumption, EntryQtyPositive
<1>1. ASSUME NEW o \in OrderIds, NEW n \in 1..EntryQty, BrokerFill(o, n)
      PROVE  TypeOK'
  <2> DEFINE status == IF order[o].filled + n = order[o].qty
                       THEN "filled" ELSE "partially_filled"
             delta == Signed(order[o].side, n)
  <2>1. order[o] \in Order /\ n \in Nat
    BY DEF TypeOK
  <2>2. status \in Working \union Terminal /\ delta \in Int
    BY <2>1 DEF Working, Terminal, Signed
  <2> DEFINE filledOrder == [order[o] EXCEPT !.status = status,
                                  !.filled = order[o].filled + n]
  <2>3. /\ order' = [order EXCEPT ![o] = filledOrder]
        /\ filledOrder \in Order /\ filledOrder.status # "unused"
        /\ order[o].status # "unused"
    <3>1. order' = [order EXCEPT ![o].status = status,
                                 ![o].filled = order[o].filled + n]
      BY <1>1 DEF BrokerFill
    <3>2. order' = [order EXCEPT ![o] = filledOrder]
      BY <3>1, <2>1 DEF TypeOK, Order
    <3>3. order[o].filled + n \in Nat
      BY <2>1 DEF Order
    <3>6. \A s \in Working \union Terminal :
            LET r == [order[o] EXCEPT !.status = s,
                                      !.filled = order[o].filled + n]
            IN r \in Order /\ r.status = s
      BY <2>1, <3>3, WorkedOrder
    <3>4. filledOrder \in Order /\ filledOrder.status = status
      BY <2>2, <3>6
    <3>5. status # "unused" /\ order[o].status # "unused"
      BY <1>1 DEF Working, BrokerFill, IsOpen
    <3> QED
      BY <3>2, <3>4, <3>5
  <2>31. /\ order' \in [OrderIds -> Order]
         /\ \A p \in OrderIds : order'[p].status = "unused" <=> p > placed'
    BY <1>1, <2>3 DEF TypeOK, BrokerFill
  <2>4. [order |-> o, status |-> status, total |-> order[o].filled + n,
         delta |-> delta, before |-> brokerPos] \in Update
    <3>1. order[o].filled + n \in Nat
      BY <2>1 DEF Order
    <3> QED
      BY <2>2, <3>1 DEF Update, TypeOK
  <2>5. stream' \in Seq(Update)
    BY <1>1, <2>4, PushType DEF BrokerFill, TypeOK
  <2>6. brokerPos' \in Int
    BY <1>1, <2>2 DEF BrokerFill, TypeOK
  <2> QED
    BY <1>1, <2>31, <2>5, <2>6 DEF BrokerFill, TypeOK
<1>2. ASSUME NEW o \in OrderIds, NEW status \in Terminal, EndOrder(o, status)
      PROVE  /\ order' \in [OrderIds -> Order]
             /\ \A p \in OrderIds : order'[p].status = "unused" <=> p > placed
             /\ stream' \in Seq(Update)
             /\ UNCHANGED <<brokerPos, placed, connected>>
  <2>1. order[o] \in Order
    BY DEF TypeOK
  <2>2. /\ order' \in [OrderIds -> Order]
        /\ \A p \in OrderIds : order'[p].status = "unused" <=> p > placed
    <3>1. [order[o] EXCEPT !.status = status] \in Order
      BY <2>1 DEF Order
    <3>2. order' = [order EXCEPT ![o] = [order[o] EXCEPT !.status = status]]
      BY <1>2 DEF EndOrder
    <3>3. order[o].status # "unused" /\ status # "unused"
      BY <1>2 DEF EndOrder, IsOpen, Working, Terminal
    <3>4. [order[o] EXCEPT !.status = status].status = status
      BY <2>1 DEF Order
    <3> QED
      BY <3>1, <3>2, <3>3, <3>4 DEF TypeOK
  <2>3. [order |-> o, status |-> status, total |-> order[o].filled,
         delta |-> 0, before |-> brokerPos] \in Update
    <3>1. order[o].filled \in Nat
      BY <2>1 DEF Order
    <3> QED
      BY <3>1 DEF Update, TypeOK
  <2> QED
    BY <1>2, <2>2, <2>3, PushType DEF EndOrder, TypeOK
<1>3. ASSUME NEW o \in OrderIds, NEW status \in EndStatuses,
             BrokerEnd(o, status)
      PROVE  TypeOK'
  BY <1>2, <1>3 DEF BrokerEnd, TypeOK
<1>4. CASE HandleTradeUpdate
  <2>1. Head(stream) \in Update /\ stream' \in Seq(Update)
    BY <1>4 DEF HandleTradeUpdate, TypeOK
  <2>2. active' \in {NoOrder} \union 1..placed
    BY <1>4 DEF HandleTradeUpdate, TypeOK
  <2>3. position' \in Int
    BY <1>4, <2>1, SMTT(30)
    DEF HandleTradeUpdate, TypeOK, Update, FilledQty
  <2>4. streamStatus' \in Working \union Terminal \union {"none", "not_found"}
    BY <1>4, <2>1, SMTT(30)
    DEF HandleTradeUpdate, TypeOK, Update, StatusAfter
  <2>5. active' = NoOrder => streamStatus' = "none"
    BY <1>4, <2>1, SMTT(30)
    DEF HandleTradeUpdate, TypeOK, Update, StatusAfter, EndsActive, OrderIds,
        NoOrder
  <2>6. loop' = "refresh_order" => active' # NoOrder
    BY <1>4 DEF HandleTradeUpdate, LoopFree
  <2> QED
    BY <1>4, <2>1, <2>2, <2>3, <2>4, <2>5, <2>6 DEF HandleTradeUpdate, TypeOK
<1>5. ASSUME NEW signal \in Signals, Trade(signal)
      PROVE  TypeOK'
  <2> DEFINE o == placed + 1
  <2>1. signal \in {"BUY", "SELL", "CLOSE"} /\ Submit(Plan(signal))
    BY <1>5 DEF Trade, HasTarget, Plan
  <2>2. Plan(signal) \in [side : Sides, qty : Nat]
    BY <2>1, PlanType DEF TypeOK
  <2>3. o \in OrderIds /\ placed' = o /\ placed' \in 0..MaxOrders
    BY <2>1 DEF Submit, TypeOK, OrderIds
  <2>4. [status |-> "new", side |-> Plan(signal).side,
         qty |-> Plan(signal).qty, filled |-> 0] \in Order
    BY <2>2 DEF Order, Working, TypeOK
  <2>5. /\ order' \in [OrderIds -> Order]
        /\ \A p \in OrderIds : order'[p].status = "unused" <=> p > placed'
    <3> DEFINE new == [status |-> "new", side |-> Plan(signal).side,
                       qty |-> Plan(signal).qty, filled |-> 0]
    <3>1. order' = [order EXCEPT ![o] = new]
      BY <2>1 DEF Submit
    <3>2. new \in Order /\ new.status # "unused"
      BY <2>4
    <3>3. order \in [OrderIds -> Order]
      BY DEF TypeOK
    <3> HIDE DEF new
    <3>4. order' \in [OrderIds -> Order]
      BY <2>3, <3>1, <3>2, <3>3
    <3>5. ASSUME NEW p \in OrderIds
          PROVE  order'[p].status = "unused" <=> p > placed'
      <4>1. p \in Nat /\ placed \in Nat
        BY DEF OrderIds, TypeOK
      <4>2. CASE p = o
        <5>1. order'[p] = new
          BY <2>3, <3>1, <3>3, <4>2
        <5> QED
          BY <2>3, <3>2, <4>1, <4>2, <5>1
      <4>3. CASE p # o
        <5>1. order'[p] = order[p]
          BY <3>1, <3>3, <4>3
        <5>2. order[p].status = "unused" <=> p > placed
          BY DEF TypeOK
        <5> QED
          BY <2>3, <4>1, <4>3, <5>1, <5>2
      <4> QED
        BY <4>2, <4>3
    <3> QED
      BY <3>4, <3>5
  <2> DEFINE tracked == /\ active' = o
                        /\ streamStatus' = "none"
                        /\ autoCancel' = autoCancel \union
                                           (IF testMode THEN {o} ELSE {})
                        /\ UNCHANGED orphans
             lost == /\ Cardinality(orphans) < MaxLost
                     /\ orphans' = orphans \union {o}
                     /\ UNCHANGED <<active, streamStatus, autoCancel>>
             tracking == /\ active' \in {NoOrder} \union 1..placed'
                         /\ autoCancel' \subseteq 1..placed'
                         /\ orphans' \subseteq 1..placed'
                         /\ streamStatus' \in {"none", streamStatus}
                         /\ active' = NoOrder => streamStatus' = "none"
  <2>6. tracking
    <3>1. tracked \/ lost
      BY <2>1 DEF Submit
    <3>2. o \in 1..placed' /\ 1..placed \subseteq 1..placed'
      BY <2>3 DEF TypeOK
    <3>3. CASE tracked
      BY <3>2, <3>3 DEF TypeOK, NoOrder
    <3>4. CASE lost
      BY <3>2, <3>4 DEF TypeOK, NoOrder
    <3> QED
      BY <3>1, <3>3, <3>4
  <2> QED
    BY <1>5, <2>3, <2>5, <2>6 DEF Trade, TypeOK
<1>6. ASSUME NEW answers \in BOOLEAN, RefreshPosition(answers)
      PROVE  TypeOK'
  BY <1>6 DEF RefreshPosition, RestCall, TypeOK, brokerVars
<1>7. ASSUME NEW answers \in BOOLEAN, RefreshOrder(answers)
      PROVE  TypeOK'
  <2>1. active \in OrderIds /\ order[active] \in Order
    BY <1>7 DEF RefreshOrder, TypeOK, OrderIds
  <2>2. order[active].status \in Working \union Terminal
    BY <1>7, <2>1 DEF Order, RefreshOrder, TypeOK, OrderIds, NoOrder
  <2>3. active' \in {NoOrder} \union 1..placed
    BY <1>7 DEF RefreshOrder, TypeOK
  <2>4. RestStatus(answers) \in Working \union Terminal \union {"not_found"}
    BY <2>2 DEF RestStatus
  <2>5. streamStatus' \in Working \union Terminal \union {"none", "not_found"}
    BY <1>7, <2>4 DEF RefreshOrder, TypeOK
  <2>6. active' = NoOrder => streamStatus' = "none"
    BY <1>7, <2>1 DEF RefreshOrder, TypeOK, OrderIds, NoOrder
  <2>7. restErrors' \in Nat
    BY <1>7 DEF RefreshOrder, RestCall, TypeOK
  <2> QED
    BY <1>7, <2>3, <2>5, <2>6, <2>7 DEF RefreshOrder, TypeOK, brokerVars
<1>8. ASSUME NEW o \in autoCancel, AutoCancel(o)
      PROVE  TypeOK'
  <2>1. o \in OrderIds /\ "canceled" \in Terminal
    BY DEF TypeOK, OrderIds, Terminal
  <2>2. restErrors' \in Nat
    BY <1>8 DEF AutoCancel, RestCall, TypeOK
  <2>3. CASE EndOrder(o, "canceled")
    BY <1>2, <1>8, <2>1, <2>2, <2>3 DEF AutoCancel, TypeOK
  <2>4. CASE UNCHANGED brokerVars
    BY <1>8, <2>2, <2>4 DEF AutoCancel, TypeOK, brokerVars
  <2> QED
    BY <1>8, <2>3, <2>4 DEF AutoCancel
<1>9. CASE Disconnect
  <2>1. stream' \in Seq(Update)
    BY <1>9 DEF Disconnect
  <2>2. drops' \in Nat
    BY <1>9 DEF Disconnect, TypeOK
  <2>3. connected' \in BOOLEAN /\ testMode' \in BOOLEAN /\ form' \in UpdateForms
    BY <1>9 DEF Disconnect, TypeOK
  <2>4. /\ loop' \in {"stopped", "wait"}
        /\ UNCHANGED <<position, active, streamStatus, autoCancel, order,
                        placed, brokerPos, orphans, restErrors>>
    BY <1>9 DEF Disconnect
  <2> QED
    BY <2>1, <2>2, <2>3, <2>4 DEF TypeOK
<1>10. CASE RestartLoop
  BY <1>10 DEF RestartLoop, TypeOK, brokerVars
<1>11. CASE Connect
  BY <1>11 DEF Connect, TypeOK
<1>12. CASE UNCHANGED vars
  BY <1>12 DEF vars, TypeOK
<1> QED
  BY <1>1, <1>3, <1>4, <1>5, <1>6, <1>7, <1>8, <1>9, <1>10, <1>11, <1>12
  DEF Next

\* The types of LiveTrading's variables: in particular, only an order that
\* was placed is ever tracked, and a status is kept only with an order.
THEOREM TypeCorrect == Spec => []TypeOK
  BY TypeInit, TypeStep, PTL DEF Spec

-----------------------------------------------------------------------------
(* One open order at a time. *)

(***************************************************************************)
(* OpenOrderIsTracked is not inductive: an update that says an order ended *)
(* could be about an order that is still worked.  What is in the stream    *)
(* must be true, and a tracked order must have had its answer.             *)
(***************************************************************************)
UpdatesTrue ==
  \A i \in 1..Len(stream) :
    /\ stream[i].order \in 1..placed
    /\ stream[i].status \in Terminal => ~IsOpen(stream[i].order)

TrackingInv ==
  /\ OpenOrderIsTracked
  /\ UpdatesTrue
  /\ active \notin orphans

\* An update in the stream after a push is the pushed one or an old one.
LEMMA PushedOrOld ==
  ASSUME stream \in Seq(Update), NEW u, Push(u)
  PROVE  \A i \in 1..Len(stream') :
           stream'[i] = u \/ (i \in 1..Len(stream) /\ stream'[i] = stream[i])
  BY DEF Push

\* What BrokerFill and EndOrder do to an order: it stays placed, it is open
\* afterwards only if it was, and the update tells whether it is.
BrokerEvent(o) ==
  /\ IsOpen(o)
  /\ \A p \in OrderIds \ {o} : order'[p] = order[p]
  /\ stream' = IF connected
               THEN Append(stream, [order |-> o, status |-> order'[o].status,
                                    total |-> order'[o].filled,
                                    delta |-> brokerPos' - brokerPos,
                                    before |-> brokerPos])
               ELSE stream
  /\ UNCHANGED <<placed, connected>>

LEMMA FillIsBrokerEvent ==
  ASSUME TypeOK, NEW o \in OrderIds, NEW n \in 1..EntryQty, BrokerFill(o, n)
  PROVE  /\ BrokerEvent(o)
         /\ order' = [order EXCEPT ![o] =
              [order[o] EXCEPT
                 !.status = IF order[o].filled + n = order[o].qty
                            THEN "filled" ELSE "partially_filled",
                 !.filled = order[o].filled + n]]
         /\ brokerPos' = brokerPos + Signed(order[o].side, n)
<1> DEFINE status == IF order[o].filled + n = order[o].qty
                     THEN "filled" ELSE "partially_filled"
           next == [order[o] EXCEPT !.status = status,
                                    !.filled = order[o].filled + n]
           delta == Signed(order[o].side, n)
<1>1. order[o] \in Order /\ n \in Nat /\ brokerPos \in Int
  BY EntryQtyPositive DEF TypeOK
<1>2. order' = [order EXCEPT ![o].status = status,
                             ![o].filled = order[o].filled + n]
  BY DEF BrokerFill
<1>3. order' = [order EXCEPT ![o] = next]
  BY <1>1, <1>2 DEF TypeOK, Order
<1>4. brokerPos' = brokerPos + delta /\ delta \in Int
  BY <1>1 DEF BrokerFill, Signed
<1>5. order'[o].status = status /\ order'[o].filled = order[o].filled + n
  BY <1>1, <1>3 DEF TypeOK, Order
<1>6. \A p \in OrderIds \ {o} : order'[p] = order[p]
  BY <1>3 DEF TypeOK
<1>7. delta = brokerPos' - brokerPos
  BY <1>1, <1>4
<1>8. /\ IsOpen(o)
      /\ UNCHANGED <<placed, connected>>
      /\ Push([order |-> o, status |-> status,
               total |-> order[o].filled + n, delta |-> delta,
               before |-> brokerPos])
  BY DEF BrokerFill
<1> HIDE DEF status, delta, next
<1>9. BrokerEvent(o)
  BY <1>5, <1>6, <1>7, <1>8 DEF BrokerEvent, Push
<1> QED
  BY <1>3, <1>4, <1>9 DEF status, delta, next

LEMMA EndIsBrokerEvent ==
  ASSUME TypeOK, NEW o \in OrderIds, NEW status \in Terminal,
         EndOrder(o, status)
  PROVE  /\ BrokerEvent(o)
         /\ order' = [order EXCEPT ![o] = [order[o] EXCEPT !.status = status]]
         /\ order'[o].status = status
         /\ UNCHANGED brokerPos
<1>1. order[o] \in Order /\ brokerPos \in Int
  BY DEF TypeOK
<1>2. /\ order' = [order EXCEPT ![o] = [order[o] EXCEPT !.status = status]]
      /\ IsOpen(o)
      /\ UNCHANGED <<brokerPos, placed, connected>>
      /\ Push([order |-> o, status |-> status, total |-> order[o].filled,
               delta |-> 0, before |-> brokerPos])
  BY DEF EndOrder
<1>3. order'[o].status = status /\ order'[o].filled = order[o].filled
  BY <1>1, <1>2 DEF TypeOK, Order
<1>4. \A p \in OrderIds \ {o} : order'[p] = order[p]
  BY <1>2 DEF TypeOK
<1>5. brokerPos' - brokerPos = 0
  BY <1>1, <1>2
<1>6. BrokerEvent(o)
  BY <1>2, <1>3, <1>4, <1>5 DEF BrokerEvent, Push
<1> QED
  BY <1>2, <1>3, <1>6

LEMMA BrokerEventTracking ==
  ASSUME TypeOK, TrackingInv, NEW o \in OrderIds, BrokerEvent(o),
         UNCHANGED <<active, orphans>>
  PROVE  TrackingInv'
<1> DEFINE u == [order |-> o, status |-> order'[o].status,
                 total |-> order'[o].filled,
                 delta |-> brokerPos' - brokerPos, before |-> brokerPos]
<1>1. \A p \in OrderIds : order'[p].status \in Working => IsOpen(p)
  BY DEF BrokerEvent, IsOpen
<1>2. OpenOrderIsTracked'
  BY <1>1 DEF TrackingInv, OpenOrderIsTracked, IsOpen
<1>4. o \in 1..placed /\ placed' = placed
  BY DEF BrokerEvent, IsOpen, TypeOK, OrderIds, Working
<1>3. ASSUME NEW i \in 1..Len(stream')
      PROVE  /\ stream'[i].order \in 1..placed
             /\ stream'[i].status \in Terminal
                  => order'[stream'[i].order].status \notin Working
  <2>1. CASE i \in 1..Len(stream) /\ stream'[i] = stream[i]
    <3>1. stream[i] \in Update
      BY <2>1 DEF TypeOK
    <3> QED
      BY <1>1, <1>3, <2>1, <3>1 DEF TrackingInv, UpdatesTrue, Update, IsOpen
  <2>2. CASE stream'[i] = u
    BY <1>3, <1>4, <2>2 DEF Working, Terminal
  <2>3. stream \in Seq(Update)
    BY DEF TypeOK
  <2>4. stream' = stream \/ stream' = Append(stream, u)
    BY DEF BrokerEvent
  <2> QED
    BY <2>1, <2>2, <2>3, <2>4
<1> QED
  BY <1>2, <1>3, <1>4 DEF TrackingInv, UpdatesTrue, IsOpen

LEMMA TrackingInit == Init => TrackingInv
<1> SUFFICES ASSUME Init PROVE TrackingInv
  OBVIOUS
<1>1. \A o \in OrderIds : order[o].status = "unused"
  BY DEF Init, Unused
<1>2. stream = << >> /\ orphans = {}
  BY DEF Init
<1> QED
  BY <1>1, <1>2
  DEF TrackingInv, OpenOrderIsTracked, UpdatesTrue, IsOpen, Working

LEMMA TrackingStep == TypeOK /\ TrackingInv /\ [Next]_vars => TrackingInv'
<1> SUFFICES ASSUME TypeOK, TrackingInv, [Next]_vars PROVE TrackingInv'
  OBVIOUS
<1> USE ConstantsAssumption
<1>1. ASSUME NEW o \in OrderIds, NEW n \in 1..EntryQty, BrokerFill(o, n)
      PROVE  TrackingInv'
  <2>1. UNCHANGED <<active, orphans>>
    BY <1>1 DEF BrokerFill
  <2> QED
    BY <1>1, <2>1, FillIsBrokerEvent, BrokerEventTracking
<1>2. ASSUME NEW o \in OrderIds, NEW status \in EndStatuses,
             BrokerEnd(o, status)
      PROVE  TrackingInv'
  <2>1. UNCHANGED <<active, orphans>> /\ EndOrder(o, status)
    BY <1>2 DEF BrokerEnd
  <2> QED
    BY <2>1, EndIsBrokerEvent, BrokerEventTracking
<1>3. CASE HandleTradeUpdate
  <2> DEFINE u == Head(stream)
  <2>1. /\ stream # << >> /\ stream' = Tail(stream)
        /\ active' = IF Readable /\ EndsActive(u) THEN NoOrder ELSE active
        /\ UNCHANGED <<order, orphans, placed>>
    BY <1>3 DEF HandleTradeUpdate
  <2>2. stream \in Seq(Update) /\ u \in Update /\ u = stream[1]
    BY <2>1 DEF TypeOK
  <2>3. EndsActive(u) => ~IsOpen(active)
    BY <2>1, <2>2 DEF EndsActive, TrackingInv, UpdatesTrue
  <2>4. OpenOrderIsTracked'
    BY <2>1, <2>3 DEF TrackingInv, OpenOrderIsTracked, IsOpen
  <2>5. UpdatesTrue'
    BY <2>1, <2>2 DEF TrackingInv, UpdatesTrue, IsOpen
  <2>6. active' \notin orphans'
    BY <2>1 DEF TrackingInv, TypeOK, NoOrder
  <2> QED
    BY <2>4, <2>5, <2>6 DEF TrackingInv
<1>4. ASSUME NEW signal \in Signals, Trade(signal)
      PROVE  TrackingInv'
  <2> DEFINE o == placed + 1
  <2>1. /\ active = NoOrder
        /\ \E plan : Submit(plan)
        /\ UNCHANGED stream
    BY <1>4 DEF Trade, MayTrade
  <2>2. /\ \A p \in OrderIds \ {o} : order'[p] = order[p]
        /\ o \in OrderIds /\ o \notin 1..placed
    BY <2>1 DEF Submit, TypeOK, OrderIds
  <2>3. \/ active' = o /\ orphans' = orphans
        \/ active' = active /\ orphans' = orphans \union {o}
    BY <2>1 DEF Submit
  <2>4. OpenOrderIsTracked'
    BY <2>1, <2>2, <2>3
    DEF TrackingInv, OpenOrderIsTracked, IsOpen, NoOrder, OrderIds
  <2>5. UpdatesTrue'
    <3>1. placed' = o /\ 1..placed \subseteq 1..placed'
      BY <2>1 DEF Submit, TypeOK
    <3>2. \A i \in 1..Len(stream) :
            /\ stream[i].order \in OrderIds \ {o}
            /\ stream[i].order \in 1..placed'
      BY <2>2, <3>1 DEF TrackingInv, UpdatesTrue, OrderIds, TypeOK
    <3> QED
      BY <2>1, <2>2, <3>2 DEF TrackingInv, UpdatesTrue, IsOpen
  <2>6. active' \notin orphans'
    <3>1. active \in {NoOrder} \union 1..placed /\ orphans \subseteq 1..placed
      BY DEF TypeOK
    <3> QED
      BY <2>1, <2>2, <2>3, <3>1 DEF NoOrder, OrderIds
  <2> QED
    BY <2>4, <2>5, <2>6 DEF TrackingInv
<1>5. ASSUME NEW answers \in BOOLEAN, RefreshPosition(answers)
      PROVE  TrackingInv'
  <2>1. UNCHANGED <<active, brokerVars, orphans>>
    BY <1>5 DEF RefreshPosition
  <2> QED
    BY <2>1
    DEF brokerVars, TrackingInv, OpenOrderIsTracked, UpdatesTrue, IsOpen
<1>6. ASSUME NEW answers \in BOOLEAN, RefreshOrder(answers)
      PROVE  TrackingInv'
  <2>1. UNCHANGED <<brokerVars, orphans>>
    BY <1>6 DEF RefreshOrder
  <2>2. CASE active' = active
    BY <2>1, <2>2
    DEF brokerVars, TrackingInv, OpenOrderIsTracked, UpdatesTrue, IsOpen
  <2>3. CASE active' = NoOrder /\ RestStatus(answers) \in Terminal
    <3>1. ~IsOpen(active)
      BY <2>3 DEF RestStatus, Terminal, Working, IsOpen
    <3>2. NoOrder \notin orphans
      BY DEF TypeOK, NoOrder
    <3> QED
      BY <2>1, <2>3, <3>1, <3>2
      DEF brokerVars, TrackingInv, OpenOrderIsTracked, UpdatesTrue, IsOpen
  <2> QED
    BY <1>6, <2>2, <2>3 DEF RefreshOrder, ClearsActive
<1>7. ASSUME NEW o \in autoCancel, AutoCancel(o)
      PROVE  TrackingInv'
  <2>1. UNCHANGED <<active, orphans>> /\ o \in OrderIds
    BY <1>7 DEF AutoCancel, TypeOK, OrderIds
  <2>2. CASE EndOrder(o, "canceled")
    BY <2>1, <2>2, EndIsBrokerEvent, BrokerEventTracking DEF Terminal
  <2>3. CASE UNCHANGED brokerVars
    BY <2>1, <2>3
    DEF brokerVars, TrackingInv, OpenOrderIsTracked, UpdatesTrue, IsOpen
  <2> QED
    BY <1>7, <2>2, <2>3 DEF AutoCancel
<1>8. CASE Disconnect
  <2>1. stream' = << >> /\ UNCHANGED <<active, order, placed, orphans>>
    BY <1>8 DEF Disconnect
  <2> QED
    BY <2>1 DEF TrackingInv, OpenOrderIsTracked, UpdatesTrue, IsOpen
<1>9. CASE RestartLoop \/ Connect \/ UNCHANGED vars
  <2>1. UNCHANGED <<active, order, placed, stream, orphans>>
    BY <1>9 DEF RestartLoop, Connect, vars, brokerVars
  <2> QED
    BY <2>1 DEF TrackingInv, OpenOrderIsTracked, UpdatesTrue, IsOpen
<1> QED
  BY <1>1, <1>2, <1>3, <1>4, <1>5, <1>6, <1>7, <1>8, <1>9 DEF Next

\* The invariant the theorems below rest on.
LEMMA Invariant == Spec => [](TypeOK /\ TrackingInv)
<1>1. Init => TypeOK /\ TrackingInv
  BY TypeInit, TrackingInit
<1>2. TypeOK /\ TrackingInv /\ [Next]_vars => (TypeOK /\ TrackingInv)'
  BY TypeStep, TrackingStep
<1> QED
  BY <1>1, <1>2, PTL DEF Spec

\* The gate on active_order_id works one order at a time: whatever faults
\* occur, an order still open at the broker is the tracked one, or one whose
\* answer was lost.
THEOREM OneOpenOrder == Spec => []OpenOrderIsTracked
<1>1. TypeOK /\ TrackingInv => OpenOrderIsTracked
  BY DEF TrackingInv
<1> QED
  BY <1>1, Invariant, PTL

-----------------------------------------------------------------------------
(* The end of the active order is announced as long as a stream is there. *)

AnnouncedInv == connected /\ EndIsAnnounced

\* The event that ends the active order leaves its update in the stream.
LEMMA BrokerEventAnnounced ==
  ASSUME TypeOK, TypeOK', AnnouncedInv, NEW o \in OrderIds, BrokerEvent(o),
         UNCHANGED <<form, active>>
  PROVE  AnnouncedInv'
<1> DEFINE u == [order |-> o, status |-> order'[o].status,
                 total |-> order'[o].filled,
                 delta |-> brokerPos' - brokerPos, before |-> brokerPos]
<1>1. /\ stream' = Append(stream, u) /\ UNCHANGED <<connected, placed>>
      /\ stream \in Seq(Update) /\ connected /\ IsOpen(o)
  BY DEF BrokerEvent, AnnouncedInv, TypeOK
<1>2. /\ Len(stream') = Len(stream) + 1 /\ stream'[Len(stream')] = u
      /\ \A i \in 1..Len(stream) :
           stream'[i] = stream[i] /\ i \in 1..Len(stream')
      /\ Len(stream') \in 1..Len(stream')
  BY <1>1
<1> DEFINE Ends(v) == v.status \in Terminal /\ v.order = active
<1> SUFFICES ASSUME Readable, active # NoOrder, ~IsOpen(active)'
             PROVE  \E i \in 1..Len(stream') : Ends(stream'[i])
  BY <1>1 DEF AnnouncedInv, EndIsAnnounced, EndsActive, Readable
<1>3. active \in OrderIds
  <2>1. active \in 1..placed /\ placed \in 0..MaxOrders
    BY DEF TypeOK
  <2> QED
    BY <2>1, ConstantsAssumption DEF OrderIds
<1>4. CASE active = o
  <2>1. o <= placed
    BY <1>1 DEF IsOpen, TypeOK, Working, OrderIds
  <2>2. order'[o] \in Order /\ order'[o].status # "unused"
    BY <1>1, <2>1 DEF TypeOK, OrderIds
  <2>3. order'[o].status \in Terminal
    BY <1>4, <2>2 DEF IsOpen, Order, Working, Terminal
  <2>4. Ends(u)
    BY <1>4, <2>3
  <2> HIDE DEF Ends, u
  <2> QED
    BY <1>2, <2>4
<1>5. CASE active # o
  <2>1. ~IsOpen(active)
    BY <1>3, <1>5 DEF BrokerEvent, IsOpen
  <2>2. PICK i \in 1..Len(stream) : Ends(stream[i])
    BY <2>1 DEF AnnouncedInv, EndIsAnnounced, EndsActive
  <2> HIDE DEF Ends, u
  <2> QED
    BY <1>2, <2>2
<1> QED
  BY <1>4, <1>5

LEMMA AnnouncedUnchanged ==
  ASSUME AnnouncedInv, UNCHANGED <<form, active, order, stream, connected>>
  PROVE  AnnouncedInv'
  BY DEF AnnouncedInv, EndIsAnnounced, IsOpen, EndsActive, Readable

LEMMA AnnouncedStep ==
  ASSUME MaxDrops = 0, TypeOK, AnnouncedInv, [Next]_vars PROVE AnnouncedInv'
<1> USE ConstantsAssumption
<1>0. TypeOK'
  BY TypeStep
<1>1. ASSUME NEW o \in OrderIds, NEW n \in 1..EntryQty, BrokerFill(o, n)
      PROVE  AnnouncedInv'
  <2>1. UNCHANGED <<form, active>>
    BY <1>1 DEF BrokerFill
  <2> QED
    BY <1>0, <1>1, <2>1, FillIsBrokerEvent, BrokerEventAnnounced
<1>2. ASSUME NEW o \in OrderIds, NEW status \in EndStatuses,
             BrokerEnd(o, status)
      PROVE  AnnouncedInv'
  <2>1. UNCHANGED <<form, active>> /\ EndOrder(o, status)
    BY <1>2 DEF BrokerEnd
  <2> QED
    BY <1>0, <2>1, EndIsBrokerEvent, BrokerEventAnnounced
<1>3. CASE HandleTradeUpdate
  <2> DEFINE u == Head(stream)
  <2>1. /\ stream # << >> /\ stream' = Tail(stream)
        /\ active' = IF Readable /\ EndsActive(u) THEN NoOrder ELSE active
        /\ UNCHANGED <<order, connected, form>>
    BY <1>3 DEF HandleTradeUpdate
  <2>2. stream \in Seq(Update) /\ u = stream[1]
    BY <2>1 DEF TypeOK
  <2>6. CASE ~Readable
    BY <2>1, <2>6 DEF AnnouncedInv, EndIsAnnounced, Readable
  <2>3. CASE Readable /\ EndsActive(u)
    BY <2>1, <2>3 DEF AnnouncedInv, EndIsAnnounced
  <2>4. CASE Readable /\ ~EndsActive(u) /\ active # NoOrder /\ ~IsOpen(active)
    <3>1. active' = active
      BY <2>1, <2>4
    <3>2. PICK i \in 1..Len(stream) : EndsActive(stream[i])
      BY <2>4 DEF AnnouncedInv, EndIsAnnounced
    <3>3. i # 1
      BY <2>2, <2>4, <3>2
    <3>4. i - 1 \in 1..Len(stream') /\ stream'[i - 1] = stream[i]
      BY <2>1, <2>2, <3>3
    <3>5. /\ stream'[i - 1].status \in Terminal
          /\ stream'[i - 1].order = active'
      BY <3>1, <3>2, <3>4 DEF EndsActive
    <3> QED
      BY <2>1, <3>4, <3>5 DEF AnnouncedInv, EndIsAnnounced, EndsActive
  <2>5. CASE Readable /\ ~EndsActive(u) /\ (active = NoOrder \/ IsOpen(active))
    <3>1. active' = active /\ UNCHANGED <<order, connected>>
      BY <2>1, <2>5
    <3> QED
      BY <2>5, <3>1 DEF AnnouncedInv, EndIsAnnounced, IsOpen
  <2> QED
    BY <2>3, <2>4, <2>5, <2>6
<1>4. ASSUME NEW signal \in Signals, Trade(signal)
      PROVE  AnnouncedInv'
  <2> DEFINE o == placed + 1
  <2>1. PICK plan : Submit(plan)
    BY <1>4 DEF Trade
  <2>2. active = NoOrder /\ connected' = connected
    BY <1>4 DEF Trade, MayTrade
  <2>3. active' = o \/ active' = NoOrder
    BY <2>1, <2>2 DEF Submit
  <2>4. o \in OrderIds /\ order'[o].status = "new"
    BY <2>1 DEF Submit, TypeOK, OrderIds
  <2>5. active' = o => IsOpen(active)'
    BY <2>4 DEF IsOpen, Working
  <2> QED
    BY <2>2, <2>3, <2>5 DEF AnnouncedInv, EndIsAnnounced
<1>5. ASSUME NEW answers \in BOOLEAN, RefreshPosition(answers)
      PROVE  AnnouncedInv'
  BY <1>5, AnnouncedUnchanged DEF RefreshPosition, brokerVars
<1>6. ASSUME NEW answers \in BOOLEAN, RefreshOrder(answers)
      PROVE  AnnouncedInv'
  <2>1. UNCHANGED <<form, order, stream, connected>> /\ active' \in {active, NoOrder}
    BY <1>6 DEF RefreshOrder, brokerVars
  <2>2. CASE active' = active
    BY <2>1, <2>2, AnnouncedUnchanged
  <2>3. CASE active' = NoOrder
    BY <2>1, <2>3 DEF AnnouncedInv, EndIsAnnounced
  <2> QED
    BY <2>1, <2>2, <2>3
<1>7. ASSUME NEW o \in autoCancel, AutoCancel(o)
      PROVE  AnnouncedInv'
  <2>1. UNCHANGED <<form, active>> /\ o \in OrderIds
    BY <1>7 DEF AutoCancel, TypeOK, OrderIds
  <2>2. CASE EndOrder(o, "canceled")
    BY <1>0, <2>1, <2>2, EndIsBrokerEvent, BrokerEventAnnounced DEF Terminal
  <2>3. CASE UNCHANGED brokerVars
    BY <2>1, <2>3, AnnouncedUnchanged DEF brokerVars
  <2> QED
    BY <1>7, <2>2, <2>3 DEF AutoCancel
<1>8. CASE Disconnect
  <2>1. drops < 0 /\ drops \in Nat
    BY <1>8 DEF Disconnect, TypeOK
  <2> QED
    BY <2>1
<1>9. CASE RestartLoop \/ Connect \/ UNCHANGED vars
  <2>1. UNCHANGED <<form, active, order, stream, connected>>
    BY <1>9 DEF RestartLoop, Connect, vars, brokerVars, AnnouncedInv
  <2> QED
    BY <2>1, AnnouncedUnchanged
<1> QED
  BY <1>1, <1>2, <1>3, <1>4, <1>5, <1>6, <1>7, <1>8, <1>9 DEF Next

\* While no connection is lost and updates can be read, an active order that
\* is over has its last update in the stream: with the handler running, the gate opens again,
\* however the refresh, lost answers and failed calls come between.
THEOREM NoSilentEnd == ASSUME MaxDrops = 0 PROVE Spec => []EndIsAnnounced
<1>1. Init => AnnouncedInv
  BY DEF Init, AnnouncedInv, EndIsAnnounced
<1>2. TypeOK /\ AnnouncedInv /\ [Next]_vars => AnnouncedInv'
  BY AnnouncedStep
<1>3. AnnouncedInv => EndIsAnnounced
  BY DEF AnnouncedInv
<1> QED
  BY <1>1, <1>2, <1>3, TypeCorrect, PTL DEF Spec

-----------------------------------------------------------------------------
(* What a refresh may have missed when it lets go of an order. *)

(***************************************************************************)
(* StaleByOneOrder is not inductive: what the refresh lets go of must be   *)
(* the order placed last, and the position it read must already have been  *)
(* off by fills of that order only when its status was still to be read.   *)
(***************************************************************************)
Undisturbed == form = "native" /\ restErrors = 0 /\ orphans = {}

StaleInv ==
  Undisturbed =>
    /\ active # NoOrder => active = placed
    /\ active = NoOrder \/ loop = "refresh_order"
         => brokerPos - position \in MayMiss

LEMMA NothingMissed ==
  ASSUME TypeOK PROVE 0 \in MayMiss
<1>1. CASE placed = 0
  BY <1>1 DEF MayMiss
<1>2. CASE placed # 0
  <2>1. placed \in OrderIds /\ order[placed] \in Order
    BY <1>2, ConstantsAssumption DEF TypeOK, OrderIds
  <2>2. 0 \in 0..order[placed].filled
    BY <2>1 DEF Order
  <2>4. Signed(order[placed].side, 0) = 0
    <3>1. \A i \in Int : -i = 0 - i
      OBVIOUS
    <3>2. 0 \in Int /\ 0 - 0 = 0
      OBVIOUS
    <3>3. -0 = 0
      BY <3>1, <3>2, Zenon
    <3> QED
      BY <3>3, Zenon DEF Signed
  <2>3. Signed(order[placed].side, 0) \in MayMiss
    BY <1>2, <2>2 DEF MayMiss
  <2> QED
    BY <2>3, <2>4
<1> QED
  BY <1>1, <1>2

\* What was missed of an order grows by what is filled of it.
LEMMA StaleFill ==
  ASSUME TypeOK, TrackingInv, StaleInv, NEW o \in OrderIds,
         NEW n \in 1..EntryQty, BrokerFill(o, n)
  PROVE  StaleInv'
<1> SUFFICES ASSUME Undisturbed
             PROVE  /\ active # NoOrder => active = placed
                    /\ active = NoOrder \/ loop = "refresh_order"
                         => brokerPos' - position \in MayMiss'
  BY DEF BrokerFill, StaleInv, Undisturbed
<1>1. active = o /\ o # NoOrder /\ o = placed
  BY DEF TrackingInv, OpenOrderIsTracked, BrokerFill, Undisturbed, StaleInv,
         OrderIds, NoOrder
<1>2. /\ order[o] \in Order /\ n \in Nat /\ brokerPos \in Int
      /\ position \in Int
  BY EntryQtyPositive DEF TypeOK
<1>3. /\ order'[o].side = order[o].side
      /\ order'[o].filled = order[o].filled + n
      /\ brokerPos' = brokerPos + Signed(order[o].side, n)
      /\ placed' = placed
  <2>1. /\ order' = [order EXCEPT ![o].status = order'[o].status,
                                  ![o].filled = order[o].filled + n]
        /\ brokerPos' = brokerPos + Signed(order[o].side, n)
        /\ placed' = placed
    BY <1>2 DEF TypeOK, Order, BrokerFill
  <2> QED
    BY <1>2, <2>1 DEF TypeOK, Order
<1>4. SUFFICES ASSUME loop = "refresh_order"
               PROVE  brokerPos' - position \in MayMiss'
  BY <1>1
<1>5. PICK m \in 0..order[o].filled :
        brokerPos - position = Signed(order[o].side, m)
  BY <1>1, <1>4 DEF StaleInv, MayMiss, NoOrder
<1>6. /\ m + n \in 0..order'[o].filled
      /\ brokerPos' - position = Signed(order'[o].side, m + n)
  BY <1>2, <1>3, <1>5 DEF Signed, Order
<1>7. placed' = o /\ placed' # 0
  BY <1>1, <1>3 DEF NoOrder
<1> QED
  BY <1>6, <1>7 DEF MayMiss

LEMMA StaleUnchanged ==
  ASSUME TypeOK, StaleInv, Undisturbed' => Undisturbed, placed' = placed,
         \A o \in OrderIds : /\ order'[o].side = order[o].side
                             /\ order'[o].filled = order[o].filled,
         active' = active, brokerPos' = brokerPos, position' = position,
         loop' = "refresh_order" => loop = "refresh_order"
  PROVE  StaleInv'
<1>1. placed # 0 => placed \in OrderIds
  BY ConstantsAssumption DEF TypeOK, OrderIds
<1>2. MayMiss' = MayMiss
  BY <1>1 DEF MayMiss
<1> QED
  BY <1>2 DEF StaleInv

LEMMA StaleEnd ==
  ASSUME TypeOK, StaleInv, Undisturbed' => Undisturbed,
         NEW o \in OrderIds, NEW status \in Terminal, EndOrder(o, status),
         UNCHANGED <<active, position, loop>>
  PROVE  StaleInv'
<1>1. order' = [order EXCEPT ![o] = [order[o] EXCEPT !.status = status]]
  BY EndIsBrokerEvent
<1>2. \A p \in OrderIds : /\ order'[p].side = order[p].side
                          /\ order'[p].filled = order[p].filled
  BY <1>1 DEF TypeOK, Order
<1> QED
  BY <1>2, StaleUnchanged DEF EndOrder

LEMMA StaleStep ==
  ASSUME TypeOK, TrackingInv, StaleInv, [Next]_vars PROVE StaleInv'
<1> USE ConstantsAssumption
<1>1. ASSUME NEW o \in OrderIds, NEW n \in 1..EntryQty, BrokerFill(o, n)
      PROVE  StaleInv'
  BY <1>1, StaleFill
<1>2. ASSUME NEW o \in OrderIds, NEW status \in EndStatuses,
             BrokerEnd(o, status)
      PROVE  StaleInv'
  <2>1. /\ EndOrder(o, status)
        /\ UNCHANGED <<form, restErrors, orphans, active, position, loop>>
    BY <1>2 DEF BrokerEnd
  <2> QED
    BY <2>1, StaleEnd DEF Undisturbed
<1>3. CASE HandleTradeUpdate
  <2>1. /\ UNCHANGED <<form, restErrors, orphans, loop, placed, order, brokerPos>>
        /\ ~Readable => UNCHANGED <<active, position>>
    BY <1>3 DEF HandleTradeUpdate
  <2>2. CASE ~Undisturbed
    BY <2>1, <2>2 DEF StaleInv, Undisturbed
  <2>3. CASE Undisturbed
    <3>1. UNCHANGED <<active, position>>
      BY <2>1, <2>3 DEF Undisturbed, Readable
    <3> QED
      BY <2>1, <3>1, StaleUnchanged DEF Undisturbed
  <2> QED
    BY <2>2, <2>3
<1>4. ASSUME NEW signal \in Signals, Trade(signal)
      PROVE  StaleInv'
  <2>1. PICK plan : Submit(plan)
    BY <1>4 DEF Trade
  <2>2. loop' = "wait" /\ placed' = placed + 1
    BY <1>4, <2>1 DEF Trade, Submit
  <2>3. orphans' = {} => active' = placed' /\ active' # NoOrder
    BY <2>1 DEF Submit, TypeOK, NoOrder
  <2> QED
    BY <2>2, <2>3 DEF StaleInv, Undisturbed
<1>5. ASSUME NEW answers \in BOOLEAN, RefreshPosition(answers)
      PROVE  StaleInv'
  <2>1. UNCHANGED <<form, orphans, active, brokerVars>>
    BY <1>5 DEF RefreshPosition
  <2>2. CASE ~answers
    <3>1. restErrors' # 0
      BY <1>5, <2>2 DEF RefreshPosition, RestCall, TypeOK
    <3> QED
      BY <3>1 DEF StaleInv, Undisturbed
  <2>3. CASE answers
    <3>1. position' = brokerPos /\ restErrors' = restErrors
      BY <1>5, <2>3 DEF RefreshPosition, RestCall
    <3>2. brokerPos' - position' = 0
      BY <2>1, <3>1 DEF brokerVars, TypeOK
    <3>3. MayMiss' = MayMiss
      BY <2>1 DEF MayMiss, brokerVars
    <3> QED
      BY <2>1, <3>1, <3>2, <3>3, NothingMissed
      DEF StaleInv, Undisturbed, brokerVars
  <2> QED
    BY <2>2, <2>3
<1>6. ASSUME NEW answers \in BOOLEAN, RefreshOrder(answers)
      PROVE  StaleInv'
  <2>1. /\ UNCHANGED <<form, orphans, position, brokerVars>>
        /\ loop = "refresh_order" /\ active' \in {active, NoOrder}
        /\ restErrors' = 0 => restErrors = 0
    BY <1>6 DEF RefreshOrder, RestCall, TypeOK
  <2>2. MayMiss' = MayMiss
    BY <2>1 DEF MayMiss, brokerVars
  <2> QED
    BY <2>1, <2>2 DEF StaleInv, Undisturbed, brokerVars
<1>7. ASSUME NEW o \in autoCancel, AutoCancel(o)
      PROVE  StaleInv'
  <2>1. /\ UNCHANGED <<form, orphans, active, position, loop>>
        /\ o \in OrderIds
        /\ restErrors' = 0 => restErrors = 0
    BY <1>7 DEF AutoCancel, RestCall, TypeOK, OrderIds
  <2>2. CASE EndOrder(o, "canceled")
    BY <2>1, <2>2, StaleEnd DEF Terminal, Undisturbed
  <2>3. CASE UNCHANGED brokerVars
    BY <2>1, <2>3, StaleUnchanged DEF brokerVars, Undisturbed
  <2> QED
    BY <1>7, <2>2, <2>3 DEF AutoCancel
<1>8. CASE Disconnect \/ RestartLoop \/ Connect \/ UNCHANGED vars
  <2>1. UNCHANGED <<form, orphans, restErrors, active, position, placed, order,
                    brokerPos>>
    BY <1>8 DEF Disconnect, RestartLoop, Connect, vars, brokerVars
  <2>2. loop' = "refresh_order" => loop = "refresh_order"
    BY <1>8 DEF Disconnect, RestartLoop, Connect, vars
  <2> QED
    BY <2>1, <2>2, StaleUnchanged DEF Undisturbed
<1> QED
  BY <1>1, <1>2, <1>3, <1>4, <1>5, <1>6, <1>7, <1>8 DEF Next

\* The position kept by the refresh alone, with updates the handler cannot
\* read, lags by fills of one order at most, the one just let go of: what
\* was missed of it is read before the next order is let go of.
THEOREM RefreshMissesOneOrder == Spec => []StaleByOneOrder
<1>1. Init => StaleInv
  <2> SUFFICES ASSUME Init, Undisturbed PROVE StaleInv
    BY DEF StaleInv
  <2>1. position = brokerPos /\ active = NoOrder
    BY DEF Init, Undisturbed
  <2>2. TypeOK
    BY TypeInit
  <2>3. brokerPos - position = 0
    BY <2>1, <2>2 DEF TypeOK
  <2> QED
    BY <2>1, <2>2, <2>3, NothingMissed DEF StaleInv
<1>2. TypeOK /\ TrackingInv /\ StaleInv /\ [Next]_vars => StaleInv'
  BY StaleStep
<1>3. StaleInv => StaleByOneOrder
  BY DEF StaleInv, Undisturbed, StaleByOneOrder
<1> QED
  BY <1>1, <1>2, <1>3, Invariant, PTL DEF Spec

-----------------------------------------------------------------------------
(* LiveTrading implements OrderLifecycle. *)

Released == (1..placed) \ (orphans \union {active})

LEMMA BrokerEventSimulated ==
  ASSUME TypeOK, TrackingInv, NEW o \in OrderIds, BrokerEvent(o),
         UNCHANGED <<active, orphans>>
  PROVE  [Lifecycle!Next]_<<active, Phase, Released>>
<1>1. Released' = Released
  BY DEF Released, BrokerEvent
<1>2. CASE active = NoOrder
  BY <1>1, <1>2 DEF Phase
<1>3. CASE active = o
  <2>1. Phase = "working" /\ o # NoOrder
    BY <1>3 DEF Phase, BrokerEvent, OrderIds, NoOrder
  <2>2. Phase' \in {"working", "ended"}
    BY <1>3, <2>1 DEF Phase
  <2> QED
    BY <1>1, <2>1, <2>2 DEF Lifecycle!Next, Lifecycle!End, Released
<1>4. CASE active \notin {NoOrder, o}
  <2>1. active \in OrderIds \ {o}
    BY <1>4, ConstantsAssumption DEF TypeOK, OrderIds
  <2>2. order'[active] = order[active]
    BY <2>1 DEF BrokerEvent
  <2> QED
    BY <1>1, <2>2 DEF Phase, IsOpen
<1> QED
  BY <1>2, <1>3, <1>4

LEMMA ReleaseSimulated ==
  ASSUME TypeOK, TrackingInv, active # NoOrder, ~IsOpen(active),
         active' = NoOrder, UNCHANGED <<order, placed, orphans>>
  PROVE  Lifecycle!Release
<1>1. Phase = "ended" /\ Phase' = "idle"
  BY DEF Phase
<1>2. active \in 1..placed /\ NoOrder \notin 1..placed
  BY DEF TypeOK, NoOrder
<1>3. Released' = Released \union {active}
  BY <1>2 DEF Released, TrackingInv
<1> QED
  BY <1>1, <1>3 DEF Lifecycle!Release, Released

LEMMA UnchangedSimulated ==
  ASSUME UNCHANGED <<active, order, placed, orphans>>
  PROVE  UNCHANGED <<active, Phase, Released>>
  BY DEF Phase, Released, IsOpen

LEMMA StepSimulated ==
  ASSUME TypeOK, TrackingInv, [Next]_vars
  PROVE  [Lifecycle!Next]_<<active, Phase, Released>>
<1> USE ConstantsAssumption
<1>1. ASSUME NEW o \in OrderIds, NEW n \in 1..EntryQty, BrokerFill(o, n)
      PROVE  [Lifecycle!Next]_<<active, Phase, Released>>
  <2>1. UNCHANGED <<active, orphans>>
    BY <1>1 DEF BrokerFill
  <2> QED
    BY <1>1, <2>1, FillIsBrokerEvent, BrokerEventSimulated
<1>2. ASSUME NEW o \in OrderIds, NEW status \in EndStatuses,
             BrokerEnd(o, status)
      PROVE  [Lifecycle!Next]_<<active, Phase, Released>>
  <2>1. UNCHANGED <<active, orphans>> /\ EndOrder(o, status)
    BY <1>2 DEF BrokerEnd
  <2> QED
    BY <2>1, EndIsBrokerEvent, BrokerEventSimulated
<1>3. CASE HandleTradeUpdate
  <2> DEFINE u == Head(stream)
  <2>1. /\ stream # << >>
        /\ active' = IF Readable /\ EndsActive(u) THEN NoOrder ELSE active
        /\ UNCHANGED <<order, orphans, placed>>
    BY <1>3 DEF HandleTradeUpdate
  <2>2. stream \in Seq(Update) /\ u = stream[1]
    BY <2>1 DEF TypeOK
  <2>3. CASE Readable /\ EndsActive(u)
    <3>1. active # NoOrder /\ ~IsOpen(active)
      BY <2>1, <2>2, <2>3 DEF EndsActive, TrackingInv, UpdatesTrue, NoOrder
    <3> QED
      BY <2>1, <2>3, <3>1, ReleaseSimulated DEF Lifecycle!Next
  <2>4. CASE ~(Readable /\ EndsActive(u))
    BY <2>1, <2>4, UnchangedSimulated
  <2> QED
    BY <2>3, <2>4
<1>4. ASSUME NEW signal \in Signals, Trade(signal)
      PROVE  [Lifecycle!Next]_<<active, Phase, Released>>
  <2> DEFINE o == placed + 1
  <2>1. active = NoOrder /\ \E plan : Submit(plan)
    BY <1>4 DEF Trade, MayTrade
  <2>2. /\ placed' = o /\ o \in OrderIds
        /\ 1..placed' = (1..placed) \union {o}
        /\ o \notin 1..placed /\ NoOrder \notin 1..placed'
        /\ orphans \subseteq 1..placed
    BY <2>1 DEF Submit, TypeOK, OrderIds, NoOrder
  <2>3. Phase = "idle"
    BY <2>1 DEF Phase
  <2>4. CASE active' = o /\ orphans' = orphans
    <3>1. Released' = Released
      BY <2>1, <2>2, <2>4 DEF Released
    <3>2. order'[o].status = "new"
      BY <2>1, <2>2 DEF Submit, TypeOK
    <3>3. Phase' = "working"
      BY <2>2, <2>4, <3>2 DEF Phase, IsOpen, Working
    <3>4. o \notin Released
      BY <2>2 DEF Released
    <3> QED
      BY <2>2, <2>3, <2>4, <3>1, <3>3, <3>4
      DEF Lifecycle!Next, Lifecycle!Place, Released
  <2>5. CASE active' = active /\ orphans' = orphans \union {o}
    <3>1. Released' = Released
      BY <2>1, <2>2, <2>5 DEF Released
    <3>2. Phase' = "idle"
      BY <2>1, <2>5 DEF Phase
    <3> QED
      BY <2>3, <2>5, <3>1, <3>2
  <2> QED
    BY <2>1, <2>4, <2>5 DEF Submit
<1>5. ASSUME NEW answers \in BOOLEAN, RefreshPosition(answers)
      PROVE  [Lifecycle!Next]_<<active, Phase, Released>>
  <2>1. UNCHANGED <<active, order, placed, orphans>>
    BY <1>5 DEF RefreshPosition, brokerVars
  <2> QED
    BY <2>1, UnchangedSimulated
<1>6. ASSUME NEW answers \in BOOLEAN, RefreshOrder(answers)
      PROVE  [Lifecycle!Next]_<<active, Phase, Released>>
  <2>1. UNCHANGED <<order, placed, orphans>> /\ active # NoOrder
    BY <1>6 DEF RefreshOrder, brokerVars, TypeOK
  <2>2. CASE active' = active
    BY <2>1, <2>2, UnchangedSimulated
  <2>3. CASE active' = NoOrder /\ RestStatus(answers) \in Terminal
    <3>1. ~IsOpen(active)
      BY <2>3 DEF RestStatus, Terminal, Working, IsOpen
    <3> QED
      BY <2>1, <2>3, <3>1, ReleaseSimulated DEF Lifecycle!Next
  <2> QED
    BY <1>6, <2>2, <2>3 DEF RefreshOrder, ClearsActive
<1>7. ASSUME NEW o \in autoCancel, AutoCancel(o)
      PROVE  [Lifecycle!Next]_<<active, Phase, Released>>
  <2>1. UNCHANGED <<active, orphans>> /\ o \in OrderIds
    BY <1>7 DEF AutoCancel, TypeOK, OrderIds
  <2>2. CASE EndOrder(o, "canceled")
    BY <2>1, <2>2, EndIsBrokerEvent, BrokerEventSimulated DEF Terminal
  <2>3. CASE UNCHANGED brokerVars
    BY <2>1, <2>3, UnchangedSimulated DEF brokerVars
  <2> QED
    BY <1>7, <2>2, <2>3 DEF AutoCancel
<1>8. CASE Disconnect \/ RestartLoop \/ Connect \/ UNCHANGED vars
  <2>1. UNCHANGED <<active, order, placed, orphans>>
    BY <1>8 DEF Disconnect, RestartLoop, Connect, vars, brokerVars
  <2> QED
    BY <2>1, UnchangedSimulated
<1> QED
  BY <1>1, <1>2, <1>3, <1>4, <1>5, <1>6, <1>7, <1>8 DEF Next

\* Whatever the stream, REST and the broker do, tracked orders are worked
\* strictly one after the other and none is let go of before it has ended
\* (the safety part of ImplementsLifecycle).
THEOREM Refinement == Spec => Lifecycle!Spec
<1>1. Init => Lifecycle!Init
  <2> SUFFICES ASSUME Init PROVE Lifecycle!Init
    OBVIOUS
  <2>1. active = NoOrder /\ placed = 0 /\ 1..placed = {}
    BY DEF Init
  <2> QED
    BY <2>1 DEF Lifecycle!Init, Phase
<1>2. TypeOK /\ TrackingInv /\ [Next]_vars
        => [Lifecycle!Next]_<<active, Phase, Released>>
  BY StepSimulated
<1>3. TypeOK /\ TrackingInv /\ [Next]_vars
        => [Lifecycle!Next]_(Lifecycle!lifecycleVars)
  BY <1>2 DEF Lifecycle!lifecycleVars, Released
<1> QED
  BY <1>1, <1>3, Invariant, PTL DEF Spec, Lifecycle!Spec
==============================================================================
