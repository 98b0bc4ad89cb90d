--------------------------- MODULE LiveQuiet_proofs ---------------------------
(***************************************************************************)
(* What holds of LiveTrading in a quiet session: no refresh comes between, *)
(* no connection and no answer is lost, no db_handler is attached, and the *)
(* updates either cannot be read or carry the change of the position.  The *)
(* position is read correctly at the start.  Fills are still partial and   *)
(* still arrive late, orders are still canceled and rejected, and the      *)
(* cancel of a test order may fail.  For every order size, lot, initial    *)
(* position and number of orders.                                          *)
(***************************************************************************)
EXTENDS LiveTrading_proofs, FiniteSetTheorems

Quiet == /\ ~Refreshes /\ ~DbAttached
         /\ MaxDrops = 0 /\ MaxLost = 0
         /\ Forms \subseteq {"native", "change"}

(***************************************************************************)
(* The updates in the stream lead from the position the program knows to   *)
(* the one the broker has, each from where the one before it led to.       *)
(***************************************************************************)
After(i) == stream[i].before + stream[i].delta

StreamChain ==
  /\ stream = << >> => position = brokerPos
  /\ stream # << >> => stream[1].before = position
  /\ stream # << >> => brokerPos = After(Len(stream))
  /\ \A i \in 1..Len(stream) : i > 1 => stream[i].before = After(i - 1)

Steady == connected /\ loop = "wait"

ChainInv == Steady /\ StreamChain

\* They are all about the active order, and only the last may end it.
StreamOfActive ==
  \A i \in 1..Len(stream) :
    /\ stream[i].order = active
    /\ stream[i].status \in Terminal => i = Len(stream) /\ ~IsOpen(active)

\* Where the position was before order o.
Start(o) == brokerPos - Signed(order[o].side, order[o].filled)

\* What a signal makes of a position pos: an entry from a flat one, or a
\* market order for all of what is held.
SoundOrder(side, qty, pos) ==
  \/ pos = 0 /\ qty = EntryQty
  \/ pos > 0 /\ side = "sell" /\ qty = pos /\ qty <= EntryQty
  \/ pos < 0 /\ side = "buy" /\ qty = -pos /\ qty <= EntryQty

ActiveSound ==
  active # NoOrder =>
    /\ order[active].filled <= order[active].qty
    /\ SoundOrder(order[active].side, order[active].qty, Start(active))

(***************************************************************************)
(* Updates that are not read do not move the position: the first order is  *)
(* then the last, and the position known is the one before it.             *)
(***************************************************************************)
QuietInv ==
  /\ Steady
  /\ form \in {"native", "change"}
  /\ form = "change" => StreamChain
  /\ active = NoOrder => position = brokerPos
  /\ orphans = {}
  /\ StreamOfActive
  /\ ActiveSound
  /\ ExposureBounded

-----------------------------------------------------------------------------
(* The chain, whoever's orders the updates are about. *)

LEMMA ChainInit ==
  ASSUME Init, position = brokerPos PROVE ChainInv
BY DEF Init, ChainInv, Steady, StreamChain

\* The broker appends one link.
LEMMA ChainBrokerEvent ==
  ASSUME TypeOK, ChainInv, NEW o \in OrderIds, BrokerEvent(o),
         brokerPos' \in Int, UNCHANGED <<position, loop>>
  PROVE  ChainInv'
<1> DEFINE u == [order |-> o, status |-> order'[o].status,
                 total |-> order'[o].filled,
                 delta |-> brokerPos' - brokerPos, before |-> brokerPos]
<1>0. brokerPos \in Int /\ brokerPos' \in Int
  BY DEF TypeOK
<1>1. /\ stream' = Append(stream, u) /\ UNCHANGED <<connected, loop, position>>
      /\ stream \in Seq(Update)
  BY DEF BrokerEvent, ChainInv, Steady, TypeOK
<1>2. \A i \in 1..Len(stream) :
        stream'[i] = stream[i] /\ stream[i] \in Update
  BY <1>1
<1>3. Len(stream') = Len(stream) + 1 /\ stream'[Len(stream')] = u
  BY <1>1
<1>4. stream'[Len(stream')].before + stream'[Len(stream')].delta = brokerPos'
  <2>1. \A p, q \in Int : p + (q - p) = q
    OBVIOUS
  <2>2. brokerPos + (brokerPos' - brokerPos) = brokerPos'
    BY <1>0, <2>1, Zenon
  <2>3. u.before = brokerPos /\ u.delta = brokerPos' - brokerPos
    OBVIOUS
  <2> HIDE DEF u
  <2> QED
    BY <1>3, <2>2, <2>3, Zenon
<1>5. stream'[1].before = position
  <2>1. CASE stream = << >>
    BY <1>3, <2>1 DEF ChainInv, StreamChain
  <2>2. CASE stream # << >>
    BY <1>1, <1>2, <2>2 DEF ChainInv, StreamChain
  <2> QED
    BY <2>1, <2>2
<1>6. ASSUME NEW i \in 1..Len(stream'), i > 1
      PROVE  stream'[i].before = stream'[i - 1].before + stream'[i - 1].delta
  <2>1. i - 1 \in 1..Len(stream) /\ stream # << >>
    BY <1>1, <1>3, <1>6
  <2>2. CASE i \in 1..Len(stream)
    BY <1>2, <1>6, <2>1, <2>2 DEF ChainInv, StreamChain, After
  <2>3. CASE i = Len(stream) + 1
    BY <1>1, <1>2, <1>3, <2>1, <2>3 DEF ChainInv, StreamChain, After
  <2>4. i \in 1..(Len(stream) + 1) /\ Len(stream) \in Nat
    BY <1>1, <1>3, <1>6
  <2> QED
    BY <2>2, <2>3, <2>4
<1>7. stream' # << >>
  BY <1>1
<1> QED
  BY <1>1, <1>4, <1>5, <1>6, <1>7 DEF ChainInv, Steady, StreamChain, After

\* The handler consumes the first link: the position moves along it.
LEMMA ChainUpdate ==
  ASSUME TypeOK, ChainInv, stream # << >>, stream' = Tail(stream),
         position' = position + Head(stream).delta,
         UNCHANGED <<brokerPos, connected, loop>>
  PROVE  ChainInv'
<1>1. stream \in Seq(Update) /\ Head(stream) = stream[1]
  BY DEF TypeOK
<1>2. Len(stream) \in Nat \ {0} /\ Len(stream') = Len(stream) - 1
  BY <1>1
<1>3. \A i \in 1..Len(stream') :
        stream'[i] = stream[i + 1] /\ i + 1 \in 1..Len(stream)
  <2>1. \A i \in 1..Len(stream') : stream'[i] = stream[i + 1]
    BY <1>1
  <2> QED
    BY <1>2, <2>1
<1>4. stream' = << >> <=> Len(stream) = 1
  <2>1. stream' \in Seq(Update)
    BY <1>1
  <2> QED
    BY <1>2, <2>1, EmptySeq
<1>5. position' = After(1)
  BY <1>1 DEF ChainInv, StreamChain, After
<1>6. stream' = << >> => position' = brokerPos'
  BY <1>4, <1>5 DEF ChainInv, StreamChain
<1>7. stream' # << >> => stream'[1].before = position'
  BY <1>2, <1>3, <1>4, <1>5 DEF ChainInv, StreamChain
<1>8. stream' # << >> =>
        brokerPos' = stream'[Len(stream')].before + stream'[Len(stream')].delta
  BY <1>2, <1>3, <1>4 DEF ChainInv, StreamChain, After
<1>9. \A i \in 1..Len(stream') : i > 1 =>
        stream'[i].before = stream'[i - 1].before + stream'[i - 1].delta
  <2> SUFFICES ASSUME NEW i \in 1..Len(stream'), i > 1
               PROVE  stream'[i].before
                        = stream'[i - 1].before + stream'[i - 1].delta
    OBVIOUS
  <2>1. i - 1 \in 1..Len(stream') /\ (i - 1) + 1 = i
    BY <1>2
  <2>2. stream'[i] = stream[i + 1] /\ stream'[i - 1] = stream[i]
    BY <1>3, <2>1
  <2> QED
    BY <1>3, <2>2 DEF ChainInv, StreamChain, After
<1> QED
  BY <1>6, <1>7, <1>8, <1>9 DEF ChainInv, Steady, StreamChain, After

LEMMA ChainUnchanged ==
  ASSUME ChainInv,
         UNCHANGED <<position, brokerPos, stream, connected, loop>>
  PROVE  ChainInv'
BY DEF ChainInv, Steady, StreamChain, After

-----------------------------------------------------------------------------
(* The quiet session. *)

LEMMA QuietInit ==
  ASSUME Quiet, Init, position = brokerPos PROVE QuietInv
<1>1. stream = << >> /\ orphans = {} /\ active = NoOrder
  BY DEF Init
<1>2. brokerPos \in -EntryQty..EntryQty
  BY ConstantsAssumption DEF Init
<1>3. StreamOfActive
  BY <1>1 DEF StreamOfActive
<1>4. Steady /\ StreamChain /\ form \in {"native", "change"}
  BY ChainInit DEF Init, ChainInv, Quiet
<1> QED
  BY <1>1, <1>2, <1>3, <1>4 DEF QuietInv, ActiveSound, ExposureBounded

\* A sound order keeps the position within one entry, however much of it is
\* filled, and never takes it past flat.
LEMMA SoundOrderBounds ==
  ASSUME NEW side \in Sides, NEW qty \in Nat, NEW pos \in Int,
         NEW filled \in Nat, NEW more \in Nat, filled + more <= qty,
         SoundOrder(side, qty, pos)
  PROVE  LET now  == pos + Signed(side, filled)
             then == pos + Signed(side, filled + more)
         IN /\ now \in -EntryQty..EntryQty
            /\ then \in -EntryQty..EntryQty
            /\ now > 0 => then >= 0
            /\ now < 0 => then <= 0
<1>1. EntryQty \in Nat
  BY EntryQtyPositive
<1>2. /\ pos = 0 => qty = EntryQty
      /\ pos > 0 => side = "sell" /\ qty = pos /\ qty <= EntryQty
      /\ pos < 0 => side = "buy" /\ qty = -pos /\ qty <= EntryQty
  BY DEF SoundOrder
<1>3. CASE side = "buy"
  BY <1>1, <1>2, <1>3 DEF Signed
<1>4. CASE side = "sell"
  BY <1>1, <1>2, <1>4 DEF Signed
<1> QED
  BY <1>3, <1>4 DEF Sides

\* A fill or the end of the active order, seen by the invariant.
LEMMA QuietBrokerEvent ==
  ASSUME TypeOK, TrackingInv, QuietInv,
         NEW o \in OrderIds, NEW n \in Nat, BrokerEvent(o),
         order'[o].side = order[o].side, order'[o].qty = order[o].qty,
         order'[o].filled = order[o].filled + n,
         order[o].filled + n <= order[o].qty,
         brokerPos' = brokerPos + Signed(order[o].side, n),
         UNCHANGED <<form, active, orphans, loop, position>>
  PROVE  /\ QuietInv'
         /\ brokerPos > 0 => brokerPos' >= 0
         /\ brokerPos < 0 => brokerPos' <= 0
<1> DEFINE u == [order |-> o, status |-> order'[o].status,
                 total |-> order'[o].filled,
                 delta |-> brokerPos' - brokerPos, before |-> brokerPos]
           r == order[o]
<1>1. active = o /\ o # NoOrder
  BY DEF QuietInv, TrackingInv, OpenOrderIsTracked, BrokerEvent, OrderIds,
         NoOrder
<1>2. /\ r \in Order /\ brokerPos \in Int /\ position \in Int
      /\ stream \in Seq(Update)
  BY DEF TypeOK
<1>3. brokerPos' \in Int
  BY <1>2 DEF Order, Signed
<1>4. stream' = Append(stream, u)
  BY DEF BrokerEvent, QuietInv, Steady
<1>5. Start(o) \in Int /\ Start(o)' = Start(o)
  <2>1. CASE r.side = "buy"
    BY <1>2, <2>1 DEF Start, Signed, Order
  <2>2. CASE r.side = "sell"
    BY <1>2, <2>2 DEF Start, Signed, Order
  <2> QED
    BY <1>2, <2>1, <2>2 DEF Order, Sides
<1>6. SoundOrder(r.side, r.qty, Start(o))
  BY <1>1 DEF QuietInv, ActiveSound
<1>7. ActiveSound'
  BY <1>1, <1>2, <1>5, <1>6 DEF ActiveSound, Order
<1>8. /\ brokerPos = Start(o) + Signed(r.side, r.filled)
      /\ brokerPos' = Start(o) + Signed(r.side, r.filled + n)
  BY <1>2 DEF Start, Signed, Order
<1>9. /\ brokerPos' \in -EntryQty..EntryQty
      /\ brokerPos > 0 => brokerPos' >= 0
      /\ brokerPos < 0 => brokerPos' <= 0
  BY <1>2, <1>5, <1>6, <1>8, SoundOrderBounds DEF Order
<1>10. Steady' /\ (form = "change" => StreamChain')
  BY <1>3, ChainBrokerEvent DEF QuietInv, ChainInv, Steady, BrokerEvent
<1>11. StreamOfActive'
  <2>1. \A i \in 1..Len(stream) :
          /\ stream[i] \in Update
          /\ stream[i].order = o
          /\ stream[i].status \notin Terminal
    <3>1. IsOpen(o)
      BY DEF BrokerEvent
    <3> QED
      BY <1>1, <1>2, <3>1 DEF QuietInv, StreamOfActive
  <2>2. \A i \in 1..Len(stream') : i \in 1..Len(stream) \/ i = Len(stream')
    BY <1>2, <1>4
  <2>3. \A i \in 1..Len(stream) : stream'[i] = stream[i]
    BY <1>2, <1>4
  <2>4. stream'[Len(stream')] = u
    BY <1>2, <1>4
  <2>5. u.status \in Terminal => order'[o].status \notin Working
    BY DEF Terminal, Working
  <2> QED
    BY <1>1, <2>1, <2>2, <2>3, <2>4, <2>5 DEF StreamOfActive, IsOpen
<1> QED
  BY <1>1, <1>7, <1>9, <1>10, <1>11
  DEF QuietInv, ExposureBounded, BrokerEvent

\* The order that ends without a fill.
LEMMA QuietEnd ==
  ASSUME TypeOK, TrackingInv, QuietInv,
         NEW o \in OrderIds, NEW status \in Terminal, EndOrder(o, status),
         UNCHANGED <<form, active, orphans, loop, position>>
  PROVE  QuietInv' /\ UNCHANGED brokerPos
<1>1. /\ BrokerEvent(o) /\ UNCHANGED brokerPos
      /\ order' = [order EXCEPT ![o] = [order[o] EXCEPT !.status = status]]
  BY EndIsBrokerEvent
<1>2. order[o] \in Order /\ brokerPos \in Int
  BY DEF TypeOK
<1>3. /\ order'[o].side = order[o].side
      /\ order'[o].qty = order[o].qty
      /\ order'[o].filled = order[o].filled + 0
  BY <1>1, <1>2 DEF TypeOK, Order
<1>4. brokerPos' = brokerPos + Signed(order[o].side, 0)
  BY <1>1, <1>2 DEF Signed
<1>5. order[o].filled + 0 <= order[o].qty
  BY <1>2 DEF QuietInv, ActiveSound, TrackingInv, OpenOrderIsTracked,
              BrokerEvent, OrderIds, NoOrder, EndOrder, Order
<1> HIDE DEF QuietInv, TypeOK, TrackingInv
<1> QED
  BY <1>1, <1>3, <1>4, <1>5, QuietBrokerEvent

\* With no order the stream is empty: nothing is left to be read.
LEMMA NoOrderNoUpdate ==
  ASSUME TypeOK, QuietInv, active = NoOrder
  PROVE  stream = << >>
<1>1. ASSUME stream # << >> PROVE FALSE
  <2>1. stream[1] \in Update /\ 1 \in 1..Len(stream)
    BY <1>1 DEF TypeOK
  <2> QED
    BY <2>1 DEF QuietInv, StreamOfActive, Update, OrderIds, NoOrder
<1> QED
  BY <1>1

\* The plan made of a signal is sound for the position it was made from.
LEMMA PlanSound ==
  ASSUME NEW signal \in {"BUY", "SELL", "CLOSE"},
         position \in -EntryQty..EntryQty, signal \in GetSignal(position)
  PROVE  SoundOrder(Plan(signal).side, Plan(signal).qty, position)
<1>1. EntryQty \in Nat /\ position \in Int
  BY EntryQtyPositive
<1>2. CASE position = 0
  <2>1. signal \in {"BUY", "SELL"}
    BY <1>2 DEF GetSignal
  <2>2. Plan(signal).qty = EntryQty
    BY <1>2, <2>1 DEF Plan, BuildOrderPlan, TargetQty, EntryQty
  <2> QED
    BY <1>2, <2>2 DEF SoundOrder
<1>3. CASE position # 0
  <2>1. signal = "CLOSE"
    BY <1>3 DEF GetSignal
  <2> QED
    BY <1>1, <1>3, <2>1 DEF Plan, BuildClosePlan, Magnitude, SoundOrder
<1> QED
  BY <1>2, <1>3

LEMMA QuietTrade ==
  ASSUME Quiet, TypeOK, QuietInv, NEW signal \in Signals, Trade(signal)
  PROVE  QuietInv'
<1> DEFINE o == placed + 1
<1>1. /\ signal \in {"BUY", "SELL", "CLOSE"} /\ Submit(Plan(signal))
      /\ active = NoOrder
      /\ signal \in GetSignal(position)
      /\ UNCHANGED <<form, position, loop, brokerPos, connected, stream>>
  BY DEF Trade, HasTarget, Plan, MayTrade
<1>2. stream = << >> /\ position = brokerPos
  BY <1>1, NoOrderNoUpdate DEF QuietInv
<1>3. active' = o /\ UNCHANGED orphans
  <2>1. ~(Cardinality(orphans) < MaxLost)
    BY FS_EmptySet DEF QuietInv, Quiet
  <2> QED
    BY <1>1, <2>1 DEF Submit
<1>4. /\ o \in OrderIds
      /\ order'[o] = [status |-> "new", side |-> Plan(signal).side,
                      qty |-> Plan(signal).qty, filled |-> 0]
  BY <1>1, ConstantsAssumption DEF Submit, TypeOK, OrderIds
<1>5. position \in -EntryQty..EntryQty
  BY <1>2 DEF QuietInv, ExposureBounded
<1>6. SoundOrder(Plan(signal).side, Plan(signal).qty, position)
  BY <1>1, <1>5, PlanSound
<1>7. Plan(signal) \in [side : Sides, qty : Nat] /\ brokerPos \in Int
  BY <1>1, PlanType DEF TypeOK
<1>8. brokerPos' - Signed(order'[o].side, order'[o].filled) = brokerPos
  BY <1>1, <1>4, <1>7 DEF Signed
<1>9. ActiveSound'
  <2>1. order'[o].filled <= order'[o].qty
    <3>1. order'[o].filled = 0 /\ order'[o].qty \in Nat
      BY <1>4, <1>7
    <3> QED
      BY <3>1
  <2>2. SoundOrder(order'[o].side, order'[o].qty, brokerPos)
    BY <1>2, <1>4, <1>6
  <2> QED
    BY <1>3, <1>8, <2>1, <2>2 DEF ActiveSound, SoundOrder, Start
<1>10. /\ Steady' /\ StreamOfActive'
       /\ form = "change" => StreamChain'
  BY <1>1, <1>2, ChainUnchanged
  DEF QuietInv, StreamOfActive, ChainInv, Steady
<1>11. active' # NoOrder
  BY <1>3, <1>4 DEF OrderIds, NoOrder
<1> QED
  BY <1>1, <1>3, <1>9, <1>10, <1>11 DEF QuietInv, ExposureBounded

LEMMA QuietUpdate ==
  ASSUME Quiet, TypeOK, TrackingInv, QuietInv, HandleTradeUpdate
  PROVE  QuietInv'
<1> DEFINE u == Head(stream)
<1>1. /\ stream # << >> /\ stream' = Tail(stream)
      /\ active' = IF form = "change" /\ EndsActive(u)
                   THEN NoOrder ELSE active
      /\ position' = IF form = "change" THEN position + u.delta
                     ELSE position
      /\ UNCHANGED <<form, order, brokerPos, connected, orphans, loop>>
  BY DEF HandleTradeUpdate, RaisesBeforePosition, FilledQty, Readable, Quiet,
         QuietInv
<1>2. stream \in Seq(Update) /\ u = stream[1] /\ u \in Update
  BY <1>1 DEF TypeOK
<1>3. /\ Len(stream) \in Nat \ {0} /\ Len(stream') = Len(stream) - 1
      /\ \A i \in 1..Len(stream') :
           stream'[i] = stream[i + 1] /\ i + 1 \in 1..Len(stream)
      /\ stream' = << >> <=> Len(stream) = 1
  <2>1. Len(stream) \in Nat \ {0} /\ Len(stream') = Len(stream) - 1
    BY <1>1, <1>2
  <2>2. \A i \in 1..Len(stream') : stream'[i] = stream[i + 1]
    BY <1>1, <1>2
  <2>3. stream' = << >> <=> Len(stream') = 0
    <3>1. stream' \in Seq(Update)
      BY <1>1, <1>2
    <3> QED
      BY <3>1, EmptySeq
  <2> QED
    BY <2>1, <2>2, <2>3
<1>4. Steady' /\ (form = "change" => StreamChain')
  BY <1>1, ChainUpdate DEF QuietInv, ChainInv, Steady
<1>5. CASE form = "change" /\ EndsActive(u)
  <2>1. stream' = << >>
    BY <1>2, <1>3, <1>5 DEF EndsActive, QuietInv, StreamOfActive
  <2>2. active' = NoOrder /\ 1..Len(stream') = {}
    BY <1>1, <1>5, <2>1
  <2>3. StreamOfActive' /\ ActiveSound'
    BY <2>2 DEF StreamOfActive, ActiveSound
  <2>4. position' = brokerPos'
    BY <1>4, <1>5, <2>1 DEF StreamChain
  <2> QED
    BY <1>1, <1>4, <2>3, <2>4 DEF QuietInv, ExposureBounded
<1>6. CASE ~(form = "change" /\ EndsActive(u))
  <2>1. UNCHANGED <<active, order, brokerPos>>
    BY <1>1, <1>6
  <2>2. ActiveSound'
    BY <2>1 DEF QuietInv, ActiveSound, Start
  <2>3. StreamOfActive'
    BY <1>3, <2>1, SMTT(30) DEF QuietInv, StreamOfActive, IsOpen
  <2>4. active # NoOrder
    BY <1>1, NoOrderNoUpdate
  <2> QED
    BY <1>1, <1>4, <2>1, <2>2, <2>3, <2>4 DEF QuietInv, ExposureBounded
<1> QED
  BY <1>5, <1>6

\* What every step does: the invariant stays, and no fill takes the broker's
\* position past flat.
LEMMA QuietStep ==
  ASSUME Quiet, TypeOK, TrackingInv, QuietInv, [Next]_vars
  PROVE  /\ QuietInv'
         /\ brokerPos > 0 => brokerPos' >= 0
         /\ brokerPos < 0 => brokerPos' <= 0
<1> DEFINE Kept == /\ QuietInv'
                   /\ brokerPos > 0 => brokerPos' >= 0
                   /\ brokerPos < 0 => brokerPos' <= 0
<1> USE ConstantsAssumption
<1>0. ASSUME QuietInv', UNCHANGED brokerPos PROVE Kept
  <2>1. brokerPos \in Int
    BY DEF TypeOK
  <2> QED
    BY <1>0, <2>1
<1>1. ASSUME NEW o \in OrderIds, NEW n \in 1..EntryQty, BrokerFill(o, n)
      PROVE  Kept
  <2>1. /\ UNCHANGED <<form, active, orphans, loop, position>>
        /\ order[o].filled + n <= order[o].qty
    BY <1>1 DEF BrokerFill
  <2>2. n \in Nat /\ order[o] \in Order
    BY EntryQtyPositive DEF TypeOK
  <2>3. /\ order'[o].side = order[o].side
        /\ order'[o].qty = order[o].qty
        /\ order'[o].filled = order[o].filled + n
    <3>1. PICK status :
            order' = [order EXCEPT ![o] =
                        [order[o] EXCEPT !.status = status,
                                         !.filled = order[o].filled + n]]
      BY <1>1, FillIsBrokerEvent
    <3> QED
      BY <2>2, <3>1 DEF TypeOK, Order
  <2>4. BrokerEvent(o) /\ brokerPos' = brokerPos + Signed(order[o].side, n)
    BY <1>1, FillIsBrokerEvent
  <2> HIDE DEF QuietInv, TypeOK, TrackingInv
  <2> QED
    BY <2>1, <2>2, <2>3, <2>4, QuietBrokerEvent
<1>2. ASSUME NEW o \in OrderIds, NEW status \in EndStatuses,
             BrokerEnd(o, status)
      PROVE  Kept
  <2>1. UNCHANGED <<form, active, orphans, loop, position>> /\ EndOrder(o, status)
    BY <1>2 DEF BrokerEnd
  <2> QED
    BY <1>0, <2>1, QuietEnd
<1>3. CASE HandleTradeUpdate
  <2>1. UNCHANGED brokerPos
    BY <1>3 DEF HandleTradeUpdate
  <2> QED
    BY <1>0, <1>3, <2>1, QuietUpdate
<1>4. ASSUME NEW signal \in Signals, Trade(signal)
      PROVE  Kept
  <2>1. UNCHANGED brokerPos
    BY <1>4 DEF Trade
  <2> QED
    BY <1>0, <1>4, <2>1, QuietTrade
<1>5. ASSUME NEW answers \in BOOLEAN,
             RefreshPosition(answers) \/ RefreshOrder(answers)
      PROVE  Kept
  BY <1>5
  DEF RefreshPosition, RefreshOrder, Quiet, QuietInv, Steady
<1>6. ASSUME NEW o \in autoCancel, AutoCancel(o)
      PROVE  Kept
  <2>1. UNCHANGED <<form, active, orphans, loop, position>> /\ o \in OrderIds
    BY <1>6 DEF AutoCancel, TypeOK, OrderIds
  <2>2. CASE EndOrder(o, "canceled")
    BY <1>0, <2>1, <2>2, QuietEnd DEF Terminal
  <2>3. CASE UNCHANGED brokerVars
    BY <1>0, <2>1, <2>3
    DEF brokerVars, QuietInv, Steady, StreamChain, After, StreamOfActive,
        IsOpen, ActiveSound, Start, ExposureBounded
  <2> QED
    BY <1>6, <2>2, <2>3 DEF AutoCancel
<1>7. CASE Disconnect
  <2>1. drops < 0 /\ drops \in Nat
    BY <1>7 DEF Disconnect, Quiet, TypeOK
  <2> QED
    BY <2>1
<1>8. CASE RestartLoop \/ Connect
  BY <1>8 DEF RestartLoop, Connect, QuietInv, Steady
<1>9. CASE UNCHANGED vars
  BY <1>0, <1>9
  DEF vars, QuietInv, Steady, StreamChain, After, StreamOfActive, IsOpen,
      ActiveSound, Start, ExposureBounded
<1> QED
  BY <1>1, <1>2, <1>3, <1>4, <1>5, <1>6, <1>7, <1>8, <1>9 DEF Next

-----------------------------------------------------------------------------

LEMMA QuietInvariant ==
  ASSUME Quiet
  PROVE  position = brokerPos /\ Spec => [](TypeOK /\ TrackingInv /\ QuietInv)
<1>1. position = brokerPos /\ Init => TypeOK /\ TrackingInv /\ QuietInv
  BY TypeInit, TrackingInit, QuietInit
<1>2. TypeOK /\ TrackingInv /\ QuietInv /\ [Next]_vars
        => (TypeOK /\ TrackingInv /\ QuietInv)'
  BY TypeStep, TrackingStep, QuietStep
<1> QED
  BY <1>1, <1>2, PTL DEF Spec

\* Signals, partial fills and cancellations never add up to more than one
\* entry: |position| <= _round_to_lot(default_order_qty).  With updates that
\* are not read the gate stays shut after the first order; with the change
\* of the position in them the sum the handler keeps is right each time the
\* gate opens.
THEOREM OneEntryAtMost ==
  ASSUME Quiet PROVE position = brokerPos /\ Spec => []ExposureBounded
<1>1. QuietInv => ExposureBounded
  BY DEF QuietInv
<1> QED
  BY <1>1, QuietInvariant, PTL

\* A CLOSE never turns a long position into a short one or back: it is sized
\* from the position known, which is the broker's when it is sent.
THEOREM CloseStopsAtFlat ==
  ASSUME Quiet PROVE position = brokerPos /\ Spec => NoFlip
<1>1. TypeOK /\ TrackingInv /\ QuietInv /\ [Next]_vars
        => [/\ brokerPos > 0 => brokerPos' >= 0
            /\ brokerPos < 0 => brokerPos' <= 0]_vars
  BY QuietStep
<1> QED
  BY <1>1, QuietInvariant, PTL DEF Spec, NoFlip
==============================================================================
