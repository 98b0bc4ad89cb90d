-------------------------- MODULE Validation_proofs ---------------------------
(***************************************************************************)
(* Proofs about the backtest strategies, for every feed, price set, limit  *)
(* offset and trailing stop: one position at a time, and a trailing stop   *)
(* that belongs to the position it protects.  Then about the validator's   *)
(* tests, for lists of any length: what is matched, how a report is scored *)
(* and what its status says.                                               *)
(***************************************************************************)
EXTENDS Validation, FiniteSetTheorems, WellFoundedInduction, TLAPS

(***************************************************************************)
(* Induction over the naturals, from the well-foundedness of <: a set of   *)
(* naturals that holds 0 and every successor holds them all.               *)
(***************************************************************************)
LEMMA NatOrder ==
  \E R : IsWellFoundedOn(R, Nat) /\ \A k, l \in Nat : k < l => <<k, l>> \in R
<1>1. \A k, l \in Nat : k < l => <<k, l>> \in OpToRel(<, Nat)
  BY DEF OpToRel
<1> QED
  BY <1>1, NatLessThanWellFounded, Zenon

LEMMA Smallest ==
  ASSUME NEW T \in SUBSET Nat, T # {}
  PROVE  \E m \in T : \A k \in T : m <= k
<1>1. PICK R : /\ IsWellFoundedOn(R, Nat)
               /\ \A k, l \in Nat : k < l => <<k, l>> \in R
  BY NatOrder
<1>2. PICK m \in T : \A k \in T : ~(<<k, m>> \in R)
  <2>1. IsWellFoundedOn(R, Nat) /\ T \subseteq Nat
    BY <1>1
  <2> QED
    BY <2>1, WFMin
<1>3. \A k \in Nat : ~(k < m) => m <= k
  <2>1. m \in Nat
    OBVIOUS
  <2> QED
    BY <2>1
<1> QED
  BY <1>1, <1>2, <1>3, T \subseteq Nat, Zenon

LEMMA Induction ==
  ASSUME NEW T \in SUBSET Nat, 0 \in T, \A n \in T : n + 1 \in T
  PROVE  T = Nat
<1> SUFFICES ASSUME T # Nat PROVE FALSE
  OBVIOUS
<1>1. PICK m \in Nat \ T : \A k \in Nat \ T : m <= k
  BY Smallest
<1>2. m # 0 /\ m - 1 \in T
  BY <1>1
<1> QED
  BY <1>1, <1>2

(***************************************************************************)
(* What a recursive function of naturals computes exists.                  *)
(***************************************************************************)
LEMMA Recursion==
  ASSUME NEW step \in [Nat -> [Nat -> Nat]], NEW N \in Nat
  PROVE  \E f \in [0..N -> Nat] :
             f[0] = 0 /\ \A i \in 1..N : f[i] = step[i][f[i - 1]]
<1> DEFINE Runs(f, n) == f[0] = 0 /\ \A i \in 1..n : f[i] = step[i][f[i - 1]]
           T == {n \in Nat : \E f \in [0..n -> Nat] : Runs(f, n)}
<1>1. 0 \in T
  <2>1. [i \in 0..0 |-> 0] \in [0..0 -> Nat] /\ Runs([i \in 0..0 |-> 0], 0)
    OBVIOUS
  <2> QED
    BY <2>1
<1>2. ASSUME NEW n \in T PROVE n + 1 \in T
  <2>1. n \in Nat /\ n + 1 \in Nat
    OBVIOUS
  <2>2. PICK f \in [0..n -> Nat] : Runs(f, n)
    OBVIOUS
  <2> DEFINE next == step[n + 1][f[n]]
             g == [i \in 0..n + 1 |-> IF i = n + 1 THEN next ELSE f[i]]
  <2>3. f \in [0..n -> Nat] /\ n \in 0..n /\ 0 \in 0..n /\ f[n] \in Nat
    <3>1. n \in 0..n /\ 0 \in 0..n
      BY <2>1
    <3>2. f \in [0..n -> Nat]
      BY <2>2
    <3>3. f[n] \in Nat
      BY <3>1, <3>2
    <3> QED
      BY <3>1, <3>2, <3>3
  <2>4. next \in Nat
    <3>1. step[n + 1] \in [Nat -> Nat]
      BY <2>1
    <3> QED
      BY <2>3, <3>1
  <2> HIDE DEF next
  <2>5. g \in [0..n + 1 -> Nat]
    <3>1. \A i \in 0..n + 1 : i # n + 1 => i \in 0..n
      BY <2>1
    <3>2. \A i \in 0..n : f[i] \in Nat
      BY <2>3
    <3> QED
      BY <2>4, <3>1, <3>2
  <2>6. (\A i \in 0..n : g[i] = f[i]) /\ g[n + 1] = next
    BY <2>1
  <2> HIDE DEF g
  <2>7. g[0] = 0
    BY <2>2, <2>3, <2>6
  <2>8. ASSUME NEW i \in 1..n + 1 PROVE g[i] = step[i][g[i - 1]]
    <3>1. CASE i = n + 1
      <4>1. i - 1 = n /\ n \in 0..n
        BY <3>1, <2>1
      <4> QED
        BY <3>1, <4>1, <2>6 DEF next
    <3>2. CASE i # n + 1
      <4>1. i \in 1..n /\ i - 1 \in 0..n /\ i \in 0..n
        BY <3>2, <2>1
      <4> QED
        BY <4>1, <2>2, <2>6
    <3> QED
      BY <3>1, <3>2
  <2>9. Runs(g, n + 1)
    BY <2>7, <2>8
  <2> HIDE DEF Runs
  <2> QED
    BY <2>1, <2>5, <2>9
<1> HIDE DEF T
<1>3. T = Nat
  <2>1. T \subseteq Nat
    BY DEF T
  <2> QED
    BY <1>1, <1>2, <2>1, Induction
<1> QED
  BY <1>3 DEF T

\* What SumOf computes is the recursion its definition writes down.
LEMMA SumNat ==
  ASSUME NEW s \in Seq(Nat)
  PROVE  SumOf(s) \in Nat
<1> DEFINE Sums(f) == f = [i \in 0..Len(s) |-> IF i = 0 THEN 0 ELSE f[i - 1] + s[i]]
           step == [i \in Nat |-> [t \in Nat |-> IF i \in 1..Len(s) THEN t + s[i] ELSE 0]]
           sum == CHOOSE f : Sums(f)
<1>1. Len(s) \in Nat /\ \A i \in 1..Len(s) : s[i] \in Nat
  OBVIOUS
<1>2. step \in [Nat -> [Nat -> Nat]]
  BY <1>1
<1>3. PICK f \in [0..Len(s) -> Nat] :
          f[0] = 0 /\ \A i \in 1..Len(s) : f[i] = step[i][f[i - 1]]
  <2> HIDE DEF step
  <2> QED
    BY <1>1, <1>2, Recursion
<1>4. \A i \in 1..Len(s) : f[i] = f[i - 1] + s[i]
  <2> TAKE i \in 1..Len(s)
  <2>1. i - 1 \in 0..Len(s) /\ i \in Nat
    BY <1>1
  <2>2. f[i - 1] \in Nat
    BY <2>1
  <2> QED
    BY <1>3, <2>1, <2>2
<1>5. Sums(f)
  BY <1>1, <1>3, <1>4
<1>6. Sums(sum)
  <2> HIDE DEF Sums
  <2> QED
    BY <1>5
<1> HIDE DEF sum
<1> DEFINE T == {n \in Nat : n \in 0..Len(s) => sum[n] \in Nat}
<1>7. 0 \in T
  BY <1>1, <1>6
<1>8. ASSUME NEW n \in T PROVE n + 1 \in T
  <2> SUFFICES ASSUME n + 1 \in 0..Len(s) PROVE sum[n + 1] \in Nat
    OBVIOUS
  <2>1. n \in 0..Len(s) /\ n + 1 \in 1..Len(s) /\ n + 1 # 0 /\ (n + 1) - 1 = n
    BY <1>1
  <2>2. sum[n + 1] = sum[n] + s[n + 1]
    BY <1>6, <2>1
  <2>3. sum[n] \in Nat
    BY <2>1
  <2> QED
    BY <1>1, <2>1, <2>2, <2>3
<1>9. T = Nat
  <2> HIDE DEF T
  <2>1. T \subseteq Nat
    BY DEF T
  <2> QED
    BY <1>7, <1>8, <2>1, Induction
<1>10. sum[Len(s)] \in Nat
  BY <1>1, <1>9
<1>11. SumOf(s) = sum[Len(s)]
  BY DEF SumOf, sum
<1> QED
  BY <1>10, <1>11

LEMMA ThreeOf ==
  ASSUME NEW a, NEW b, NEW c, a # b, a # c, b # c
  PROVE  IsFiniteSet({a, b, c}) /\ Cardinality({a, b, c}) = 3
<1>1. IsFiniteSet({a}) /\ Cardinality({a}) = 1
  BY FS_Singleton
<1>2. IsFiniteSet({a, b}) /\ Cardinality({a, b}) = 2
  <2>1. {a, b} = {a} \union {b}
    OBVIOUS
  <2> QED
    BY <1>1, <2>1, FS_AddElement
<1>3. {a, b, c} = {a, b} \union {c}
  OBVIOUS
<1> QED
  BY <1>2, <1>3, FS_AddElement

LEMMA ThreeTests == IsFiniteSet(Tests) /\ Cardinality(Tests) = 3
  BY ThreeOf DEF Tests

LEMMA FourMetrics == IsFiniteSet(Metrics) /\ Cardinality(Metrics) = 4
<1> DEFINE three == {"total_return", "sharpe_ratio", "max_drawdown"}
<1>1. IsFiniteSet(three) /\ Cardinality(three) = 3
  BY ThreeOf
<1>2. Metrics = three \union {"win_rate"} /\ "win_rate" \notin three
  BY DEF Metrics
<1> HIDE DEF three
<1> QED
  BY <1>1, <1>2, FS_AddElement

USE BacktestAssumption

btvars == <<btVars, validated>>

(***************************************************************************)
(* Why there is one position: an order is the only one pending, and the    *)
(* broker looks at it once a bar.  Buy-and-hold does not look at what is   *)
(* pending; its market orders are settled before it decides.               *)
(***************************************************************************)
ForWhatIsHeld(o) == IF o.entry THEN position = 0 ELSE position + o.dir = 0

OneOrder == orders = << >> \/ \E o \in Order : orders = <<o>> /\ ForWhatIsHeld(o)

SettlesIt == phase = "settle" => orders # << >> /\ due = 1 /\ bar # 0

\* Without a limit, nothing is pending when the strategy decides.
MarketSettled ==
    /\ strategy \in {"hold", "ema"} => ~limit
    /\ ~limit => /\ \A o \in Order : orders = <<o>> => o.limit = 0
                 /\ phase = "decide" => orders = << >>

OneInv == BacktestTypeOK /\ position \in -1..1 /\ OneOrder /\ SettlesIt /\ MarketSettled

LEMMA EmptySeqs == << >> \in Seq(Order) /\ << >> \in Seq(Fill) /\ Len(<< >>) = 0
  OBVIOUS

LEMMA OneOfSeq ==
  ASSUME NEW S, NEW o \in S
  PROVE  /\ <<o>> \in Seq(S) /\ Len(<<o>>) = 1 /\ Head(<<o>>) = o
         /\ Tail(<<o>>) = << >> /\ Append(<< >>, o) = <<o>>
         /\ <<o>> # << >> /\ <<o>>[1] = o
  OBVIOUS

LEMMA OneInit == VInit => OneInv
<1> SUFFICES ASSUME VInit PROVE OneInv
  OBVIOUS
<1>1. force \in BOOLEAN /\ limit \in BOOLEAN /\ trail \in BOOLEAN
  BY DEF VInit, Init
<1>2. strategy \in {"hold", "ema"} => ~limit
  BY DEF VInit, Init, Averaging
<1>3. orders = << >> /\ fills = << >>
  BY DEF VInit, Init
<1>4. orders \in Seq(Order) /\ fills \in Seq(Fill)
  BY <1>3, EmptySeqs
<1>5. strategy \in Averaging \union {"ema", "hold"} /\ price \in Prices
  BY DEF VInit, Init
<1>6. /\ phase = "decided" /\ bar = 0 /\ due = 0 /\ position = 0 /\ done = FALSE
      /\ highest = 0 /\ stop = 0 /\ peak = 0
  BY DEF VInit, Init
<1>7. BacktestTypeOK
  <2>1. /\ phase \in {"settle", "decide", "decided"} /\ bar \in 0..Bars
        /\ due \in Nat /\ position \in Int /\ highest \in Nat /\ stop \in Nat
        /\ peak \in Nat
    BY <1>6
  <2>2. done \in BOOLEAN
    BY <1>6
  <2> QED
    BY <1>1, <1>4, <1>5, <2>1, <2>2, Zenon DEF BacktestTypeOK
<1>8. OneOrder /\ SettlesIt /\ MarketSettled /\ position \in -1..1
  BY <1>2, <1>3, <1>6, OneOfSeq DEF OneOrder, SettlesIt, MarketSettled
<1> QED
  BY <1>7, <1>8 DEF OneInv

LEMMA OneNewBar == ASSUME OneInv, NEW p \in Prices, NewBar(p) PROVE OneInv'
  <1>1. BacktestTypeOK'
    BY EmptySeqs DEF NewBar, OneInv, BacktestTypeOK, config, stops
  <1>2. OneOrder' /\ MarketSettled' /\ position' \in -1..1
    BY EmptySeqs DEF NewBar, OneInv, OneOrder, ForWhatIsHeld, MarketSettled, config
  <1>3. SettlesIt'
    <2>1. CASE orders = << >>
      BY <2>1 DEF NewBar, SettlesIt
    <2>2. ASSUME NEW o \in Order, orders = <<o>> PROVE SettlesIt'
      BY <2>2, OneOfSeq DEF NewBar, SettlesIt, OneInv, BacktestTypeOK
    <2> QED
      BY <2>1, <2>2 DEF OneInv, OneOrder
  <1> QED
    BY <1>1, <1>2, <1>3 DEF OneInv

LEMMA OneSettled ==
  ASSUME OneInv, Completes \/ Refused \/ StaysPending PROVE OneInv'
  <1>1. PICK o \in Order : orders = <<o>> /\ ForWhatIsHeld(o)
    BY DEF OneInv, SettlesIt, OneOrder, Settled, Completes, Refused, StaysPending
  <1>2. due' = 0 /\ phase' = "decide" /\ UNCHANGED <<config, feed, done, stops>>
    BY <1>1 DEF OneInv, SettlesIt, Settled, Completes, Refused, StaysPending
  <1>3. CASE Completes
    <2>1. orders' = << >> /\ position' = position + o.dir
      BY <1>1, <1>3, OneOfSeq DEF Completes
    <2>2. position' \in -1..1
      BY <1>1, <2>1 DEF OneInv, ForWhatIsHeld, Order
    <2>3. fills' \in Seq(Fill)
      <3>1. Head(orders).dir \in {-1, 1}
        BY <1>1, OneOfSeq DEF Order
      <3>2. [at |-> bar, dir |-> Head(orders).dir, price |-> price] \in Fill
        <4>1. bar \in 1..Bars /\ price \in Prices
          BY <1>3 DEF OneInv, BacktestTypeOK, SettlesIt, Completes, Settled
        <4> QED
          BY <3>1, <4>1 DEF Fill
      <3> QED
        BY <3>2, <1>3 DEF Completes, OneInv, BacktestTypeOK
    <2> QED
      BY <1>2, <2>1, <2>2, <2>3, EmptySeqs
      DEF OneInv, BacktestTypeOK, OneOrder, SettlesIt, MarketSettled, config, feed, stops
  <1>4. CASE Refused
    <2>1. orders' = << >> /\ UNCHANGED <<position, fills>>
      BY <1>1, <1>4, OneOfSeq DEF Refused
    <2> QED
      BY <1>2, <2>1, EmptySeqs
      DEF OneInv, BacktestTypeOK, OneOrder, SettlesIt, MarketSettled, config, feed, stops
  <1>5. CASE StaysPending
    <2>1. orders' = <<o>> /\ UNCHANGED <<position, fills>>
      BY <1>1, <1>5, OneOfSeq DEF StaysPending
    <2>2. limit
      BY <1>1, <1>5, OneOfSeq DEF StaysPending, Reached, OneInv, MarketSettled
    <2> QED
      BY <1>1, <1>2, <2>1, <2>2, OneOfSeq
      DEF OneInv, BacktestTypeOK, OneOrder, ForWhatIsHeld, SettlesIt, MarketSettled,
          config, feed, stops
  <1> QED
    BY <1>3, <1>4, <1>5

(***************************************************************************)
(* Deciding                                                                *)
(***************************************************************************)
LEMMA KeepTypes ==
  ASSUME BacktestTypeOK, Keep
  PROVE  /\ highest' \in Nat /\ stop' \in Nat /\ peak' \in Nat
         /\ orders' = orders
  <1>1. Raised \in Nat /\ StopAt(Raised) \in Nat
    BY DEF Raised, Higher, StopAt, BacktestTypeOK
  <1>2. RaisedStop \in Nat
    BY <1>1 DEF RaisedStop, Higher, BacktestTypeOK
  <1> QED
    BY <1>1, <1>2 DEF Keep, BacktestTypeOK, Higher

LEMMA EnterTypes ==
  ASSUME BacktestTypeOK, orders = << >>, position = 0, NEW dir \in {-1, 1},
         EnterPosition(dir)
  PROVE  /\ highest' \in Nat /\ stop' \in Nat /\ peak' \in Nat
         /\ \/ orders' = << >>
            \/ \E o \in Order : orders' = <<o>> /\ o.entry
                                  /\ (~limit => o.limit = 0)
  <1>1. price \in Nat /\ Offset < price /\ StopAt(price) \in Nat
    BY DEF BacktestTypeOK, StopAt
  <1>2. LimitPrice(dir) \in Nat /\ (~limit => LimitPrice(dir) = 0)
    BY <1>1 DEF LimitPrice, BacktestTypeOK
  <1>3. [entry |-> TRUE, dir |-> dir, limit |-> LimitPrice(dir)] \in Order
    BY <1>2 DEF Order
  <1>4. highest' \in Nat /\ stop' \in Nat /\ peak' \in Nat
    BY <1>1 DEF EnterPosition, StopOfEntry, BacktestTypeOK, stops
  <1>5. CASE orders' = Append(orders, [entry |-> TRUE, dir |-> dir,
                                       limit |-> LimitPrice(dir)])
    BY <1>2, <1>3, <1>4, <1>5, OneOfSeq
  <1> QED
    BY <1>4, <1>5 DEF EnterPosition

LEMMA ExitTypes ==
  ASSUME BacktestTypeOK, orders = << >>, position \in {-1, 1}, ExitPosition
  PROVE  /\ highest' = 0 /\ stop' = 0 /\ peak' = peak
         /\ \E o \in Order : orders' = <<o>> /\ ~o.entry
                               /\ position + o.dir = 0 /\ o.limit = 0
  <1> DEFINE o == [entry |-> FALSE, limit |-> 0,
                   dir |-> IF position > 0 THEN -1 ELSE 1]
  <1>1. o \in Order /\ position + o.dir = 0 /\ ~o.entry /\ o.limit = 0
    BY DEF Order
  <1>2. orders' = <<o>>
    BY <1>1, OneOfSeq DEF ExitPosition
  <1> QED
    BY <1>1, <1>2 DEF ExitPosition

\* What a decision of any strategy leaves, without regard to the score.
LEMMA OneDecides ==
  ASSUME OneInv, BaseNext \/ HoldNext PROVE OneInv'
  <1> DEFINE Sent == \E o \in Order : /\ orders' = <<o>> /\ ForWhatIsHeld(o)
                                      /\ (~limit => o.limit = 0)
  <1>1. phase = "decide" /\ phase' = "decided"
           /\ UNCHANGED <<config, feed, due, position, fills>>
    BY DEF BaseNext, HoldNext, Decides
  <1>2. /\ highest' \in Nat /\ stop' \in Nat /\ peak' \in Nat /\ done' \in BOOLEAN
        /\ orders' = orders \/ Sent
    <2>1. CASE BaseNext
      <3>1. PICK score \in -2..2 : Decision(score)
        BY <2>1 DEF BaseNext
      <3>2. CASE Keep /\ UNCHANGED done
        BY <3>2, KeepTypes DEF OneInv, BacktestTypeOK
      <3>3. CASE Keep /\ done' = (done \/ Forces(ShouldExit(score, RaisedStop)))
        BY <3>3, KeepTypes DEF OneInv, BacktestTypeOK, Forces
      <3>4. CASE /\ ~Busy /\ position = 0 /\ GenerateSignal(score) # 0
                 /\ EnterPosition(GenerateSignal(score)) /\ UNCHANGED done
        <4>1. orders = << >> /\ GenerateSignal(score) \in {-1, 1}
          BY <3>4 DEF Busy, GenerateSignal, CrossoverSignal, AveragingSignal
        <4> QED
          BY <3>4, <4>1, <2>1, EnterTypes
          DEF OneInv, BacktestTypeOK, ForWhatIsHeld, BaseNext
      <3>5. CASE /\ ~Busy /\ position # 0 /\ ExitPosition /\ done' \in BOOLEAN
        <4>1. orders = << >> /\ position \in {-1, 1}
          BY <3>5 DEF Busy, OneInv
        <4> QED
          BY <3>5, <4>1, <2>1, ExitTypes
          DEF OneInv, BacktestTypeOK, ForWhatIsHeld, BaseNext
      <3>6. ~Busy /\ position # 0 =>
               done' \in BOOLEAN \/ (Keep /\ UNCHANGED done)
        BY <3>1 DEF Decision, Forces, OneInv, BacktestTypeOK
      <3> QED
        BY <3>1, <3>2, <3>3, <3>4, <3>5, <3>6 DEF Decision
    <2>2. CASE HoldNext
      <3>1. orders = << >> /\ ~limit
        BY <1>1, <2>2 DEF HoldNext, OneInv, MarketSettled
      <3>2. CASE position = 0 /\ EnterPosition(1)
        BY <3>1, <3>2, <2>2, EnterTypes
        DEF OneInv, BacktestTypeOK, ForWhatIsHeld, HoldNext
      <3>3. CASE UNCHANGED <<orders, stops>>
        BY <3>3, <2>2 DEF OneInv, BacktestTypeOK, stops, HoldNext
      <3> QED
        BY <3>2, <3>3, <2>2 DEF HoldNext
    <2> QED
      BY <2>1, <2>2
  <1>3. CASE orders' = orders
    BY <1>1, <1>2, <1>3
    DEF OneInv, BacktestTypeOK, OneOrder, ForWhatIsHeld, SettlesIt, MarketSettled,
        config, feed
  <1>4. ASSUME NEW o \in Order, orders' = <<o>>, ForWhatIsHeld(o),
               ~limit => o.limit = 0
        PROVE  OneInv'
    <2>1. OneOrder' /\ orders' \in Seq(Order)
      BY <1>1, <1>4, OneOfSeq DEF OneOrder, ForWhatIsHeld
    <2>2. MarketSettled'
      BY <1>1, <1>4, OneOfSeq DEF MarketSettled, OneInv, config
    <2> QED
      BY <1>1, <1>2, <2>1, <2>2 DEF OneInv, BacktestTypeOK, SettlesIt, config, feed
  <1> QED
    BY <1>2, <1>3, <1>4

LEMMA OneStep == OneInv /\ [VNext]_btvars => OneInv'
<1> SUFFICES ASSUME OneInv, [VNext]_btvars PROVE OneInv'
  OBVIOUS
<1>1. ASSUME NEW p \in Prices, NewBar(p) PROVE OneInv'
  BY <1>1, OneNewBar
<1>2. CASE Completes \/ Refused \/ StaysPending
  BY <1>2, OneSettled
<1>3. CASE BaseNext \/ HoldNext
  BY <1>3, OneDecides
<1>4. CASE UNCHANGED btVars
  BY <1>4 DEF OneInv, BacktestTypeOK, OneOrder, ForWhatIsHeld, SettlesIt, MarketSettled,
              btVars, config, feed, stops
<1> QED
  BY <1>1, <1>2, <1>3, <1>4 DEF VNext, Next, ValidateConsistency, btvars

(***************************************************************************)
(* The trades of a run: the position is what the last of them left, and an *)
(* order is not settled at the bar of the trade before it.                 *)
(***************************************************************************)
RoundInv ==
    /\ RoundTrips
    /\ \A i \in DOMAIN fills :
           fills[i].at <= bar /\ (phase = "settle" => fills[i].at < bar)

LEMMA FillTypes ==
  ASSUME BacktestTypeOK
  PROVE  \A i \in DOMAIN fills :
             i \in Nat /\ i # 0 /\ fills[i].at \in Nat /\ fills[i].dir \in {-1, 1}
<1> TAKE i \in DOMAIN fills
<1>1. i \in Nat /\ i # 0 /\ fills[i] \in Fill
  BY DEF BacktestTypeOK
<1>2. fills[i].at \in 1..Bars /\ fills[i].dir \in {-1, 1}
  BY <1>1 DEF Fill
<1> QED
  BY <1>1, <1>2

LEMMA RoundInit == VInit => RoundInv
<1> SUFFICES ASSUME VInit PROVE RoundInv
  OBVIOUS
<1>1. fills = << >> /\ position = 0
  BY DEF VInit, Init
<1>2. DOMAIN fills = {} /\ Len(fills) = 0 /\ 0 % 2 = 0
  BY <1>1
<1> QED
  BY <1>1, <1>2 DEF RoundInv, RoundTrips

LEMMA RoundCompletes == ASSUME OneInv, RoundInv, Completes PROVE RoundInv'
<1>1. PICK o \in Order : orders = <<o>> /\ ForWhatIsHeld(o)
  BY DEF OneInv, SettlesIt, OneOrder, Settled, Completes
<1>2. /\ phase = "settle" /\ phase' = "decide" /\ bar' = bar
      /\ position' = position + o.dir
      /\ fills' = Append(fills, [at |-> bar, dir |-> o.dir, price |-> price])
  BY <1>1, OneOfSeq DEF Completes, Settled, OneInv, SettlesIt, feed
<1> DEFINE n == Len(fills)
<1>3. /\ n \in Nat /\ DOMAIN fills = 1..n /\ DOMAIN fills' = 1..n + 1
      /\ \A i \in 1..n : fills'[i] = fills[i]
      /\ fills'[n + 1].at = bar /\ fills'[n + 1].dir = o.dir /\ Len(fills') = n + 1
  BY <1>2 DEF OneInv, BacktestTypeOK
<1>4. bar \in Nat /\ o.dir \in {-1, 1} /\ position \in Int
  BY DEF OneInv, BacktestTypeOK, Order
<1>5. \A i \in 1..n : fills[i].at \in Nat /\ fills[i].at < bar
                          /\ fills[i].dir \in {-1, 1}
  BY <1>2, <1>3, FillTypes DEF RoundInv, OneInv
<1>6. /\ \A i \in 1..n : i % 2 = 0 => fills[i].dir + fills[i - 1].dir = 0
      /\ \A i, j \in 1..n : i < j => fills[i].at < fills[j].at
      /\ position = IF n % 2 = 0 THEN 0 ELSE fills[n].dir
  BY <1>3 DEF RoundInv, RoundTrips
<1> HIDE DEF n
<1>7. /\ n % 2 = 0 => position = 0 /\ (n + 1) % 2 = 1
      /\ n % 2 # 0 => /\ n \in 1..n /\ (n + 1) % 2 = 0
                      /\ position = fills[n].dir /\ position # 0
  <2>1. /\ n % 2 = 0 => (n + 1) % 2 = 1
        /\ n % 2 # 0 => n \in 1..n /\ (n + 1) % 2 = 0
    <3>1. n \in Nat
      BY <1>3
    <3> QED
      BY <3>1
  <2>2. n \in 1..n => fills[n].dir # 0
    BY <1>5
  <2> QED
    BY <1>6, <2>1, <2>2, Zenon
<1>8. n % 2 # 0 => o.dir + fills[n].dir = 0 /\ position' = 0
  BY <1>1, <1>2, <1>4, <1>7 DEF ForWhatIsHeld
<1>9. n % 2 = 0 => position' = o.dir
  BY <1>2, <1>4, <1>7
<1>10. \A i \in 1..n + 1 : i \in 1..n \/ i = n + 1
  BY <1>3
<1>11. RoundTrips'
  <2>1. ASSUME NEW i \in 1..n + 1, i % 2 = 0
        PROVE  fills'[i].dir + fills'[i - 1].dir = 0
    <3>1. CASE i \in 1..n
      <4>1. i - 1 \in 1..n
        BY <1>3, <2>1, <3>1
      <4> QED
        BY <1>3, <1>6, <2>1, <3>1, <4>1
    <3>2. CASE i = n + 1
      <4>1. n % 2 # 0
        BY <1>3, <1>7, <2>1, <3>2
      <4>2. fills'[i].dir = o.dir /\ i - 1 = n /\ fills'[n] = fills[n]
        BY <1>3, <1>7, <3>2, <4>1
      <4> QED
        BY <1>8, <4>1, <4>2
    <3> QED
      BY <1>10, <3>1, <3>2
  <2>2. ASSUME NEW i \in 1..n + 1, NEW j \in 1..n + 1, i < j
        PROVE  fills'[i].at < fills'[j].at
    <3>1. CASE j = n + 1
      <4>1. i \in 1..n
        BY <1>3, <2>2, <3>1
      <4> QED
        BY <1>3, <1>5, <3>1, <4>1
    <3>2. CASE j \in 1..n
      <4>1. i \in 1..n
        BY <1>3, <2>2, <3>2
      <4> QED
        BY <1>3, <1>6, <2>2, <3>2, <4>1
    <3> QED
      BY <1>10, <3>1, <3>2
  <2>3. position' = IF (n + 1) % 2 = 0 THEN 0 ELSE fills'[n + 1].dir
    BY <1>3, <1>7, <1>8, <1>9
  <2> QED
    BY <1>3, <2>1, <2>2, <2>3 DEF RoundTrips
<1>12. \A i \in DOMAIN fills' : fills'[i].at <= bar'
  BY <1>2, <1>3, <1>4, <1>5, <1>10
<1> QED
  BY <1>2, <1>11, <1>12 DEF RoundInv

LEMMA RoundStep == OneInv /\ RoundInv /\ [VNext]_btvars => RoundInv'
<1> SUFFICES ASSUME OneInv, RoundInv, [VNext]_btvars PROVE RoundInv'
  OBVIOUS
<1>1. ASSUME NEW p \in Prices, NewBar(p) PROVE RoundInv'
  <2>1. bar \in Nat /\ bar' = bar + 1 /\ UNCHANGED <<position, fills>>
    BY <1>1 DEF NewBar, OneInv, BacktestTypeOK
  <2>2. \A i \in DOMAIN fills : fills[i].at \in Nat
    BY FillTypes DEF OneInv
  <2> QED
    BY <2>1, <2>2 DEF RoundInv, RoundTrips
<1>2. CASE Completes
  BY <1>2, RoundCompletes
<1>3. CASE Refused \/ StaysPending
  BY <1>3 DEF RoundInv, RoundTrips, Refused, StaysPending, Settled, feed
<1>4. CASE BaseNext \/ HoldNext
  BY <1>4 DEF RoundInv, RoundTrips, BaseNext, HoldNext, Decides, feed
<1>5. CASE UNCHANGED btVars
  BY <1>5 DEF RoundInv, RoundTrips, btVars, feed
<1> QED
  BY <1>1, <1>2, <1>3, <1>4, <1>5 DEF VNext, Next, ValidateConsistency, btvars

LEMMA OneEnough == OneInv /\ RoundInv => OnePosition
<1> SUFFICES ASSUME OneInv, RoundTrips PROVE OnePosition
  BY DEF RoundInv
<1>1. CASE orders = << >>
  BY <1>1 DEF OneInv, OnePosition
<1>2. ASSUME NEW o \in Order, orders = <<o>>, ForWhatIsHeld(o) PROVE OnePosition
  BY <1>2 DEF OneInv, OnePosition, ForWhatIsHeld
<1> QED
  BY <1>1, <1>2 DEF OneInv, OneOrder

\* Every strategy holds one position of one unit at most and has at most one
\* order for it, whatever the indicators say and however long an order waits;
\* its trades are round trips, no two of them at one bar.
THEOREM OneAtATime == VSpec => []OnePosition
<1>1. VSpec => [](OneInv /\ RoundInv)
  BY OneInit, OneStep, RoundInit, RoundStep, PTL DEF VSpec, btvars
<1> QED
  BY <1>1, OneEnough, PTL

(***************************************************************************)
(* The forced exit: len(self) is never below len(self.data), so that any   *)
(* decision over a position that orders no exit forces one.                *)
(***************************************************************************)
ForceInv == ForcedAtOnce /\ (force => strategy # "hold")

LEMMA ForceStep == OneInv /\ ForceInv /\ [VNext]_btvars => ForceInv'
<1> SUFFICES ASSUME OneInv, ForceInv, [VNext]_btvars PROVE ForceInv'
  OBVIOUS
<1>1. ASSUME NEW p \in Prices, NewBar(p) PROVE ForceInv'
  BY <1>1 DEF NewBar, ForceInv, ForcedAtOnce, config
<1>2. CASE Completes \/ Refused \/ StaysPending
  BY <1>2 DEF Completes, Refused, StaysPending, Settled, ForceInv, ForcedAtOnce,
              config
<1>3. CASE BaseNext
  <2>1. PICK score \in -2..2 : Decision(score)
    BY <1>3 DEF BaseNext
  <2>2. UNCHANGED <<position, strategy, force, bar>>
    BY <1>3 DEF BaseNext, Decides, config, feed
  <2>3. ASSUME force, bar > Warmup, position # 0, orders' = << >>, ~done
        PROVE  FALSE
    <3>1. orders = << >>
      <4>1. CASE Busy
        BY <2>1, <2>3, <4>1 DEF Decision, Keep, Busy
      <4>2. CASE ~Busy
        BY <4>2 DEF Busy
      <4> QED
        BY <4>1, <4>2
    <3>2. IndicatorsReady /\ ~Busy
      BY <2>3, <3>1 DEF IndicatorsReady, Busy
    <3> DEFINE exits == ShouldExit(score, RaisedStop)
    <3>3. exits \/ Forces(exits)
      BY <2>3 DEF Forces, DataLength, OneInv, BacktestTypeOK
    <3>4. ExitPosition
      BY <2>1, <2>3, <3>2, <3>3 DEF Decision
    <3>5. orders' # << >>
      <4>1. orders' = <<[entry |-> FALSE, limit |-> 0,
                         dir |-> IF position > 0 THEN -1 ELSE 1]>>
        BY <3>1, <3>4 DEF ExitPosition
      <4> QED
        BY <4>1
    <3> QED
      BY <2>3, <3>5
  <2>4. done => done'
    BY <2>1 DEF Decision
  <2> QED
    BY <2>2, <2>3, <2>4 DEF ForceInv, ForcedAtOnce
<1>4. CASE HoldNext
  BY <1>4 DEF HoldNext, Decides, ForceInv, ForcedAtOnce, config
<1>5. CASE UNCHANGED btVars
  BY <1>5 DEF ForceInv, ForcedAtOnce, btVars, config, feed
<1> QED
  BY <1>1, <1>2, <1>3, <1>4, <1>5 DEF VNext, Next, ValidateConsistency, btvars

\* With force_exit_on_last_bar, no position is kept over a bar without an exit
\* for it until the one liquidation of the run is done: not on the last bar
\* only, on the first that holds anything (strategies/base.py:266).
THEOREM ForcedOnTheFirstBar == VSpec => []ForcedAtOnce
<1>1. VInit => ForceInv
  BY DEF VInit, Init, ForceInv, ForcedAtOnce
<1>2. ForceInv => ForcedAtOnce
  BY DEF ForceInv
<1> QED
  BY <1>1, <1>2, OneInit, OneStep, ForceStep, PTL DEF VSpec, btvars

(***************************************************************************)
(* The trailing stop.  The crossover sends market orders only, and opens   *)
(* long positions only; from the order to the exit its highest close is    *)
(* the peak, and once it holds a position the close is above the stop      *)
(* whenever it has decided to keep it.                                     *)
(***************************************************************************)
Opens  == \E o \in Order : orders = <<o>> /\ o.entry
Trails == highest = peak /\ stop = StopAt(peak)

LongOnly ==
    /\ position \in 0..1
    /\ \A o \in Order : orders = <<o>> /\ o.entry => o.dir = 1
    /\ position = 1 \/ Opens => bar > Warmup

StopInv ==
    strategy = "ema" =>
        /\ LongOnly
        /\ trail /\ (Opens \/ (position = 1 /\ orders = << >>)) => Trails
        /\ StopTrailsThePeak

LEMMA StopInit == VInit => StopInv
<1> SUFFICES ASSUME VInit PROVE StopInv
  OBVIOUS
<1>1. orders = << >> /\ position = 0
  BY DEF VInit, Init
<1>2. ~Opens
  BY <1>1, OneOfSeq DEF Opens
<1> QED
  BY <1>1, <1>2, OneOfSeq DEF StopInv, LongOnly, StopTrailsThePeak

LEMMA StopNewBar ==
  ASSUME OneInv, StopInv, NEW p \in Prices, NewBar(p) PROVE StopInv'
  BY DEF NewBar, OneInv, BacktestTypeOK, StopInv, LongOnly, Opens, Trails, StopAt,
         StopTrailsThePeak, config, stops

LEMMA StopSettled ==
  ASSUME OneInv, StopInv, Completes \/ Refused \/ StaysPending,
         strategy = "ema"
  PROVE  StopInv'
  <1>1. PICK o \in Order : orders = <<o>> /\ ForWhatIsHeld(o)
    BY DEF OneInv, SettlesIt, OneOrder, Settled, Completes, Refused, StaysPending
  <1>2. /\ phase' = "decide" /\ UNCHANGED <<config, feed, stops>>
    BY <1>1 DEF OneInv, SettlesIt, Settled, Completes, Refused, StaysPending
  <1>3. o.limit = 0
    BY <1>1 DEF OneInv, MarketSettled, BacktestTypeOK
  <1>4. orders' = << >>
    BY <1>1, <1>3, OneOfSeq DEF Completes, Refused, StaysPending, Reached
  <1>5. ~Opens'
    BY <1>4, OneOfSeq DEF Opens
  <1>6. position' = 0 \/ (o.entry /\ position' = 1)
    BY <1>1, <1>3, OneOfSeq
    DEF Completes, Refused, StaysPending, Reached, ForWhatIsHeld, StopInv,
        LongOnly, Order
  <1>7. o.entry => Opens
    BY <1>1 DEF Opens
  <1> QED
    BY <1>2, <1>4, <1>5, <1>6, <1>7, OneOfSeq
    DEF StopInv, LongOnly, Trails, StopAt, StopTrailsThePeak, config, feed, stops

\* A stop at a share of the highest close rises with it.
LEMMA StopRises ==
  ASSUME NEW a \in Nat, NEW b \in Nat
  PROVE  Higher(StopAt(a), StopAt(b)) = StopAt(Higher(a, b))
  <1>1. Trail[1] \in Nat
    OBVIOUS
  <1>2. ASSUME NEW c \in Nat, NEW d \in Nat, c <= d
        PROVE  StopAt(c) <= StopAt(d) /\ StopAt(c) \in Nat /\ StopAt(d) \in Nat
    BY <1>1, <1>2 DEF StopAt
  <1> QED
    BY <1>2 DEF Higher

LEMMA StopDecides ==
  ASSUME OneInv, StopInv, BaseNext, strategy = "ema" PROVE StopInv'
  <1>1. /\ phase' = "decided" /\ orders = << >> /\ position \in 0..1
        /\ UNCHANGED <<config, feed, position>>
    BY DEF BaseNext, Decides, OneInv, MarketSettled, BacktestTypeOK, StopInv, LongOnly
  <1>2. PICK score \in -2..2 : Decision(score)
    BY DEF BaseNext
  <1>3. CASE Keep
    <2>1. orders' = << >> /\ ~Opens'
      BY <1>1, <1>3, OneOfSeq DEF Keep, Opens
    <2>2. CASE position = 0
      BY <1>1, <2>1, <2>2, OneOfSeq
      DEF StopInv, LongOnly, StopTrailsThePeak, config
    <2>3. CASE position = 1
      <3>1. ASSUME trail PROVE Trails'
        <4>1. Trails /\ peak \in Nat /\ price \in Nat
          BY <1>1, <2>3, <3>1 DEF StopInv, OneInv, BacktestTypeOK
        <4>2. highest' = Higher(peak, price) /\ peak' = Higher(peak, price)
          BY <1>3, <2>3, <4>1 DEF Keep, Raised, Trails
        <4>3. Higher(peak, price) \in Nat
          BY <4>1 DEF Higher
        <4>4. stop' = Higher(StopAt(peak), StopAt(Higher(peak, price)))
          BY <1>3, <2>3, <3>1, <4>1 DEF Keep, RaisedStop, Raised, Trails
        <4>5. Higher(peak, Higher(peak, price)) = Higher(peak, price)
          BY <4>1 DEF Higher
        <4> QED
          BY <4>1, <4>2, <4>3, <4>4, <4>5, StopRises DEF Trails, StopAt
      <3>2. ASSUME trail PROVE price * Trail[2] > stop'
        <4>1. IndicatorsReady /\ ~Busy
          BY <1>1, <2>3 DEF StopInv, LongOnly, IndicatorsReady, Busy
        <4>2. ~ShouldExit(score, RaisedStop)
          BY <1>1, <1>2, <2>1, <2>3, <4>1, ExitTypes, OneOfSeq
          DEF Decision, OneInv
        <4>3. stop' = RaisedStop /\ stop' \in Nat /\ price \in Nat \ {0}
          BY <1>3, KeepTypes DEF Keep, OneInv, BacktestTypeOK
        <4>4. stop' = 0 \/ ~(price * Trail[2] <= stop')
          BY <2>3, <4>2, <4>3
          DEF ShouldExit, CrossoverExit, TrailingStopHit
        <4>5. price * Trail[2] \in Nat \ {0}
          BY <4>3
        <4> QED
          BY <4>3, <4>4, <4>5
      <3>3. LongOnly'
        BY <1>1, <2>1, <2>3, OneOfSeq DEF StopInv, LongOnly, feed
      <3>4. UNCHANGED <<strategy, trail, price>>
        BY <1>1 DEF config, feed
      <3> QED
        BY <1>1, <3>1, <3>2, <3>3, <3>4 DEF StopInv, StopTrailsThePeak, Trails
    <2> QED
      BY <1>1, <2>2, <2>3
  <1>4. CASE position = 0 /\ IndicatorsReady /\ EnterPosition(1)
    <2>1. /\ \A o \in Order : orders' = <<o>> /\ o.entry => o.dir = 1
          /\ Opens' /\ trail => Trails'
      <3>1. CASE UNCHANGED <<orders, stops>>
        BY <1>1, <3>1, OneOfSeq DEF Opens
      <3>2. CASE highest' = price /\ stop' = StopOfEntry(stop) /\ peak' = price
                 /\ orders' = Append(orders, [entry |-> TRUE, dir |-> 1,
                                              limit |-> LimitPrice(1)])
        <4>1. ASSUME NEW o \in Order, orders' = <<o>> PROVE o.dir = 1
          BY <1>1, <3>2, <4>1, OneOfSeq
        <4> QED
          BY <3>2, <4>1 DEF Trails, StopOfEntry, StopAt
      <3> QED
        BY <1>4, <3>1, <3>2 DEF EnterPosition
    <2> QED
      BY <1>1, <1>4, <2>1
      DEF StopInv, LongOnly, StopTrailsThePeak, IndicatorsReady, Opens, config,
          feed
  <1>5. CASE position = 1 /\ ExitPosition
    <2>1. PICK o \in Order : orders' = <<o>> /\ ~o.entry
      BY <1>1, <1>5, ExitTypes DEF OneInv
    <2>2. ~Opens' /\ orders' # << >>
      BY <2>1, OneOfSeq DEF Opens
    <2>3. \A q \in Order : orders' = <<q>> => ~q.entry
      BY <2>1, OneOfSeq
    <2> QED
      BY <1>1, <1>5, <2>2, <2>3
      DEF StopInv, LongOnly, StopTrailsThePeak, config, feed
  <1> QED
    BY <1>1, <1>2, <1>3, <1>4, <1>5
    DEF Decision, GenerateSignal, CrossoverSignal

LEMMA StopStep == OneInv /\ StopInv /\ [VNext]_btvars => StopInv'
<1> SUFFICES ASSUME OneInv, StopInv, [VNext]_btvars PROVE StopInv'
  OBVIOUS
<1>1. ASSUME NEW p \in Prices, NewBar(p) PROVE StopInv'
  BY <1>1, StopNewBar
<1>2. CASE UNCHANGED btVars
  BY <1>2 DEF StopInv, LongOnly, Opens, Trails, StopAt, StopTrailsThePeak,
              btVars, config, feed, stops
<1>3. CASE strategy # "ema" /\ UNCHANGED strategy
  BY <1>3 DEF StopInv
<1>4. CASE strategy = "ema" /\ (Completes \/ Refused \/ StaysPending)
  BY <1>4, StopSettled
<1>5. CASE strategy = "ema" /\ (BaseNext \/ HoldNext)
  BY <1>5, StopDecides DEF HoldNext
<1>6. Completes \/ Refused \/ StaysPending \/ BaseNext \/ HoldNext
         => UNCHANGED strategy
  BY DEF Completes, Refused, StaysPending, Settled, BaseNext, HoldNext, Decides,
         config
<1> QED
  BY <1>1, <1>2, <1>3, <1>4, <1>5, <1>6
  DEF VNext, Next, ValidateConsistency, btvars

\* The stop of a held position is at its share of the highest close since
\* the entry was ordered, whatever an earlier entry or a refused one left.
THEOREM StopOfThisPosition == VSpec => []StopTrailsThePeak
<1>1. VSpec => [](OneInv /\ StopInv)
  BY OneInit, StopInit, OneStep, StopStep, PTL DEF VSpec, btvars
<1>2. StopInv => StopTrailsThePeak
  BY DEF StopInv, StopTrailsThePeak
<1> QED
  BY <1>1, <1>2, PTL

(***************************************************************************)
(* Matching: what the inner loop over the live trades finds                *)
(***************************************************************************)
LiveTrade == [at : Nat, dir : {-1, 1}, price : Nat]

NearTo(trade, lives) ==
    {i \in DOMAIN lives : lives[i].dir = trade.dir
                              /\ Apart(lives[i].at, trade.at) <= TimeTolerance}

\* b is what the inner loop has found after n of its passes.
FirstClosest(trade, lives, n, b) ==
    /\ b \in 0..n
    /\ b = 0 => \A j \in NearTo(trade, lives) : n < j
    /\ b # 0 => /\ b \in NearTo(trade, lives)
                /\ \A j \in NearTo(trade, lives) : j <= n =>
                       LET bestApart == Apart(lives[b].at, trade.at)
                           apart == Apart(lives[j].at, trade.at)
                       IN bestApart < apart \/ (bestApart = apart /\ b <= j)

LEMMA ApartNat == ASSUME NEW a \in Nat, NEW b \in Nat PROVE Apart(a, b) \in Nat
  BY DEF Apart

(***************************************************************************)
(* One pass keeps what the inner loop has found.                           *)
(***************************************************************************)
LEMMA ScanKeeps ==
  ASSUME NEW trade, trade.at \in Nat, NEW lives \in Seq(LiveTrade),
         NEW n \in Nat, n + 1 \in DOMAIN lives, NEW b,
         FirstClosest(trade, lives, n, b)
  PROVE  FirstClosest(trade, lives, n + 1, Scan(trade, lives, b, n + 1))
<1> DEFINE near == NearTo(trade, lives)
           apart(j) == Apart(lives[j].at, trade.at)
<1>1. \A j \in DOMAIN lives : j \in Nat /\ apart(j) \in Nat
  <2> TAKE j \in DOMAIN lives
  <2>1. j \in Nat /\ lives[j] \in LiveTrade
    OBVIOUS
  <2>2. lives[j].at \in Nat
    BY <2>1 DEF LiveTrade
  <2> QED
    BY <2>1, <2>2, ApartNat
<1>2. \A j \in near : j \in DOMAIN lives
  BY DEF NearTo
<1>3. n + 1 \in near <=> lives[n + 1].dir = trade.dir /\ apart(n + 1) <= TimeTolerance
  BY DEF NearTo
<1>4. Scan(trade, lives, b, n + 1) =
          IF n + 1 \in near /\ (b = 0 \/ apart(n + 1) < apart(b)) THEN n + 1 ELSE b
  BY <1>3 DEF Scan, Closer
<1>5. /\ b \in 0..n
      /\ b = 0 => \A j \in near : n < j
      /\ b # 0 => b \in near /\ \A j \in near : j <= n =>
             apart(b) < apart(j) \/ (apart(b) = apart(j) /\ b <= j)
  BY DEF FirstClosest
<1> DEFINE s == Scan(trade, lives, b, n + 1)
<1> SUFFICES /\ s \in 0..n + 1
             /\ s = 0 => \A j \in near : n + 1 < j
             /\ s # 0 => s \in near /\ \A j \in near : j <= n + 1 =>
                    apart(s) < apart(j) \/ (apart(s) = apart(j) /\ s <= j)
  BY DEF FirstClosest
<1> HIDE DEF near, apart
<1>6. CASE n + 1 \in near /\ (b = 0 \/ apart(n + 1) < apart(b))
  <2>1. s = n + 1
    BY <1>4, <1>6
  <2>2. ASSUME NEW j \in near, j <= n
        PROVE  apart(n + 1) < apart(j)
    BY <1>1, <1>2, <1>5, <1>6, <2>2
  <2>3. \A j \in near : j <= n + 1 => j <= n \/ j = n + 1
    BY <1>1, <1>2
  <2> HIDE DEF s
  <2> QED
    BY <1>1, <1>2, <1>6, <2>1, <2>2, <2>3
<1>7. CASE ~(n + 1 \in near /\ (b = 0 \/ apart(n + 1) < apart(b)))
  <2>1. s = b
    BY <1>4, <1>7
  <2>2. \A j \in near : j <= n + 1 => j <= n \/ j = n + 1
    BY <1>1, <1>2
  <2> HIDE DEF s
  <2>3. CASE b = 0
    BY <1>1, <1>2, <1>5, <1>7, <2>1, <2>2, <2>3
  <2>4. CASE b # 0
    BY <1>1, <1>2, <1>5, <1>7, <2>1, <2>2, <2>4
  <2> QED
    BY <2>3, <2>4
<1> QED
  BY <1>6, <1>7

LEMMA BestMatchFound ==
  ASSUME NEW trade, trade.at \in Nat, NEW lives \in Seq(LiveTrade)
  PROVE  FirstClosest(trade, lives, Len(lives), BestMatch(trade, lives))
<1> DEFINE N == Len(lives)
           Scans(f) == f = [i \in 0..N |-> IF i = 0 THEN 0
                                           ELSE Scan(trade, lives, f[i - 1], i)]
           step == [i \in Nat |-> [b \in Nat |-> Scan(trade, lives, b, i)]]
           best == CHOOSE f : Scans(f)
<1>1. N \in Nat /\ DOMAIN lives = 1..N
  OBVIOUS
<1>2. step \in [Nat -> [Nat -> Nat]]
  BY DEF Scan
<1>3. PICK f \in [0..N -> Nat] :
          f[0] = 0 /\ \A i \in 1..N : f[i] = step[i][f[i - 1]]
  <2> HIDE DEF step, N
  <2> QED
    BY <1>1, <1>2, Recursion
<1>4. \A i \in 1..N : f[i] = Scan(trade, lives, f[i - 1], i)
  <2> TAKE i \in 1..N
  <2>1. i - 1 \in 0..N /\ i \in Nat
    BY <1>1
  <2>2. f[i - 1] \in Nat
    BY <2>1
  <2> QED
    BY <1>3, <2>1, <2>2
<1>5. Scans(f)
  BY <1>1, <1>3, <1>4
<1>6. Scans(best)
  <2> HIDE DEF Scans
  <2> QED
    BY <1>5
<1> HIDE DEF best
<1> DEFINE T == {n \in Nat : n \in 0..N => FirstClosest(trade, lives, n, best[n])}
<1>7. 0 \in T
  <2>1. best[0] = 0
    BY <1>1, <1>6
  <2>2. \A j \in NearTo(trade, lives) : 0 < j
    BY <1>1 DEF NearTo
  <2> QED
    BY <2>1, <2>2 DEF FirstClosest
<1>8. ASSUME NEW n \in T PROVE n + 1 \in T
  <2> SUFFICES ASSUME n + 1 \in 0..N
               PROVE  FirstClosest(trade, lives, n + 1, best[n + 1])
    OBVIOUS
  <2>1. /\ n \in Nat /\ n \in 0..N /\ n + 1 \in DOMAIN lives
        /\ n + 1 # 0 /\ (n + 1) - 1 = n
    BY <1>1
  <2>2. best[n + 1] = Scan(trade, lives, best[n], n + 1)
    BY <1>6, <2>1
  <2>3. FirstClosest(trade, lives, n, best[n])
    BY <2>1
  <2> QED
    BY <2>1, <2>2, <2>3, ScanKeeps
<1>9. T = Nat
  <2> HIDE DEF T
  <2>1. T \subseteq Nat
    BY DEF T
  <2> QED
    BY <1>7, <1>8, <2>1, Induction
<1>10. FirstClosest(trade, lives, N, best[N])
  BY <1>1, <1>9
<1>11. BestMatch(trade, lives) = best[N]
  BY DEF BestMatch, best
<1> QED
  BY <1>10, <1>11

LEMMA FillNats == \A f \in Fill : f.at \in Nat /\ f.price \in Nat
<1> TAKE f \in Fill
<1>1. f.at \in 1..Bars /\ f.price \in Prices
  BY DEF Fill
<1>2. 1..Bars \subseteq Nat /\ Prices \subseteq Nat
  OBVIOUS
<1> QED
  BY <1>1, <1>2

LEMMA LiveTradeNats == \A x \in LiveTrade : x.at \in Nat /\ x.price \in Nat
  BY DEF LiveTrade

(***************************************************************************)
(* Scores: each is a share, and a test that passes has at least so much    *)
(***************************************************************************)
LEMMA Sizes ==
  ASSUME NEW n \in Nat, NEW S \in SUBSET (1..n), NEW T \in SUBSET S
  PROVE  /\ Cardinality(T) \in Nat /\ Cardinality(S) \in Nat
         /\ Cardinality(T) <= Cardinality(S)
         /\ Cardinality(S) = 0 <=> S = {}
<1>1. IsFiniteSet(1..n)
  BY FS_Interval
<1>2. IsFiniteSet(S)
  BY <1>1, FS_Subset
<1> QED
  BY <1>2, FS_Subset, FS_CardinalityType, FS_EmptySet

LEMMA SharesOfSets ==
  ASSUME NEW n \in Nat, NEW S \in SUBSET (1..n), NEW T \in SUBSET S, S # {}
  PROVE  <<Cardinality(T), Cardinality(S)>> \in Share
  BY Sizes DEF Share

LEMMA ScoreShare ==
  ASSUME NEW sum \in Nat, NEW count \in Nat \ {0},
         NEW tolerance \in (Nat \ {0}) \X (Nat \ {0})
  PROVE  ScoreOf(sum, count, tolerance) \in Share
<1> DEFINE whole == count * tolerance[1]  part == sum * tolerance[2]
<1>1. tolerance[1] \in Nat \ {0} /\ tolerance[2] \in Nat \ {0}
  OBVIOUS
<1>2. whole \in Nat /\ whole > 0
  <2> DEFINE t == tolerance[1]
  <2>1. t \in Nat \ {0}
    BY <1>1
  <2> HIDE DEF t
  <2>2. count * t \in Nat /\ count * t > 0
    BY <2>1
  <2> QED
    BY <2>2 DEF t
<1>3. part \in Nat
  BY <1>1
<1>4. ScoreOf(sum, count, tolerance) =
          IF part >= whole THEN <<0, 1>> ELSE <<whole - part, whole>>
  BY DEF ScoreOf
<1> HIDE DEF whole, part
<1> QED
  BY <1>2, <1>3, <1>4 DEF Share

(***************************************************************************)
(* The execution score is a share, and a third of the match rate at least. *)
(***************************************************************************)
LEMMA ExecutionShare ==
  ASSUME NEW rate \in Share, NEW time \in Share, NEW cost \in Share
  PROVE  /\ ExecutionScore(rate, time, cost) \in Share
         /\ AtLeast(rate, 8, 10) =>
                AtLeast(ExecutionScore(rate, time, cost), 8, 30)
<1> DEFINE r == rate[1]  R == rate[2]  t == time[1]  T == time[2]
           c == cost[1]  C == cost[2]
<1>1. /\ r \in Nat /\ R \in Nat /\ R > 0 /\ r <= R
      /\ t \in Nat /\ T \in Nat /\ T > 0 /\ t <= T
      /\ c \in Nat /\ C \in Nat /\ C > 0 /\ c <= C
  BY DEF Share
<1> DEFINE p == t * C + c * T  q == T * C
<1>2. ExecutionScore(rate, time, cost) = <<r * q + p * R, 3 * (R * q)>>
  BY DEF ExecutionScore, AddRatios
<1>3. AtLeast(rate, 8, 10) <=> r * 10 >= 8 * R
  BY DEF AtLeast
<1> HIDE DEF r, R, t, T, c, C
<1>4. p \in Nat /\ q \in Nat /\ q > 0 /\ p <= 2 * q
  <2>1. t * C \in Nat /\ c * T \in Nat /\ T * C \in Nat /\ T * C > 0
    BY <1>1
  <2>2. t * C <= T * C /\ c * T <= C * T /\ C * T = T * C
    BY <1>1
  <2> QED
    BY <2>1, <2>2
<1> HIDE DEF p, q
<1>5. /\ r * q \in Nat /\ p * R \in Nat /\ R * q \in Nat /\ R * q > 0
      /\ r * q <= R * q /\ p * R <= 2 * (R * q)
  <2>1. r * q \in Nat /\ p * R \in Nat /\ R * q \in Nat /\ R * q > 0
    BY <1>1, <1>4
  <2>2. r * q <= R * q
    BY <1>1, <1>4
  <2>3. p * R <= (2 * q) * R
    BY <1>1, <1>4
  <2>4. (2 * q) * R = 2 * (R * q)
    BY <1>1, <1>4
  <2> QED
    BY <2>1, <2>2, <2>3, <2>4
<1>6. ASSUME r * 10 >= 8 * R
      PROVE  (r * q + p * R) * 30 >= 8 * (3 * (R * q))
  <2>1. (r * 10) * q >= (8 * R) * q
    BY <1>1, <1>4, <1>6
  <2>2. (r * 10) * q = 10 * (r * q) /\ (8 * R) * q = 8 * (R * q)
    BY <1>1, <1>4
  <2> DEFINE x == r * q  y == p * R  z == R * q
  <2>3. x \in Nat /\ y \in Nat /\ z \in Nat /\ 10 * x >= 8 * z
    BY <1>5, <2>1, <2>2
  <2> HIDE DEF x, y, z
  <2>4. (x + y) * 30 >= 8 * (3 * z)
    BY <2>3
  <2> QED
    BY <2>4 DEF x, y, z
<1> DEFINE num == r * q + p * R  den == 3 * (R * q)
<1>7. num \in Nat /\ den \in Nat \ {0} /\ num <= den
  BY <1>5
<1>8. <<num, den>> \in Share
  BY <1>7 DEF Share
<1>9. AtLeast(<<num, den>>, 8, 30) <=> num * 30 >= 8 * den
  BY DEF AtLeast
<1> QED
  BY <1>2, <1>3, <1>6, <1>8, <1>9

Passing == [t \in Tests |-> CASE t = "Signal" -> <<8, 10>>
                              [] t = "Execution" -> <<8, 30>>
                              [] t = "Performance" -> <<75, 100>>]

\* What the score of a test is at least, when it passes
Graded(t, r) ==
    /\ r \in [passed : BOOLEAN, score : Share]
    /\ r.passed => AtLeast(r.score, Passing[t][1], Passing[t][2])

LEMMA FailedGraded == \A t : Graded(t, Failed)
<1>1. <<0, 1>> \in Share
  BY DEF Share
<1> QED
  BY <1>1 DEF Graded, Failed

LEMMA PerformanceGraded ==
  ASSUME NEW within \in SUBSET Metrics
  PROVE  Graded("Performance", PerformanceTest(within))
<1>1. Cardinality(within) \in Nat /\ Cardinality(within) <= 4
  BY FourMetrics, FS_Subset, FS_CardinalityType
<1>2. <<Cardinality(within), 4>> \in Share
  BY <1>1 DEF Share
<1>3. AtLeast(<<Cardinality(within), 4>>, 75, 100) \in BOOLEAN
  BY DEF AtLeast
<1> QED
  BY <1>2, <1>3 DEF Graded, PerformanceTest, Passing, Tests

LEMMA SignalGraded ==
  ASSUME NEW signals, NEW n \in Nat, DOMAIN signals = 1..n, NEW lives
  PROVE  Graded("Signal", SignalTest(signals, lives))
<1> DEFINE overlap == Max({Earliest(signals), Earliest(lives)})
                          .. Min({Latest(signals), Latest(lives)})
           within(s) == {i \in DOMAIN s : s[i].at \in overlap}
           closest(i) == lives[ClosestSignal(signals[i], lives, within(lives))]
           compared == {i \in within(signals) : within(lives) # {}
                           /\ Apart(closest(i).at, signals[i].at) <= TimeTolerance}
           diff(i) == Apart(closest(i).dir, signals[i].dir)
           agreeing == {i \in compared :
                            diff(i) * SignalTolerance[2] <= SignalTolerance[1]}
           diffs == SumOf([i \in DOMAIN signals |->
                              IF i \in compared THEN diff(i) ELSE 0])
           rate == <<Cardinality(agreeing), Cardinality(compared)>>
           passed == /\ AtLeast(rate, 8, 10)
                     /\ diffs * SignalTolerance[2]
                            <= SignalTolerance[1] * Cardinality(compared)
<1>1. SignalTest(signals, lives) =
          IF signals = << >> \/ lives = << >> THEN Failed
          ELSE IF compared = {} THEN Failed
          ELSE [passed |-> passed, score |-> rate]
  BY DEF SignalTest
<1>2. compared \in SUBSET (1..n)
  OBVIOUS
<1> HIDE DEF compared
<1>3. agreeing \in SUBSET compared
  OBVIOUS
<1> HIDE DEF agreeing, diffs
<1>4. compared # {} => rate \in Share
  BY <1>2, <1>3, SharesOfSets
<1>5. passed \in BOOLEAN /\ (passed => AtLeast(rate, 8, 10))
  OBVIOUS
<1> HIDE DEF passed, rate
<1>6. compared # {} => Graded("Signal", [passed |-> passed, score |-> rate])
  BY <1>4, <1>5 DEF Graded, Passing, Tests
<1> QED
  BY <1>1, <1>6, FailedGraded

LEMMA SeqOfNat ==
  ASSUME NEW n \in Nat, NEW f \in [1..n -> Nat]
  PROVE  f \in Seq(Nat)
  OBVIOUS

LEMMA ExecutionGraded ==
  ASSUME NEW trades \in Seq(Fill), NEW lives \in Seq(LiveTrade)
  PROVE  Graded("Execution", ExecutionTest(trades, lives))
<1> DEFINE n       == Len(trades)
           all     == MatchTrades(trades, lives)
           matches == {t \in DOMAIN all : all[t].matched}
           count   == Cardinality(matches)
           rate    == <<count, Cardinality(DOMAIN all)>>
           timeOf  == [t \in DOMAIN trades |->
                          IF t \in matches THEN all[t].timeDiff ELSE 0]
           priceOf == [t \in DOMAIN trades |->
                          IF t \in matches THEN all[t].priceDiff ELSE 0]
           times   == SumOf(timeOf)
           prices  == SumOf(priceOf)
           time    == ScoreOf(times, count, <<TimeTolerance, 1>>)
           cost    == ScoreOf(prices, count, PriceTolerance)
           score   == ExecutionScore(rate, time, cost)
           passed  == /\ AtLeast(rate, 8, 10)
                      /\ times <= TimeTolerance * count
                      /\ prices * PriceTolerance[2] <= PriceTolerance[1] * count
<1>1. ExecutionTest(trades, lives) =
          IF DOMAIN all = {} THEN Failed
          ELSE [passed |-> passed, score |-> IF count = 0 THEN <<0, 1>> ELSE score]
  BY DEF ExecutionTest
<1>2. n \in Nat /\ DOMAIN trades = 1..n /\ \A t \in 1..n : trades[t] \in Fill
  OBVIOUS
<1>3. /\ DOMAIN all \in SUBSET (1..n)
      /\ \A t \in DOMAIN all : all[t].timeDiff \in Nat /\ all[t].priceDiff \in Nat
  <2>1. /\ DOMAIN all = {t \in DOMAIN trades : BestMatch(trades[t], lives) # 0}
        /\ \A t \in DOMAIN all :
               all[t] = Compare(trades[t], lives[BestMatch(trades[t], lives)])
    BY DEF MatchTrades
  <2> HIDE DEF all
  <2>2. ASSUME NEW t \in DOMAIN all
        PROVE  all[t].timeDiff \in Nat /\ all[t].priceDiff \in Nat
    <3> DEFINE b == BestMatch(trades[t], lives)
    <3>1. trades[t] \in Fill /\ t \in DOMAIN trades /\ b # 0
      BY <1>2, <2>1
    <3>2. trades[t].at \in Nat /\ trades[t].price \in Nat
      BY <3>1, FillNats
    <3>3. b \in DOMAIN lives
      <4>1. FirstClosest(trades[t], lives, Len(lives), b)
        BY <3>2, BestMatchFound
      <4> QED
        BY <3>1, <4>1 DEF FirstClosest, NearTo
    <3> HIDE DEF b
    <3>4. lives[b].at \in Nat /\ lives[b].price \in Nat
      <4>1. lives[b] \in LiveTrade
        BY <3>3
      <4> QED
        BY <4>1, LiveTradeNats
    <3>5. all[t] = Compare(trades[t], lives[b])
      BY <2>1 DEF b
    <3>6. /\ all[t].timeDiff = Apart(lives[b].at, trades[t].at)
          /\ all[t].priceDiff = Apart(lives[b].price, trades[t].price)
      BY <3>5 DEF Compare
    <3> QED
      BY <3>2, <3>4, <3>6, ApartNat
  <2> QED
    BY <1>2, <2>1, <2>2
<1> HIDE DEF all
<1>4. matches \in SUBSET DOMAIN all
  OBVIOUS
<1>5. timeOf \in Seq(Nat) /\ priceOf \in Seq(Nat)
  <2>1. \A t \in 1..n : timeOf[t] \in Nat /\ priceOf[t] \in Nat
    BY <1>2, <1>3
  <2>2. timeOf \in [1..n -> Nat] /\ priceOf \in [1..n -> Nat]
    BY <1>2, <2>1
  <2> HIDE DEF timeOf, priceOf, n
  <2> QED
    BY <1>2, <2>2, SeqOfNat
<1> HIDE DEF matches, timeOf, priceOf
<1>6. times \in Nat /\ prices \in Nat
  BY <1>5, SumNat
<1> HIDE DEF times, prices
<1>7. count \in Nat
  BY <1>2, <1>3, <1>4, Sizes
<1>8. DOMAIN all # {} => rate \in Share
  BY <1>2, <1>3, <1>4, SharesOfSets
<1>9. count # 0 => time \in Share /\ cost \in Share
  <2>1. <<TimeTolerance, 1>> \in (Nat \ {0}) \X (Nat \ {0})
    BY ConsistencyAssumption
  <2>2. PriceTolerance \in (Nat \ {0}) \X (Nat \ {0})
    BY ConsistencyAssumption
  <2> HIDE DEF count
  <2> QED
    BY <1>6, <1>7, <2>1, <2>2, ScoreShare
<1>10. passed \in BOOLEAN /\ (passed => AtLeast(rate, 8, 10))
  OBVIOUS
<1> HIDE DEF passed, time, cost
<1>11. ASSUME DOMAIN all # {}, count # 0
       PROVE  score \in Share /\ (passed => AtLeast(score, 8, 30))
  <2>1. rate \in Share /\ time \in Share /\ cost \in Share
    BY <1>8, <1>9, <1>11
  <2> HIDE DEF rate
  <2> QED
    BY <1>10, <2>1, ExecutionShare
<1>12. ASSUME DOMAIN all # {}, count = 0 PROVE ~passed
  <2>1. Cardinality(DOMAIN all) \in Nat /\ Cardinality(DOMAIN all) # 0
    BY <1>2, <1>3, <1>12, Sizes
  <2>2. ~AtLeast(rate, 8, 10)
    BY <1>12, <2>1 DEF AtLeast
  <2> QED
    BY <1>10, <2>2
<1>13. <<0, 1>> \in Share
  BY DEF Share
<1> HIDE DEF score, count
<1> DEFINE r == [passed |-> passed, score |-> IF count = 0 THEN <<0, 1>> ELSE score]
<1>14. ASSUME DOMAIN all # {} PROVE Graded("Execution", r)
  <2>1. r.score \in Share /\ (passed => AtLeast(r.score, 8, 30))
    BY <1>11, <1>12, <1>13, <1>14
  <2>2. r \in [passed : BOOLEAN, score : Share] /\ r.passed = passed
    BY <1>10, <2>1
  <2>3. Passing["Execution"][1] = 8 /\ Passing["Execution"][2] = 30
    BY DEF Passing, Tests
  <2> QED
    BY <2>1, <2>2, <2>3 DEF Graded
<1> QED
  BY <1>1, <1>14, FailedGraded

(***************************************************************************)
(* The report                                                              *)
(***************************************************************************)
GradedInv ==
    /\ live \in LiveTrades \union {<< >>} /\ DOMAIN results \subseteq Tests
    /\ \A t \in DOMAIN results : Graded(t, results[t])

LEMMA GradedInit == VInit => GradedInv
  BY DEF VInit, GradedInv, NoResults

LEMMA GradedStep ==
  BacktestTypeOK /\ GradedInv /\ [VNext]_<<btVars, validated>> => GradedInv'
<1> SUFFICES ASSUME BacktestTypeOK, GradedInv, [VNext]_<<btVars, validated>>
             PROVE  GradedInv'
  OBVIOUS
<1>1. CASE UNCHANGED validated
  BY <1>1 DEF GradedInv, validated, Graded
<1>2. CASE ValidateConsistency
  <2>1. /\ live' \in LiveTrades /\ live' \in Seq(LiveTrade)
        /\ fills \in Seq(Fill)
    BY <1>2, ValidationAssumption DEF ValidateConsistency, LiveTrade, BacktestTypeOK
  <2>2. PICK tests \in Named, failing \in Failing, within \in Chosen,
             signals \in {fills, live'} :
                 results' = [t \in tests |->
                                Run(t, live', signals, within, failing)]
    BY <1>2 DEF ValidateConsistency
  <2>3. tests \subseteq Tests /\ within \in SUBSET Metrics
    BY ValidationAssumption
  <2>4. ASSUME NEW t \in tests
        PROVE  Graded(t, Run(t, live', signals, within, failing))
    <3>1. CASE t = "Signal"
      <4>1. DOMAIN fills = 1..Len(fills) /\ Len(fills) \in Nat
        BY <2>1
      <4>2. Graded("Signal", SignalTest(fills, signals))
        BY <4>1, SignalGraded
      <4> QED
        BY <3>1, <4>2, FailedGraded DEF Run
    <3>2. CASE t = "Execution"
      BY <2>1, <3>2, ExecutionGraded, FailedGraded DEF Run
    <3>3. CASE t = "Performance"
      BY <2>3, <3>3, PerformanceGraded, FailedGraded DEF Run
    <3> QED
      BY <2>3, <3>1, <3>2, <3>3 DEF Tests
  <2>5. \A t \in DOMAIN results' : Graded(t, results'[t])
    BY <2>2, <2>4
  <2> QED
    BY <2>1, <2>2, <2>3, <2>5 DEF GradedInv, Graded
<1> QED
  BY <1>1, <1>2 DEF VNext, validated

LEMMA GradedTypes == GradedInv => ReportTypeOK
  BY DEF GradedInv, Graded, ReportTypeOK

LEMMA ClosestFound == BacktestTypeOK /\ GradedInv => MatchesAreClosest
<1> SUFFICES ASSUME BacktestTypeOK, GradedInv, NEW t \in DOMAIN fills
             PROVE  LET trade == fills[t]
                        apart(i) == Apart(live[i].at, trade.at)
                        near == {i \in DOMAIN live : live[i].dir = trade.dir
                                           /\ apart(i) <= TimeTolerance}
                        closest == {i \in near : \A j \in near : apart(i) <= apart(j)}
                    IN BestMatch(trade, live) = IF near = {} THEN 0 ELSE Min(closest)
  BY DEF MatchesAreClosest
<1> DEFINE trade == fills[t]
           apart(i) == Apart(live[i].at, trade.at)
           near == NearTo(trade, live)
           closest == {i \in near : \A j \in near : apart(i) <= apart(j)}
           b == BestMatch(trade, live)
<1>1. live \in Seq(LiveTrade)
  <2>1. << >> \in Seq(LiveTrade)
    OBVIOUS
  <2> QED
    BY <2>1, ValidationAssumption DEF GradedInv, LiveTrade
<1>2. trade.at \in Nat
  <2>1. trade \in Fill
    BY DEF BacktestTypeOK
  <2> QED
    BY <2>1, FillNats
<1>3. FirstClosest(trade, live, Len(live), b)
  <2> HIDE DEF trade
  <2> QED
    BY <1>1, <1>2, BestMatchFound
<1>4. \A i \in near : i \in Nat /\ i # 0 /\ i <= Len(live) /\ apart(i) \in Nat
  <2> HIDE DEF trade
  <2> TAKE i \in near
  <2>1. i \in DOMAIN live
    BY DEF NearTo
  <2>2. live[i] \in LiveTrade
    BY <1>1, <2>1
  <2>3. apart(i) \in Nat
    BY <1>2, <2>2, LiveTradeNats, ApartNat
  <2> QED
    BY <1>1, <2>1, <2>3
<1>5. Len(live) \in Nat
  BY <1>1
<1>6. b \in Nat /\ (b = 0 => near = {})
  <2> HIDE DEF near, apart, b, trade
  <2>1. b \in 0..Len(live) /\ (b = 0 => \A j \in near : Len(live) < j)
    BY <1>3 DEF FirstClosest, near
  <2> QED
    BY <1>4, <1>5, <2>1
<1>7. ASSUME b # 0
      PROVE  b \in near /\ \A j \in near :
                 apart(b) < apart(j) \/ (apart(b) = apart(j) /\ b <= j)
  <2>1. b \in near /\ \A j \in near : j <= Len(live) =>
                 apart(b) < apart(j) \/ (apart(b) = apart(j) /\ b <= j)
    BY <1>3, <1>7 DEF FirstClosest
  <2> HIDE DEF near, apart, b
  <2> QED
    BY <1>4, <2>1
<1>8. b = IF near = {} THEN 0 ELSE Min(closest)
  <2> HIDE DEF near, apart, b
  <2>1. CASE b = 0
    BY <1>6, <2>1
  <2>2. CASE b # 0
    <3>1. b \in closest
      BY <1>4, <1>7, <2>2
    <3>2. \A x \in closest : x \in Nat /\ b <= x
      BY <1>4, <1>7, <2>2
    <3>3. ASSUME NEW x \in closest, \A y \in closest : x <= y PROVE x = b
      BY <1>6, <3>1, <3>2, <3>3
    <3>4. near # {}
      BY <1>7, <2>2
    <3> HIDE DEF closest
    <3>5. Min(closest) = CHOOSE x \in closest : \A y \in closest : x <= y
      BY DEF Min
    <3> QED
      BY <3>1, <3>2, <3>3, <3>4, <3>5
  <2> QED
    BY <2>1, <2>2
<1> QED
  BY <1>8 DEF NearTo

(***************************************************************************)
(* Three passes are 8/10, 8/30 and 3/4 at least: 109/60, more than 3 * 0.6 *)
(***************************************************************************)
LEMMA ThreePasses ==
  ASSUME NEW a \in Share, NEW b \in Share, NEW c \in Share,
         AtLeast(a, 8, 10), AtLeast(b, 8, 30), AtLeast(c, 75, 100)
  PROVE  LET sum == AddRatios(a, AddRatios(b, c))
         IN  AtLeast(<<sum[1], sum[2] * 3>>, 6, 10)
<1> DEFINE a1 == a[1]  a2 == a[2]  b1 == b[1]  b2 == b[2]  c1 == c[1]  c2 == c[2]
<1>1. /\ a1 \in Nat /\ a2 \in Nat /\ b1 \in Nat /\ b2 \in Nat
      /\ c1 \in Nat /\ c2 \in Nat
  BY DEF Share
<1>2. a1 * 10 >= 8 * a2 /\ b1 * 30 >= 8 * b2 /\ c1 * 100 >= 75 * c2
  BY DEF AtLeast
<1>3. AddRatios(a, AddRatios(b, c)) =
          <<a1 * (b2 * c2) + (b1 * c2 + c1 * b2) * a2, a2 * (b2 * c2)>>
  BY DEF AddRatios
<1> HIDE DEF a1, a2, b1, b2, c1, c2
<1> DEFINE d == a2 * (b2 * c2)
           x == a1 * (b2 * c2)  y == (b1 * c2) * a2  z == (c1 * b2) * a2
<1>4. x \in Nat /\ y \in Nat /\ z \in Nat /\ d \in Nat
  BY <1>1
<1>5. 10 * x >= 8 * d
  <2>1. (a1 * 10) * (b2 * c2) >= (8 * a2) * (b2 * c2)
    <3> DEFINE q == b2 * c2
    <3>1. q \in Nat
      BY <1>1
    <3> HIDE DEF q
    <3>2. (a1 * 10) * q >= (8 * a2) * q
      BY <1>1, <1>2, <3>1
    <3> QED
      BY <3>2 DEF q
  <2> QED
    BY <1>1, <2>1
<1>6. 30 * y >= 8 * d
  <2>1. (b1 * 30) * (c2 * a2) >= (8 * b2) * (c2 * a2)
    <3> DEFINE q == c2 * a2
    <3>1. q \in Nat
      BY <1>1
    <3> HIDE DEF q
    <3>2. (b1 * 30) * q >= (8 * b2) * q
      BY <1>1, <1>2, <3>1
    <3> QED
      BY <3>2 DEF q
  <2> QED
    BY <1>1, <2>1
<1>7. 100 * z >= 75 * d
  <2>1. (c1 * 100) * (b2 * a2) >= (75 * c2) * (b2 * a2)
    <3> DEFINE q == b2 * a2
    <3>1. q \in Nat
      BY <1>1
    <3> HIDE DEF q
    <3>2. (c1 * 100) * q >= (75 * c2) * q
      BY <1>1, <1>2, <3>1
    <3> QED
      BY <3>2 DEF q
  <2> QED
    BY <1>1, <2>1
<1>8. (b1 * c2 + c1 * b2) * a2 = y + z
  BY <1>1
<1> HIDE DEF x, y, z, d
<1>9. (x + (y + z)) * 10 >= 6 * (d * 3)
  BY <1>4, <1>5, <1>6, <1>7
<1>10. AddRatios(a, AddRatios(b, c)) = <<x + (y + z), d>>
  BY <1>3, <1>8 DEF x, d
<1> QED
  BY <1>9, <1>10 DEF AtLeast

LEMMA GradedIsGood == GradedInv => AllPassedIsGood
<1> SUFFICES ASSUME GradedInv, DOMAIN results = Tests,
                    \A t \in Tests : results[t].passed
             PROVE  Status(results) \in {"Excellent", "Good"}
  BY DEF AllPassedIsGood
<1>1. \A t \in Tests : results[t].score \in Share
  BY DEF GradedInv, Graded
<1>2. /\ AtLeast(results["Signal"].score, 8, 10)
      /\ AtLeast(results["Execution"].score, 8, 30)
      /\ AtLeast(results["Performance"].score, 75, 100)
  <2>1. \A t \in Tests : AtLeast(results[t].score, Passing[t][1], Passing[t][2])
    BY DEF GradedInv, Graded
  <2>2. /\ "Signal" \in Tests /\ "Execution" \in Tests /\ "Performance" \in Tests
        /\ Passing["Signal"] = <<8, 10>> /\ Passing["Execution"] = <<8, 30>>
        /\ Passing["Performance"] = <<75, 100>>
    BY DEF Passing, Tests
  <2> QED
    BY <2>1, <2>2
<1>3. AtLeast(OverallScore(results), 6, 10)
  <2> DEFINE a == results["Signal"].score  b == results["Execution"].score
             c == results["Performance"].score
             sum == AddRatios(a, AddRatios(b, c))
  <2>1. "Signal" \in Tests /\ "Execution" \in Tests /\ "Performance" \in Tests
    BY DEF Tests
  <2>2. OverallScore(results) = <<sum[1], sum[2] * 3>>
    BY <2>1, ThreeTests DEF OverallScore
  <2>3. a \in Share /\ b \in Share /\ c \in Share
    BY <1>1, <2>1
  <2> HIDE DEF a, b, c
  <2> QED
    BY <1>2, <2>2, <2>3, ThreePasses DEF a, b, c
<1>4. {n \in DOMAIN results : results[n].passed} = Tests
  OBVIOUS
<1> DEFINE overall == OverallScore(results)
           total == Cardinality(DOMAIN results)
           passed == Cardinality({n \in DOMAIN results : results[n].passed})
<1>5. Status(results) =
          IF AtLeast(overall, 8, 10) /\ passed = total THEN "Excellent"
          ELSE IF AtLeast(overall, 6, 10) /\ passed * 4 >= total * 3 THEN "Good"
          ELSE IF AtLeast(overall, 4, 10) THEN "Needs Improvement"
          ELSE "Serious Issues"
  BY DEF Status
<1>6. total = 3 /\ passed = 3
  BY <1>4, ThreeTests
<1>7. AtLeast(overall, 6, 10)
  BY <1>3
<1> HIDE DEF overall, total, passed
<1> QED
  BY <1>5, <1>6, <1>7

LEMMA AlwaysGraded == VSpec => [](BacktestTypeOK /\ GradedInv)
<1>1. VSpec => []OneInv
  BY OneInit, OneStep, PTL DEF VSpec, btvars
<1>2. OneInv => BacktestTypeOK
  BY DEF OneInv
<1> QED
  BY <1>1, <1>2, GradedInit, GradedStep, PTL DEF VSpec

\* Every variable stays in its type; a score is a share, between 0 and 1
\* (ValidationResult.score), whatever the tolerances and the trades.
THEOREM BacktestTypes == VSpec => []TypeOK
<1>1. BacktestTypeOK /\ GradedInv => TypeOK
  BY GradedTypes DEF TypeOK
<1> QED
  BY <1>1, AlwaysGraded, PTL

\* However many live trades there are, and however they are ordered, the
\* loops of _match_trades pair a backtest trade with the first of the closest
\* live trades on its side within the tolerance, or with none.
THEOREM TheClosestIsMatched == VSpec => []MatchesAreClosest
  BY AlwaysGraded, ClosestFound, PTL

\* A report whose three tests all passed says at least "Good": by the least
\* scores they pass with, the overall score is 109/180 or more.
THEOREM PassedIsGood == VSpec => []AllPassedIsGood
  BY AlwaysGraded, GradedIsGood, PTL
=============================================================================
