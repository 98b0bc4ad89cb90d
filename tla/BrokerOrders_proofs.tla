------------------------- MODULE BrokerOrders_proofs -------------------------
(***************************************************************************)
(* Proofs about BrokerOrders, for any number of plans, shares, repeated    *)
(* requests and faults, and for both adapters.                             *)
(***************************************************************************)
EXTENDS BrokerOrders, SequenceTheorems, FiniteSetTheorems, TLAPS

USE OrdersAssumption

----------------------------------------------------------------------------
(* The book *)

\* The statuses of the venue that create_broker has built the adapter for
Statuses == IF venue = "alpaca" THEN AlpacaWorking \cup AlpacaEnded
            ELSE FutuWorking \cup FutuEnded

\* An order that is worked has something left to fill.
Sound(r) == r.status \in Statuses /\ (r.status \in Working => r.filled < Qty)

BookOK ==
    /\ TypeOK
    /\ \A o \in Placed : Sound(book[o])
    /\ call.op = "place" => call.plan \in Plans

\* Every change of the book but the acceptance of an order
Changes(o, r) == book' = [book EXCEPT ![o] = r]

LEMMA Changed ==
  ASSUME book \in Seq(Order), NEW o \in Placed, NEW r \in Order, Changes(o, r)
  PROVE  /\ book' \in Seq(Order) /\ Len(book') = Len(book) /\ Placed' = Placed
         /\ \A j \in Placed : book'[j] = IF j = o THEN r ELSE book[j]
<1>1. /\ [book EXCEPT ![o] = r] \in Seq(Order)
      /\ Len([book EXCEPT ![o] = r]) = Len(book)
      /\ \A j \in 1..Len(book) :
           [book EXCEPT ![o] = r][j] = IF j = o THEN r ELSE book[j]
  BY ExceptSeq DEF Placed
<1> QED
  BY <1>1 DEF Changes, Placed

LEMMA BookTypes ==
  ASSUME TypeOK
  PROVE  /\ Placed \subseteq OrderIds /\ \A o \in Placed : book[o] \in Order
         /\ IsFiniteSet(Placed) /\ Len(book) \in Nat
<1>1. Len(book) \in Nat /\ Len(book) <= MaxOrders
  BY DEF TypeOK
<1>2. \A o \in Placed : book[o] \in Order
  BY DEF TypeOK, Placed
<1>3. IsFiniteSet(1..Len(book))
  BY <1>1, FS_Interval
<1> QED
  BY <1>1, <1>2, <1>3 DEF Placed, OrderIds

\* The orders of a plan when the book gets another order for p
LEMMA Accepted ==
  ASSUME BookOK, NEW p \in Plans, Accept(p)
  PROVE  /\ book' \in Seq(Order) /\ Len(book') = Len(book) + 1
         /\ Len(book') \in OrderIds /\ Placed' = Placed \cup {Len(book')}
         /\ \A j \in Placed : book'[j] = book[j]
         /\ book'[Len(book')] = [plan |-> p, status |-> First, filled |-> 0,
                                 asked |-> FALSE]
         /\ Len(book') \notin Placed
<1> DEFINE r == [plan |-> p, status |-> First, filled |-> 0, asked |-> FALSE]
<1>1. r \in Order
  BY DEF Order, First, Native, AlpacaWorking, FutuWorking
<1>2. book \in Seq(Order) /\ Len(book) \in Nat /\ Len(book) < MaxOrders
  BY BookTypes DEF BookOK, TypeOK, Accept
<1>3. book' = Append(book, r)
  BY DEF Accept
<1> HIDE DEF r
<1>4. /\ book' \in Seq(Order) /\ Len(book') = Len(book) + 1
      /\ \A i \in 1..Len(book) : book'[i] = book[i]
      /\ book'[Len(book) + 1] = r
  BY <1>1, <1>2, <1>3, AppendProperties
<1> QED
  BY <1>2, <1>4 DEF Placed, OrderIds, r

----------------------------------------------------------------------------
(* Types *)

LEMMA StatusTypes ==
  /\ Working \subseteq Native /\ Statuses \subseteq Native
  /\ Partly \in Statuses /\ Whole \in Statuses /\ First \in Statuses
  /\ "SUBMITTED" \in Native
  /\ Partly \in Working /\ First \in Working
  BY DEF Working, Native, Statuses, Partly, Whole, First, AlpacaWorking,
         AlpacaEnded, FutuWorking, FutuEnded

\* What an order may end in is a status of its venue that is over.
LEMMA EndTypes ==
  ASSUME BookOK, NEW o \in Placed, IsOpen(o),
         NEW s \in EndsOf(book[o].status, book[o].filled)
  PROVE  s \in Statuses /\ s \in Native /\ s \notin Working
<1>1. book[o].status \in Statuses
  BY DEF BookOK, Sound
<1>2. CASE venue = "alpaca"
  BY <1>2 DEF EndsOf, Statuses, AlpacaEnded, Native, Working, AlpacaWorking,
              FutuWorking
<1>3. CASE venue # "alpaca"
  <2>1. book[o].status \in {"SUBMITTING", "SUBMITTED", "FILLED_PART"}
    BY <1>1, <1>3 DEF IsOpen, Working, Statuses, AlpacaWorking, FutuWorking,
                      FutuEnded
  <2>2. s \in {"SUBMIT_FAILED", "FAILED", "CANCELLED_ALL", "DISABLED", "DELETED",
               "CANCELLED_PART"}
    BY <1>3, <2>1 DEF EndsOf
  <2> QED
    BY <1>3, <2>2 DEF Statuses, FutuEnded, Native, Working, AlpacaWorking,
                      FutuWorking
<1> QED
  BY <1>2, <1>3

LEMMA ReportType ==
  ASSUME BookOK, NEW o \in Placed
  PROVE  Report(o) \in [status : Standard, filled : 0..Qty]
<1>1. book[o] \in Order
  BY BookTypes DEF BookOK
<1>2. \A s : MapFutuStatus(s) \in Standard
  BY DEF MapFutuStatus, Standard
<1>3. venue = "alpaca" => book[o].status \in Standard
  BY DEF BookOK, Sound, Statuses, Standard, AlpacaWorking, AlpacaEnded
<1> QED
  BY <1>1, <1>2, <1>3 DEF Report, Order

LEMMA NoCallType == NoCall \in Call /\ 0 \in 0..(MaxPosts - 1)
  BY DEF NoCall, Call

LEMMA OrdersTypeInit == Init => BookOK
<1> SUFFICES ASSUME Init PROVE BookOK
  OBVIOUS
<1>1. /\ book = << >> /\ call = NoCall /\ known = [p \in Plans |-> 0]
      /\ tried = {} /\ told = [o \in OrderIds |-> Unsaid]
      /\ swept = {} /\ faults = 0 /\ venue \in {"alpaca", "futu"}
  BY DEF Init
<1>2. Unsaid \in [status : Standard, filled : 0..Qty]
  BY DEF Unsaid, Standard
<1>3. book \in Seq(Order) /\ Len(book) = 0
  BY <1>1
<1>4. told \in [OrderIds -> [status : Standard, filled : 0..Qty]]
  BY <1>1, <1>2
<1>5. TypeOK
  BY <1>1, <1>3, <1>4, NoCallType DEF TypeOK
<1> QED
  BY <1>1, <1>3, <1>5 DEF BookOK, Placed, NoCall

\* A step of the venue, or a cancellation: one order changes
LEMMA ChangeTypes ==
  ASSUME BookOK, NEW o \in Placed, NEW r \in Order, Sound(r),
         Changes(o, r), call' \in Call, call'.op = call.op,
         call'.plan = call.plan, faults' \in 0..MaxFaults,
         UNCHANGED <<venue, known, tried, told, swept>>
  PROVE  BookOK'
<1>1. /\ book' \in Seq(Order) /\ Len(book') = Len(book) /\ Placed' = Placed
      /\ \A j \in Placed : book'[j] = IF j = o THEN r ELSE book[j]
  BY Changed DEF BookOK, TypeOK
<1>2. \A q : Sound(q)' <=> Sound(q)
  BY DEF Sound, Statuses
<1> QED
  BY <1>1, <1>2 DEF BookOK, TypeOK, Sound, Statuses

\* Orders that stay as they are
LEMMA SameTypes ==
  ASSUME BookOK, UNCHANGED <<venue, book>>, call' \in Call,
         call'.op = "place" => call'.plan \in Plans,
         faults' \in 0..MaxFaults, known' \in [Plans -> 0..MaxOrders],
         tried' \subseteq Plans, swept' \subseteq OrderIds,
         told' \in [OrderIds -> [status : Standard, filled : 0..Qty]]
  PROVE  BookOK'
  BY DEF BookOK, TypeOK, Placed, Statuses, Sound

LEMMA FaultType ==
  ASSUME TypeOK, Fault PROVE faults' \in 0..MaxFaults
  BY DEF TypeOK, Fault

LEMMA NoAnswerType ==
  ASSUME TypeOK, NoAnswer
  PROVE  /\ call' \in Call
         /\ \/ call' = NoCall
            \/ /\ venue = "alpaca" /\ call'.op = call.op
               /\ call'.plan = call.plan /\ call'.todo = call.todo
<1>1. call \in Call /\ call.posts \in 0..(MaxPosts - 1)
  BY DEF TypeOK, Call
<1>2. CASE venue = "alpaca" /\ call.posts + 1 < MaxPosts
  <2>1. call.posts + 1 \in 0..(MaxPosts - 1)
    BY <1>1, <1>2
  <2>2. call' = [call EXCEPT !.posts = call.posts + 1]
    BY <1>2 DEF NoAnswer
  <2> QED
    BY <1>1, <1>2, <2>1, <2>2 DEF Call
<1>3. CASE ~(venue = "alpaca" /\ call.posts + 1 < MaxPosts)
  BY <1>3, NoCallType DEF NoAnswer
<1> QED
  BY <1>2, <1>3

\* What the adapter holds of the book is in the book.
Refs == /\ \A p \in Plans : known[p] # 0 => known[p] \in Placed
        /\ call.todo \subseteq Placed

\* What no step takes back: an order stays in the book, asked for stays asked
\* for, and an order that is over stays as it is.
Grown ==
    /\ Placed \subseteq Placed'
    /\ \A o \in Placed :
        /\ book'[o].plan = book[o].plan
        /\ book[o].asked => book'[o].asked
        /\ ~IsOpen(o) => /\ book'[o].status = book[o].status
                         /\ book'[o].filled = book[o].filled

LEMMA GrownSame == ASSUME UNCHANGED book PROVE Grown
  BY DEF Grown, Placed

LEMMA GrownChange ==
  ASSUME BookOK, NEW o \in Placed, NEW r \in Order, Changes(o, r),
         r.plan = book[o].plan, book[o].asked => r.asked, IsOpen(o)
  PROVE  Grown
<1>1. Placed' = Placed /\ \A j \in Placed : book'[j] = IF j = o THEN r ELSE book[j]
  BY Changed DEF BookOK, TypeOK
<1> QED
  BY <1>1 DEF Grown

LEMMA AskedOrder ==
  ASSUME BookOK, NEW o \in Placed, Ask(o)
  PROVE  \E r \in Order : /\ Changes(o, r) /\ r.plan = book[o].plan /\ r.asked
                          /\ r.status = book[o].status /\ r.filled = book[o].filled
<1> DEFINE r == [book[o] EXCEPT !.asked = TRUE]
<1>1. /\ r \in Order /\ r.plan = book[o].plan /\ r.asked
      /\ r.status = book[o].status /\ r.filled = book[o].filled
  BY BookTypes DEF BookOK, Order
<1>2. Changes(o, r)
  BY DEF Ask, Changes
<1> HIDE DEF r
<1> QED
  BY <1>1, <1>2

LEMMA Asks ==
  ASSUME BookOK, NEW o \in Placed, Ask(o), IsOpen(o), call' \in Call,
         call'.op = call.op, call'.plan = call.plan, faults' \in 0..MaxFaults,
         UNCHANGED <<venue, known, tried, told, swept>>
  PROVE  BookOK' /\ Grown
<1>1. PICK r \in Order : /\ Changes(o, r) /\ r.plan = book[o].plan /\ r.asked
                         /\ r.status = book[o].status /\ r.filled = book[o].filled
  BY AskedOrder
<1>2. Sound(r)
  BY <1>1 DEF BookOK, Sound
<1> QED
  BY <1>1, <1>2, ChangeTypes, GrownChange

LEMMA Accepts ==
  ASSUME BookOK, call.op = "place", Accept(call.plan), call' \in Call,
         call'.op = "place" => call'.plan \in Plans,
         known' \in [Plans -> 0..MaxOrders], faults' \in 0..MaxFaults,
         UNCHANGED <<venue, tried, told, swept>>
  PROVE  BookOK' /\ Grown
<1>1. /\ book' \in Seq(Order) /\ Len(book') = Len(book) + 1
      /\ Len(book') \in OrderIds /\ Placed' = Placed \cup {Len(book')}
      /\ \A j \in Placed : book'[j] = book[j]
      /\ book'[Len(book')].status = First /\ book'[Len(book')].filled = 0
  <2>1. PICK p \in Plans : Accept(p)
    BY DEF BookOK
  <2>2. book'[Len(book')] = [plan |-> p, status |-> First, filled |-> 0,
                             asked |-> FALSE]
    BY <2>1, Accepted
  <2>3. book'[Len(book')].status = First /\ book'[Len(book')].filled = 0
    BY <2>2
  <2> QED
    BY <2>1, <2>3, Accepted
<1>2. Statuses' = Statuses /\ First \in Statuses
  BY StatusTypes DEF Statuses
<1>3. \A o \in Placed' : Sound(book[o])'
  BY <1>1, <1>2 DEF BookOK, Sound
<1>4. TypeOK'
  BY <1>1 DEF BookOK, TypeOK, OrderIds
<1> QED
  BY <1>1, <1>3, <1>4 DEF BookOK, Grown

LEMMA OrdersTypeStep == BookOK /\ Refs /\ [Next]_vars => BookOK' /\ Grown
<1> SUFFICES ASSUME BookOK, Refs, [Next]_vars PROVE BookOK' /\ Grown
  OBVIOUS
<1>1. /\ call \in Call /\ faults \in 0..MaxFaults /\ Placed \subseteq OrderIds
      /\ known \in [Plans -> 0..MaxOrders] /\ tried \subseteq Plans
      /\ swept \subseteq OrderIds
      /\ told \in [OrderIds -> [status : Standard, filled : 0..Qty]]
  BY BookTypes DEF BookOK, TypeOK
<1>2. ASSUME NEW p \in Plans, PlaceOrder(p) PROVE BookOK' /\ Grown
  <2>1. call' = [NoCall EXCEPT !.op = "place", !.plan = p]
    BY <1>2 DEF PlaceOrder
  <2>2. call' \in Call /\ call'.plan \in Plans
    BY <2>1, NoCallType DEF Call
  <2> QED
    BY <1>1, <1>2, <2>2, SameTypes, GrownSame DEF PlaceOrder
<1>3. ASSUME NEW p \in Plans, GetOrder(p)
      PROVE  BookOK' /\ Grown
  <2>1. Report(known[p]) \in [status : Standard, filled : 0..Qty]
    BY <1>3, ReportType DEF GetOrder, Refs
  <2>2. told' \in [OrderIds -> [status : Standard, filled : 0..Qty]]
    BY <1>1, <1>3, <2>1 DEF GetOrder
  <2> QED
    BY <1>1, <1>3, <2>2, SameTypes, GrownSame DEF GetOrder, BookOK
<1>4. ASSUME NEW p \in Plans, CancelOrder(p)
      PROVE  BookOK' /\ Grown
  BY <1>1, <1>4, Asks DEF CancelOrder, Refs
<1>5. CASE PostAnswered
  <2>1. Len(book') \in OrderIds
    BY <1>5, Accepted DEF PostAnswered, BookOK
  <2>2. known' \in [Plans -> 0..MaxOrders]
    <3>1. Len(book') \in 0..MaxOrders
      BY <2>1 DEF OrderIds
    <3>2. known' = [known EXCEPT ![call.plan] = Len(book')]
      BY <1>5 DEF PostAnswered
    <3> QED
      BY <1>1, <3>1, <3>2
  <2>3. call' \in Call /\ call'.op = "none"
    BY <1>5, NoCallType DEF PostAnswered, NoCall
  <2> QED
    BY <1>1, <1>5, <2>2, <2>3, Accepts DEF PostAnswered
<1>6. CASE PostUnanswered \/ PostFails
  <2>1. call' \in Call /\ (call'.op = "place" => call'.plan \in Plans)
    BY <1>6, NoAnswerType DEF PostUnanswered, PostFails, BookOK, NoCall
  <2>2. faults' \in 0..MaxFaults
    BY <1>6, FaultType DEF PostUnanswered, PostFails, BookOK
  <2>3. CASE PostUnanswered
    BY <1>1, <2>1, <2>2, <2>3, Accepts DEF PostUnanswered
  <2>4. CASE PostFails
    BY <1>1, <2>1, <2>2, <2>4, SameTypes, GrownSame DEF PostFails
  <2> QED
    BY <1>6, <2>3, <2>4
<1>7. CASE PostRefused
  <2>1. call' \in Call /\ call'.op = "none"
    BY <1>7, NoCallType DEF PostRefused, NoCall
  <2> QED
    BY <1>1, <1>7, <2>1, SameTypes, GrownSame DEF PostRefused
<1>8. CASE CancelAllOrders
  <2>1. PICK S \in SUBSET OrderIds :
          call' = [NoCall EXCEPT !.op = "sweep", !.todo = S, !.listed = S]
    BY <1>1, <1>8 DEF CancelAllOrders
  <2>2. call' \in Call /\ call'.op = "sweep"
    BY <2>1, NoCallType DEF Call
  <2> QED
    BY <1>1, <1>8, <2>2, SameTypes, GrownSame DEF CancelAllOrders
<1>9. CASE CancelAllFails
  BY <1>1, <1>9, FaultType, SameTypes, GrownSame DEF CancelAllFails, BookOK
<1>10. ASSUME NEW o \in OrderIds, SweepOne(o) PROVE BookOK' /\ Grown
  <2> o \in Placed
    BY <1>10 DEF SweepOne, Refs
  <2>1. faults' \in 0..MaxFaults
    BY <1>1, <1>10 DEF SweepOne
  <2>2. PICK b \in BOOLEAN :
          call' = [call EXCEPT !.todo = call.todo \ {o}, !.ok = b]
    <3>1. [call EXCEPT !.todo = @ \ {o}]
            = [call EXCEPT !.todo = call.todo \ {o}, !.ok = call.ok]
      BY <1>1 DEF Call
    <3>2. call.ok \in BOOLEAN
      BY <1>1 DEF Call
    <3> QED
      BY <1>10, <3>1, <3>2 DEF SweepOne
  <2>3. call' \in Call /\ call'.op = call.op /\ call'.plan = call.plan
    BY <1>1, <2>2 DEF Call
  <2>4. CASE IsOpen(o) /\ Ask(o)
    BY <1>10, <2>1, <2>3, <2>4, Asks DEF SweepOne
  <2>5. CASE UNCHANGED book
    BY <1>1, <1>10, <2>1, <2>3, <2>5, SameTypes, GrownSame DEF SweepOne, BookOK
  <2> QED
    BY <1>10, <2>4, <2>5 DEF SweepOne
<1>11. CASE SweepReturns
  <2>1. call' \in Call /\ call'.op = "none"
    BY <1>11, NoCallType DEF SweepReturns, NoCall
  <2>2. swept' \subseteq OrderIds
    BY <1>1, <1>11 DEF SweepReturns, Call
  <2> QED
    BY <1>1, <1>11, <2>1, <2>2, SameTypes, GrownSame DEF SweepReturns
<1>12. ASSUME NEW o \in OrderIds, VenueTakes(o) PROVE BookOK' /\ Grown
  <2> DEFINE r == [book[o] EXCEPT !.status = "SUBMITTED"]
  <2>1. o \in Placed /\ book[o] \in Order /\ IsOpen(o) /\ Changes(o, r)
    BY <1>12, BookTypes
    DEF VenueTakes, BookOK, IsOpen, Working, FutuWorking, Changes
  <2>2. r \in Order /\ r.plan = book[o].plan /\ r.asked = book[o].asked
        /\ r.status = "SUBMITTED" /\ r.filled = book[o].filled
    BY <2>1, StatusTypes DEF Order
  <2>3. venue # "alpaca"
    BY <1>12, <2>1
    DEF VenueTakes, BookOK, Sound, Statuses, AlpacaWorking, AlpacaEnded
  <2>4. Sound(r)
    BY <2>1, <2>2, <2>3 DEF Statuses, FutuWorking, BookOK, Sound, IsOpen
  <2> HIDE DEF r
  <2> QED
    BY <1>1, <1>12, <2>1, <2>2, <2>4, ChangeTypes, GrownChange DEF VenueTakes
<1>13. ASSUME NEW o \in OrderIds, VenueFills(o)
       PROVE  BookOK' /\ Grown
  <2> DEFINE s == IF book[o].filled + 1 = Qty THEN Whole ELSE Partly
             r == [book[o] EXCEPT !.filled = @ + 1, !.status = s]
  <2>1. o \in Placed /\ book[o] \in Order /\ IsOpen(o) /\ Changes(o, r)
    BY <1>13, BookTypes DEF VenueFills, BookOK, Changes
  <2>2. s \in Statuses /\ s \in Native
    BY StatusTypes
  <2> HIDE DEF s
  <2>3. /\ book[o].filled + 1 \in 0..Qty
        /\ s \in Working => book[o].filled + 1 < Qty
    <3>1. book[o].filled < Qty /\ book[o].filled \in 0..Qty
      BY <2>1 DEF BookOK, Sound, IsOpen, Order
    <3>2. Whole \notin Working
      BY DEF Whole, Working, AlpacaWorking, FutuWorking
    <3> QED
      BY <3>1, <3>2 DEF s
  <2>4. /\ r \in Order /\ r.plan = book[o].plan /\ r.asked = book[o].asked
        /\ r.status = s /\ r.filled = book[o].filled + 1
    BY <2>1, <2>2, <2>3 DEF Order
  <2> HIDE DEF r
  <2>5. Sound(r)
    BY <2>2, <2>3, <2>4 DEF Sound
  <2> QED
    BY <1>1, <1>13, <2>1, <2>4, <2>5, ChangeTypes, GrownChange DEF VenueFills
<1>14. ASSUME NEW o \in OrderIds, VenueEnds(o) PROVE BookOK' /\ Grown
  <2>1. o \in Placed /\ book[o] \in Order /\ IsOpen(o)
    BY <1>14, BookTypes DEF VenueEnds, BookOK
  <2>2. PICK s \in EndsOf(book[o].status, book[o].filled) :
          book' = [book EXCEPT ![o].status = s]
    BY <1>14 DEF VenueEnds
  <2>3. s \in Statuses /\ s \in Native /\ s \notin Working
    BY <2>1, EndTypes
  <2> DEFINE r == [book[o] EXCEPT !.status = s]
  <2>4. /\ r \in Order /\ r.plan = book[o].plan /\ r.asked = book[o].asked
        /\ r.status = s
    BY <2>1, <2>3 DEF Order
  <2>5. Changes(o, r)
    BY <2>2 DEF Changes
  <2> HIDE DEF r
  <2>6. Sound(r)
    BY <2>3, <2>4 DEF Sound
  <2> QED
    BY <1>1, <1>14, <2>1, <2>4, <2>5, <2>6, ChangeTypes, GrownChange
    DEF VenueEnds
<1>15. CASE UNCHANGED vars
  BY <1>1, <1>15, SameTypes, GrownSame DEF vars, BookOK
<1> QED
  BY <1>2, <1>3, <1>4, <1>5, <1>6, <1>7, <1>8, <1>9, <1>10, <1>11, <1>12, <1>13,
     <1>14, <1>15 DEF Next, Post

LEMMA RefsStep ==
  ASSUME BookOK, Refs, [Next]_vars, Grown PROVE Refs'
<1>1. ASSUME NEW p \in Plans, known'[p] # 0 PROVE known'[p] \in Placed'
  <2>1. CASE known' = known
    BY <1>1, <2>1 DEF Refs, Grown
  <2>2. CASE PostAnswered
    <3>1. Len(book') \in Placed'
      BY <2>2, Accepted DEF PostAnswered, BookOK
    <3>2. known'[p] \in {known[p], Len(book')}
      BY <2>2 DEF PostAnswered, BookOK, TypeOK
    <3> QED
      BY <1>1, <3>1, <3>2 DEF Refs, Grown
  <2> QED
    BY <2>1, <2>2
    DEF Next, Post, vars, PlaceOrder, GetOrder, CancelOrder, PostUnanswered,
        PostFails, PostRefused, CancelAllOrders, CancelAllFails, SweepReturns,
        SweepOne, VenueTakes, VenueFills, VenueEnds
<1>2. call'.todo \subseteq Placed'
  <2>1. CASE call' = call
    BY <2>1 DEF Refs, Grown
  <2>2. CASE call'.todo = {}
    BY <2>2
  <2>3. CASE PostUnanswered \/ PostFails
    BY <2>3, NoAnswerType
    DEF PostUnanswered, PostFails, BookOK, Refs, Grown, NoCall
  <2>4. CASE CancelAllOrders
    BY <2>4 DEF CancelAllOrders, NoCall, Grown
  <2>5. ASSUME NEW o \in OrderIds, SweepOne(o) PROVE call'.todo \subseteq call.todo
    <3>1. call \in Call
      BY DEF BookOK, TypeOK
    <3>2. [call EXCEPT !.todo = @ \ {o}].todo = call.todo \ {o}
      BY <3>1 DEF Call
    <3>3. \A b : [call EXCEPT !.todo = @ \ {o}, !.ok = b].todo = call.todo \ {o}
      BY <3>1 DEF Call
    <3> QED
      BY <2>5, <3>2, <3>3 DEF SweepOne
  <2>6. ASSUME NEW p \in Plans, PlaceOrder(p) PROVE call'.todo = {}
    BY <2>6 DEF PlaceOrder, NoCall
  <2>7. PostAnswered \/ PostRefused \/ SweepReturns => call'.todo = {}
    BY DEF PostAnswered, PostRefused, SweepReturns, NoCall
  <2> QED
    BY <2>1, <2>2, <2>3, <2>4, <2>5, <2>6, <2>7
    DEF Next, Post, vars, GetOrder, CancelOrder, CancelAllFails, VenueTakes,
        VenueFills, VenueEnds, Refs, Grown
<1> QED
  BY <1>1, <1>2 DEF Refs

LEMMA RefsInit == Init => Refs
  BY DEF Init, Refs, NoCall

LEMMA Bookkeeping == Spec => [](BookOK /\ Refs)
<1>1. BookOK /\ Refs /\ [Next]_vars => BookOK' /\ Refs'
  BY OrdersTypeStep, RefsStep
<1> QED
  BY <1>1, OrdersTypeInit, RefsInit, PTL DEF Spec

\* The adapters stay within their types: in particular no order is filled
\* beyond its quantity and the session repeats a request MaxPosts times at most.
THEOREM OrdersTypes == Spec => []TypeOK
<1>1. BookOK => TypeOK
  BY DEF BookOK
<1> QED
  BY <1>1, Bookkeeping, PTL

(***************************************************************************)
(* One order for a plan: the venue takes the client order id once, Futu's  *)
(* adapter asks once, and a plan is sent once.                             *)
(***************************************************************************)
Unplaced(p) == \A o \in Placed : book[o].plan # p

Single ==
    /\ \A o, q \in Placed : book[o].plan = book[q].plan => o = q
    /\ \A p \in Plans : p \notin tried => Unplaced(p) /\ known[p] = 0
    /\ \A p \in Plans : known[p] # 0 => book[known[p]].plan = p
    /\ call.op = "place" =>
          /\ call.plan \in tried /\ known[call.plan] = 0
          /\ venue # "alpaca" => Unplaced(call.plan)

\* Steps that accept no order leave the plans of the book as they are.
LEMMA SamePlans ==
  ASSUME BookOK, Refs, [Next]_vars, ~PostAnswered, ~PostUnanswered, Grown
  PROVE  Placed' = Placed /\ \A o \in Placed : book'[o].plan = book[o].plan
<1>1. CASE UNCHANGED book
  BY <1>1 DEF Placed, Grown
<1>2. ASSUME NEW o \in Placed, NEW r, book' = [book EXCEPT ![o] = r]
      PROVE  Placed' = Placed
  <2>1. Len(book') = Len(book)
    BY <1>2 DEF BookOK, TypeOK, Placed
  <2> QED
    BY <2>1 DEF Placed
<1>3. ASSUME NEW o \in Placed, Ask(o) PROVE Placed' = Placed
  BY <1>2, <1>3 DEF Ask
<1>4. ASSUME NEW o \in OrderIds, VenueTakes(o) \/ VenueFills(o) \/ VenueEnds(o)
      PROVE  Placed' = Placed
  BY <1>2, <1>4 DEF VenueTakes, VenueFills, VenueEnds
<1>5. ASSUME NEW p \in Plans, GetOrder(p) PROVE UNCHANGED book
  BY <1>5 DEF GetOrder
<1>6. ASSUME NEW p \in Plans, CancelOrder(p) PROVE Placed' = Placed
  BY <1>3, <1>6 DEF CancelOrder, Refs
<1>7. ASSUME NEW o \in OrderIds, SweepOne(o) PROVE Placed' = Placed
  BY <1>1, <1>3, <1>7 DEF SweepOne, Refs
<1> QED
  <2>1. Placed' = Placed
    BY <1>1, <1>4, <1>5, <1>6, <1>7
    DEF Next, Post, vars, PlaceOrder, PostFails, PostRefused, CancelAllOrders,
        CancelAllFails, SweepReturns
  <2> QED
    BY <2>1 DEF Grown

\* An order is accepted for a plan that has none.
LEMMA FirstOrder ==
  ASSUME BookOK, Refs, Single, call.op = "place", Accept(call.plan)
  PROVE  /\ call.plan \in Plans /\ Unplaced(call.plan)
         /\ Len(book') \notin Placed /\ Placed' = Placed \cup {Len(book')}
         /\ \A j \in Placed : book'[j] = book[j]
         /\ book'[Len(book')].plan = call.plan
<1>1. call.plan \in Plans
  BY DEF BookOK
<1>2. Unplaced(call.plan)
  BY DEF Single, Accept, TakesId, OrdersOf, Unplaced
<1>3. PICK p \in Plans : p = call.plan
  BY <1>1
<1>4. Accept(p)
  BY <1>3
<1>5. book'[Len(book')] = [plan |-> p, status |-> First, filled |-> 0,
                           asked |-> FALSE]
  BY <1>4, Accepted
<1>6. book'[Len(book')].plan = p
  BY <1>5
<1> QED
  BY <1>1, <1>2, <1>3, <1>4, <1>6, Accepted

LEMMA SingleStep ==
  ASSUME BookOK, Refs, Single, [Next]_vars, Grown PROVE Single'
<1>1. CASE PostAnswered
  <2> DEFINE n == Len(book')
             pl == call.plan
  <2>1. /\ pl \in Plans /\ Unplaced(pl) /\ n \notin Placed
        /\ Placed' = Placed \cup {n} /\ \A j \in Placed : book'[j] = book[j]
        /\ book'[n].plan = pl /\ pl \in tried
    BY <1>1, FirstOrder DEF PostAnswered, Single
  <2>2. /\ known' = [known EXCEPT ![pl] = n] /\ call'.op = "none"
        /\ UNCHANGED <<venue, tried>>
    BY <1>1 DEF PostAnswered, NoCall
  <2> HIDE DEF n, pl
  <2>3. known' \in [Plans -> {0, n} \cup Placed] /\ known'[pl] = n
        /\ \A p \in Plans \ {pl} : known'[p] = known[p]
    BY <2>1, <2>2 DEF BookOK, TypeOK, Refs
  <2>4. \A o, q \in Placed' : book'[o].plan = book'[q].plan => o = q
    BY <2>1 DEF Single, Unplaced
  <2>5. \A p \in Plans : p \notin tried' => Unplaced(p)' /\ known'[p] = 0
    BY <2>1, <2>2, <2>3 DEF Single, Unplaced
  <2>6. \A p \in Plans : known'[p] # 0 => book'[known'[p]].plan = p
    BY <2>1, <2>3 DEF Single, Refs
  <2> QED
    BY <2>2, <2>4, <2>5, <2>6 DEF Single
<1>2. CASE PostUnanswered
  <2> DEFINE n == Len(book')
             pl == call.plan
  <2>1. /\ pl \in Plans /\ Unplaced(pl) /\ n \notin Placed
        /\ Placed' = Placed \cup {n} /\ \A j \in Placed : book'[j] = book[j]
        /\ book'[n].plan = pl /\ pl \in tried /\ known[pl] = 0
    BY <1>2, FirstOrder DEF PostUnanswered, Single
  <2>2. /\ UNCHANGED <<venue, tried, known>>
        /\ call'.op = "place" => venue = "alpaca" /\ call'.plan = pl
    BY <1>2, NoAnswerType DEF PostUnanswered, NoCall, BookOK
  <2> HIDE DEF n, pl
  <2>3. \A o, q \in Placed' : book'[o].plan = book'[q].plan => o = q
    BY <2>1 DEF Single, Unplaced
  <2>4. \A p \in Plans : p \notin tried' => Unplaced(p)' /\ known'[p] = 0
    BY <2>1, <2>2 DEF Single, Unplaced
  <2>5. \A p \in Plans : known'[p] # 0 => book'[known'[p]].plan = p
    BY <2>1, <2>2 DEF Single, Refs
  <2> QED
    BY <2>1, <2>2, <2>3, <2>4, <2>5 DEF Single
<1>3. CASE ~PostAnswered /\ ~PostUnanswered
  <2>1. Placed' = Placed /\ \A o \in Placed : book'[o].plan = book[o].plan
    BY <1>3, SamePlans
  <2>2. known' = known /\ venue' = venue
    BY <1>3
    DEF Next, Post, vars, PlaceOrder, GetOrder, CancelOrder, PostFails,
        PostRefused, CancelAllOrders, CancelAllFails, SweepReturns, SweepOne,
        VenueTakes, VenueFills, VenueEnds
  <2>3. \A p : Unplaced(p)' <=> Unplaced(p)
    BY <2>1 DEF Unplaced
  <2>4. ASSUME NEW p \in Plans, PlaceOrder(p) PROVE Single'
    <3>1. call'.op = "place" /\ call'.plan = p /\ tried' = tried \cup {p}
      BY <2>4 DEF PlaceOrder, NoCall
    <3>2. Unplaced(p) /\ known[p] = 0
      BY <2>4 DEF PlaceOrder, Single
    <3> QED
      BY <2>1, <2>2, <2>3, <3>1, <3>2 DEF Single, Refs
  <2>5. ASSUME \A p \in Plans : ~PlaceOrder(p) PROVE Single'
    <3>1. tried' = tried
      BY <1>3, <2>5
      DEF Next, Post, vars, GetOrder, CancelOrder, PostFails,
          PostRefused, CancelAllOrders, CancelAllFails, SweepReturns, SweepOne,
          VenueTakes, VenueFills, VenueEnds
    <3>2. call'.op = "place" => call.op = "place" /\ call'.plan = call.plan
      <4>1. CASE PostFails
        BY <4>1, NoAnswerType DEF PostFails, NoCall, BookOK
      <4>2. CASE PostRefused \/ CancelAllOrders \/ SweepReturns
        <5>1. CASE PostRefused \/ SweepReturns
          BY <5>1 DEF PostRefused, SweepReturns, NoCall
        <5>2. CASE CancelAllOrders
          <6>1. call'.op = "sweep"
            BY <5>2 DEF CancelAllOrders, NoCall
          <6> QED
            BY <6>1
        <5> QED
          BY <4>2, <5>1, <5>2
      <4>3. ASSUME NEW o \in OrderIds, SweepOne(o) PROVE call'.op = "sweep"
        <5>1. call \in Call
          BY DEF BookOK, TypeOK
        <5>2. [call EXCEPT !.todo = @ \ {o}].op = call.op
          BY <5>1 DEF Call
        <5>3. \A b : [call EXCEPT !.todo = @ \ {o}, !.ok = b].op = call.op
          BY <5>1 DEF Call
        <5> QED
          BY <4>3, <5>2, <5>3 DEF SweepOne
      <4> QED
        BY <1>3, <2>5, <4>1, <4>2, <4>3
        DEF Next, Post, vars, GetOrder, CancelOrder, CancelAllFails,
            VenueTakes, VenueFills, VenueEnds
    <3> QED
      BY <2>1, <2>2, <2>3, <3>1, <3>2 DEF Single, Refs
  <2> QED
    BY <2>4, <2>5
<1> QED
  BY <1>1, <1>2, <1>3

LEMMA SingleInit == Init => Single
  BY DEF Init, Single, Unplaced, NoCall, Placed

\* However often a request is repeated, the venue holds one order for a plan.
THEOREM PlacedOnce == Spec => []OneOrderPerPlan
<1>1. BookOK /\ Refs /\ Single /\ [Next]_vars => Single'
  BY OrdersTypeStep, SingleStep
<1>2. Spec => []Single
  BY <1>1, Bookkeeping, SingleInit, PTL DEF Spec
<1>3. BookOK /\ Refs /\ Single => OneOrderPerPlan
  <2> SUFFICES ASSUME BookOK, Refs, Single, NEW p \in Plans
               PROVE  /\ Cardinality(OrdersOf(p)) <= 1
                      /\ known[p] # 0 => OrdersOf(p) = {known[p]}
    BY DEF OneOrderPerPlan
  <2>1. OrdersOf(p) = {} \/ \E o \in Placed : OrdersOf(p) = {o}
    BY DEF OrdersOf, Single
  <2>2. Cardinality({}) = 0 /\ \A o : Cardinality({o}) = 1
    BY FS_EmptySet, FS_Singleton
  <2>3. known[p] # 0 => known[p] \in OrdersOf(p)
    BY DEF Refs, Single, OrdersOf
  <2>4. Cardinality(OrdersOf(p)) \in {0, 1}
    BY <2>1, <2>2, Zenon
  <2>5. known[p] # 0 => OrdersOf(p) = {known[p]}
    BY <2>1, <2>3
  <2> QED
    BY <2>4, <2>5
<1> QED
  BY <1>2, <1>3, Bookkeeping, PTL

(***************************************************************************)
(* What was reported as over is over.                                      *)
(***************************************************************************)
Final(o) ==
    told[o].status \in Terminal =>
        o \in Placed /\ ~IsOpen(o) /\ told[o].filled = book[o].filled

AllFinal == \A o \in OrderIds : Final(o)

\* The status table gives no terminal status to an order that is worked.
LEMMA TerminalIsOver ==
  ASSUME BookOK, NEW o \in Placed, Report(o).status \in Terminal
  PROVE  ~IsOpen(o) /\ Report(o).filled = book[o].filled
<1>1. Report(o).filled = book[o].filled
  BY DEF Report
<1>2. CASE venue = "alpaca"
  BY <1>2 DEF Report, Terminal, IsOpen, Working, AlpacaWorking, FutuWorking
<1>3. CASE venue # "alpaca"
  <2>1. MapFutuStatus(book[o].status) \in Terminal
    BY <1>3 DEF Report
  <2>2. book[o].status \in {"FILLED_ALL", "CANCELLED_PART", "CANCELLED_ALL",
                            "DISABLED", "DELETED", "FAILED"}
    BY <2>1 DEF MapFutuStatus, Terminal
  <2> QED
    BY <1>1, <2>2 DEF IsOpen, Working, AlpacaWorking, FutuWorking
<1> QED
  BY <1>1, <1>2, <1>3

LEMMA FinalStep ==
  ASSUME BookOK, Refs, AllFinal, [Next]_vars, Grown PROVE AllFinal'
<1> SUFFICES ASSUME NEW o \in OrderIds PROVE Final(o)'
  BY DEF AllFinal
<1>1. CASE told'[o] = told[o]
  BY <1>1 DEF AllFinal, Final, Grown, IsOpen
<1>2. ASSUME NEW p \in Plans, GetOrder(p), o = known[p] PROVE Final(o)'
  <2>1. o \in Placed /\ told'[o] = Report(o) /\ UNCHANGED book
    BY <1>2 DEF GetOrder, Refs, BookOK, TypeOK
  <2> QED
    BY <2>1, TerminalIsOver DEF Final, IsOpen, Placed
<1>3. ASSUME NEW p \in Plans, GetOrder(p), o # known[p] PROVE told'[o] = told[o]
  BY <1>3 DEF GetOrder, BookOK, TypeOK
<1> QED
  BY <1>1, <1>2, <1>3
  DEF Next, Post, vars, PlaceOrder, CancelOrder, PostAnswered, PostUnanswered,
      PostFails, PostRefused, CancelAllOrders, CancelAllFails, SweepReturns,
      SweepOne, VenueTakes, VenueFills, VenueEnds

LEMMA FinalInit == Init => AllFinal
  BY DEF Init, AllFinal, Final, Unsaid, Terminal

\* An order that the loop may release, by the status it was told, is over at
\* either venue and has filled what was reported.
THEOREM NoneReleasedEarly == Spec => []ReleasedIsOver
<1>1. BookOK /\ Refs /\ AllFinal /\ [Next]_vars => AllFinal'
  BY OrdersTypeStep, FinalStep
<1>2. Spec => []AllFinal
  BY <1>1, Bookkeeping, FinalInit, PTL DEF Spec
<1>3. BookOK /\ Refs /\ AllFinal => ReleasedIsOver
  BY BookTypes DEF ReleasedIsOver, AllFinal, Final, Refs, BookOK
<1> QED
  BY <1>2, <1>3, Bookkeeping, PTL

(***************************************************************************)
(* The sweep of the Futu adapter                                           *)
(***************************************************************************)
Swept ==
    venue = "futu" =>
        /\ \A o \in swept : o \in Placed /\ book[o].asked
        /\ call.op = "sweep" =>
              /\ call.listed \subseteq Placed
              /\ call.ok => \A o \in call.listed \ call.todo : book[o].asked

LEMMA SweptStep ==
  ASSUME BookOK, Refs, Swept, [Next]_vars, Grown PROVE Swept'
<1> SUFFICES ASSUME venue = "futu", venue' = "futu" PROVE Swept'
  <2>1. venue' = venue
    BY DEF Next, Post, vars, PlaceOrder, GetOrder, CancelOrder, PostAnswered,
        PostUnanswered, PostFails, PostRefused, CancelAllOrders,
        CancelAllFails, SweepReturns, SweepOne, VenueTakes, VenueFills,
        VenueEnds
  <2> QED
    BY <2>1 DEF Swept
<1>1. /\ Placed \subseteq Placed'
      /\ \A o \in Placed : book[o].asked => book'[o].asked
  BY DEF Grown
<1>2. /\ \A o \in swept : o \in Placed' /\ book'[o].asked
      /\ call.op = "sweep" =>
            /\ call.listed \subseteq Placed'
            /\ call.ok => \A o \in call.listed \ call.todo : book'[o].asked
  BY <1>1 DEF Swept
<1>3. ASSUME NEW o \in OrderIds, SweepOne(o) PROVE Swept'
  <2>1. call \in Call
    BY DEF BookOK, TypeOK
  <2>2. LET d == [call EXCEPT !.todo = @ \ {o}]
        IN  /\ d.op = call.op /\ d.listed = call.listed /\ d.ok = call.ok
            /\ d.todo = call.todo \ {o}
    BY <2>1 DEF Call
  <2>3. LET d == [call EXCEPT !.todo = @ \ {o}, !.ok = @ /\ venue = "alpaca"]
        IN  /\ d.op = call.op /\ d.listed = call.listed /\ ~d.ok
            /\ d.todo = call.todo \ {o}
    BY <2>1 DEF Call
  <2>4. call.op = "sweep" /\ swept' = swept /\ o \in Placed
    BY <1>3 DEF SweepOne, Refs
  <2>5. CASE IsOpen(o) /\ Ask(o) /\ call' = [call EXCEPT !.todo = @ \ {o}]
    <3>1. book'[o].asked
      BY <2>4, <2>5, AskedOrder, Changed DEF BookOK, TypeOK
    <3> QED
      BY <1>2, <2>2, <2>4, <2>5, <3>1 DEF Swept
  <2>6. CASE call' = [call EXCEPT !.todo = @ \ {o}, !.ok = @ /\ venue = "alpaca"]
    BY <1>2, <2>3, <2>4, <2>6 DEF Swept
  <2> QED
    BY <1>3, <2>5, <2>6 DEF SweepOne
<1>4. CASE SweepReturns
  <2>1. call'.op = "none"
    BY <1>4 DEF SweepReturns, NoCall
  <2>2. \A o \in swept' : o \in Placed' /\ book'[o].asked
    BY <1>2, <1>4 DEF SweepReturns, SweepIsOver
  <2> QED
    BY <2>1, <2>2 DEF Swept
<1>5. CASE CancelAllOrders
  <2>1. /\ call'.listed = call'.todo /\ call'.listed \subseteq Placed
        /\ swept' = swept
    BY <1>5 DEF CancelAllOrders, NoCall
  <2> QED
    BY <1>1, <1>2, <2>1 DEF Swept
<1>6. CASE call'.op # "sweep" /\ swept' = swept
  BY <1>2, <1>6 DEF Swept
<1>7. CASE call' = call /\ swept' = swept
  BY <1>2, <1>7 DEF Swept
<1>8. ASSUME NEW p \in Plans, PlaceOrder(p)
      PROVE  call'.op # "sweep" /\ swept' = swept
  BY <1>8 DEF PlaceOrder, NoCall
<1>9. PostAnswered \/ PostRefused => call'.op # "sweep" /\ swept' = swept
  BY DEF PostAnswered, PostRefused, NoCall
<1>10. PostUnanswered \/ PostFails => call'.op # "sweep" /\ swept' = swept
  BY NoAnswerType DEF PostUnanswered, PostFails, NoCall, BookOK
<1> QED
  BY <1>3, <1>4, <1>5, <1>6, <1>7, <1>8, <1>9, <1>10
  DEF Next, Post, vars, GetOrder, CancelOrder, CancelAllFails, VenueTakes,
      VenueFills, VenueEnds

LEMMA SweptInit == Init => Swept
  BY DEF Init, Swept, NoCall

\* When the Futu adapter says that all is cancelled, every order it listed has
\* its cancellation, whatever was filled or ended in the meantime.
THEOREM SweepAsksAll == Spec => []SweptAreAsked
<1>1. BookOK /\ Refs /\ Swept /\ [Next]_vars => Swept'
  BY OrdersTypeStep, SweptStep
<1>2. Spec => []Swept
  BY <1>1, Bookkeeping, SweptInit, PTL DEF Spec
<1>3. Swept => SweptAreAsked
  BY DEF Swept, SweptAreAsked
<1> QED
  BY <1>2, <1>3, PTL

(***************************************************************************)
(* The life of a plan's order, as the live loop takes it (OrderLifecycle). *)
(* What was said of an order that is over is said again.                   *)
(***************************************************************************)
AllSaid ==
    \A o \in OrderIds :
        told[o].status \in Terminal => Report(o).status = told[o].status

LEMMA ToldStep ==
  ASSUME BookOK, [Next]_vars, NEW o \in OrderIds
  PROVE  told'[o] = told[o] \/ (told'[o] = Report(o) /\ UNCHANGED book)
<1>1. ASSUME NEW p \in Plans, GetOrder(p)
      PROVE  told'[o] = told[o] \/ (told'[o] = Report(o) /\ UNCHANGED book)
  <2>1. told' = [told EXCEPT ![known[p]] = Report(known[p])] /\ UNCHANGED book
    BY <1>1 DEF GetOrder
  <2>2. told \in [OrderIds -> [status : Standard, filled : 0..Qty]]
    BY DEF BookOK, TypeOK
  <2> QED
    BY <2>1, <2>2
<1>2. CASE UNCHANGED told
  BY <1>2
<1> QED
  BY <1>1, <1>2
  DEF Next, Post, vars, PlaceOrder, CancelOrder, PostAnswered, PostUnanswered,
      PostFails, PostRefused, CancelAllOrders, CancelAllFails, SweepReturns,
      SweepOne, VenueTakes, VenueFills, VenueEnds

LEMMA SaidStep ==
  ASSUME BookOK, Refs, AllFinal, AllSaid, [Next]_vars, Grown PROVE AllSaid'
<1> SUFFICES ASSUME NEW o \in OrderIds, told'[o].status \in Terminal
             PROVE  Report(o)'.status = told'[o].status
  BY DEF AllSaid
<1>1. UNCHANGED venue
  BY DEF Next, Post, vars, PlaceOrder, GetOrder, CancelOrder, PostAnswered,
      PostUnanswered, PostFails, PostRefused, CancelAllOrders, CancelAllFails,
      SweepReturns, SweepOne, VenueTakes, VenueFills, VenueEnds
<1>2. CASE told'[o] = told[o]
  <2>1. book'[o].status = book[o].status /\ Report(o).status = told[o].status
    BY <1>2 DEF AllFinal, Final, Grown, AllSaid
  <2> QED
    BY <1>1, <1>2, <2>1 DEF Report
<1>3. CASE told'[o] = Report(o) /\ UNCHANGED book
  BY <1>1, <1>3 DEF Report
<1> QED
  BY <1>2, <1>3, ToldStep

\* A plan's order becomes known when it is accepted and new; nothing else
\* changes which order a plan has.
LEMMA KnownStep ==
  ASSUME BookOK, Refs, Single, AllFinal, [Next]_vars, NEW p \in Plans,
         known'[p] # known[p]
  PROVE  /\ known[p] = 0 /\ known'[p] \in Placed'
         /\ book'[known'[p]].status = First
         /\ told'[known'[p]].status \notin Terminal
<1>1. PostAnswered
  BY DEF Next, Post, vars, PlaceOrder, GetOrder, CancelOrder,
      PostUnanswered, PostFails, PostRefused, CancelAllOrders, CancelAllFails,
      SweepReturns, SweepOne, VenueTakes, VenueFills, VenueEnds
<1>2. /\ call.op = "place" /\ call.plan \in Plans /\ Accept(call.plan)
      /\ known' = [known EXCEPT ![call.plan] = Len(book')] /\ UNCHANGED told
  BY <1>1 DEF PostAnswered, BookOK
<1>3. known \in [Plans -> 0..MaxOrders]
  BY DEF BookOK, TypeOK
<1>4. call.plan = p /\ known'[p] = Len(book')
  BY <1>2, <1>3
<1>5. known[p] = 0
  BY <1>2, <1>4 DEF Single
<1>6. /\ Len(book') \in OrderIds /\ Len(book') \in Placed'
      /\ Len(book') \notin Placed
      /\ book'[Len(book')].status = First
  <2>1. book'[Len(book')] = [plan |-> call.plan, status |-> First, filled |-> 0,
                             asked |-> FALSE]
    BY <1>2, Accepted DEF BookOK
  <2> QED
    BY <1>2, <2>1, Accepted DEF BookOK
<1>7. told[Len(book')].status \notin Terminal
  BY <1>6 DEF AllFinal, Final
<1> QED
  BY <1>2, <1>4, <1>5, <1>6, <1>7

LEMMA LifeStep ==
  ASSUME BookOK, Refs, Single, AllFinal, AllSaid, [Next]_vars, Grown, NEW p \in Plans
  PROVE  [Life(p)!Next]_(Life(p)!lifecycleVars)
<1>1. ASSUME IsReleased(p)' <=> IsReleased(p), Held(p)' <=> Held(p),
             Held(p) => (IsOpen(known[p])' <=> IsOpen(known[p]))
      PROVE  UNCHANGED Life(p)!lifecycleVars
  BY <1>1 DEF Life!lifecycleVars
<1>2. CASE known'[p] # known[p]
  <2>1. /\ known[p] = 0 /\ known'[p] # 0 /\ IsOpen(known[p])'
        /\ told'[known'[p]].status \notin Terminal
    <3>1. known'[p] # 0
      BY <1>2, KnownStep
    <3>2. book'[known'[p]].status \in Working
      BY <1>2, KnownStep, StatusTypes DEF First, Working, AlpacaWorking, FutuWorking
    <3> QED
      BY <1>2, <3>1, <3>2, KnownStep DEF IsOpen
  <2>2. ~Held(p) /\ ~IsReleased(p) /\ Held(p)' /\ ~IsReleased(p)'
    BY <2>1 DEF Held, IsReleased
  <2>3. Life(p)!Place(p)
    BY <2>1, <2>2 DEF Life!Place
  <2> QED
    BY <2>3 DEF Life!Next
<1>3. CASE known'[p] = known[p] /\ known[p] = 0
  <2>1. ~Held(p) /\ ~IsReleased(p) /\ ~Held(p)' /\ ~IsReleased(p)'
    BY <1>3 DEF Held, IsReleased
  <2> QED
    BY <1>1, <2>1
<1>4. CASE known'[p] = known[p] /\ known[p] # 0
  <2>1. PICK o \in Placed : o = known[p] /\ o \in OrderIds
    BY <1>4 DEF Refs, BookOK, TypeOK, Placed, OrderIds
  <2>2. /\ IsReleased(p) <=> told[o].status \in Terminal
        /\ IsReleased(p)' <=> told'[o].status \in Terminal
        /\ IsOpen(known[p])' <=> IsOpen(o)'
    BY <1>4, <2>1 DEF IsReleased, IsOpen
  <2>3. ~IsOpen(o) => ~IsOpen(o)'
    BY <2>1 DEF Grown, IsOpen
  <2>4. CASE IsReleased(p)
    <3>1. told'[o].status \in Terminal
      <4>1. told'[o] = told[o] \/ told'[o] = Report(o)
        BY <2>1, ToldStep
      <4> QED
        BY <2>1, <2>2, <2>4, <4>1 DEF AllSaid
    <3>2. ~Held(p) /\ ~Held(p)' /\ IsReleased(p)'
      BY <2>2, <2>4, <3>1 DEF Held
    <3> QED
      BY <1>1, <2>4, <3>2
  <2>5. CASE ~IsReleased(p) /\ ~IsReleased(p)'
    <3>1. Held(p) /\ Held(p)'
      BY <1>4, <2>5 DEF Held
    <3>2. CASE IsOpen(o) /\ ~IsOpen(o)'
      <4>1. Life(p)!End
        BY <1>4, <2>1, <2>2, <2>5, <3>1, <3>2 DEF Life!End
      <4> QED
        BY <4>1 DEF Life!Next
    <3>3. CASE IsOpen(o)' <=> IsOpen(o)
      BY <1>1, <2>1, <2>2, <2>5, <3>1, <3>3
    <3> QED
      BY <2>3, <3>2, <3>3 DEF IsOpen
  <2>6. CASE ~IsReleased(p) /\ IsReleased(p)'
    <3>1. told'[o] # told[o]
      BY <2>2, <2>6
    <3>2. UNCHANGED book /\ told'[o] = Report(o)
      BY <2>1, <3>1, ToldStep
    <3>3. ~IsOpen(o)
      BY <2>1, <2>2, <2>6, <3>2, TerminalIsOver
    <3>4. Held(p) /\ ~Held(p)'
      BY <1>4, <2>6 DEF Held
    <3>5. Life(p)!Release
      BY <2>1, <2>6, <3>3, <3>4 DEF Life!Release
    <3> QED
      BY <3>5 DEF Life!Next
  <2> QED
    BY <2>4, <2>5, <2>6
<1> QED
  BY <1>2, <1>3, <1>4

\* To the live loop either adapter's orders look like OrderLifecycle: new when
\* they are returned, over before they are reported over, and then done with.
THEOREM AdaptersImplementLifecycle == Spec => Lives
<1> DEFINE Inv == BookOK /\ Refs /\ Single /\ AllFinal /\ AllSaid
           Step == \A p \in Plans : [Life(p)!Next]_(Life(p)!lifecycleVars)
           Start == \A p \in Plans : Life(p)!Init
<1>1. Init => Start
  <2> SUFFICES ASSUME Init, NEW p \in Plans PROVE Life(p)!Init
    OBVIOUS
  <2>1. known[p] = 0
    BY DEF Init
  <2>2. ~Held(p) /\ ~IsReleased(p)
    BY <2>1 DEF Held, IsReleased
  <2> QED
    BY <2>2 DEF Life!Init
<1>2. Init => Inv
  BY OrdersTypeInit, RefsInit, SingleInit, FinalInit
  DEF AllSaid, Init, Unsaid, Terminal
<1>3. Inv /\ [Next]_vars => Inv' /\ Step
  BY OrdersTypeStep, RefsStep, SingleStep, FinalStep, SaidStep, LifeStep
<1>4. Lives <=> Start /\ [][Step]_vars
  BY DEF Lives
<1> HIDE DEF Inv, Step, Start
<1> QED
  BY <1>1, <1>2, <1>3, <1>4, PTL DEF Spec
=============================================================================
