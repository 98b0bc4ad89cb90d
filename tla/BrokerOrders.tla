---------------------------- MODULE BrokerOrders ----------------------------
(* The order calls of the two broker adapters, brokers/alpaca.py with        *)
(* broker_handler.py and brokers/futu.py, between the executor that sends an *)
(* order plan and the venue that works the order.                            *)
(*                                                                           *)
(* The calls are synchronous, one at a time; the venue goes on while one is  *)
(* on its way.  An Alpaca request that fails may have arrived: the session   *)
(* repeats it (urllib3 Retry), with the client order id of the plan.  Futu   *)
(* requests are made once and give a return code.                            *)
EXTENDS Integers, Sequences, FiniteSets

CONSTANTS
    Plans,         \* order plans, each with a client order id of its own
    Qty,           \* shares of a plan
    MaxPosts,      \* requests for one call of the Alpaca session, 1 + retries
    MaxOrders,     \* bound: orders at the venue
    MaxFaults      \* bound: failed requests and unusable answers

ASSUME OrdersAssumption ==
    /\ Qty \in Nat \ {0} /\ MaxPosts \in Nat \ {0}
    /\ MaxOrders \in Nat /\ MaxFaults \in Nat

VARIABLES
    venue,         \* which adapter create_broker has built
    book,          \* the venue's orders, numbered as they are accepted
    call,          \* the call under way
    known,         \* the order that place_order returned for a plan, or 0
    tried,         \* plans that were sent
    told,          \* what the adapter last said of a known order
    swept,         \* orders listed by a cancel_all_orders that returned True
    faults

vars == <<venue, book, call, known, tried, told, swept, faults>>

----------------------------------------------------------------------------
(* The venues *)

(***************************************************************************)
(* The statuses that the code names, or that an order passes through on    *)
(* its way to one of them.  A venue has others, such as Alpaca's accepted  *)
(* and pending_cancel or Futu's WAITING_SUBMIT and CANCELLING_ALL.  The    *)
(* code names none of these: Alpaca's are passed on as they are, Futu's    *)
(* become "open", and neither releases an order, so they are left out as   *)
(* further names for one that is working.                                  *)
(***************************************************************************)
AlpacaWorking == {"new", "partially_filled"}
AlpacaEnded   == {"filled", "canceled", "expired", "rejected"}
FutuWorking   == {"SUBMITTING", "SUBMITTED", "FILLED_PART"}
FutuEnded     == {"FILLED_ALL", "CANCELLED_PART", "CANCELLED_ALL", "FAILED",
                  "DISABLED", "DELETED", "SUBMIT_FAILED"}

Native   == AlpacaWorking \cup AlpacaEnded \cup FutuWorking \cup FutuEnded
Working  == AlpacaWorking \cup FutuWorking
First    == IF venue = "alpaca" THEN "new" ELSE "SUBMITTING"
Partly   == IF venue = "alpaca" THEN "partially_filled" ELSE "FILLED_PART"
Whole    == IF venue = "alpaca" THEN "filled" ELSE "FILLED_ALL"

\* How the venue may end an order with that much of it filled
EndsOf(status, filled) ==
    IF venue = "alpaca"
    THEN {"canceled", "expired"} \cup (IF filled = 0 THEN {"rejected"} ELSE {})
    ELSE CASE status = "SUBMITTING"  -> {"SUBMIT_FAILED", "FAILED"}
           [] status = "SUBMITTED"   -> {"CANCELLED_ALL", "DISABLED",
                                       "DELETED"}
           [] status = "FILLED_PART" -> {"CANCELLED_PART"}

\* asked: a cancellation was accepted
Order == [plan : Plans, status : Native, filled : 0..Qty, asked : BOOLEAN]

OrderIds    == 1..MaxOrders
Placed      == 1..Len(book)
OrdersOf(p) == {o \in Placed : book[o].plan = p}
IsOpen(o)   == book[o].status \in Working

----------------------------------------------------------------------------
(* The adapters *)

Standard == {"open", "new", "partially_filled", "filled", "canceled",
             "expired", "rejected"}

\* The statuses on which the live loop releases an order
Terminal == {"filled", "canceled", "expired", "rejected"}

\* mutant: a partial fill counts as a fill
PartialIsFilled(status) ==
    CASE status \in {"FILLED_ALL", "FILLED_PART"}       -> "filled"
      [] status \in {"CANCELLED_PART", "CANCELLED_ALL",
                     "DISABLED", "DELETED"}             -> "canceled"
      [] status = "FAILED"                              -> "rejected"
      [] OTHER                                          -> "open"

\* mutant: CANCELLED_PART is not in the table
NoPartialCancel(status) ==
    CASE status = "FILLED_ALL"                          -> "filled"
      [] status \in {"CANCELLED_ALL", "DISABLED",
                     "DELETED"}                         -> "canceled"
      [] status = "FAILED"                              -> "rejected"
      [] OTHER                                          -> "open"

\* _map_futu_status: whatever the table does not have is open.
MapFutuStatus(status) ==
    CASE status = "FILLED_ALL"                          -> "filled"
      [] status \in {"CANCELLED_PART", "CANCELLED_ALL",
                     "DISABLED", "DELETED"}             -> "canceled"
      [] status = "FAILED"                              -> "rejected"
      [] OTHER                                          -> "open"

\* The StandardOrder of an order
Report(o) ==
    [status |-> IF venue = "alpaca" THEN book[o].status
                ELSE MapFutuStatus(book[o].status),
     filled |-> book[o].filled]

Unsaid == [status |-> "open", filled |-> 0]

\* plan: of a place_order; posts: requests that failed; todo, listed: orders
\* still to be cancelled and those cancel_all_orders had in its answer; ok:
\* its return value so far
Call == [op : {"none", "place", "sweep"}, plan : Plans \cup {0},
         posts : 0..(MaxPosts - 1), todo : SUBSET OrderIds,
         listed : SUBSET OrderIds, ok : BOOLEAN]

NoCall == [op |-> "none", plan |-> 0, posts |-> 0, todo |-> {},
           listed |-> {}, ok |-> TRUE]

Init ==
    /\ venue \in {"alpaca", "futu"}
    /\ book = << >> /\ call = NoCall
    /\ known = [p \in Plans |-> 0] /\ tried = {}
    /\ told = [o \in OrderIds |-> Unsaid]
    /\ swept = {} /\ faults = 0

Fault == faults < MaxFaults /\ faults' = faults + 1

----------------------------------------------------------------------------
(* place_order *)

\* execute_order_plan: a plan is sent once.
PlaceOrder(p) ==
    /\ call.op = "none" /\ p \notin tried
    /\ call' = [NoCall EXCEPT !.op = "place", !.plan = p]
    /\ tried' = tried \cup {p}
    /\ UNCHANGED <<venue, book, known, told, swept, faults>>

\* mutant: the client order id is left out of the request
IdUnchecked(p) == TRUE

\* With a client order id Alpaca takes a request once; Futu's remark is not
\* looked at, but there is one request only.
TakesId(p) == venue = "alpaca" => OrdersOf(p) = {}

Accept(p) ==
    /\ Len(book) < MaxOrders /\ TakesId(p)
    /\ book' = Append(book, [plan |-> p, status |-> First, filled |-> 0,
                             asked |-> FALSE])

\* mutant: one request too many
NoAnswerOnceMore ==
    call' = IF venue = "alpaca" /\ call.posts < MaxPosts
            THEN [call EXCEPT !.posts = @ + 1] ELSE NoCall

\* No usable answer: another request while the session has one left.
NoAnswer ==
    call' = IF venue = "alpaca" /\ call.posts + 1 < MaxPosts
            THEN [call EXCEPT !.posts = @ + 1] ELSE NoCall

\* The order is accepted and returned.
PostAnswered ==
    /\ call.op = "place" /\ Accept(call.plan)
    /\ known' = [known EXCEPT ![call.plan] = Len(book')]
    /\ call' = NoCall
    /\ UNCHANGED <<venue, tried, told, swept, faults>>

\* The order is accepted; its answer is lost or, with Futu, empty or not
\* readable.
PostUnanswered ==
    /\ call.op = "place" /\ Accept(call.plan) /\ NoAnswer /\ Fault
    /\ UNCHANGED <<venue, known, tried, told, swept>>

\* The request fails before anything was accepted.
PostFails ==
    /\ call.op = "place" /\ NoAnswer /\ Fault
    /\ UNCHANGED <<venue, book, known, tried, told, swept>>

\* The venue refuses: APIError or a return code.  place_order gives None.
PostRefused ==
    /\ call.op = "place" /\ call' = NoCall
    /\ UNCHANGED <<venue, book, known, tried, told, swept, faults>>

----------------------------------------------------------------------------
(* get_order, cancel_order, cancel_all_orders *)

\* A failed query gives None and changes nothing.
GetOrder(p) ==
    /\ call.op = "none" /\ known[p] # 0
    /\ told' = [told EXCEPT ![known[p]] = Report(known[p])]
    /\ UNCHANGED <<venue, book, call, known, tried, swept, faults>>

\* The cancellation of an order that is still worked
Ask(o) == book' = [book EXCEPT ![o].asked = TRUE]

\* The answer is True; of a cancellation that is refused, or whose answer is
\* lost, it is False.
CancelOrder(p) ==
    /\ call.op = "none" /\ known[p] # 0 /\ IsOpen(known[p])
    /\ Ask(known[p])
    /\ UNCHANGED <<venue, call, known, tried, told, swept, faults>>

\* What cancel_all_orders starts from: Alpaca cancels what is open on its
\* side, the Futu adapter lists the SUBMITTED orders.
Sweepable(o) == IF venue = "alpaca" THEN IsOpen(o)
                ELSE book[o].status = "SUBMITTED"

CancelAllOrders ==
    /\ call.op = "none"
    /\ LET listed == {o \in Placed : Sweepable(o)} IN
        call' = [NoCall EXCEPT !.op = "sweep", !.todo = listed,
                               !.listed = listed]
    /\ UNCHANGED <<venue, book, known, tried, told, swept, faults>>

\* A failed query is answered with True by Futu, with False by Alpaca.
CancelAllFails ==
    /\ call.op = "none" /\ Fault
    /\ UNCHANGED <<venue, book, call, known, tried, told, swept>>

\* One of the listed orders: asked for, or refused because it has ended, or
\* failed.  Alpaca's handler counts the last two and answers True all the same.
SweepOne(o) ==
    /\ call.op = "sweep" /\ o \in call.todo
    /\ \/ /\ IsOpen(o) /\ Ask(o) /\ UNCHANGED faults
          /\ call' = [call EXCEPT !.todo = @ \ {o}]
       \/ /\ ~IsOpen(o) \/ faults < MaxFaults
          /\ faults' = IF IsOpen(o) THEN faults + 1 ELSE faults
          /\ call' = [call EXCEPT !.todo = @ \ {o},
                                  !.ok = @ /\ venue = "alpaca"]
          /\ UNCHANGED book
    /\ UNCHANGED <<venue, known, tried, told, swept>>

\* mutant: the loop stops at the first refusal
SweepStops == call.todo = {} \/ \E o \in call.listed : ~IsOpen(o)

\* Every listed order is tried, whatever became of the others.
SweepIsOver == call.todo = {}

SweepReturns ==
    /\ call.op = "sweep" /\ SweepIsOver
    /\ swept' = IF call.ok THEN swept \cup call.listed ELSE swept
    /\ call' = NoCall
    /\ UNCHANGED <<venue, book, known, tried, told, faults>>

----------------------------------------------------------------------------
(* The venue works its orders *)

VenueTakes(o) ==
    /\ o \in Placed /\ book[o].status = "SUBMITTING"
    /\ book' = [book EXCEPT ![o].status = "SUBMITTED"]
    /\ UNCHANGED <<venue, call, known, tried, told, swept, faults>>

VenueFills(o) ==
    /\ o \in Placed /\ IsOpen(o) /\ book[o].status # "SUBMITTING"
    /\ book' = [book EXCEPT ![o].filled = @ + 1,
            ![o].status = IF book[o].filled + 1 = Qty THEN Whole ELSE Partly]
    /\ UNCHANGED <<venue, call, known, tried, told, swept, faults>>

VenueEnds(o) ==
    /\ o \in Placed /\ IsOpen(o)
    /\ \E s \in EndsOf(book[o].status, book[o].filled) :
            book' = [book EXCEPT ![o].status = s]
    /\ UNCHANGED <<venue, call, known, tried, told, swept, faults>>

Post == PostAnswered \/ PostUnanswered \/ PostFails \/ PostRefused

Next ==
    \/ \E p \in Plans : PlaceOrder(p) \/ GetOrder(p) \/ CancelOrder(p)
    \/ Post \/ CancelAllOrders \/ CancelAllFails \/ SweepReturns
    \/ \E o \in OrderIds : \/ SweepOne(o) \/ VenueTakes(o)
                           \/ VenueFills(o) \/ VenueEnds(o)

Spec == Init /\ [][Next]_vars

\* A call returns, and the orders that are known are asked about again and
\* again (the refresh of the live loop).
FairSpec ==
    /\ Spec
    /\ WF_vars(Post) /\ WF_vars(\E o \in OrderIds : SweepOne(o))
    /\ WF_vars(SweepReturns)
    /\ \A p \in Plans : SF_vars(GetOrder(p))

----------------------------------------------------------------------------
(* Properties *)

TypeOK ==
    /\ venue \in {"alpaca", "futu"} /\ book \in Seq(Order)
    /\ Len(book) \in 0..MaxOrders /\ call \in Call
    /\ known \in [Plans -> 0..MaxOrders] /\ tried \in SUBSET Plans
    /\ told \in [OrderIds -> [status : Standard, filled : 0..Qty]]
    /\ swept \in SUBSET OrderIds /\ faults \in 0..MaxFaults

(* However often the session repeats a POST whose answer it did not get, the *)
(* venue holds one order for a plan, and the order place_order returned is   *)
(* that one (client_order_id in execute_order_plan and place_order).         *)
OneOrderPerPlan ==
    \A p \in Plans :
        /\ Cardinality(OrdersOf(p)) <= 1
        /\ known[p] # 0 => OrdersOf(p) = {known[p]}

(* An order reported in a status on which the live loop releases it is over  *)
(* at the venue, with the filled quantity reported: nothing of it is filled  *)
(* while the loop works the next one (_FUTU_STATUS_MAP, get_order).          *)
ReleasedIsOver ==
    \A p \in Plans :
        known[p] # 0 /\ told[known[p]].status \in Terminal =>
            /\ ~IsOpen(known[p])
            /\ told[known[p]].filled = book[known[p]].filled

(* When cancel_all_orders of the Futu adapter answers True, every order it   *)
(* listed has got its cancellation, although some of them fill or end while  *)
(* the adapter goes through the list.                                        *)
SweptAreAsked == venue = "futu" => \A o \in swept : book[o].asked

Tabled == AlpacaEnded \cup (FutuEnded \ {"SUBMIT_FAILED"})

(* An order that ended, in any way the status table has, is sooner or later  *)
(* reported in a status on which the live loop releases it.  A submission    *)
(* that Futu gives up is not in the table and stays "open" for ever.         *)
EndedIsReported ==
    \A p \in Plans :
        (known[p] # 0 /\ book[known[p]].status \in Tabled)
            ~> (known[p] # 0 /\ told[known[p]].status \in Terminal)

(* What the live loop takes an order for, OrderLifecycle, is what either     *)
(* adapter gives it for each plan: the order place_order returns is new, it  *)
(* ends at the venue, and only then does get_order name a status on which    *)
(* the loop lets go of it; nothing comes after that.                         *)
IsReleased(p) == known[p] # 0 /\ told[known[p]].status \in Terminal

Held(p) == known[p] # 0 /\ ~IsReleased(p)

Life(p) == INSTANCE OrderLifecycle WITH
               Orders <- {p}, None <- 0,
               current <- IF Held(p) THEN p ELSE 0,
               phase <- IF ~Held(p) THEN "idle"
                        ELSE IF IsOpen(known[p]) THEN "working" ELSE "ended",
               done <- IF IsReleased(p) THEN {p} ELSE {}

Lives ==
    /\ \A p \in Plans : Life(p)!Init
    /\ [][\A p \in Plans : [Life(p)!Next]_(Life(p)!lifecycleVars)]_vars
=============================================================================
