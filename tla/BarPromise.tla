----------------------------- MODULE BarPromise -----------------------------
(* What a caller of DBHandler.save_market_data relies on, whatever the       *)
(* backend: the table only grows, a save that returned is in the table and   *)
(* stays there.  The promise ends with the first two saves that overlap.     *)
EXTENDS Naturals

CONSTANT Bars

VARIABLES rows,      \* the bars in the table
          acked,     \* the bars of the saves that returned
          shared     \* have two saves ever overlapped?

pvars == <<rows, acked, shared>>

Init == rows = {} /\ acked = {} /\ shared = FALSE

\* The table takes a batch, and the caller may learn of it at once or later.
Keep ==
    /\ ~shared /\ ~shared'
    /\ rows \subseteq rows' /\ rows' \subseteq Bars
    /\ acked \subseteq acked' /\ acked' \subseteq rows'

\* A second save starts before the first one has ended.
Share == ~shared /\ shared' /\ UNCHANGED <<rows, acked>>

\* From then on nothing is promised.
Unpromised ==
    /\ shared /\ shared'
    /\ rows' \in SUBSET Bars /\ acked' \in SUBSET Bars

Next == Keep \/ Share \/ Unpromised

Spec == Init /\ [][Next]_pvars
=============================================================================
