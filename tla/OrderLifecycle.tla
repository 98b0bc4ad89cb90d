---------------------------- MODULE OrderLifecycle ----------------------------
(***************************************************************************)
(* What the live loop promises about the orders it tracks, without saying  *)
(* how it learns anything: they are worked strictly one after the other.   *)
(* An order is placed when none is tracked, the broker ends it, and only   *)
(* then, sooner or later, the loop lets go of it.                          *)
(*                                                                         *)
(* LiveTrading implements this module (LiveTrading!Lifecycle): "ended" is  *)
(* known to the broker alone, "idle" is TradingState.active_order_id being *)
(* None (live_components.py:182-191 and 222-228).  BrokerOrders implements *)
(* it for each plan by itself (BrokerOrders!Lives), with get_order's last  *)
(* answer for what the loop knows.                                         *)
(***************************************************************************)
CONSTANTS Orders, None   \* None is no order

VARIABLES current, phase, done

lifecycleVars == <<current, phase, done>>

Init == current = None /\ phase = "idle" /\ done = {}

Place(o) ==
  /\ phase = "idle"
  /\ o \notin done
  /\ current' = o
  /\ phase' = "working"
  /\ UNCHANGED done

End ==
  /\ phase = "working"
  /\ phase' = "ended"
  /\ UNCHANGED <<current, done>>

Release ==
  /\ phase = "ended"
  /\ phase' = "idle"
  /\ done' = done \union {current}
  /\ current' = None

Next == (\E o \in Orders : Place(o)) \/ End \/ Release

Spec == Init /\ [][Next]_lifecycleVars

\* Every order that is placed ends and is released.
FairSpec ==
  Spec /\ WF_lifecycleVars(End) /\ WF_lifecycleVars(Release)
==============================================================================
