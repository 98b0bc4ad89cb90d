---------------------------- MODULE MCLiveTrading ----------------------------
(***************************************************************************)
(* Small instances of LiveTrading: orders of two shares, so that an order  *)
(* can be filled in part, and few of them, but always one more than it     *)
(* takes for one order to get in the way of another.                       *)
(***************************************************************************)
EXTENDS LiveTrading

\* A flat account, or one left short by a share or long by two
SomePositions == {-1, 0, 2}

Flat == {0}

Canceled == {"canceled"}

CanceledOrRejected == {"canceled", "rejected"}

\* Updates as the adapter delivers them
Native == {"native"}

\* ... or with the change of the position as their quantity
NativeOrChange == {"native", "change"}
==============================================================================
