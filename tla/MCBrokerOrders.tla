--------------------------- MODULE MCBrokerOrders ---------------------------
(* Two plans through either adapter; a POST is made up to twice here,        *)
(* six times in the code.                                                    *)
EXTENDS BrokerOrders
=============================================================================
