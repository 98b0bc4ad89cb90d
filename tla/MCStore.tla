------------------------------- MODULE MCStore -------------------------------
(* Two processes, two days of two bars; windows of a day and a half, and a   *)
(* provider page that cuts two days short.                                   *)
EXTENDS Store

\* Up to date; from before the late columns; and that without TimescaleDB,
\* where the columns may be added by a second process as well
SomeDatabases == {<<TRUE, TRUE>>, <<FALSE, TRUE>>, <<FALSE, FALSE>>}
=============================================================================
