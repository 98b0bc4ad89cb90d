--------------------------- MODULE MCStreamSession ---------------------------
(* A session with room for two queued items and three signals. *)
EXTENDS StreamSession
==============================================================================
