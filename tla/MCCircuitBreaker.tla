-------------------------- MODULE MCCircuitBreaker --------------------------
(* Two threads, and enough exceptions to trip, to fail a probe and more. *)
EXTENDS CircuitBreaker
==============================================================================
