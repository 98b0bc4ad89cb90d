----------------------------- MODULE MCRiskGate -----------------------------
(* An entry of two shares, sent as a lot of three, at prices that the limit  *)
(* of one and a half times the equity allows (2) or not (4).                 *)
EXTENDS RiskGate

MCMaxExposure == <<3, 2>>
MCMaxParticipation == <<1, 2>>
=============================================================================
