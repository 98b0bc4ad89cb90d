---------------------------- MODULE MCValidation ----------------------------
(* Five bars; live trades near, far and on the wrong side of the backtest's, *)
(* in the order of their times.                                              *)
EXTENDS Validation

MCTrail == <<1, 2>>
MCPriceTolerance == <<1, 1>>
MCSignalTolerance == <<1, 100>>

LiveTrade == [at : {3, 5}, dir : {-1, 1}, price : {3}]
MCLiveTrades == {<< >>} \union {<<x>> : x \in LiveTrade}
    \union {s \in LiveTrade \X LiveTrade : s[1].at <= s[2].at}
MCNamed == {Tests, {"Performance"}}
MCFailing == {{}, {"Performance"}}
MCChosen == {{"win_rate"}, Metrics \ {"win_rate"}}
=============================================================================
