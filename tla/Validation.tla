----------------------------- MODULE Validation -----------------------------
(* A backtest whose trades are then compared with live ones                  *)
(* (ConsistencyValidator.validate_consistency).  How its caller collects the *)
(* trades, signals and metrics of both sides is not in the repository: the   *)
(* backtest's are its fills, the live ones any short list.                   *)
EXTENDS Backtest, Consistency

CONSTANTS
    LiveTrades,      \* bound: the lists of live trades
    Chosen,          \* bound: the metrics that may be within tolerance
    Named,           \* bound: the tests that may be asked for
    Failing          \* bound: the tests that may raise, or find no metrics

ASSUME ValidationAssumption ==
    /\ LiveTrades \subseteq Seq([at : Nat, dir : {-1, 1}, price : Nat])
    /\ Chosen \subseteq SUBSET Metrics
    /\ Named \subseteq SUBSET Tests /\ Failing \subseteq SUBSET Tests

VARIABLES
    live,            \* what was traded live
    results          \* of validate_consistency, by test

validated == <<live, results>>

NoResults == [t \in {} |-> Failed]

VInit == Init /\ live = << >> /\ results = NoResults

\* A test that raises has failed; so has that of the performance when one
\* side comes without metrics.
Run(test, traded, signals, within, failing) ==
    IF test \in failing THEN Failed ELSE
    CASE test = "Signal"      -> SignalTest(fills, signals)
      [] test = "Execution"   -> ExecutionTest(fills, traded)
      [] test = "Performance" -> PerformanceTest(within)

\* The tests that were named, or all three.  The live signals are those of
\* the live trades, or the backtest's that the trades missed.
ValidateConsistency ==
    /\ phase = "decided" /\ bar = Bars /\ results = NoResults
    /\ live' \in LiveTrades
    /\ \E tests \in Named, failing \in Failing, within \in Chosen,
          signals \in {fills, live'} :
           results' = [t \in tests |->
                          Run(t, live', signals, within, failing)]
    /\ UNCHANGED btVars

VNext == (Next /\ UNCHANGED validated) \/ ValidateConsistency

VSpec == VInit /\ [][VNext]_<<btVars, validated>>

----------------------------------------------------------------------------
(* Properties *)

\* "A score between 0 and 1"
Share == {r \in Nat \X (Nat \ {0}) : r[1] <= r[2]}

BacktestTypeOK ==
    /\ strategy \in Averaging \union {"ema", "hold"}
    /\ force \in BOOLEAN /\ limit \in BOOLEAN /\ trail \in BOOLEAN
    /\ phase \in {"settle", "decide", "decided"}
    /\ bar \in 0..Bars /\ price \in Prices
    /\ due \in Nat /\ orders \in Seq(Order) /\ position \in Int
    /\ done \in BOOLEAN /\ highest \in Nat /\ stop \in Nat /\ peak \in Nat
    /\ fills \in Seq(Fill)

ReportTypeOK ==
    /\ live \in LiveTrades \union {<< >>} /\ DOMAIN results \subseteq Tests
    /\ \A t \in DOMAIN results :
           results[t] \in [passed : BOOLEAN, score : Share]

TypeOK == BacktestTypeOK /\ ReportTypeOK

(* The trades of a run are round trips: each entry is followed by the exit   *)
(* that undoes it, at a later bar, and what is left open is held.            *)
RoundTrips ==
    /\ \A i \in DOMAIN fills :
           i % 2 = 0 => fills[i].dir + fills[i - 1].dir = 0
    /\ \A i, j \in DOMAIN fills : i < j => fills[i].at < fills[j].at
    /\ position = IF Len(fills) % 2 = 0 THEN 0 ELSE fills[Len(fills)].dir

(* There is one position of one unit and one order for it: an entry is       *)
(* pending only while the strategy is flat, however long a limit order       *)
(* waits, and an exit is for what is held.                                   *)
OnePosition ==
    /\ RoundTrips
    /\ position \in -1..1 /\ Len(orders) <= 1
    /\ \A i \in DOMAIN orders :
           IF orders[i].entry THEN position = 0
           ELSE position + orders[i].dir = 0

(* A position that trails its stop is held below the highest close since its *)
(* entry was ordered, by trailing_stop_pct of that close and no other: what  *)
(* an entry that was refused, or an earlier position, left behind counts for *)
(* nothing.  A close at or below the stop leaves no position without an exit.*)
StopTrailsThePeak ==
    strategy = "ema" /\ trail /\ phase = "decided" /\ position > 0
        /\ orders = << >> =>
            stop = StopAt(peak) /\ price * Trail[2] > stop

(* What the loops of _match_trades find is the first of the closest live     *)
(* trades on the same side within the time tolerance, if there is one.       *)
MatchesAreClosest ==
    \A t \in DOMAIN fills :
        LET trade == fills[t]
            apart(i) == Apart(live[i].at, trade.at)
            near == {i \in DOMAIN live : live[i].dir = trade.dir
                                           /\ apart(i) <= TimeTolerance}
            closest == {i \in near : \A j \in near : apart(i) <= apart(j)}
        IN BestMatch(trade, live) = IF near = {} THEN 0 ELSE Min(closest)

(* When all three tests pass, the report says at least "Good", though an     *)
(* execution test may pass with a score not far above a quarter.             *)
AllPassedIsGood ==
    DOMAIN results = Tests /\ (\A t \in Tests : results[t].passed) =>
        Status(results) \in {"Excellent", "Good"}

(* What the forced exit does instead: once the indicators are ready, a       *)
(* position is not kept over a bar without an exit for it, until the one     *)
(* liquidation of the run is done.                                           *)
ForcedAtOnce ==
    force /\ bar > Warmup /\ phase = "decided" /\ position # 0 /\ orders = << >>
        => done

(* force_exit_on_last_bar liquidates on the last bar (strategies/base.py:266 *)
(* "Backtrader does not automatically flatten positions on the last bar"),   *)
(* so that a forced exit is ordered at the last bar only.                    *)
ForcedOnLastBarOnly == [][done' # done => bar = Bars]_<<btVars, validated>>
=============================================================================
