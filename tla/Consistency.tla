---------------------------- MODULE Consistency -----------------------------
(* The tests of consistency_validator.py, which compare a backtest with what *)
(* was traded live, and the status of their report.                          *)
(*                                                                           *)
(* A trade is [at, dir, price]; the signal behind it is its direction.  All  *)
(* have the same symbol.  Scores are ratios <<numerator, denominator>>.      *)
EXTENDS Integers, Sequences, FiniteSets, FiniteSetsExt

CONSTANTS
    TimeTolerance,   \* of both trades and signals
    PriceTolerance,  \* price_tolerance, a ratio
    SignalTolerance  \* tolerance of signals, a ratio

ASSUME ConsistencyAssumption ==
    /\ TimeTolerance \in Nat \ {0}
    /\ PriceTolerance \in (Nat \ {0}) \X (Nat \ {0})
    /\ SignalTolerance \in Nat \X (Nat \ {0})

Apart(a, b) == IF a >= b THEN a - b ELSE b - a

AtLeast(score, num, den) == score[1] * den >= num * score[2]

SumOf(s) ==
    LET sum[i \in 0..Len(s)] == IF i = 0 THEN 0 ELSE sum[i - 1] + s[i]
    IN sum[Len(s)]

----------------------------------------------------------------------------
(* ExecutionConsistencyTest *)

\* mutant: of equally close trades, the last
NotFarther(new, old) == new <= old

Closer(new, old) == new < old

\* One pass of the inner loop: best is the index of best_match, or 0.
Scan(trade, live, best, i) ==
    LET apart(j) == Apart(live[j].at, trade.at)
    IN IF /\ live[i].dir = trade.dir /\ apart(i) <= TimeTolerance
          /\ best = 0 \/ Closer(apart(i), apart(best))
       THEN i ELSE best

BestMatch(trade, live) ==
    LET best[i \in 0..Len(live)] ==
            IF i = 0 THEN 0 ELSE Scan(trade, live, best[i - 1], i)
    IN best[Len(live)]

Compare(trade, found) ==
    LET priceDiff == Apart(found.price, trade.price)
    IN [timeDiff |-> Apart(found.at, trade.at), priceDiff |-> priceDiff,
        matched |-> priceDiff * PriceTolerance[2]
                        <= PriceTolerance[1] * trade.price]

\* By index: a backtest trade with no live trade near it is not compared.
MatchTrades(trades, live) ==
    LET near == {t \in DOMAIN trades : BestMatch(trades[t], live) # 0}
    IN [t \in near |-> Compare(trades[t], live[BestMatch(trades[t], live)])]

\* max(0, 1 - sum / (count * tolerance))
ScoreOf(sum, count, tolerance) ==
    LET whole == count * tolerance[1]  part == sum * tolerance[2]
    IN IF part >= whole THEN <<0, 1>> ELSE <<whole - part, whole>>

AddRatios(a, b) == <<a[1] * b[2] + b[1] * a[2], a[2] * b[2]>>

Failed == [passed |-> FALSE, score |-> <<0, 1>>]

\* mutant: the match rate is no part of the score
ScoreWithoutRate(rate, time, price) ==
    <<AddRatios(time, price)[1], 3 * AddRatios(time, price)[2]>>

ExecutionScore(rate, time, price) ==
    LET sum == AddRatios(rate, AddRatios(time, price))
    IN <<sum[1], 3 * sum[2]>>

\* The average price difference is in money, its tolerance a ratio.
ExecutionTest(trades, live) ==
    LET all     == MatchTrades(trades, live)
        matches == {t \in DOMAIN all : all[t].matched}
        count   == Cardinality(matches)
        rate    == <<count, Cardinality(DOMAIN all)>>
        times   == SumOf([t \in DOMAIN trades |->
                             IF t \in matches THEN all[t].timeDiff ELSE 0])
        prices  == SumOf([t \in DOMAIN trades |->
                             IF t \in matches THEN all[t].priceDiff ELSE 0])
        score   == ExecutionScore(rate,
                       ScoreOf(times, count, <<TimeTolerance, 1>>),
                       ScoreOf(prices, count, PriceTolerance))
    IN IF DOMAIN all = {} THEN Failed
       ELSE [passed |-> /\ AtLeast(rate, 8, 10)
                        /\ times <= TimeTolerance * count
                        /\ prices * PriceTolerance[2]
                               <= PriceTolerance[1] * count,
             score |-> IF count = 0 THEN <<0, 1>> ELSE score]

----------------------------------------------------------------------------
(* SignalConsistencyTest *)

Earliest(s) == Min({s[i].at : i \in DOMAIN s})
Latest(s)   == Max({s[i].at : i \in DOMAIN s})

\* The first of the closest, as idxmin
ClosestSignal(signal, live, among) ==
    LET apart(i) == Apart(live[i].at, signal.at)
    IN CHOOSE i \in among : \A j \in among :
           apart(i) < apart(j) \/ (apart(i) = apart(j) /\ i <= j)

SignalTest(signals, live) ==
    LET overlap == Max({Earliest(signals), Earliest(live)})
                       .. Min({Latest(signals), Latest(live)})
        within(s) == {i \in DOMAIN s : s[i].at \in overlap}
        closest(i) == live[ClosestSignal(signals[i], live, within(live))]
        compared == {i \in within(signals) : within(live) # {}
                        /\ Apart(closest(i).at, signals[i].at) <= TimeTolerance}
        diff(i) == Apart(closest(i).dir, signals[i].dir)
        agreeing == {i \in compared :
                         diff(i) * SignalTolerance[2] <= SignalTolerance[1]}
        diffs   == SumOf([i \in DOMAIN signals |->
                             IF i \in compared THEN diff(i) ELSE 0])
        rate    == <<Cardinality(agreeing), Cardinality(compared)>>
    IN IF signals = << >> \/ live = << >> THEN Failed
       ELSE IF compared = {} THEN Failed
       ELSE [passed |-> /\ AtLeast(rate, 8, 10)
                        /\ diffs * SignalTolerance[2]
                               <= SignalTolerance[1] * Cardinality(compared),
             score |-> rate]

----------------------------------------------------------------------------
(* PerformanceConsistencyTest and the report *)

Metrics == {"total_return", "sharpe_ratio", "max_drawdown", "win_rate"}

\* within: the metrics whose difference is within tolerance
PerformanceTest(within) ==
    [passed |-> AtLeast(<<Cardinality(within), 4>>, 75, 100),
     score  |-> <<Cardinality(within), 4>>]

Tests == {"Signal", "Execution", "Performance"}

\* results: of the tests that were run, by name
OverallScore(results) ==
    LET score(t) == IF t \in DOMAIN results THEN results[t].score ELSE <<0, 1>>
        sum == AddRatios(score("Signal"),
                         AddRatios(score("Execution"), score("Performance")))
    IN IF DOMAIN results = {} THEN <<0, 1>>
       ELSE <<sum[1], sum[2] * Cardinality(DOMAIN results)>>

Status(results) ==
    LET overall == OverallScore(results)
        total   == Cardinality(DOMAIN results)
        passed  == Cardinality({n \in DOMAIN results : results[n].passed})
    IN IF AtLeast(overall, 8, 10) /\ passed = total THEN "Excellent"
       ELSE IF AtLeast(overall, 6, 10) /\ passed * 4 >= total * 3 THEN "Good"
       ELSE IF AtLeast(overall, 4, 10) THEN "Needs Improvement"
       ELSE "Serious Issues"
=============================================================================
