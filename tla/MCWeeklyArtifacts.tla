------------------------- MODULE MCWeeklyArtifacts --------------------------
(***************************************************************************)
(* Instances for WeeklyArtifacts: the portfolio policy of the repository   *)
(* with a commission, weeks a live run may end in, and paper portfolios.   *)
(***************************************************************************)
EXTENDS WeeklyArtifacts

Bucket(name, lower, upper, last) ==
    [name |-> name, lower |-> lower, upper |-> upper, lowIn |-> TRUE, upIn |-> last]
Mix(q) == [BIL |-> Full - q, QQQ |-> q]

\* configs/portfolio_policy_v1.yaml; the commission is that of the tests.
MCPolicy ==
    [symbols |-> <<"BIL", "QQQ">>, cashProxy |-> "BIL",
     buckets |-> <<Bucket("low", 0, 35, FALSE), Bucket("mid", 35, 65, FALSE),
                   Bucket("high", 65, 100, TRUE)>>,
     weights |-> [low |-> Mix(10000), mid |-> Mix(6000), high |-> Mix(2000)],
     singleMax |-> 10000, turnoverThreshold |-> 200, slippageBps |-> 5,
     frictionBufferBps |-> 10, minNotional |-> 100, commission |-> 1]

Input(backfill, k, h, rho, stale) ==
    [warm |-> TRUE, k |-> k, s |-> 20, h |-> h, drift |-> 0, rho |-> rho,
     contracts |-> h # None, backfill |-> backfill, gate |-> backfill = "strict_recovery",
     stale |-> stale]

MCWeeks == {0, 1}

\* A recovered week in each outer bucket, one with a stale source, one frozen.
MCArtifactSummaries ==
    {RunSummary(0, Input("strict_recovery", 0, 30, 80, {})),
     RunSummary(0, Input("degraded_backfill", 0, None, 80, {})),
     RunSummary(1, Input("strict_recovery", 1, 10, 50, {"degrade"})),
     RunSummary(1, Input("strict_recovery", 1, 10, 20, {}))}

Row(value, weight) == [value |-> value, weight |-> weight, price |-> 100]

\* All in one asset or split, with little cash or much of it.
MCPortfolios ==
    {[cash |-> 0, rows |-> [BIL |-> Row(0, 0), QQQ |-> Row(20000, 10000)]],
     [cash |-> 150, rows |-> [BIL |-> Row(4000, 8000), QQQ |-> Row(1000, 2000)]]}

\* More cash than positions.
MCCashPortfolios ==
    {[cash |-> 8000, rows |-> [BIL |-> Row(0, 0), QQQ |-> Row(2000, 10000)]]}
=============================================================================
