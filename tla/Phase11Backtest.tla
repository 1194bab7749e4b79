--------------------------- MODULE Phase11Backtest ---------------------------
(***************************************************************************)
(* The Phase 11 backtest and its hand-over to the live portfolio           *)
(* (scripts/run_phase11.py, build_weekly_weights of                        *)
(* qqq_cycle/portfolio/construction.py, scripts/bootstrap_live_state.py):  *)
(* the backtest folds the strict weeks into a weight and a breaker; the    *)
(* bootstrap takes its last weight, but not its breaker, as the live state *)
(* that LivePortfolio carries on from.  The backtest of the weeks so far   *)
(* is kept beside the live portfolio, one step of its loop per week.       *)
(***************************************************************************)
EXTENDS LivePortfolio

CONSTANTS
    PastSignals,    \* the signals of the weeks before the bootstrap
    PastWeeks       \* bound: weeks before the bootstrap

ASSUME PastAssumption == PastSignals \subseteq Signals /\ PastWeeks \in 0 .. MaxWeeks

VARIABLES
    live,       \* the bootstrap has been run
    backtest,   \* loop state of build_weekly_weights over all weeks so far
    filed,      \* last weight of weekly_weights.csv; a half without the file
    weeks,      \* how many weeks there were
    \* History, for the properties only:
    clean,      \* the hand-over lost nothing: the file was as good as new, and
                \* the backtest's breaker was off
    noticed     \* a degraded live week that the backtest, which drops it, would
                \* have noticed: it tripped the breaker or came while it was on

record == <<live, backtest, filed, weeks, clean, noticed>>

-----------------------------------------------------------------------------
\* build_weekly_weights starts from half QQQ and half SHY.
Start == [breaker |-> FALSE, outside |-> 0, omega |-> Full \div 2]

\* One row of build_weekly_weights; the breaker is always enabled there.
BacktestWeek(p, s) ==
    LET next == IF s.k = "other" THEN p.outside + 1 ELSE 0
        on   == Triggers(s) \/ (p.breaker /\ next < ReleaseWeeks)
        far  == s.rho # NoRho /\ Distance(Target(s), p.omega) >= Threshold IN
    [breaker |-> on,
     outside |-> IF p.breaker /\ ~Triggers(s) THEN next ELSE 0,
     omega   |-> IF on THEN 0 ELSE IF far THEN Target(s) ELSE p.omega]

\* build_weekly_weights over what _load_strict_signals leaves: weeks in
\* degraded mode are dropped.
BuildWeeklyWeights(p, s) == IF s.strict THEN BacktestWeek(p, s) ELSE p

\* Fault: weekly_weights.csv is not where the bootstrap looks for it.
LoadPrevOmegaDefault == Full \div 2

\* _load_prev_omega_qqq: the last weight of weekly_weights.csv, or a half.
LoadPrevOmega == filed

-----------------------------------------------------------------------------
\* No live state yet: the portfolio's variables are those of an unused one.
Phase11Init ==
    /\ live = FALSE /\ backtest = Start /\ filed = Start.omega /\ weeks = 0
    /\ clean = FALSE /\ noticed = FALSE
    /\ omega = Start.omega /\ held = omega
    /\ breaker = FALSE /\ outside = 0 /\ execution = "none" /\ seen = <<>>

\* A row of the pipeline's output before the bootstrap.
PastWeek(s) ==
    /\ ~live /\ weeks < PastWeeks
    /\ weeks' = weeks + 1
    /\ backtest' = BuildWeeklyWeights(backtest, s)
    /\ UNCHANGED <<vars, live, filed, clean, noticed>>

\* run_phase11 writes weekly_weights.csv over the rows there are; without a
\* strict one it raises, and the file stays away.
RunPhase11 ==
    /\ ~live
    /\ filed' = backtest.omega
    /\ UNCHANGED <<vars, live, backtest, weeks, clean, noticed>>

\* run_bootstrap: Phase 11 may have run before the last weeks came in.
Bootstrap ==
    /\ ~live
    /\ live' = TRUE
    /\ omega' = LoadPrevOmega /\ held' = LoadPrevOmega
    /\ breaker' = FALSE /\ outside' = 0 /\ execution' = "none" /\ seen' = <<>>
    /\ clean' = (filed = backtest.omega /\ ~backtest.breaker)
    /\ UNCHANGED <<backtest, filed, weeks, noticed>>

\* run_week, once live; the backtest of the same weeks beside it.
LiveWeek(s) ==
    /\ live /\ weeks < MaxWeeks
    /\ Week(s)
    /\ weeks' = weeks + 1
    /\ backtest' = BuildWeeklyWeights(backtest, s)
    /\ noticed' = (noticed \/ (~s.strict /\ (Triggers(s) \/ backtest.breaker)))
    /\ UNCHANGED <<live, filed, clean>>

Phase11Next ==
    \/ \E s \in PastSignals : PastWeek(s)
    \/ RunPhase11 \/ Bootstrap
    \/ \E s \in Signals : LiveWeek(s)

Phase11Spec == Phase11Init /\ [][Phase11Next]_<<vars, record>>

-----------------------------------------------------------------------------
\* The position traded live is the one the backtest reports for the same
\* weeks, whatever degraded weeks come between them: rho_t is missing there,
\* so the position is held and turnover is measured from the same weight
\* (runtime.py:302-371, construction.py:262-322).
LiveMatchesBacktest ==
    (live /\ BreakerEnabled /\ clean /\ ~noticed)
        => omega = backtest.omega /\ breaker = backtest.breaker

\* bootstrap_live_state.py:7 names the circuit breaker among what the replay
\* restores. Does not hold: it starts off, whatever the history (see README).
BootstrapRestoresBreaker ==
    (live /\ BreakerEnabled /\ seen = <<>>) => breaker = backtest.breaker
=============================================================================
