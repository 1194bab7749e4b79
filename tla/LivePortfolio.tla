---------------------------- MODULE LivePortfolio ----------------------------
(***************************************************************************)
(* The portfolio half of a live week (qqq_cycle/live/runtime.py            *)
(* _run_portfolio_step, qqq_cycle/portfolio/construction.py,               *)
(* qqq_cycle/live/freshness.py): the target from rho_t, the turnover       *)
(* threshold, the circuit breaker and the execution state, with the        *)
(* position and the breaker carried from week to week in the live state;   *)
(* Phase11Backtest has the initial states and the specification.           *)
(* Weights and rho_t are levels 0 .. Full of the interval [0, 1].          *)
(***************************************************************************)
EXTENDS Integers, Sequences

CONSTANTS
    Full,           \* 1.0
    Threshold,      \* turnover_threshold, in levels
    ReleaseWeeks,   \* circuit_breaker_release_weeks
    BreakerEnabled, \* circuit_breaker_s1_index >= 0
    Signals,        \* the weekly signals considered
    MaxWeeks        \* bound: weeks

Weights == 0 .. Full
NoRho   == Full + 1

\* A week's signal: k_hat_t is the S1 cluster, another one, or missing; drift
\* is drift_flag; rho_t may be missing; strict is the pipeline mode; stale is
\* the worst blocking level among the stale sources.
SignalType == [k : {"s1", "other", "none"}, drift : BOOLEAN, rho : Weights \cup {NoRho},
               strict : BOOLEAN, stale : {"none", "degrade", "block"}]

ASSUME PortfolioAssumption ==
    /\ Full \in Nat /\ Threshold \in Nat /\ MaxWeeks \in Nat
    /\ ReleaseWeeks \in Nat \ {0} /\ BreakerEnabled \in BOOLEAN
    /\ Signals \subseteq SignalType
    /\ \A s \in Signals : s.rho # NoRho => s.strict /\ s.k # "none"

VARIABLES
    omega,      \* prev_omega_qqq: the persisted QQQ weight
    breaker,    \* breaker_active
    outside,    \* weeks_outside_s1
    execution,  \* execution_state of the last week
    held,       \* the weight before the last week
    seen        \* history: the signals of all weeks so far

vars == <<omega, breaker, outside, execution, held, seen>>

Distance(a, b) == IF a >= b THEN a - b ELSE b - a

-----------------------------------------------------------------------------
\* map_rho_to_target_weights, then apply_turnover_threshold.
Target(s) == Full - s.rho

\* Fault: a distance of exactly the threshold holds.
RebalancesBeyond(s) == s.rho # NoRho /\ Distance(Target(s), omega) > Threshold

Rebalances(s) == s.rho # NoRho /\ Distance(Target(s), omega) >= Threshold

Triggers(s) == s.k = "s1" /\ s.drift

\* Fault: a missing cluster keeps the count of weeks outside S1.
ApplyCircuitBreakerKeepsCount(s) ==
    LET next == IF s.k = "other" THEN outside + 1 ELSE outside IN
    CASE ~BreakerEnabled -> breaker' = FALSE /\ outside' = 0
      [] BreakerEnabled /\ Triggers(s) -> breaker' = TRUE /\ outside' = 0
      [] BreakerEnabled /\ ~Triggers(s) /\ ~breaker -> breaker' = FALSE /\ outside' = 0
      [] BreakerEnabled /\ ~Triggers(s) /\ breaker ->
           breaker' = (next < ReleaseWeeks) /\ outside' = next

\* apply_circuit_breaker.
ApplyCircuitBreaker(s) ==
    LET next == IF s.k = "other" THEN outside + 1 ELSE 0 IN
    CASE ~BreakerEnabled -> breaker' = FALSE /\ outside' = 0
      [] BreakerEnabled /\ Triggers(s) -> breaker' = TRUE /\ outside' = 0
      [] BreakerEnabled /\ ~Triggers(s) /\ ~breaker -> breaker' = FALSE /\ outside' = 0
      [] BreakerEnabled /\ ~Triggers(s) /\ breaker ->
           breaker' = (next < ReleaseWeeks) /\ outside' = next

\* Fault: the breaker's weight is not the one carried to the next week.
FinalWeightUnbroken(s) == IF Rebalances(s) THEN Target(s) ELSE omega

\* The weight carried to the next week; the breaker overrides everything.
FinalWeight(s) ==
    CASE breaker'                     -> 0
      [] ~breaker' /\ Rebalances(s)   -> Target(s)
      [] ~breaker' /\ ~Rebalances(s)  -> omega

\* derive_execution_state.
ExecutionState(s) ==
    CASE s.stale = "block"                              -> "block"
      [] s.stale # "block" /\ (s.stale = "degrade" \/ ~s.strict) -> "degrade"
      [] s.stale = "none" /\ s.strict                   -> "execute"

\* _run_portfolio_step, then the execution state, then both are persisted.
Week(s) ==
    /\ ApplyCircuitBreaker(s)
    /\ omega' = FinalWeight(s)
    /\ execution' = ExecutionState(s)
    /\ held' = omega
    /\ seen' = Append(seen, s)

-----------------------------------------------------------------------------
\* The breaker is on exactly when some week triggered it and no ReleaseWeeks
\* weeks in a row since then had a known cluster outside S1: a missing cluster
\* never counts towards release (construction.py:107-149).
Released(i) ==
    \E j \in i + 1 .. Len(seen) - ReleaseWeeks + 1 :
        \A w \in j .. j + ReleaseWeeks - 1 : seen[w].k = "other"
BreakerMatchesHistory ==
    breaker = (BreakerEnabled /\ \E i \in 1 .. Len(seen) : Triggers(seen[i]) /\ ~Released(i))

\* With the breaker off the position never lags its target by the threshold,
\* not even in the week after the breaker released it at zero.
TracksTarget ==
    LET s == seen[Len(seen)] IN
    (seen # <<>> /\ ~breaker /\ s.rho # NoRho) => Distance(omega, Target(s)) < Threshold \/ omega = Target(s)

\* A week that trips the breaker closes the position, and weeks without rho_t
\* keep it closed, even those in which the breaker is released
\* (runtime.py:335-348).
TrippedStaysOut ==
    \A i \in 1 .. Len(seen) :
        (BreakerEnabled /\ Triggers(seen[i]) /\ \A j \in i + 1 .. Len(seen) : seen[j].rho = NoRho)
            => omega = 0

\* freshness.py:5 says of a block: "position must not change".
\* Does not hold: the portfolio step runs all the same (see README).
BlockedKeepsPosition == execution = "block" => omega = held
=============================================================================
