--------------------------- MODULE MCLivePortfolio ---------------------------
(* Instances of Phase11Backtest: weights in quarters, a threshold of a half, *)
(* so that targets fall on both sides of it; before the bootstrap, a week    *)
(* that trips the breaker, two that do not, and a degraded one.              *)
EXTENDS Phase11Backtest

MCSignals == {s \in SignalType :
    /\ s.rho # NoRho => s.strict /\ s.k # "none"
    /\ s.strict = (s.rho # NoRho)
    /\ s.rho \in {0, 1, 4, NoRho}
    /\ s.stale = "none"
    /\ s.drift => s.k = "s1" \/ (s.k = "other" /\ s.rho = 4)}

MCPastSignals == {s \in MCSignals :
    \/ s.k = "s1" /\ s.drift /\ s.rho = 0
    \/ s.k = "other" /\ ~s.drift /\ s.rho \in {0, 1, NoRho}}
=============================================================================
