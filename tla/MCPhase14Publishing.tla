------------------------ MODULE MCPhase14Publishing -------------------------
(***************************************************************************)
(* Live run summaries for model checking Phase14Publishing: a clean strict *)
(* week, a degraded rerun of it without a cluster and a stale source,      *)
(* and the next week, strict in another one.                               *)
(***************************************************************************)
EXTENDS Phase14Publishing

Summary(w, mode, k, s, h, execution, stale) ==
    [week |-> w, mode |-> mode, k_hat_t |-> k, p_t |-> IF k = None THEN None ELSE 60 + k,
     s_t |-> s, h_t |-> h, rho_t |-> h, drift_flag |-> 0,
     execution |-> execution, stale |-> stale]

MCSummaries ==
    {Summary(0, "strict", 0, 10, 20, "execute", {}),
     Summary(0, "degraded", None, 16, None, "degrade", {"degrade"}),
     Summary(1, "strict", 1, 12, 25, "execute", {})}

=============================================================================
