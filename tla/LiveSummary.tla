----------------------------- MODULE LiveSummary -----------------------------
(***************************************************************************)
(* The fields of outputs/live/live_run_summary.json that later phases      *)
(* read: what one pass of the kernel publishes about its week, and the     *)
(* execution state.  Phase 14 copies them into its snapshots, Phase 15     *)
(* gates orders on them.                                                   *)
(***************************************************************************)
EXTENDS Integers

CONSTANT
    None         \* a field that is null, a result that was not produced

\* Summary fields whose changes the later phases measure.
Signals == {"s_t", "h_t", "rho_t"}
IsMissing(x) == x = None

\* An input is what the kernel has for the week: warm; the cluster k, s_t and h_t
\* (None when missing); drift; the risk score rho of them; contracts, whether the
\* strict contracts allow h_t; backfill, the mode of a controlled week; gate, the
\* store gate; stale, the blocking levels of the stale sources.

\* The mode of a controlled week decides before its contracts do.
HasMicro(in) ==
    /\ in.warm
    /\ in.backfill \notin {"degraded_backfill", "block"}
    /\ in.contracts

\* The published fields of _run_pipeline_step.
PipelineResult(in) ==
    LET h == IF HasMicro(in) THEN in.h ELSE None
        k == IF in.warm THEN in.k ELSE None
        s == IF in.warm THEN in.s ELSE None
    IN [k_hat_t |-> k, p_t |-> k, s_t |-> s, h_t |-> h, drift_flag |-> in.drift,
        rho_t |-> IF h = None \/ k = None \/ s = None THEN None ELSE in.rho,
        mode |-> CASE ~in.warm -> "warmup"
                   [] in.warm /\ h # None -> "strict"
                   [] OTHER -> "degraded",
        backfill_mode |-> in.backfill,
        frozen |-> in.warm /\ in.backfill \in {"degraded_backfill", "block"},
        gate |-> in.gate]

\* derive_execution_state.
DeriveExecutionState(stale, mode) ==
    CASE "block" \in stale -> "block"
      [] "block" \notin stale /\ ("degrade" \in stale \/ mode # "strict") -> "degrade"
      [] OTHER -> "execute"

\* The fields of _write_run_summary that later phases read.
RunSummary(w, in) ==
    LET pr == PipelineResult(in)
        own == [week |-> w, stale |-> in.stale,
                execution |-> DeriveExecutionState(in.stale, pr.mode)]
    IN [f \in DOMAIN pr \cup DOMAIN own |-> IF f \in DOMAIN own THEN own[f] ELSE pr[f]]
=============================================================================
