----------------------------- MODULE CycleKernel -----------------------------
(***************************************************************************)
(* The weekly loop of run_pipeline (qqq_cycle/pipeline.py): the counters   *)
(* of the robust covariance, the online prototypes with their reactivation *)
(* buffers, and the micro envelope with its heal counter, over one stream  *)
(* of weekly rows.  Matrices, centroids and probabilities are left out;    *)
(* what stays is which branch every week takes and every counter that      *)
(* decides it.  Micro scores and the envelope are levels 0 .. TopLevel of  *)
(* the interval [0, 1], Neutral standing for 0.5.                          *)
(***************************************************************************)
EXTENDS Integers

CONSTANTS
    Clusters,      \* the prototypes
    WarmupWeeks,   \* finite updates before outputs are unlocked (260)
    StaleGap,      \* weeks after which a prototype is stale (26)
    ReadySamples,  \* samples that reactivate a stale prototype (4)
    HealWeeks,     \* low weeks that clear the envelope (3)
    HealLevel,     \* levels below it are low (0.25)
    Neutral,       \* 0.5
    TopLevel,      \* 1.0
    Decay,         \* one week's decay of the envelope's excess (factor 0.9)
    ThetaInputs,   \* what the state layer may deliver for a week
    MicroInputs,   \* what the micro contracts may deliver for a week
    NoCluster,     \* no prototype was assigned
    MaxRows        \* bound: weeks in the stream

Levels  == 0 .. TopLevel
NoLevel == TopLevel + 1     \* no h_t for this week

\* theta_t is finite and nearest to prototype k, is missing, or is finite and
\* yields a covariance regularize_cov_2d refuses, so that the update fails;
\* s_t may be missing beside a finite theta_t.
ThetaKinds == {"finite", "missing", "singular"}
Thetas     == [kind : ThetaKinds, k : Clusters, s : BOOLEAN]
\* The micro contracts are held that week (degraded_backfill or block), fail
\* the strict gate, which is one for the whole stream, or deliver a score,
\* possibly none.
Micros     == [gate : {"held", "closed", "open"}, h : Levels \cup {NoLevel}]

ASSUME CountersAssumption ==
    /\ WarmupWeeks \in Nat /\ StaleGap \in Nat
    /\ ReadySamples \in Nat \ {0} /\ HealWeeks \in Nat \ {0}
ASSUME LevelsAssumption ==
    /\ TopLevel \in Nat /\ Neutral \in Levels
    /\ HealLevel \in Nat /\ HealLevel <= Neutral
ASSUME DecayAssumption ==
    /\ Decay \in [Levels -> Levels]
    /\ \A n \in Levels : Decay[n] <= n
ASSUME InputsAssumption ==
    /\ NoCluster \notin Clusters
    /\ ThetaInputs \subseteq Thetas /\ MicroInputs \subseteq Micros
    /\ \A a, b \in MicroInputs : ~(a.gate = "closed" /\ b.gate = "open")
    /\ MaxRows \in Nat

VARIABLES
    row,       \* rows processed so far: len(results)
    cov,       \* CovarianceState2D: its two counters and its flag
    proto,     \* the warmup seed and PrototypeState
    micro,     \* h_t_lead_prev and heal_count
    out,       \* what the last row shows: PipelineResult, and the prototype branch
    \* History, for the properties only:
    elapsed,   \* weeks of decay applied to the covariance
    failures,  \* weeks whose covariance update failed
    touched,   \* row of each prototype's initialisation or last assignment
    idle,      \* weeks the last assigned prototype had gone without a sample
    lowRun,    \* low scores in a row among the weeks that advanced the envelope
    specLead   \* the envelope's excess as the model document defines it

kernel  == <<cov, proto, micro, out>>
history == <<elapsed, failures, touched, idle, lowRun, specLead>>
vars    == <<row, kernel, history>>

Larger(a, b) == IF a >= b THEN a ELSE b

-----------------------------------------------------------------------------
\* RobustEWCov2D: initialize_from_history, update, is_warm.
ColdCov == [warm |-> 0, pending |-> 0, ok |-> TRUE]

\* Fault: a missing week leaves no trace.
CovUpdateForgetful(c, kind) ==
    CASE kind = "finite"   -> [warm |-> c.warm + 1, pending |-> 0, ok |-> TRUE]
      [] kind = "missing"  -> c
      [] kind = "singular" -> [c EXCEPT !.ok = FALSE]

CovUpdate(c, kind) ==
    CASE kind = "finite"   -> [warm |-> c.warm + 1, pending |-> 0, ok |-> TRUE]
      [] kind = "missing"  -> [c EXCEPT !.pending = @ + 1]
      [] kind = "singular" -> [c EXCEPT !.ok = FALSE]

\* Fault: outputs unlock one update early.
IsWarmEarly(c) == c.warm + 1 >= WarmupWeeks

IsWarm(c) == c.warm >= WarmupWeeks

\* initialize_prototypes_from_history: last_active is zero whatever the row.
\* age[k] counts the decay factors on k's weight since k was last updated.
Zeros == [k \in Clusters |-> 0]
NoProto == [up |-> FALSE, seed |-> 0, last |-> Zeros, buf |-> Zeros, age |-> Zeros]
InitializePrototypes(p) ==
    [p EXCEPT !.up = TRUE, !.last = Zeros, !.buf = Zeros, !.age = Zeros]

\* update_prototypes at week t, theta_t nearest to k: a fresh prototype is
\* updated, a stale one buffers, and its last missing sample reactivates it.
Gap(p, k, t)     == Larger(0, t - p.last[k])
IsStale(p, k, t) == Gap(p, k, t) >= StaleGap
IsReady(p, k)    == p.buf[k] + 1 >= ReadySamples
Branch(p, k, t)  == CASE ~IsStale(p, k, t)                -> "fresh"
                      [] IsStale(p, k, t) /\ ~IsReady(p, k) -> "buffer"
                      [] IsStale(p, k, t) /\ IsReady(p, k)  -> "reactivate"

\* Fault: a reactivated prototype keeps its buffer.
UpdatePrototypesKeepsBuffer(p, k, t) ==
    LET b == Branch(p, k, t) IN
    [p EXCEPT
      !.buf[k]  = IF b = "fresh" THEN @ ELSE @ + 1,
      !.last[k] = IF b = "buffer" THEN @ ELSE t,
      !.age     = [j \in Clusters |-> IF j = k /\ b # "buffer" THEN 0 ELSE p.age[j] + 1]]

UpdatePrototypes(p, k, t) ==
    LET b == Branch(p, k, t) IN
    [p EXCEPT
      !.buf[k]  = CASE b = "fresh" -> @ [] b = "buffer" -> @ + 1 [] b = "reactivate" -> 0,
      !.last[k] = IF b = "buffer" THEN @ ELSE t,
      !.age     = [j \in Clusters |-> IF j = k /\ b # "buffer" THEN 0 ELSE p.age[j] + 1]]

-----------------------------------------------------------------------------
\* update_weekly_micro_iir_state.
Excess(l) == Larger(l - Neutral, 0)

\* Fault: a missing score counts towards healing nothing, and resets nothing.
MicroUpdateSkipsGap(m, in) ==
    CASE in.gate # "open" -> m
      [] in.gate = "open" /\ in.h = NoLevel ->
           [m EXCEPT !.lead = Neutral + Decay[Excess(m.lead)]]
      [] in.gate = "open" /\ in.h # NoLevel ->
           LET heals == in.h < HealLevel /\ m.heal + 1 >= HealWeeks IN
           [lead |-> Neutral + (IF heals THEN 0 ELSE Larger(Excess(in.h), Decay[Excess(m.lead)])),
            heal |-> IF in.h < HealLevel /\ ~heals THEN m.heal + 1 ELSE 0]

\* A held week freezes; with the strict gate closed the caller does not
\* advance the envelope either; a week without a score decays it.
MicroUpdate(m, in) ==
    CASE in.gate # "open" -> m
      [] in.gate = "open" /\ in.h = NoLevel ->
           [lead |-> Neutral + Decay[Excess(m.lead)], heal |-> 0]
      [] in.gate = "open" /\ in.h # NoLevel ->
           LET heals == in.h < HealLevel /\ m.heal + 1 >= HealWeeks IN
           [lead |-> Neutral + (IF heals THEN 0 ELSE Larger(Excess(in.h), Decay[Excess(m.lead)])),
            heal |-> IF in.h < HealLevel /\ ~heals THEN m.heal + 1 ELSE 0]

-----------------------------------------------------------------------------
\* One pass of the loop body, as functions of the state before it: c and p are
\* the covariance and the prototypes, t the week index given to them.
Seeded(p) == IF ~p.up /\ p.seed >= WarmupWeeks THEN InitializePrototypes(p) ELSE p

\* p_t and k_hat_t exist for this week.
HasSignal(p, theta) == theta.kind # "missing" /\ Seeded(p).up

ProtoAfter(c, p, theta, t) ==
    CASE theta.kind = "missing"                 -> p
      [] theta.kind # "missing" /\ ~IsWarm(c)   -> [p EXCEPT !.seed = @ + 1]
      [] theta.kind # "missing" /\ IsWarm(c)    ->
           IF HasSignal(p, theta) THEN UpdatePrototypes(Seeded(p), theta.k, t) ELSE p

MicroAfter(c, m, in) == IF IsWarm(c) THEN MicroUpdate(m, in) ELSE m

Scored(in) == in.gate = "open" /\ in.h # NoLevel

Silent == [mode |-> "warmup", signal |-> FALSE, rho |-> FALSE,
           k |-> NoCluster, branch |-> "none", gap |-> 0, decayed |-> 0]

\* mode, whether p_t and k_hat_t exist, whether rho_t does; and of the assigned
\* prototype k (k_hat_t may be another) its branch, its gap and the decay its
\* stale weight has undergone when it is reactivated.
OutAfter(c, p, theta, in, t) ==
    LET q == Seeded(p)
        b == Branch(q, theta.k, t)
        g == Gap(q, theta.k, t)
        mode == IF Scored(in) THEN "strict" ELSE "degraded" IN
    CASE ~IsWarm(c) -> Silent
      [] IsWarm(c) /\ ~HasSignal(p, theta) -> [Silent EXCEPT !.mode = mode]
      [] IsWarm(c) /\ HasSignal(p, theta) ->
           [mode |-> mode, signal |-> TRUE, rho |-> Scored(in) /\ theta.s,
            k |-> theta.k, branch |-> b, gap |-> g,
            decayed |-> IF b = "reactivate" THEN q.age[theta.k] + g ELSE 0]

-----------------------------------------------------------------------------
InitKernel ==
    /\ cov = ColdCov
    /\ proto = NoProto
    /\ micro = [lead |-> Neutral, heal |-> 0]
    /\ out = Silent

InitHistory ==
    /\ elapsed = 0 /\ failures = 0
    /\ touched = Zeros /\ idle = 0
    /\ lowRun = 0 /\ specLead = 0

Init == row = 0 /\ InitKernel /\ InitHistory

\* Model document 9.11: zero when this and the HealWeeks - 1 scores before it
\* are low, else the larger of the new excess and the decayed old one.
SpecLead(in, run) ==
    IF run >= HealWeeks THEN 0 ELSE Larger(Excess(in.h), Decay[specLead])

RecordMicro(in) ==
    LET run == IF in.h < HealLevel THEN lowRun + 1 ELSE 0 IN
    CASE ~IsWarm(cov) \/ in.gate # "open" -> UNCHANGED <<lowRun, specLead>>
      [] IsWarm(cov) /\ in.gate = "open" /\ in.h = NoLevel ->
           lowRun' = 0 /\ specLead' = Decay[specLead]
      [] IsWarm(cov) /\ Scored(in) ->
           lowRun' = run /\ specLead' = SpecLead(in, run)

Record(theta, in) ==
    /\ elapsed' = elapsed + (IF theta.kind = "finite" THEN cov.pending + 1 ELSE 0)
    /\ failures' = failures + (IF theta.kind = "singular" THEN 1 ELSE 0)
    /\ IF IsWarm(cov) /\ HasSignal(proto, theta)
         THEN /\ touched' = [(IF proto.up THEN touched ELSE [k \in Clusters |-> row])
                               EXCEPT ![theta.k] = row]
              /\ idle' = IF proto.up THEN row - touched[theta.k] ELSE 0
         ELSE UNCHANGED <<touched, idle>>
    /\ RecordMicro(in)

\* One row of the loop.  The week index is the row's position.
Week(theta, in) ==
    /\ row < MaxRows
    /\ row' = row + 1
    /\ cov' = CovUpdate(cov, theta.kind)
    /\ proto' = ProtoAfter(cov, proto, theta, row)
    /\ micro' = MicroAfter(cov, micro, in)
    /\ out' = OutAfter(cov, proto, theta, in, row)
    /\ Record(theta, in)

Next == \E theta \in ThetaInputs, in \in MicroInputs : Week(theta, in)

Spec == Init /\ [][Next]_vars

-----------------------------------------------------------------------------
Branches == {"none", "fresh", "buffer", "reactivate"}

CovType   == [warm : Nat, pending : Nat, ok : BOOLEAN]
ProtoType == [up : BOOLEAN, seed : Nat, last : [Clusters -> Nat],
              buf : [Clusters -> 0 .. ReadySamples - 1], age : [Clusters -> Nat]]
MicroType == [lead : Levels, heal : 0 .. HealWeeks - 1]
OutType   == [mode : {"warmup", "degraded", "strict"}, signal : BOOLEAN, rho : BOOLEAN,
              k : Clusters \cup {NoCluster}, branch : Branches, gap : Nat, decayed : Nat]

\* Every counter stays in its range: a buffer never reaches the size that
\* reactivates, heal_count never the number of weeks that heals.
TypeOK ==
    /\ row \in Nat
    /\ cov \in CovType /\ proto \in ProtoType /\ micro \in MicroType /\ out \in OutType
    /\ elapsed \in Nat /\ failures \in Nat
    /\ touched \in [Clusters -> Nat] /\ idle \in Nat
    /\ lowRun \in Nat /\ specLead \in Levels

\* The streamed envelope with its heal counter (micro_layer.py:468-536) is the
\* one the model document defines over the last HealWeeks scores.
HealMatchesSpec == Excess(micro.lead) = specLead

\* Every week decays the covariance exactly once, at the latest with the next
\* finite week, except the weeks whose update failed (covariance.py:152-239).
EveryWeekDecays == elapsed + cov.pending + failures = row

\* When the covariance is warm the seed is long enough to initialise the
\* prototypes from, whatever weeks were missing or failed before: the second
\* look at its length (pipeline.py:635) never holds a warm week back.
SeedSuffices == IsWarm(cov) => proto.up \/ proto.seed >= WarmupWeeks

\* A prototype holds samples back only while it is stale: whatever is in its
\* buffer came since it was last active (proto_online.py:134-158).
BufferIsRecent ==
    \A k \in Clusters :
        proto.buf[k] > 0 =>
            /\ proto.up /\ touched[k] - proto.last[k] >= StaleGap
            /\ proto.age[k] >= proto.buf[k]

\* The model document (7.6): when a prototype that was updated before comes
\* back, its weight of its last active week decays once per week of the gap.
\* Does not hold: it decays on every update until then, too (see README).
StaleWeightDecaysOnce ==
    (out.branch = "reactivate" /\ out.gap < row - 1) => out.decayed = out.gap

\* The model document (7.4, 7.6): a sample is buffered only for a prototype
\* long empty; any other assigned prototype is updated by it. Does not hold:
\* the first sample after a late initialisation is buffered (see README).
BufferedMeansIdle ==
    (out.branch = "buffer" /\ proto.buf[out.k] = 1) => idle >= StaleGap
=============================================================================
