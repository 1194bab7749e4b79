------------------------------ MODULE OpsViews -------------------------------
(***************************************************************************)
(* What Phase 14 computes from the immutable history of published weekly   *)
(* snapshots: the revision audit (first against latest publication of a    *)
(* week), the latest view and its regimes, the alerts against the SLA, and *)
(* the ops status.  All of it is pure; Phase14Publishing runs it over the  *)
(* files.                                                                  *)
(*                                                                         *)
(* A history here is a set of snapshots, at most one per week and second.  *)
(* Signal levels are hundredths; a probability vector is the level of its  *)
(* leading state.  Times are whole seconds of one time zone.               *)
(***************************************************************************)
EXTENDS Integers, Sequences, SequencesExt, LiveSummary

CONSTANTS
    WeekLength,  \* seconds from one Friday to the next
    SlaDelay     \* seconds from the Friday of a week to its SLA cutoff

ASSUME CalendarAssumption ==
    WeekLength \in Nat /\ SlaDelay \in 0 .. WeekLength - 1 /\ WeekLength > 0

\* A snapshot is a summary and at, the second it was published.

FirstOf(hist, w) == CHOOSE x \in hist : x.week = w /\ \A y \in hist : y.week = w => x.at <= y.at
LatestOf(hist, w) == CHOOSE x \in hist : x.week = w /\ \A y \in hist : y.week = w => x.at >= y.at
WeeksOf(hist) == {x.week : x \in hist}

-----------------------------------------------------------------------------
(* revision_audit.py                                                        *)

\* _delta: null when either side is null.
Delta(a, b) == IF IsMissing(a) \/ IsMissing(b) THEN None ELSE b - a

\* _is_material_delta: strictly more than 0.05 either way.
MaterialDelta(d) == ~IsMissing(d) /\ (d > 5 \/ d < -5)

\* k_hat_changed. The history is loaded into one table: beside a cluster of
\* any week a null one becomes NaN, which differs from itself, so that a week
\* without a cluster counts as changed however often it was published.
ClusterChanged(hist, first, latest) ==
    \/ first.k_hat_t # latest.k_hat_t
    \/ IsMissing(first.k_hat_t) /\ \E x \in hist : ~IsMissing(x.k_hat_t)

\* _revision_reasons.
RevisionReasons(hist, first, latest) ==
    {f \in {"mode", "p_t", "drift_flag"} : first[f] # latest[f]}
    \cup {f \in {"k_hat_t"} : ClusterChanged(hist, first, latest)}
    \cup {f \in Signals : MaterialDelta(Delta(first[f], latest[f]))}

\* _is_material_revision: a changed p_t or drift_flag alone is not material.
Material(reasons) == reasons \ {"p_t", "drift_flag"} # {}

\* Fault: a week's latest publication is compared with the one before it.
RevisionRowPrevious(hist, w) ==
    LET latest == LatestOf(hist, w)
        earlier == {x \in hist : x.week = w /\ x # latest}
        first == IF earlier = {} THEN latest ELSE LatestOf(earlier, w)
        reasons == RevisionReasons(hist, first, latest)
    IN [runs |-> Cardinality({x \in hist : x.week = w}),
        first |-> first, latest |-> latest, reasons |-> reasons,
        material |-> Material(reasons)]

\* build_revision_detail: one row per week.
RevisionRow(hist, w) ==
    LET first == FirstOf(hist, w)
        latest == LatestOf(hist, w)
        reasons == RevisionReasons(hist, first, latest)
    IN [runs |-> Cardinality({x \in hist : x.week = w}),
        first |-> first, latest |-> latest, reasons |-> reasons,
        material |-> Material(reasons)]

RevisionDetail(hist) == [w \in WeeksOf(hist) |-> RevisionRow(hist, w)]

RowsWith(detail, reason) == Cardinality({w \in DOMAIN detail : reason \in detail[w].reasons})

\* build_revision_summary; the three largest deltas are left out. It compares
\* the columns of clusters, where a null differs from everything.
RevisionSummary(detail) ==
    [weeks |-> Cardinality(DOMAIN detail),
     multiple |-> Cardinality({w \in DOMAIN detail : detail[w].runs > 1}),
     material |-> Cardinality({w \in DOMAIN detail : detail[w].material}),
     mode |-> RowsWith(detail, "mode"),
     k |-> Cardinality({w \in DOMAIN detail :
                          \/ IsMissing(detail[w].first.k_hat_t)
                          \/ detail[w].first.k_hat_t # detail[w].latest.k_hat_t}),
     p |-> RowsWith(detail, "p_t"),
     drift |-> RowsWith(detail, "drift_flag")]

\* build_revision_tests.
RevisionTests(detail) ==
    [ordered |-> \A w \in DOMAIN detail : detail[w].first.at <= detail[w].latest.at,
     multiple |-> \E w \in DOMAIN detail : detail[w].runs > 1,
     thresholds |-> \A w \in DOMAIN detail :
                        detail[w].material = Material(detail[w].reasons)]

-----------------------------------------------------------------------------
(* regime_monitor.py                                                        *)

\* load_latest_snapshot_per_week: of each week its latest publication,
LatestPerWeek(hist) == [w \in WeeksOf(hist) |-> LatestOf(hist, w)]

\* in the order of weeks: the i-th is that with i weeks up to it.
LatestView(hist) ==
    LET weeks == WeeksOf(hist)
        Nth(i) == CHOOSE w \in weeks : Cardinality({v \in weeks : v <= w}) = i
    IN [i \in 1 .. Cardinality(weeks) |-> LatestPerWeek(hist)[Nth(i)]]

\* _regime_label: mode and, if there is one, the cluster.
RegimeLabel(x) == IF IsMissing(x.k_hat_t) THEN <<x.mode>> ELSE <<x.mode, x.k_hat_t>>

Steps(view) == {i \in DOMAIN view : i + 1 \in DOMAIN view}

\* build_state_transition_matrix: counts over consecutive weeks.
TransitionMatrix(view) ==
    LET labels == {RegimeLabel(view[i]) : i \in DOMAIN view}
    IN [change \in labels \X labels |->
            Cardinality({i \in Steps(view) :
                            <<RegimeLabel(view[i]), RegimeLabel(view[i + 1])>> = change})]

\* Fault: a run goes on while the mode stays, whatever the cluster.
RegimeRunsByMode(view) ==
    LET Extend(runs, x) ==
            IF runs # <<>> /\ Last(runs).mode = x.mode
            THEN [runs EXCEPT ![Len(runs)].end = x.week, ![Len(runs)].weeks = @ + 1]
            ELSE Append(runs, [label |-> RegimeLabel(x), mode |-> x.mode,
                               start |-> x.week, end |-> x.week, weeks |-> 1])
    IN FoldLeft(Extend, <<>>, view)

\* _build_regime_runs: maximal stretches of one label, with the mode and the
\* cluster of their first week.
RegimeRuns(view) ==
    LET Extend(runs, x) ==
            IF runs # <<>> /\ Last(runs).label = RegimeLabel(x)
            THEN [runs EXCEPT ![Len(runs)].end = x.week, ![Len(runs)].weeks = @ + 1]
            ELSE Append(runs, [label |-> RegimeLabel(x), mode |-> x.mode,
                               start |-> x.week, end |-> x.week, weeks |-> 1])
    IN FoldLeft(Extend, <<>>, view)

\* build_state_duration_summary: per label, and the label's latest run.
DurationSummary(view) ==
    LET runs == RegimeRuns(view)
        Of(label) == {i \in DOMAIN runs : runs[i].label = label}
        Longest(label) == CHOOSE i \in Of(label) : \A j \in Of(label) : runs[j].weeks <= runs[i].weeks
        Final(label) == CHOOSE i \in Of(label) : \A j \in Of(label) : j <= i
    IN [label \in {runs[i].label : i \in DOMAIN runs} |->
            [runs |-> Cardinality(Of(label)), longest |-> runs[Longest(label)].weeks,
             latest |-> runs[Final(label)]]]

\* build_event_response_summary: the changes of label, with the signal deltas.
EventResponses(view) ==
    {[week |-> view[i + 1].week, from |-> RegimeLabel(view[i]),
      to |-> RegimeLabel(view[i + 1]),
      delta |-> [f \in Signals |-> Delta(view[i][f], view[i + 1][f])]] :
        i \in {j \in Steps(view) : RegimeLabel(view[j]) # RegimeLabel(view[j + 1])}}

-----------------------------------------------------------------------------
(* alerts.py                                                                *)

\* compute_operational_asof.
Cutoff(w) == w * WeekLength + SlaDelay

\* Fault: the Friday that began the running week is never required.
RequiredWeekLate(now) == (now \div WeekLength) - 1

\* required_operational_week_end: the Friday that began the running week, or
\* the one before it until that week's cutoff.
RequiredWeek(now) ==
    LET candidate == now \div WeekLength
    IN IF now >= Cutoff(candidate) THEN candidate ELSE candidate - 1

Alert(category, level, code) == [category |-> category, level |-> level, code |-> code]

\* Alerts about the snapshot x of the required week; revised when the audit
\* has the week and calls its revision material.
SnapshotAlerts(x, revised) ==
    {a \in {Alert("data_health", "warn", "late_snapshot_publication")} : x.at > Cutoff(x.week)}
    \cup {a \in {Alert("signal_validity", "block", "signal_invalid")} :
            \E f \in {"k_hat_t", "p_t", "s_t"} : IsMissing(x[f])}
    \cup {a \in {Alert("execution_readiness", "degrade", "execution_degraded")} :
            x.execution = "degrade"}
    \cup {a \in {Alert("execution_readiness", "block", "execution_blocked")} :
            x.execution = "block"}
    \cup {Alert("data_health", level, "stale_source") : level \in x.stale}
    \cup {a \in {Alert("signal_validity", "warn", "material_revision_latest_week")} :
            revised}

\* build_alert_log over the latest snapshot per week: a missing snapshot of the
\* required week is the only alert.
AlertLog(latest, detail, now) ==
    LET w == RequiredWeek(now)
    IN IF w \notin DOMAIN latest
       THEN {Alert("data_health", "block", "missing_required_snapshot")}
       ELSE SnapshotAlerts(latest[w], w \in DOMAIN detail /\ detail[w].material)

-----------------------------------------------------------------------------
(* status.py                                                                *)

Severity == [ok |-> 0, warn |-> 1, degrade |-> 2, block |-> 3]

\* _worst_status.
Worst(levels) ==
    IF levels = {} THEN "ok"
    ELSE CHOOSE l \in levels : \A m \in levels : Severity[m] <= Severity[l]

\* _category_status.
CategoryStatus(log, category) == Worst({a.level : a \in {b \in log : b.category = category}})

\* build_ops_status_summary: the worst of the three dimensions.
CurrentStatus(log) ==
    Worst({CategoryStatus(log, c) :
            c \in {"signal_validity", "execution_readiness", "data_health"}})
=============================================================================
