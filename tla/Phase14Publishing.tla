-------------------------- MODULE Phase14Publishing --------------------------
(***************************************************************************)
(* Phase 14 over its files: the live run summary, the immutable history,   *)
(* the latest pointers, and what the audit, the monitor and the ops script *)
(* make of them.                                                           *)
(*                                                                         *)
(*   run_live_pipeline.py           overwrites the live run summary        *)
(*   run_phase14_publish.py         history snapshot and report, then the  *)
(*                                  two latest files, one write at a time  *)
(*   run_phase14_revision_audit.py  history -> revision files              *)
(*   run_phase14_regime_monitor.py  history -> regime files                *)
(*   run_phase14_ops.py             history, loaded twice -> alerts, status *)
(*                                                                         *)
(* One publisher runs at a time and may be killed between or inside its    *)
(* writes; the readers run meanwhile, and the clock moves.                 *)
(***************************************************************************)
EXTENDS OpsViews

CONSTANTS
    Summaries,   \* live run summaries a week may end in
    MaxClock,    \* bounds for model checking: seconds,
    MaxLive,     \* live runs,
    MaxPublish,  \* publications started,
    MaxKills,    \* scripts killed,
    MaxReads,    \* reader scripts started
    Torn         \* a JSON file cut short: it does not parse

ASSUME PublishBounds ==
    /\ \A b \in {MaxClock, MaxLive, MaxPublish, MaxKills, MaxReads} : b \in Nat

\* A file or field written: files with name holding content, whatever it held.
Write(files, name, content) ==
    [n \in DOMAIN files \cup {name} |-> IF n = name THEN content ELSE files[n]]

\* build_cycle_snapshot: the summary's fields and the publication's second.
BuildCycleSnapshot(s, at) == Write(s, "at", at)

Snapshots == {BuildCycleSnapshot(s, at) : s \in Summaries, at \in 0 .. MaxClock}

\* A summary has its week, the levels of its stale sources and the execution
\* state that follows from them and the mode; a file that is missing or cut
\* short is told from a whole one.
ASSUME SummaryAssumption ==
    /\ \A s \in Summaries :
        /\ {"week", "mode", "stale", "execution"} \subseteq DOMAIN s
        /\ s.week \in Nat
        /\ s.stale \subseteq {"warn", "degrade", "block"}
        /\ s.execution = DeriveExecutionState(s.stale, s.mode)
    /\ None # Torn
    /\ {None, Torn} \cap (Summaries \cup Snapshots) = {}

VARIABLES
    clock,         \* wall clock, whole seconds
    summary,       \* outputs/live/live_run_summary.json
    history,       \* history/cycle_snapshot_<week>__run_<at>.json, by <<week, at>>
    reports,       \* weekly_cycle_report_<week>__run_<at>.md: the keys present
    latest,        \* cycle_snapshot_latest.json
    latestReport,  \* weekly_cycle_report_latest.md: the snapshot it renders
    publisher,     \* the publishing script
    published,     \* history: whole history snapshots in the order written
    tidy,          \* history: the last publisher that wrote ended whole
    audit,         \* revision_stability_*.{csv,json} and what was published then
    monitor,       \* the three regime files
    ops,           \* the ops script
    status,        \* alert_log.csv and ops_status_summary.*
    counts         \* live runs, publications, kills, reads

fileVars == <<summary, history, reports, latest, latestReport>>
readerVars == <<audit, monitor, ops, status>>
publishVars == <<clock, fileVars, publisher, published, tidy, readerVars, counts>>

Idle == [pc |-> "idle"]

Key(x) == <<x.week, x.at>>

PublishInit ==
    /\ clock = 0
    /\ summary = None
    /\ history = <<>> /\ reports = {}
    /\ latest = None /\ latestReport = None
    /\ publisher = Idle
    /\ published = <<>> /\ tidy = TRUE
    /\ audit = None /\ monitor = None /\ status = None
    /\ ops = Idle
    /\ counts = [live |-> 0, publish |-> 0, kills |-> 0, reads |-> 0]

Count(what, bound) ==
    /\ counts[what] < bound
    /\ counts' = [counts EXCEPT ![what] = @ + 1]

Tick ==
    /\ clock' \in clock + 1 .. MaxClock
    /\ UNCHANGED <<fileVars, publisher, published, tidy, readerVars, counts>>

\* _write_run_summary overwrites the file,
LiveRunWritesSummary ==
    /\ Count("live", MaxLive)
    /\ summary' \in Summaries
    /\ UNCHANGED <<clock, history, reports, latest, latestReport, publisher,
                   published, tidy, readerVars>>

\* or is killed while it does.
KillLiveRun ==
    /\ Count("kills", MaxKills)
    /\ summary' = Torn
    /\ UNCHANGED <<clock, history, reports, latest, latestReport, publisher,
                   published, tidy, readerVars>>

-----------------------------------------------------------------------------
(* publishing.py                                                            *)

\* Fault: the history file of the second is not looked for.
PublishStartUnchecked ==
    /\ publisher = Idle
    /\ Count("publish", MaxPublish)
    /\ summary \notin {None, Torn}
    /\ publisher' = [pc |-> "history", snap |-> BuildCycleSnapshot(summary, clock)]
    /\ UNCHANGED <<clock, fileVars, published, tidy, readerVars>>

\* load_live_run_summary, build_cycle_snapshot and the two FileExistsError
\* checks. A run these refuse exits 1 and has written nothing.
PublishStart ==
    /\ publisher = Idle
    /\ Count("publish", MaxPublish)
    /\ summary \notin {None, Torn}
    /\ LET x == BuildCycleSnapshot(summary, clock) IN
        /\ Key(x) \notin DOMAIN history \cup reports
        /\ publisher' = [pc |-> "history", snap |-> x]
    /\ UNCHANGED <<clock, fileVars, published, tidy, readerVars>>

WriteHistorySnapshot ==
    /\ publisher.pc = "history"
    /\ history' = Write(history, Key(publisher.snap), publisher.snap)
    /\ published' = Append(published, publisher.snap)
    /\ publisher' = [publisher EXCEPT !.pc = "report"]
    /\ tidy' = FALSE
    /\ UNCHANGED <<clock, summary, reports, latest, latestReport, readerVars, counts>>

WriteHistoryReport ==
    /\ publisher.pc = "report"
    /\ reports' = reports \cup {Key(publisher.snap)}
    /\ publisher' = [publisher EXCEPT !.pc = "latest"]
    /\ UNCHANGED <<clock, summary, history, latest, latestReport, published,
                   tidy, readerVars, counts>>

\* Fault: the publication of an earlier week does not become the latest.
WriteLatestSnapshotNewer ==
    /\ publisher.pc = "latest"
    /\ latest' = IF latest \notin {None, Torn} /\ latest.week > publisher.snap.week
                 THEN latest ELSE publisher.snap
    /\ publisher' = [publisher EXCEPT !.pc = "latest_report"]
    /\ UNCHANGED <<clock, summary, history, reports, latestReport, published,
                   tidy, readerVars, counts>>

WriteLatestSnapshot ==
    /\ publisher.pc = "latest"
    /\ latest' = publisher.snap
    /\ publisher' = [publisher EXCEPT !.pc = "latest_report"]
    /\ UNCHANGED <<clock, summary, history, reports, latestReport, published,
                   tidy, readerVars, counts>>

WriteLatestReport ==
    /\ publisher.pc = "latest_report"
    /\ latestReport' = publisher.snap
    /\ publisher' = Idle
    /\ tidy' = TRUE
    /\ UNCHANGED <<clock, summary, history, reports, latest, published,
                   readerVars, counts>>

\* The publisher dies before its next write, or inside it.
KillPublisher ==
    /\ publisher # Idle
    /\ Count("kills", MaxKills)
    /\ publisher' = Idle
    /\ CASE publisher.pc = "history" ->
                /\ \/ history' = Write(history, Key(publisher.snap), Torn)
                   \/ UNCHANGED history
                /\ UNCHANGED <<reports, latest, latestReport>>
         [] publisher.pc = "report" ->
                /\ reports' \in {reports, reports \cup {Key(publisher.snap)}}
                /\ UNCHANGED <<history, latest, latestReport>>
         [] publisher.pc = "latest" ->
                /\ latest' \in {latest, Torn}
                /\ UNCHANGED <<history, reports, latestReport>>
         [] OTHER ->
                /\ latestReport' \in {latestReport, Torn}
                /\ UNCHANGED <<history, reports, latest>>
    /\ UNCHANGED <<clock, summary, published, tidy, readerVars>>

-----------------------------------------------------------------------------
(* The readers                                                              *)

\* load_snapshot_history raises for an empty directory and for any file that
\* does not parse; otherwise every file is a row.
Loadable == DOMAIN history # {} /\ \A key \in DOMAIN history : history[key] # Torn
Loaded == {history[key] : key \in {k \in DOMAIN history : history[k] # Torn}}

\* run_phase14_revision_audit.py. A failed load exits 1 and writes nothing.
RunRevisionAudit ==
    /\ Count("reads", MaxReads)
    /\ Loadable
    /\ LET detail == RevisionDetail(Loaded) IN
       audit' = [detail |-> detail, summary |-> RevisionSummary(detail),
                 tests |-> RevisionTests(detail), of |-> Len(published)]
    /\ UNCHANGED <<clock, fileVars, publisher, published, tidy, monitor, ops, status>>

\* run_phase14_regime_monitor.py.
RunRegimeMonitor ==
    /\ Count("reads", MaxReads)
    /\ Loadable
    /\ LET view == LatestView(Loaded) IN
       monitor' = [matrix |-> TransitionMatrix(view), runs |-> RegimeRuns(view),
                   durations |-> DurationSummary(view), events |-> EventResponses(view)]
    /\ UNCHANGED <<clock, fileVars, publisher, published, tidy, audit, ops, status>>

\* run_phase14_ops.py loads the history for the revision detail,
OpsLoadHistory ==
    /\ ops = Idle
    /\ Count("reads", MaxReads)
    /\ Loadable
    /\ ops' = [pc |-> "alerts", detail |-> RevisionDetail(Loaded), of |-> Len(published)]
    /\ UNCHANGED <<clock, fileVars, publisher, published, tidy, audit, monitor, status>>

\* loads it again for the latest view, takes the time and writes the alerts,
OpsWriteAlerts ==
    /\ ops.pc = "alerts"
    /\ IF Loadable
       THEN ops' = [pc |-> "status", of |-> ops.of, upto |-> Len(published), now |-> clock,
                    log |-> AlertLog(LatestPerWeek(Loaded), ops.detail, clock)]
       ELSE ops' = Idle
    /\ UNCHANGED <<clock, fileVars, publisher, published, tidy, audit, monitor,
                   status, counts>>

\* and writes the status, for the week required at the time taken anew.
OpsWriteStatus ==
    /\ ops.pc = "status"
    /\ status' = [level |-> CurrentStatus(ops.log), required |-> RequiredWeek(clock),
                  log |-> ops.log, now |-> ops.now, of |-> ops.of, upto |-> ops.upto]
    /\ ops' = Idle
    /\ UNCHANGED <<clock, fileVars, publisher, published, tidy, audit, monitor, counts>>

PublishNext ==
    \/ Tick \/ LiveRunWritesSummary \/ KillLiveRun
    \/ PublishStart \/ WriteHistorySnapshot \/ WriteHistoryReport
    \/ WriteLatestSnapshot \/ WriteLatestReport \/ KillPublisher
    \/ RunRevisionAudit \/ RunRegimeMonitor
    \/ OpsLoadHistory \/ OpsWriteAlerts \/ OpsWriteStatus

PublishSpec == PublishInit /\ [][PublishNext]_publishVars

-----------------------------------------------------------------------------
(* Properties                                                               *)

\* docs/OPS_RUNBOOK.md 3.2, "Never overwrite immutable history": a history file
\* keeps its content, torn or whole, whatever is published in the same second.
HistoryImmutable ==
    [][\A key \in DOMAIN history :
            key \in DOMAIN history' /\ history'[key] = history[key]]_publishVars

\* Once a publisher has ended whole, both latest files are of its publication,
\* which is the newest of the whole history, however often earlier publishers
\* were killed.
LatestIsNewest ==
    (publisher = Idle /\ tidy /\ published # <<>>) =>
        /\ latest = Last(published) /\ latestReport = latest
        /\ \A i \in DOMAIN published : published[i].at <= latest.at

\* The publications of week w among the first n, and the first and the last
\* of them.
Of(w, n) == {i \in 1 .. n : published[i].week = w}
FirstPublished(w, n) == published[Min(Of(w, n))]
LastPublished(w, n) == published[Max(Of(w, n))]

\* The audit has every week published. It compares the publication of a week
\* that was written first with the one written last, and calls the week
\* material when mode or cluster of those two differ, whatever was published
\* between them.
AuditMatchesPublications ==
    audit # None =>
        /\ DOMAIN audit.detail = {published[i].week : i \in 1 .. audit.of}
        /\ audit.tests.ordered /\ audit.tests.thresholds
        /\ \A w \in DOMAIN audit.detail :
            LET first == FirstPublished(w, audit.of)
                last == LastPublished(w, audit.of)
                row == audit.detail[w]
            IN /\ row.first = first /\ row.latest = last
               /\ row.runs = Cardinality(Of(w, audit.of))
               /\ (first.mode # last.mode \/ first.k_hat_t # last.k_hat_t)
                    => row.material /\ audit.summary.material > 0

\* The three regime files tell one story: the changes of regime are the
\* off-diagonal transitions and one fewer than the runs, the runs cover the
\* weeks one after the other, and each but the first starts at an event.
MonitorConsistent ==
    monitor # None =>
        LET m == monitor.matrix
            off == {d \in DOMAIN m : d[1] # d[2]}
            weeks == [i \in DOMAIN monitor.runs |-> monitor.runs[i].weeks]
        IN /\ SumFunctionOnSet(m, off) = Cardinality(monitor.events)
           /\ SumFunctionOnSet(m, off) = Len(monitor.runs) - 1
           /\ SumFunctionOnSet(m, DOMAIN m) = SumFunctionOnSet(weeks, DOMAIN weeks) - 1
           /\ {e.week : e \in monitor.events}
                    = {monitor.runs[i].start : i \in DOMAIN weeks \ {1}}
           /\ \A i \in DOMAIN weeks : monitor.runs[i].start <= monitor.runs[i].end
           /\ \A i \in DOMAIN weeks \ {1} : monitor.runs[i - 1].end < monitor.runs[i].start

\* When the ops status is OK, the week whose cutoff had passed last when the
\* alerts were taken was by then published, last by that cutoff and in strict
\* mode, and the first and last publications of it that the earlier load saw
\* agree in mode and cluster.
GreenMeansGood ==
    (status # None /\ status.level = "ok") =>
        \A w \in {s.week : s \in Summaries} :
            Cutoff(w) <= status.now /\ status.now < Cutoff(w + 1) =>
                LET late == LastPublished(w, status.upto)
                    first == FirstPublished(w, status.of)
                    last == LastPublished(w, status.of)
                IN /\ Of(w, status.upto) # {}
                   /\ late.at <= Cutoff(w) /\ late.mode = "strict"
                   /\ Of(w, status.of) # {} =>
                        first.mode = last.mode /\ first.k_hat_t = last.k_hat_t

\* docs/OPS_RUNBOOK.md 4.1: "Compare earliest vs latest snapshot fields and
\* confirm which of" mode, k_hat_t, s_t, h_t, rho_t "triggered the material flag",
\* so a week published once has no flag. Does not hold: a null cluster beside the
\* clusters of other weeks differs from itself (ClusterChanged; see README).
MaterialIsRevised ==
    audit # None => \A w \in DOMAIN audit.detail :
                        audit.detail[w].material => audit.detail[w].runs > 1

\* docs/OPS_RUNBOOK.md 2.2: "publish an additional immutable snapshot if a rerun
\* is required", so a whole publication makes the history readable again. Does
\* not hold: a history file cut short stays and blocks every reader (see README).
RerunRestoresHistory ==
    (publisher = Idle /\ tidy /\ published # <<>>) => Loadable

\* docs/OPS_RUNBOOK.md 1.1: after the cutoff the week's snapshot is required, so
\* an OK status that names a required week has seen that week's snapshot. Does
\* not hold when the cutoff passes between alerts and status (see README).
StatusCoversRequiredWeek ==
    (status # None /\ status.level = "ok") =>
        \E i \in DOMAIN published : published[i].week = status.required
=============================================================================
