--------------------------- MODULE WeeklyArtifacts ---------------------------
(***************************************************************************)
(* One or more weeks from the live run's summary to the digest: Phase 14   *)
(* publishes it, the Phase 15 sandbox reads the snapshot of a week and     *)
(* writes five files, and the weekly digest of src/main.py puts snapshot,  *)
(* sandbox summary and delta together.                                     *)
(*                                                                         *)
(* The operator runs the scripts one at a time; each may be killed between *)
(* or inside its writes.  The digest is started by launchd, whatever the   *)
(* operator does, and looks at the files twice.                            *)
(***************************************************************************)
EXTENDS Phase14Publishing, SandboxOrders

CONSTANTS
    Weeks,        \* weeks of the runs
    Portfolios,   \* what sandbox/portfolio/current_positions_<week>.csv may hold
    MaxSandbox,   \* bounds for model checking: sandbox runs started,
    MaxDigests    \* digests started

ASSUME ArtifactBounds == Weeks \subseteq Nat /\ MaxSandbox \in Nat /\ MaxDigests \in Nat

\* Only a week without a strict backfill freezes the micro layer
\* (PipelineResult of LiveSummary).
ASSUME FrozenAssumption ==
    \A s \in Summaries :
        /\ {"backfill_mode", "frozen"} \subseteq DOMAIN s
        /\ s.frozen => s.backfill_mode \in {"degraded_backfill", "block"}

VARIABLES
    positions,    \* the operator's portfolio files, one per week
    sandbox,      \* the sandbox script
    artifacts,    \* the four files of a week, by <<kind, week>>: the run they are of
    runSummary,   \* execution_sandbox_summary_latest.json: the run it is of
    digester,     \* the digest script
    digest,       \* the last weekly_report.json
    used          \* sandbox runs, digests

sandboxVars == <<positions, sandbox, artifacts, runSummary, digester, digest, used>>
artifactVars == <<publishVars, sandboxVars>>

\* The order in which write_phase15_artifacts writes.
Kinds == <<"target", "delta", "orders", "report">>

ArtifactsInit ==
    /\ PublishInit
    /\ positions \in [Weeks -> Portfolios]
    /\ sandbox = Idle
    /\ artifacts = <<>>
    /\ runSummary = None
    /\ digester = Idle
    /\ digest = None
    /\ used = [sandbox |-> 0, digests |-> 0]

UseOne(what, bound) ==
    /\ used[what] < bound
    /\ used' = [used EXCEPT ![what] = @ + 1]

-----------------------------------------------------------------------------
(* scripts/run_phase15_sandbox.py, reporting.py                             *)

HistoryOf(w) == {key \in DOMAIN history : key[1] = w}
NewestKey(w) == CHOOSE key \in HistoryOf(w) : \A k \in HistoryOf(w) : k[2] <= key[2]

\* _resolve_phase14_snapshot of the sandbox and _load_json: Torn when a file it
\* reads does not parse, None when there is no snapshot of the week.
SandboxSnapshot(w) ==
    CASE latest = Torn -> Torn
      [] latest \notin {None, Torn} /\ latest.week = w -> latest
      [] OTHER -> IF HistoryOf(w) = {} THEN None ELSE history[NewestKey(w)]

\* main up to the artifacts. A run that raises has written nothing.
SandboxStart(w) ==
    /\ sandbox = Idle /\ publisher = Idle
    /\ UseOne("sandbox", MaxSandbox)
    /\ LET x == SandboxSnapshot(w) IN
        /\ x \notin {None, Torn}
        /\ Sandbox(x, positions[w]) # None
        /\ sandbox' = [pc |-> 1, week |-> w,
                        run |-> Write(Sandbox(x, positions[w]), "id", used.sandbox)]
    /\ UNCHANGED <<publishVars, positions, artifacts, runSummary, digester, digest>>

\* Fault: a file that is there is kept.
WriteArtifactOnce ==
    /\ sandbox # Idle /\ sandbox.pc \in DOMAIN Kinds
    /\ LET key == <<Kinds[sandbox.pc], sandbox.week>> IN
       artifacts' = IF key \in DOMAIN artifacts THEN artifacts
                    ELSE Write(artifacts, key, sandbox.run)
    /\ sandbox' = [sandbox EXCEPT !.pc = @ + 1]
    /\ UNCHANGED <<publishVars, positions, runSummary, digester, digest, used>>

\* The four files of the week, one after the other,
WriteArtifact ==
    /\ sandbox # Idle /\ sandbox.pc \in DOMAIN Kinds
    /\ LET key == <<Kinds[sandbox.pc], sandbox.week>> IN
       artifacts' = Write(artifacts, key, sandbox.run)
    /\ sandbox' = [sandbox EXCEPT !.pc = @ + 1]
    /\ UNCHANGED <<publishVars, positions, runSummary, digester, digest, used>>

\* then the latest summary.
WriteRunSummary ==
    /\ sandbox # Idle /\ sandbox.pc = Len(Kinds) + 1
    /\ runSummary' = sandbox.run
    /\ sandbox' = Idle
    /\ UNCHANGED <<publishVars, positions, artifacts, digester, digest, used>>

KillSandbox ==
    /\ sandbox # Idle
    /\ Count("kills", MaxKills)
    /\ sandbox' = Idle
    /\ IF sandbox.pc \in DOMAIN Kinds
       THEN /\ artifacts' \in {artifacts,
                               Write(artifacts, <<Kinds[sandbox.pc], sandbox.week>>, Torn)}
            /\ UNCHANGED runSummary
       ELSE runSummary' \in {runSummary, Torn} /\ UNCHANGED artifacts
    /\ UNCHANGED <<clock, fileVars, publisher, published, tidy, readerVars,
                   positions, digester, digest, used>>

-----------------------------------------------------------------------------
(* src/main.py                                                              *)

\* A path is the week and second in a history file's name; the latest file's
\* has none.
LatestPath == <<>>

\* Fault: the history is not looked through for the week.
DigestPathLatest(w) == IF latest = None THEN None ELSE LatestPath

\* _resolve_phase14_snapshot of the digest: the latest file when it is of the
\* week, else the week's newest in the history, else the latest after all.
DigestPath(w) ==
    CASE latest # None /\ latest.week = w -> LatestPath
      [] (latest = None \/ latest.week # w) /\ HistoryOf(w) # {} -> NewestKey(w)
      [] OTHER -> IF latest = None THEN None ELSE LatestPath

\* build_weekly_report resolves its paths. With latest torn, with no snapshot at
\* all or without a sandbox summary it exits and writes nothing.
DigestResolve(w) ==
    /\ digester = Idle
    /\ UseOne("digests", MaxDigests)
    /\ latest # Torn /\ DigestPath(w) # None
    /\ runSummary # None
    /\ digester' = [pc |-> "load", week |-> w, path |-> DigestPath(w), saw |-> latest,
                    of |-> Len(published)]
    /\ UNCHANGED <<publishVars, positions, sandbox, artifacts, runSummary, digest>>

\* Then it loads them: the snapshot, the latest summary, and the week's delta if
\* its file exists (portfolio_delta_latest.json, looked for else, is written by
\* nothing). One that does not parse ends the run.
DigestLoad ==
    /\ digester # Idle
    /\ LET x == IF digester.path = LatestPath THEN latest ELSE history[digester.path]
           key == <<"delta", digester.week>>
           delta == IF key \in DOMAIN artifacts THEN artifacts[key] ELSE None
       IN IF Torn \in {x, runSummary, delta}
          THEN UNCHANGED digest
          ELSE digest' = [week |-> digester.week, snap |-> x, run |-> runSummary,
                          delta |-> delta, path |-> digester.path, saw |-> digester.saw,
                          of |-> digester.of]
    /\ digester' = Idle
    /\ UNCHANGED <<publishVars, positions, sandbox, artifacts, runSummary, used>>

OperatorStep ==
    /\ sandbox = Idle
    /\ Tick \/ LiveRunWritesSummary \/ KillLiveRun
        \/ PublishStart \/ WriteHistorySnapshot \/ WriteHistoryReport
        \/ WriteLatestSnapshot \/ WriteLatestReport \/ KillPublisher
    /\ UNCHANGED sandboxVars

ArtifactsNext ==
    \/ OperatorStep
    \/ \E w \in Weeks : SandboxStart(w) \/ DigestResolve(w)
    \/ WriteArtifact \/ WriteRunSummary \/ KillSandbox
    \/ DigestLoad

ArtifactsSpec == ArtifactsInit /\ [][ArtifactsNext]_artifactVars

-----------------------------------------------------------------------------
(* Properties                                                               *)

\* A digest shows a snapshot of another week only if no snapshot of its own was
\* published when it looked, or the latest file was replaced while it did.
DigestShowsItsWeek ==
    (digest # None /\ digest.snap.week # digest.week) =>
        \/ Of(digest.week, digest.of) = {}
        \/ digest.path = LatestPath /\ digest.saw # digest.snap

\* README "If rho_t is null, h_t is null, or micro_state_frozen=true, Phase 15
\* must not generate execution orders": orders on disk come from a strict,
\* executable, unfrozen snapshot of their own week with all its signals.
OrdersNeedSignal ==
    \A w \in Weeks :
        (<<"orders", w>> \in DOMAIN artifacts /\ artifacts[<<"orders", w>>] # Torn) =>
            LET run == artifacts[<<"orders", w>>]
                x == run.summary.snapshot
            IN run.orders # <<>> =>
                /\ x.week = w /\ x.mode = "strict" /\ ~x.frozen
                /\ x.execution = "execute" /\ x.stale \cap {"block", "degrade"} = {}
                /\ \A f \in Signals : ~IsMissing(x[f])

Notional(run, side) ==
    SumFunction([i \in DOMAIN run.orders |->
                    IF run.orders[i].side = side THEN run.orders[i].notional ELSE 0])
Costs(run) == SumFunction([i \in DOMAIN run.orders |-> run.orders[i].cost])

\* The simulated orders of a run can all be paid: sells first, then buys within
\* the cash, and the cash left is exactly what the orders leave.
OrdersAffordable ==
    (runSummary \notin {None, Torn}) =>
        LET s == runSummary.summary IN
        /\ s.after = s.before + Notional(runSummary, "SELL") - Notional(runSummary, "BUY")
                        - Costs(runSummary)
        /\ s.after >= 0

\* The four files of the week the latest summary is about are of its run or of
\* a later one, whichever runs were killed in between; of a later one only if
\* that run is still under way or was killed.
SummaryMatchesFiles ==
    runSummary \notin {None, Torn} =>
        \A i \in DOMAIN Kinds :
            LET key == <<Kinds[i], runSummary.summary.week>> IN
            /\ key \in DOMAIN artifacts
            /\ \/ artifacts[key] = runSummary
               \/ /\ sandbox # Idle \/ counts.kills > 0
                  /\ artifacts[key] = Torn \/ artifacts[key].id > runSummary.id

\* configs/portfolio_policy_v1.yaml:31, "shorting_allowed": false: no simulated
\* sell is of more than the portfolio holds of the symbol. Does not hold for a
\* portfolio with much cash, such as MCCashPortfolios (see README).
NoShortSale ==
    \A w \in Weeks :
        (<<"orders", w>> \in DOMAIN artifacts /\ artifacts[<<"orders", w>>] # Torn) =>
            LET run == artifacts[<<"orders", w>>] IN
            \A i \in DOMAIN run.orders :
                run.orders[i].side = "SELL" =>
                    run.orders[i].notional <= Held(positions[w], run.orders[i].symbol)
=============================================================================
