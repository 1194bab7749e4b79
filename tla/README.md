# A TLA+ model of the QQQ cycle system

The repository runs a weekly risk model for QQQ: macro and micro inputs become a
risk score `rho_t`, the score becomes a portfolio weight, and a weekly report is
interpreted and posted to Discord. This directory models the parts of it that
keep state from one week, one run or one file to the next, checks them with TLC
and proves nearly every safety property with TLAPS, for any number of weeks, runs,
files and kills.

## The system

| Part | Code | State it keeps | Operations |
|---|---|---|---|
| Weekly kernel | `qqq_cycle/pipeline.py`, `core/covariance.py`, `core/proto_online.py`, `core/micro_layer.py` | covariance counters and flag, five prototypes with last-active weeks and reactivation buffers, warmup seed, envelope `h_t_lead_prev` and `heal_count` | one pass of the weekly loop |
| Daily micro layer | `pipeline.py` (`_compute_daily_micro_frame`), `core/micro_layer.py` | member ages, grace counters, smoothed weights, carried values, the daily frame | one business day; the weekly score of the frame |
| Live kernel | `qqq_cycle/live/runtime.py`, `scripts/bootstrap_live_state.py` | the kernel's state, persisted between runs | bootstrap over the history, `run_week` |
| Live portfolio | `runtime.py:_run_portfolio_step`, `portfolio/construction.py`, `live/freshness.py` | `prev_omega_qqq`, `breaker_active`, `weeks_outside_s1` | one week's target, threshold, breaker, execution state |
| Phase 11 backtest | `scripts/run_phase11.py`, `construction.py:build_weekly_weights` | `weekly_weights.csv`, whose last row the bootstrap takes over | one pass over the strict weeks |
| Live state store | `live/state_io.py` | `live_state_latest/`, one dated directory per week, `live_run_log.csv` | save, load, archive, append |
| Point-in-time stores | `qqq_cycle/data_contracts/` | ledgers of closes, actions, renames, constituents, weights; rows are appended with the time they were known | queries as of a timestamp, adjusted windows |
| Controlled backfill | `ops/backfill_ingest.py`, `publication_proof.py`, `live/controlled_backfill_contracts.py`, `scripts/capture_*`, `normalize_*`, `run_controlled_backfill.py` | raw payload, proof, candidate proof, normalized rows, strict and degraded store files, result of the week | capture, evidence, normalize, decide and write, gate, resolve |
| Phase 14 publishing | `ops/publishing.py`, `revision_audit.py`, `alerts.py`, `regime_monitor.py`, `status.py` | snapshot history with reports, two latest files, audit, monitor and status outputs | publish, audit, monitor, alert, status |
| Phase 15 paper portfolio | `portfolio/` except `construction.py`, `scripts/run_phase15_sandbox.py` | four files of a week and the latest summary | gate, target, delta, simulated orders |
| Weekly digest | `src/main.py` | `weekly_report.json` | assemble snapshot, summary and delta of a week |
| Weekly orchestrator | `scripts/run_weekly_orchestration.sh` | `.run_lock`, `sent_discord.ok`, `notified_error_gemini.ok`, `run_status.json` | one run of the script |
| Webhook sender | `src/output/send_insight.py` | attempts within one call | post with 429 retries |
| Macro layers, interpretability, diagnostics, replays, capture of prices, report sanitizer | `core/`, `backtest/`, `scripts/` | nothing between calls, or rows nobody reads back | pure series, reports |

**How the parts interact.** The operator stages a new Friday row and starts
`run_live_pipeline.py`. It loads the persisted kernel, advances it by one week
with the micro score the backfill stores or a `weekly_h_t` artifact give,
advances the portfolio, saves the state, writes the run summary and appends the
run log. Phase 14 publishes a snapshot of the week from that summary; Phase 15
simulates orders from the snapshot; the digest puts both together. On Fridays
launchd starts the orchestrator, which builds the digest, has it interpreted and
posts it. The parts communicate only through files: no process calls another's
memory, there is one process per run, and the only lock is the orchestrator's
directory.

**What is hard.** Two runs of the orchestrator on one week, killed anywhere, with
lost webhook answers. Groups of files that are one thing and are written one by
one: a state directory, two stores and their result, history and latest, five
sandbox files. Readers that look at a file twice. Counters that must agree
although they are advanced by different conditions: `warmup_count` against the
seed's length against the row; the heal counter against the weeks it stands for;
member ages against the membership history. The same loop body run by two
callers, batch and live. State carried through weeks in which its input is
missing. Ledgers whose rows become known late and out of order. `PROJECT.json`
lists each such place with its line under `hazards`.

**What makes each part correct.**

- Kernel: every week decays the covariance once; prototypes exist once the
  covariance is warm; a buffer holds only samples of the current absence; the
  streamed envelope is the one the model document defines.
- Daily micro layer: ages are what the membership history says; a week that is
  over keeps its score.
- Live kernel: it is where the batch replay would be.
- Portfolio: the breaker is the one its history defines; the position never lags
  its target and is the one the backtest reports.
- Store: what loads is the last state saved whole; one kill loses nothing.
- Stores of point-in-time data: an answer given with an as-of time stands; a
  window is the documented product of factors.
- Backfill: only what was published by the cutoff, proven and valid reaches the
  strict namespace; a result is backed by its stores; a week once controlled is
  never resolved from the legacy cache.
- Publishing: history is immutable, latest is newest, audit and monitor are of
  what was published, and green means good.
- Sandbox and digest: no order without an eligible signal, cash is never
  overdrawn, the summary's files are of its run, a digest shows its week.
- Orchestrator: one run at a time; an insight is not posted again over its marker
  unless forced; exit codes and status claim only what happened; no lock leaks.

## Modules

| Module | Models | Configurations |
|---|---|---|
| `DigestDelivery` | abstract: what a marker file promises about one kind of message | refined by `WeeklyOrchestration` |
| `WeeklyOrchestration`, `MC...` | the orchestrator and the sender over one week directory | `WeeklySafety`, `WeeklyCareless` |
| `WeeklyOrchestrationProofs` | proofs about it | |
| `CycleKernel` | the batch loop | through `LiveReplay` |
| `LiveReplay`, `MC...` | the live kernel beside the batch loop (extends `CycleKernel`) | `LiveReplay` |
| `CycleKernelProofs` | proofs about both | |
| `LivePortfolio` | the portfolio step and execution state | through `Phase11Backtest` |
| `Phase11Backtest`, `MCLivePortfolio` | the backtest's weights, the bootstrap's hand-over, the live weeks after it (extends `LivePortfolio`) | `PortfolioBreaker` |
| `Phase11BacktestProofs` | proofs about both | |
| `LiveState`, `MC...` | the state store and the runs over it | `LiveStateSaves` |
| `StateRegister` | abstract: the register and the archive that the store promises | refined by `LiveState` |
| `LiveStateProofs` | proofs about it | |
| `HoldingsEvidence` | pure: proofs, equivalence of payloads, normalization, validation gates, the scheme | through `BackfillStores` |
| `BackfillStores`, `MC...` | the operator scripts of one week's backfill over its files, and the live resolver (extends `HoldingsEvidence`) | `BackfillStores`, `BackfillUnseen` |
| `BackfillStoresProofs` | proofs about it | |
| `LiveSummary` | pure: what a live week's summary says, given its inputs | through `WeeklyArtifacts` |
| `OpsViews` | pure: snapshot, revision detail, regime views, alerts and status over a history | through `Phase14Publishing` |
| `Phase14Publishing`, `MC...` | the publisher write by write, and the scripts that read the history | `Publishing` |
| `SandboxOrders` | pure: policy, signal gate, target, delta, simulated orders | through `WeeklyArtifacts` |
| `WeeklyArtifacts`, `MC...` | live run, publisher, sandbox and digest over several weeks (extends the four above) | `WeeklyArtifacts` |
| `WeeklyArtifactsProofs` | proofs about it and `Phase14Publishing` | |
| `PitStores`, `MC...` | the point-in-time ledgers and the adjustment engine | `PitStores`, `PitRenamedSplit` |
| `PitStoresProofs` | proofs about it | |
| `DailyMicro`, `MC...` | the daily frame and the weekly scores | `DailyMicro` |
| `DailyMicroProofs` | proofs about it | |

An operator whose comment starts with "Fault:" is a plausible bug in the operator
that follows it; nothing uses it, and with it in that operator's place the
property listed beside it in `PROJECT.json` (`mutants`) fails.

### WeeklyOrchestration

`pc[r]` is the line run `r` is at; a label is one external command, because the
shell runs one at a time and everything shared is a file. The lock is the
directory `.run_lock`: `lock` names the run whose `mkdir` made it, which the code
does not store, so `RemoveLock` and `Cleanup` (`rm -rf`) ignore it. The trap is
set directly after `mkdir`, and both are one step. Under `set -e`
an unguarded failing command ends the run through the trap without a status: a
disjunct of `LoadSafeEnv` and of `BuildPrompt`, and `WriteFails` wherever the
script writes a log line, a marker or the status itself. `RUN_DIR` files belong to one
run and are left out. `Posting` steps have four outcomes: acknowledged, arrived
but answer lost, 429, nothing arrived. `_post_webhook` retries only the third.
`insights` and `notices` count what arrived of each run, so that a retry of
something that had arrived would break the contract.
`Crash` is SIGKILL or power loss, after which no trap runs.

`CarefulRecovery` is an assumption about the operator, stated by the manual:
`--recover-stale-lock` is passed only over a lock left behind. `WeeklySafety`
and the theorems that need it assume it; `WeeklyCareless` does not.

### CycleKernel

One action, `Week`, is one pass of the loop. What is kept: the covariance's
`warmup_count`, `pending_missing_steps` and `state_ok`; the seed's length; each
prototype's `last_active`, the number of buffered samples, and how many decay
factors its weight has undergone since it was last updated (`age`); the envelope
and `heal_count`; the mode of the row and which outputs it has. What is an input:
whether `theta_t` is finite, to which prototype it is nearest, whether the
covariance update raises, whether `s_t` exists, and the micro score. Scores and envelope are
levels of [0, 1]; `Decay` is any function on levels that never grows.
Two facts of the code that the model keeps: a failed update consumes its week
without a pending step, and the assigned prototype (nearest centroid) need not be
`k_hat_t` (largest probability), so `k` is the former.
The run refuses a history with fewer than 20 finite rows before the loop; the
model starts behind that check. Whether the strict gate is open is one for a
batch run, hence the assumption on `MicroInputs`. It is not assumed of the live
side, which resolves its contracts every week.

### LiveReplay

`BootstrapWeek` and `RunWeek` advance both the batch loop and the live kernel on
the same row. The live side differs in four things, all of them in the module:
its envelope starts at 0.0 instead of 0.5, it empties the seed, a live week's
index is `state.warmup_count` instead of the row, and it has a micro input of its
own (`mine`, the batch has `in`). The bootstrap passes no backfill mode, so no week
is held in it; what the batch holds, it scores or decays. A live week has whatever
its own resolver gave: a score, a held week, or closed contracts after open ones.
`alike` and `parted` record whether the two inputs of the last week, and those the
envelopes still depend on, were the same. Nothing of this reaches the
prototypes, which are updated before the gate is looked at. No production script
passes backfill modes to the batch pipeline either, only tests do; the module
has the function as it is. The nearest prototype is
offered to both alike; the live run recomputes `theta_t` from a tail of the
macro series, which is taken to give the same values.

### LivePortfolio and Phase11Backtest

Weights and `rho_t` are levels; `Target` is `1 - rho_t`. `seen` is the history
the breaker is compared against. The dates behind freshness are abstracted to the
worst blocking level among the stale sources. `PastWeek` is a week before the
bootstrap, `RunPhase11` writes the weights file over the weeks there are, any
number of times or never, since nothing makes Phase 11 run before a bootstrap;
`Bootstrap` takes the file's last weight over and `LiveWeek` is `run_week` after
that. `backtest` is the loop state of `build_weekly_weights` over all weeks so
far, one row per week in every action, so that the live portfolio can be compared
with the backtest of the same weeks at any time. The backtest drops degraded weeks
(`_load_strict_signals`), the live run holds its position in them; that the two
agree is `LiveMatchesBacktest`. Its exceptions are real ones: `clean` says that the
hand-over did not forget a tripped breaker or take an old file, `noticed` that a
degraded week tripped the live breaker or changed its count. `run_live_pipeline.py:162` builds `LiveRuntime()` with the default
configuration, whose `circuit_breaker_s1_index` is -1: as shipped, the live breaker
never trips. `BreakerEnabled` is that index being set; the run sets it, because
the code behind it is otherwise dead.

### LiveState

A state's contents are the sequence of weeks consumed into it. `Files` are the
three groups `_write_state_to_dir` writes in this order: arrays, tail, manifest.
A write leaves a file cut short (`Torn`) before it leaves it whole, and
`shutil.rmtree` and `copytree` go file by file in any order, so that a kill may leave
any of the three cut short beside the others. `load_state` refuses a manifest that does
not parse and arrays that are not whole; a macro tail cut short is a shorter tail, which it
accepts. In `live_state_latest/` no manifest ever stands beside one, as it is
written last; in a dated archive it may. `load_state` never reads an archive: it is for
an operator to copy back. Writes reach the disk in program order (the code never calls fsync; a power
loss that reorders them is outside the model). One live run at a time, as the
runbook has it: two at once would remove and write the same directory. Dashboard
rows, written after the log row and never read back, are left out.

`StateRegister` has no files: a state or none, set in one step, and an archive by week.
`Held` and `Archived` map a directory to what `load_state` would return of it; one whose
files are of different saves would map to `Torn`, which the register never holds. Of an
archive they also tell whether its tail is whole. The
state being saved is the run's until its manifest is whole.

### HoldingsEvidence and BackfillStores

Payloads are byte strings; `Content` is what a canonical hash stands for, so two
payloads may be the same tree in other bytes. A raw row carries the master rows
its identifier lookups find, since cleaning identifiers is data. Weights are
basis points or other units, and `NormalizeHoldings` finds the unit as the code
does. Proofs, strict and degraded validation and the scheme (strict recovery,
degraded backfill, blocked) are operators over these.

`BackfillStores` runs them over files. The operator runs one script at a time, in any
order, each may be killed between or inside its writes, and live runs read
meanwhile. `SourceMoves`, `ArchiveCrawls` and `CutoffPasses` are the world: the
endpoint moves to contents it has not served before, an archive keeps snapshots
with the time they were taken, the cutoff passes once. Both backfill scripts are
given the same raw path. JSON wrappers an archive adds are either removable or
not; one archive snapshot is considered at a time. Status and inventory reports
and the revision line, which no code reads back, and the optional price namespace
are left out.

### LiveSummary, OpsViews and Phase14Publishing

`LiveSummary` derives from a week's inputs the fields of
`live_run_summary.json` that later stages branch on. `OpsViews` are the tables
computed from the history: the row of a week in the revision detail, the latest
view, transitions, runs and durations of regimes, alerts with their severities.
`Phase14Publishing` writes a snapshot as four files in four steps; a kill leaves
the file being written absent, or cut short where a reader would see that.
`clock` counts seconds of the size the history names have, and a publication whose
name exists is refused. The ops script loads the history twice and takes the time
twice, in three steps; audit and monitor are one step each, since what they write
is read by nobody. Daylight saving is ignored: `Cutoff` is a fixed delay
after the end of a week. The clock never steps back.

### SandboxOrders and WeeklyArtifacts

Policy, portfolio rows, targets, deltas and orders are whole numbers; money is
rounded down where the code multiplies floats. The sandbox resolves its snapshot
and loads it in one step, writes four files of the week and the latest summary.
The digest looks for the snapshot and opens it in two steps, because launchd
starts it whatever the operator does. The portfolio file is the operator's; its
week column is not compared with the week asked for, so any portfolio of `Portfolios` may
be there. `portfolio_delta_latest.json` is written by nothing, so a digest's delta
is the one of its week.

### PitStores

One security is followed, which may be renamed once. Days are business days,
as-of times are their ends, and a row becomes known on the day it is recorded,
which may be before or after the day it is about. An adjusted close is the raw
row together with the set of actions its factor multiplies, so that two values
are equal when they are computed from the same rows. `EndDay` keeps the answers
the weekly run got, to be compared with the same questions later.

### DailyMicro

A value is the day and the members it was computed from; a weekly median is the
set of the week's values and a z-score the median with its baseline, so that
scores are equal when they are computed from the same data. Weights are whole
numbers rounded down, disclosed with the snapshot. Constant prices and
correlations that are not finite are left out. A missing price window of one
member raises, and then every week is without a score, as in the code.

## What the runs check

Runs that must pass:

- **weekly_safety** (3 runs, 5 command lines, 3 attempts, 2 kills; symmetric):
  `TypeOK` (retries bounded), `MutualExclusion`, `OneRecordedSend`,
  `InsightContract` and `NoticeContract` (both channels refine `DigestDelivery`,
  the notice with nobody entitled to force). Three runs are what a stolen lock needs: one
  inside, one recovering, one arriving; two kills leave two abandoned states.
- **weekly_careless** (2 runs, recovery at any time, with and without resend, 1
  kill; fair): `NoLockLeak`, `ExitZeroMeansSent`, `StatusHonest`, `RunsEnd`,
  `LockReleased` survive a stolen lock. Two runs suffice to steal; `NoLockLeak`
  is also proved for any number.
- **live_replay** (2 prototypes, 6 weeks, bootstrap ending after any of them, 4 micro
  inputs of the batch and 5 of the live side in every pairing, warmup
  2, stale gap 2, 2 buffered samples, 2 heal weeks): `LiveMatchesReplay` and
  `PrototypesAgree` for the live kernel, `EveryWeekDecays`, `SeedSuffices`,
  `BufferIsRecent`, `HealMatchesSpec` for the loop. The 260 weeks of warmup, 26 of
  the gap, 4 samples and 3 heal weeks are scaled down so that the four weeks after warmup
  hold a full absence and a reactivation, and a week in which the envelopes part with
  the two that join them again.
- **portfolio_breaker** (5 weeks in all, up to 2 of them before the bootstrap, quarters, threshold a
  half, release after 2): `BreakerMatchesHistory`, `TracksTarget`, `TrippedStaysOut`,
  `LiveMatchesBacktest`. Five weeks hold trigger, interrupted release, release and
  retrigger; two past weeks hold a tripped breaker, a week held below the
  threshold, a degraded week and a weights file that is one or two weeks old.
- **live_state_saves** (2 weeks, 3 runs or bootstraps, 2 kills; fair):
  `LoadsOneSave`, `IsRegister`, `Recoverable`, `SavesEnd`. A rerun of either week
  replaces its archive and leaves the other's; a kill may fall inside the write of any file,
  twice in a row.
- **backfill_week** (4 operator scripts, 1 kill, 1 live run, the endpoint moves
  among 3 payloads, an archive may serve one in other bytes): `StrictNamespaceProven`,
  `ResultBacked`, `ControlledStaysControlled`. The payloads are good for strict,
  good for degraded only (a missing price, an override not yet in force), and
  good for neither. Four scripts are capture, normalize, backfill and one more of any kind
  between or after them; a second decision needs the latter.
- **publishing** (2 weeks, 3 summaries, one of them without a cluster, 3 publications, clock of 3, 1 kill, 1
  reader): `HistoryImmutable`, `LatestIsNewest`, `AuditMatchesPublications`,
  `MonitorConsistent`, `GreenMeansGood`. Three publications are a first, a
  superseded and a last one of one week; two may fall into one second; the clock
  passes the cutoff, and the ops script may begin before it and end after it.
- **weekly_artifacts** (2 weeks, 4 summaries, 2 live runs, 2 publications, 2
  sandbox runs, 1 digest, 1 kill, 2 portfolios per week): `DigestShowsItsWeek`,
  `OrdersNeedSignal`, `OrdersAffordable`, `SummaryMatchesFiles`. Two sandbox runs are
  what one week of two runs under one summary needs; the portfolios are all in
  one asset, and split with little cash.
- **pit_stores** (4 days, windows of 2 and 3, one close late by a day, 1
  correction, 1 rename, 1 action, 1 holding): `AnswersStand`, `WindowMatchesFormula`.
  Four days hold a window of three on both sides of a rename with a
  later as-of time; one row of each other kind suffices for every order in which
  two become known.
- **daily_micro** (3 tickers, 3 weeks of 2 days, grace 1, maturity 1 and 2,
  baseline 1 week, giant guard at rank 2): `AgesMatchHistory`, `WeeksStand`. Six days hold
  an absence past its grace and a return; three weeks are a scored one, one that
  is its successor's baseline, and one that could wrongly reach back.

Fairness. `WeeklyOrchestration`: weak fairness of each run's own steps, because
every command it waits for ends (Gemini is killed after 120 s, a request times
out, `Retry-After` is capped, the others are batch programs over local files).
`LiveState`: weak fairness of a run's own steps, for the same reason. Nothing is assumed
about starting runs, kills, or which answer comes. The other specifications are
checked for safety only and state no fairness. Deadlock is not checked
anywhere, because every model ends when its runs, weeks or days are used up.

Runs that must find a violation, each a disagreement between the code and what a
document or docstring says (quoted under `findings`):

- **backfill_unseen** (`StrictRecoveryAnswers`): the store files the backfill
  writes have the columns the strict gate asks for and lack those by which the resolver's readers
  look rows up. Concatenated with the files of other weeks, as the resolver does, they
  become rows without a date, which no query sees: the stores answer
  nothing for the recovered week, its freshness checks fail, and it is
  blocked. `README.md:74` says such a week may generate orders. Without any file
  that has those columns (the repository ships 273 weeks of them, none written by its own
  code) the readers raise instead.
- **pit_renamed_split** (`ActionsReachOldBars`; 3 days): a split after a rename
  scales no bar from before it, so that a window over both mixes two bases. The
  engine's docstring (`pit_adjustment.py:171`) has the product over all actions.

## Known disagreements without a run

Formulas that state what a document says and that do not hold. They stay in their
modules; each is checked by putting it in place of the INVARIANTS of the
configuration named, with the change given, and TLC shows the counterexample.

| Formula | Configuration | What is said, and what happens |
|---|---|---|
| `NoDuplicateSend` | `WeeklySafety` | the manual (`docs/weekly_digest_operator_manual.md:49`): the marker prevents duplicate sends; a run killed between the acknowledged post and the marker makes the next one post again |
| `LiveBranchMatchesReplay` | `LiveReplay` | `tests/test_live_runtime.py:141`: live weeks match the batch; after a missing or failed week the live index lags behind and a stale prototype is updated as if it were fresh |
| `EnvelopeMatchesReplay` | `LiveReplay` | `tests/test_live_runtime.py:176`: `rho_t` of strict rows should match closely; a week the batch holds is scored or decayed in the bootstrap, which passes no backfill mode, and the envelopes part until a top score or enough low ones came to both |
| `LiveBufferIsRecent` | `LiveReplay` with `MaxRows = 8` and one score in `MCMicros` | `docs/model-spec.md:345`: a buffer is for an absence; when the kernel goes live after missing weeks the week index falls back to `warmup_count`, and a stale prototype is fresh again with its samples still buffered |
| `StaleWeightDecaysOnce` | `LiveReplay` | `docs/model-spec.md:342,345`: the gap decays a weight once; a stale prototype's weight decays week by week, and once more over the whole gap |
| `BufferedMeansIdle` | `LiveReplay` | the same pages: only an idle prototype buffers; `last_active` is 0 after an initialisation in week 260 or later, so every prototype's first sample is buffered |
| `BlockedKeepsPosition` | `PortfolioBreaker`, with stale levels in `MCSignals` | `freshness.py:5`: "position must not change"; a blocked week with `rho_t` moves the persisted position |
| `BootstrapRestoresBreaker` | `PortfolioBreaker` | `bootstrap_live_state.py:7` names the circuit breaker among what it restores; it always starts off |
| `ArchiveIsWhole` | `LiveStateSaves` | `state_io.py:177`: two full copies; a kill while the archive is copied may leave its macro tail cut short beside a whole manifest, which `load_state` would accept once copied back |
| `EachWeekOnce` | `LiveStateSaves` with `FollowLog = TRUE` | `runtime.py:3`: one new week per call; a run killed between saving its state and logging its row, run again as the log suggests, consumes its week twice |
| `MaterialIsRevised` | `Publishing` | `docs/OPS_RUNBOOK.md` 4.1: the changed field triggers the material flag; a null cluster beside the clusters of other weeks is NaN in the loaded table (`revision_audit.py:148`), so that a week without a cluster is flagged although it was published once |
| `RerunRestoresHistory` | `Publishing` | `docs/OPS_RUNBOOK.md` 2.2: publish again; a history file cut short by a kill stays, and blocks every later reader |
| `StatusCoversRequiredWeek` | `Publishing` | `docs/OPS_RUNBOOK.md` 1.1: after the cutoff the week is required; when the cutoff passes between alerts and status, an OK names a required week it never looked for |
| `NoShortSale` | `WeeklyArtifacts` with `Portfolios <- MCCashPortfolios` | `configs/portfolio_policy_v1.yaml:31`: shorting not allowed; a change of weight measured without cash is multiplied by the value with cash, so with much cash more is sold than is held |

Others, seen while modelling and stated by no formula:

- A row's mode is `strict` whenever `h_t` exists, also when `theta_t` or `s_t` is
  missing and `rho_t` is null, although the docstring of `PipelineResult` says
  "full tuple".
- `raw_prices.py:49-50` says a row is visible from its as-of time on; line 106 looks
  at the newest row of a day only, so that a corrected close hides the one that was
  visible before and makes the earlier answer unavailable. `AnswersStand` excepts corrected closes for this reason.
- A window may end before its `end_date` (`pit_adjustment.py:124` against 277).
- A corporate action recorded twice, the second time to correct it, is multiplied
  twice (`corp_actions.py:128`).
- The first row after a day without data has a z-score weight of 1.0, although it
  is a priming row.
- The docstring at `pipeline.py:459` has weeks without sufficient data carry NaN; one
  member's missing window on one day empties the scores of every week (line 467).
  `backtest/strict_epoch_audit.py:20-21` calls dates before the epoch no production
  blockers; a missing window there does the same.
- `docs/plans/weekly_digest_orchestration_srd.md:45-47` has the digest use the
  latest sandbox summary, which may be of another week than its snapshot.

## What is proved

TLAPS proves, for every value of the constants that the named assumptions allow, all
safety properties of the passing runs, all their action properties, and all three
refinements. The bounds of the runs (weeks, runs, kills,
publications, days) are constants, so the theorems hold for any number of each.

- **WeeklyOrchestrationProofs**: `TypeOK`; under `CarefulRecovery`
  `MutualExclusion`, `OneRecordedSend` and that the orchestrator implements
  `DigestDelivery`, for the insight and for the notice; without it `NoLockLeak`,
  `ExitZeroMeansSent` and `StatusHonest`. Exclusion alone is
  not inductive: `LockInv` adds that a run past the lock made the directory that is
  there, and that recovery happens while nobody is past it and by one run at a
  time. The send results need `SendInv`: while an unforced run is between its second
  look at the marker and its own write of it, nobody else writes the marker. That
  step rests on exclusion. The notice needs the like (`NoticeInv`). What exit codes and
  status claim needs no exclusion, only `OutcomeInv`: a marker is written by runs whose
  post was acknowledged, and nothing removes it.
- **CycleKernelProofs**: `TypeOK`, `EveryWeekDecays`, `SeedSuffices`,
  `HealMatchesSpec`, `BufferIsRecent`. `KernelTyped` (the ranges the others need) comes first. The seed needs
  `SeedInv`: until the prototypes exist the seed is at least the warmup count, as a
  failed update appends to it and does not count. The envelope needs `HealInv`:
  `heal_count` is the run of low scores while that is shorter than `HealWeeks`, and a
  run that long has cleared the excess. `BufferInv` adds to `BufferIsRecent` that no
  prototype was last active after the current row. Of the live kernel beside the
  loop: `BatchInside`, that hiding it leaves a run of the batch loop, so that all this
  holds there too; `LiveMatchesReplay` and `PrototypesAgree`, by one invariant
  (`ReplayInv`): the kernels agree wherever an output can tell them apart, although
  their envelopes start from different values, the live side has no seed, and each
  has its own micro input. That needs, of the envelopes (`Joint`), that they have the same
  excess and, while it is not zero, the same heal counter unless `parted`; and that
  after `lows` low scores given to both since they parted each has counted so many or
  has no excess left.
- **Phase11BacktestProofs**: `TracksTarget`, `TrippedStaysOut`,
  `BreakerMatchesHistory`, `LiveMatchesBacktest`. The breaker's history needs
  `BreakerInv` and `OtherTail`: while the breaker is on, the counter is the number of
  weeks outside S1 that end the history. `SameInv` adds to the agreement of weight and
  breaker that of the counters while the breaker is on; while it is off the live
  counter and the backtest's may differ.
- **LiveStateProofs**: `TypeOK`, `LoadsOneSave`, `ArchiveIsItsWeek` and that the store
  implements `StateRegister` (`IsRegister`), for any number of weeks, runs and kills; `Recoverable`, for one kill. The inductive invariant adds, for each phase of a save,
  which files are already absent or written (`Phases`): a manifest exists in
  `latest` only over files of the same save, as it is written last and
  removed before any of them is rewritten. `CopiesInv` adds which of the two places
  holds the last state whole in each phase, by the kills so far. The refinement needs no
  more than `Phases`: the step that completes the manifest is the register's `Save`, the
  first file without which it does not load its `Clear`, the copy that makes the archive
  loadable, and the one that completes its tail after that, the archive's `Archive`, and every
  other file operation leaves both as load_state would see them.
- **BackfillStoresProofs**: `StrictNamespaceProven`, `ResultBacked`,
  `ControlledStaysControlled`. The first says of the stored rows what nothing in the
  code compares: that they are rows of a payload published by the cutoff. It takes
  `SourceInv` (once the endpoint's content is a published one, all it has served are,
  and if the raw payload is, so are the rows normalized from it) and `EvidenceInv`
  (a proof that is timely names a published content). `WritesInv` says which files a
  backfill run has already written.
- **WeeklyArtifactsProofs**, of `Phase14Publishing`: `HistoryImmutable` from
  `FreeKey`, that the name a publisher is about to write is free since it looked;
  `LatestIsNewest` and what the readers need from `HistoryInv`: the whole files are
  the publications, in the order of their seconds, no two of one name.
  `AuditMatchesPublications` shows that first and last by time, which the audit
  uses, are first and last by writing (`DetailRight`), and that this stays true of a
  prefix while publishers go on. `GreenMeansGood` follows an OK status back through alerts
  and the two loads (`LogRight`). Of `WeeklyArtifacts`: `DigestShowsItsWeek`, by what
  the digest knew when it chose its path (`DigesterInv`); `OrdersNeedSignal` and
  `SummaryMatchesFiles`, by `RunsInv`: a file is of a run about the week in its
  name, the run under way has written its first files, and it is later than the one
  the latest summary is of.
  `MonitorConsistent` and `OrdersAffordable` are about folds, and hold by induction
  over what is folded. For the first, `RunsCover` says what the runs made of the first
  k weeks of a view are, and `RunsOfView` proves it of every k; `EventsCounted` and
  `SumFibers` count the events and the transitions; `ViewOfHistory` shows that what the
  monitor loads is a view, its weeks going up. For the second, `Paid` says that the cash
  kept beside the simulated orders is what they leave of the cash before them and not
  negative; each sale and each purchase keeps it (`SellPaid`, `BuyPaid`, from the integer
  division in `CostFacts`), hence each side of the orders does (`SidePaid`).
- **PitStoresProofs**: `AnswersStand` and `WindowMatchesFormula`. Rows of today
  cannot change what was visible yesterday, except a correction (`AnswerStands`). A
  window is the formula's on the day it is computed (`WindowAtDayEnd`, which compares
  the bars under either symbol), and later rows change neither (`FormulaStands`).
- **DailyMicroProofs**: `AgesMatchHistory` by `AgesInv`, which says of each tracked
  ticker when it was last a member and of every other that nothing in its history
  counts; `WeeksStand`, as a day's record falls into a week that is not over.

The type invariants of `CycleKernel` and `LiveState`, and `ArchiveIsItsWeek`, are theorems
only; no run spends a check on them.

Assumptions: counters are naturals, `HealWeeks`, `ReadySamples` and `ReleaseWeeks`
positive, the heal level is not above neutral, the decay never grows, `NoRun` is no
run, `NoCluster` no prototype; a signal with `rho_t` is strict and has a cluster
(`PortfolioAssumption`); a summary carries the execution state that its stale levels
and mode give, and only a week without a strict backfill freezes the micro layer
(`SummaryAssumption`, `FrozenAssumption`; the lemma `SummariesFit` proves that every
summary of a live run is so); the policy has a sequence of assets, weights up to the largest allowed, and costs that
leave something of the smallest order, as `configs/portfolio_policy_v1.yaml` has (no
commission, 5 basis points, 100 at least) (`PolicyAssumption`, `FrictionAssumption`);
a file that is missing or cut short, and an error, are told from what a file or
an answer may hold (`ContentAssumption`, `EvidenceAssumption`, `ErrorAssumption`). TLC
evaluates each of them in the runs.

Only model-checked:

- `RunsEnd`, `LockReleased`, `SavesEnd`: liveness under fairness is beyond the prover.

Induction. The library's induction theorems take the predicate as an operator, which
none of the provers can instantiate. With a set in its place they can be used:
`NatSetInduction` follows from the least element of a set of numbers, which
`NatLessThanWellFounded` and `WFMin` give, and `SubsetInduction`, `SubsetRecursion` and
`FiniteInduction` follow from it by cardinality. A fold of the community modules
unfolds to `CHOOSE g : g = ...` over the subsets of what is folded; `SubsetRecursion`
shows that there is such a function, `SubsetInduction` what it computes.
## Not modelled, and why

- Floating-point series (state, stress and drift layers; breadth, concentration and
  scores as numbers) have no control state; the kernel takes what they deliver as
  input.
- Returns, costs and metrics of the backtests, replays, diagnostics, robustness
  and explanation reports, dashboards: they read finished series and write what
  nothing reads back.
- Capture of prices, seeding and migration scripts: network input and file
  conversion. The capture of holdings, which carries the proof, is modelled.
- The report sanitizer: an allowlist over one file, without state; it is a build stage
  of the orchestrator that may fail.
- The macro price reader and the spread override: readers of one CSV each.
- The stores that tests keep in memory, the engines over cached prices, the rule
  calendar and chains of renames.
- Two live runs at once, and two operator scripts at once: nothing locks them, and
  the documents have one operator. What would happen follows from the removal in
  `state_io.py:190-193`: two runs write one directory.
- Failures of single fields: a symbol without a price row, or a score in no bucket of
  the policy, ends a sandbox run before it writes anything.

## Plan

What is left, in this order:

1. Abstract specification: a history register that `Phase14Publishing` implements.
2. Composition: the scores of `DailyMicro` as the input of `CycleKernel`; the
   backfill's resolver as the input of `LiveReplay`.
3. Chains of renames and renames that are corrected in `PitStores`; freshness dates in
   `LivePortfolio`.
