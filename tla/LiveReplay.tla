----------------------------- MODULE LiveReplay ------------------------------
(***************************************************************************)
(* The live kernel beside the batch pipeline on one stream of weeks.       *)
(* scripts/bootstrap_live_state.py replays the history through             *)
(* _run_pipeline_step (qqq_cycle/live/runtime.py) and persists the state;  *)
(* from then on run_week advances the persisted state one week at a time.  *)
(* The batch pipeline, CycleKernel, replays everything.  _run_pipeline_step*)
(* is "the loop body from run_pipeline() lifted into a standalone          *)
(* function"; the two still differ in the initial envelope, in the week    *)
(* index, in the seed the live side drops, and in the micro input: each    *)
(* resolves its own contracts, and the bootstrap knows no backfill mode.   *)
(* theta_t comes from the same macro rows; a prototype's nearest point is  *)
(* an input, so both sides are offered the same assignment.                *)
(***************************************************************************)
EXTENDS CycleKernel

CONSTANT LiveInputs    \* what the live side's contracts may deliver for a week

ASSUME LiveInputsAssumption == LiveInputs \subseteq Micros

VARIABLES
    live,      \* bootstrap is over: weeks go through run_week
    lcov, lproto, lmicro, lout,    \* the kernel state that is persisted
    \* History, for the properties only:
    alike,     \* the last week had a score on both sides or on neither
    parted,    \* the envelopes were given different weeks and may differ since
    lows       \* low scores in a row both envelopes were given since they parted

lkernel  == <<lcov, lproto, lmicro, lout>>
lhistory == <<alike, parted, lows>>
lvars    == <<vars, live, lkernel, lhistory>>

\* bootstrap starts the envelope from 0.0, the batch pipeline from 0.5.
LiveInit ==
    /\ Init
    /\ live = FALSE
    /\ lcov = ColdCov /\ lproto = NoProto /\ lout = Silent
    /\ lmicro = [lead |-> 0, heal |-> 0]
    /\ alike = TRUE /\ parted = FALSE /\ lows = 0

\* proto_seed is emptied when the prototypes are initialised from it.
DropSeed(p) == IF p.up THEN [p EXCEPT !.seed = 0] ELSE p

\* _run_pipeline_step over the live state, with week index t.
PipelineStep(theta, mine, t) ==
    /\ lcov' = CovUpdate(lcov, theta.kind)
    /\ lproto' = DropSeed(ProtoAfter(lcov, lproto, theta, t))
    /\ lmicro' = MicroAfter(lcov, lmicro, mine)
    /\ lout' = OutAfter(lcov, lproto, theta, mine, t)

\* The envelopes part in a week only one of them is advanced, or the two with
\* different scores; a top score, or HealWeeks low ones, joins them again.
Joins(in) == in.h # NoLevel /\ (in.h = TopLevel \/ (in.h < HealLevel /\ lows + 1 >= HealWeeks))

RecordJoin(in, mine) ==
    CASE ~IsWarm(cov) \/ {in.gate, mine.gate} \subseteq {"held", "closed"} ->
           UNCHANGED <<parted, lows>>
      [] IsWarm(cov) /\ "open" \in {in.gate, mine.gate} /\ in # mine ->
           parted' = TRUE /\ lows' = 0
      [] IsWarm(cov) /\ in.gate = "open" /\ in = mine ->
           /\ parted' = (parted /\ ~Joins(in))
           /\ lows' = IF parted' /\ in.h < HealLevel THEN lows + 1 ELSE 0

\* A week of which the batch is given in, the live side mine.
BothWeek(theta, in, mine, t) ==
    /\ Week(theta, in)
    /\ PipelineStep(theta, mine, t)
    /\ alike' = (Scored(in) = Scored(mine))
    /\ RecordJoin(in, mine)
    /\ UNCHANGED live

\* Fault: the bootstrap counts weeks from one.
BootstrapWeekFromOne(theta, in, mine) ==
    /\ ~live /\ mine.gate # "held"
    /\ BothWeek(theta, in, mine, row + 1)

\* bootstrap_live_state.py: week_idx enumerates the rows, as in the batch loop,
\* but no backfill mode is passed: a week the batch holds is not held here.
BootstrapWeek(theta, in, mine) ==
    /\ ~live /\ mine.gate # "held"
    /\ BothWeek(theta, in, mine, row)

\* The bootstrap persists what it replayed; at least one week.
GoLive ==
    /\ ~live /\ row > 0
    /\ live' = TRUE
    /\ UNCHANGED <<vars, lkernel, lhistory>>

\* Fault: pending_missing_steps is not persisted between runs.
RunWeekForgetsPending(theta, in, mine) ==
    /\ live
    /\ Week(theta, in)
    /\ lcov' = CovUpdate([lcov EXCEPT !.pending = 0], theta.kind)
    /\ lproto' = DropSeed(ProtoAfter(lcov, lproto, theta, lcov.warm))
    /\ lmicro' = MicroAfter(lcov, lmicro, mine)
    /\ lout' = OutAfter(lcov, lproto, theta, mine, lcov.warm)
    /\ alike' = (Scored(in) = Scored(mine))
    /\ RecordJoin(in, mine)
    /\ UNCHANGED live

\* run_week: the week index is state.warmup_count, the covariance's count of
\* finite updates; contracts and mode are those resolved for this week alone.
RunWeek(theta, in, mine) ==
    /\ live
    /\ BothWeek(theta, in, mine, lcov.warm)

LiveNext ==
    \/ \E theta \in ThetaInputs, in \in MicroInputs, mine \in LiveInputs :
         BootstrapWeek(theta, in, mine) \/ RunWeek(theta, in, mine)
    \/ GoLive

LiveSpec == LiveInit /\ [][LiveNext]_lvars

-----------------------------------------------------------------------------
\* Hot restart loses nothing of the covariance, of whether the prototypes are
\* up, and of the signal, although the live side starts its envelope elsewhere
\* and drops the seed; a week shows the mode and rho_t of the replay if both had
\* a score or neither. The envelopes decay from the same excess until the two
\* are given different weeks, and again once a top score, or as many low ones
\* in a row as heal, came to both (runtime.py:99-300, pipeline.py:602-803).
LiveMatchesReplay ==
    /\ lcov = cov
    /\ lproto.up = proto.up /\ (~proto.up => lproto = proto)
    /\ lout.signal = out.signal /\ lout.k = out.k
    /\ alike => lout.mode = out.mode /\ lout.rho = out.rho
    /\ ~parted => Excess(lmicro.lead) = Excess(micro.lead)

\* The prototypes agree as well as long as no week was missing or failed; and
\* whatever was missing before, during the bootstrap (runtime.py:528 gives
\* warmup_count, bootstrap_live_state.py:207 the row, as week index). The micro
\* inputs, however different, do not reach them.
ShownPrototype(o) == <<o.signal, o.k, o.branch, o.gap, o.decayed>>
PrototypesAgree ==
    (row = cov.warm \/ ~live) =>
        /\ ShownPrototype(lout) = ShownPrototype(out)
        /\ alike => lout = out
        /\ proto.up => lproto = [proto EXCEPT !.seed = 0]

\* "For strict rows, rho_t should match closely" (tests/test_live_runtime.py:176)
\* needs the envelopes to match. Does not hold once the two were given different
\* weeks: the bootstrap advances through weeks the batch holds (see README).
EnvelopeMatchesReplay == Excess(lmicro.lead) = Excess(micro.lead)

\* BufferIsRecent of the live prototypes. Does not hold: the week index falls
\* back from the row to warmup_count when the kernel goes live, so a prototype
\* may be fresh again with samples still in its buffer (see README).
LiveBufferIsRecent ==
    (lout.branch = "fresh") => lproto.buf[lout.k] = 0

\* "Two consecutive live runs match a two-row batch extension"
\* (tests/test_live_runtime.py:141): the live week takes the replay's branch.
\* Does not hold after a missing or failed week (see README).
LiveBranchMatchesReplay == lout.branch = out.branch
=============================================================================
