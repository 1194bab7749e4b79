------------------------- MODULE WeeklyOrchestration -------------------------
(***************************************************************************)
(* scripts/run_weekly_orchestration.sh and src/output/send_insight.py, as  *)
(* seen from one WEEK_DIR.  Each run is one invocation of the script by    *)
(* launchd or by an operator; runs interleave at every external command,   *)
(* may be killed at any point (the EXIT trap then does not fire), and      *)
(* share the lock directory, the two marker files and run_status.json.     *)
(* A run's own artifacts live in a RUN_DIR named after its RUN_ID and are  *)
(* shared with nobody, so they are not state here.                         *)
(***************************************************************************)
EXTENDS Integers, FiniteSets

CONSTANTS
    Runs,             \* invocations of the script on this week directory
    Invocations,      \* the command lines the runs may be given
    MaxAttempts,      \* MAX_ATTEMPTS of send_insight.py
    MaxCrashes,       \* bound: runs killed before their EXIT trap
    CarefulRecovery,  \* the operator passes --recover-stale-lock only over a
                      \* lock left behind, with no other run alive
    NoRun             \* nobody holds the lock; no status written yet

Options == [dry : BOOLEAN, rerun : BOOLEAN, resend : BOOLEAN, recover : BOOLEAN]

ASSUME InvocationsAssumption == Invocations \subseteq Options
ASSUME AttemptsAssumption    == MaxAttempts \in Nat \ {0}
ASSUME CrashesAssumption     == MaxCrashes \in Nat
ASSUME CarefulAssumption     == CarefulRecovery \in BOOLEAN
ASSUME NoRunAssumption       == NoRun \notin Runs

VARIABLES
    pc,          \* where each run is in the script
    opts,        \* its command line
    attempt,     \* requests it has had rejected with HTTP 429
    exitCode,    \* its exit status, -1 while it has none
    lock,        \* run whose mkdir made .run_lock; the code stores no owner
    sentMarker,  \* sent_discord.ok exists
    errMarker,   \* notified_error_gemini.ok exists
    status,      \* run_status.json
    insights,    \* how many insights of each run reached the channel
    acked,       \* runs whose insight the channel acknowledged with a 2xx
    notices      \* how many failure notices of each run reached it

files == <<sentMarker, errMarker, status>>
chan  == <<insights, acked, notices>>
vars  == <<pc, opts, attempt, exitCode, lock, files, chan>>

BuildStages == {"main_report", "json_validation", "sanitizer"}

\* Labels before the lock is taken, and from the lock to the EXIT trap.
Outside == {"lock", "reclaim", "remake"}
Inside  == {"env", "marker", "prompt", "gemini", "recheck", "send", "mark_sent",
            "success", "discord_failed", "fallback", "mark_notified",
            "notice_failed", "gemini_failed", "exit"} \cup BuildStages
Labels  == {"idle", "ended", "crashed"} \cup Outside \cup Inside

\* Where the script itself writes a file, outside the condition of an if.
Writing == BuildStages \cup {"marker", "gemini", "recheck", "mark_sent", "success",
              "discord_failed", "mark_notified", "notice_failed", "gemini_failed"}

Alive(r)     == pc[r] \in Outside \cup Inside
InScript(r)  == pc[r] \in Inside

StatusStages == BuildStages \cup {"dry_run", "gemini", "sent_marker", "discord", "success"}
Statuses     == [run : Runs, stage : StatusStages, success : BOOLEAN]
NoStatus     == [run |-> NoRun, stage |-> "none", success |-> FALSE]

-----------------------------------------------------------------------------
Init ==
    /\ pc = [r \in Runs |-> "idle"]
    /\ opts \in [Runs -> Invocations]
    /\ attempt = [r \in Runs |-> 0]
    /\ exitCode = [r \in Runs |-> -1]
    /\ lock = NoRun
    /\ sentMarker = FALSE
    /\ errMarker = FALSE
    /\ status = NoStatus
    /\ insights = [r \in Runs |-> 0]
    /\ acked = {}
    /\ notices = [r \in Runs |-> 0]

Goto(r, label) == pc' = [pc EXCEPT ![r] = label]

\* `exit code` once the trap is set: the trap is still to run.
Exit(r, code) ==
    /\ Goto(r, "exit")
    /\ exitCode' = [exitCode EXCEPT ![r] = code]

\* write_status: temporary file, then mv over run_status.json.
WriteStatus(r, stage, success) ==
    status' = [run |-> r, stage |-> stage, success |-> success]

\* fail_with_status: the status of the failed stage, then exit 1.
FailWithStatus(r, stage) ==
    /\ WriteStatus(r, stage, FALSE)
    /\ Exit(r, 1)

-----------------------------------------------------------------------------
\* The invocation: launchd on Friday, an operator at any time.
Start(r) ==
    /\ pc[r] = "idle"
    /\ (CarefulRecovery /\ opts[r].recover)
          => (lock # NoRun /\ \A s \in Runs : ~Alive(s))
    /\ Goto(r, "lock")
    /\ UNCHANGED <<opts, attempt, exitCode, lock, files, chan>>

\* Fault: the lock is taken with mkdir -p, which never fails.
TakeLockMkdirP(r) ==
    /\ pc[r] = "lock"
    /\ lock' = r
    /\ Goto(r, "env")
    /\ UNCHANGED <<opts, attempt, exitCode, files, chan>>

\* mkdir "$LOCK_DIR" succeeds: the trap is set.
TakeLock(r) ==
    /\ pc[r] = "lock"
    /\ lock = NoRun
    /\ lock' = r
    /\ Goto(r, "env")
    /\ UNCHANGED <<opts, attempt, exitCode, files, chan>>

\* Fault: the run waits for the lock instead of giving up.
LockBusyWaits(r) ==
    /\ pc[r] = "lock"
    /\ lock # NoRun
    /\ ~opts[r].recover
    /\ UNCHANGED vars

\* mkdir fails and the run was not told to recover: exit 1, no trap, no status.
LockBusy(r) ==
    /\ pc[r] = "lock"
    /\ lock # NoRun
    /\ ~opts[r].recover
    /\ Goto(r, "ended")
    /\ exitCode' = [exitCode EXCEPT ![r] = 1]
    /\ UNCHANGED <<opts, attempt, lock, files, chan>>

\* mkdir fails and --recover-stale-lock was given.
StartReclaim(r) ==
    /\ pc[r] = "lock"
    /\ lock # NoRun
    /\ opts[r].recover
    /\ Goto(r, "reclaim")
    /\ UNCHANGED <<opts, attempt, exitCode, lock, files, chan>>

\* rm -rf "$LOCK_DIR", whoever made it.
RemoveLock(r) ==
    /\ pc[r] = "reclaim"
    /\ lock' = NoRun
    /\ Goto(r, "remake")
    /\ UNCHANGED <<opts, attempt, exitCode, files, chan>>

\* Fault: the second mkdir is a mkdir -p.
RemakeLockMkdirP(r) ==
    /\ pc[r] = "remake"
    /\ lock' = r
    /\ Goto(r, "env")
    /\ UNCHANGED <<opts, attempt, exitCode, files, chan>>

\* The second mkdir; under set -e its failure ends the run before the trap.
RemakeLock(r) ==
    /\ pc[r] = "remake"
    /\ \/ /\ lock = NoRun
          /\ lock' = r
          /\ Goto(r, "env")
          /\ UNCHANGED exitCode
       \/ /\ lock # NoRun
          /\ Goto(r, "ended")
          /\ exitCode' = [exitCode EXCEPT ![r] = 1]
          /\ UNCHANGED lock
    /\ UNCHANGED <<opts, attempt, files, chan>>

\* Fault: the trap is set only after .env was read.
LoadSafeEnvUntrapped(r) ==
    /\ pc[r] = "env"
    /\ \/ Goto(r, "marker") /\ UNCHANGED exitCode
       \/ Goto(r, "ended") /\ exitCode' = [exitCode EXCEPT ![r] = 1]
    /\ UNCHANGED <<opts, attempt, lock, files, chan>>

\* load_safe_env: a .env whose mode is not 0600 ends the run under set -e,
\* with no status written.
LoadSafeEnv(r) ==
    /\ pc[r] = "env"
    /\ \/ Goto(r, "marker") /\ UNCHANGED exitCode
       \/ Exit(r, 1)
    /\ UNCHANGED <<opts, attempt, lock, files, chan>>

\* First look at sent_discord.ok: skip the week unless told otherwise.
CheckSentMarker(r) ==
    /\ pc[r] = "marker"
    /\ IF sentMarker /\ ~opts[r].resend /\ ~opts[r].rerun
         THEN Exit(r, 0)
         ELSE Goto(r, "main_report") /\ UNCHANGED exitCode
    /\ UNCHANGED <<opts, attempt, lock, files, chan>>

AfterStage == [s \in BuildStages |->
    CASE s = "main_report"     -> "json_validation"
      [] s = "json_validation" -> "sanitizer"
      [] s = "sanitizer"       -> "prompt"]

\* src/main.py, json.tool and the sanitizer: each fails with its own status.
BuildStage(r) ==
    /\ pc[r] \in BuildStages
    /\ \/ Goto(r, AfterStage[pc[r]]) /\ UNCHANGED <<exitCode, status>>
       \/ FailWithStatus(r, pc[r])
    /\ UNCHANGED <<opts, attempt, lock, sentMarker, errMarker, chan>>

\* The inline prompt builder is not guarded: set -e ends the run, no status.
BuildPrompt(r) ==
    /\ pc[r] = "prompt"
    /\ \/ Goto(r, "gemini") /\ UNCHANGED exitCode
       \/ Exit(r, 1)
    /\ UNCHANGED <<opts, attempt, lock, files, chan>>

\* --dry-run stops here.
EndDryRun(r) ==
    /\ pc[r] = "gemini"
    /\ opts[r].dry
    /\ WriteStatus(r, "dry_run", TRUE)
    /\ Exit(r, 0)
    /\ UNCHANGED <<opts, attempt, lock, sentMarker, errMarker, chan>>

\* GEMINI_CMD in neither the environment nor .env.
GeminiMissing(r) ==
    /\ pc[r] = "gemini"
    /\ ~opts[r].dry
    /\ FailWithStatus(r, "gemini")
    /\ UNCHANGED <<opts, attempt, lock, sentMarker, errMarker, chan>>

\* The interpreter answers within its 120 s with a non-empty insight.
GeminiAnswers(r) ==
    /\ pc[r] = "gemini"
    /\ ~opts[r].dry
    /\ Goto(r, "recheck")
    /\ UNCHANGED <<opts, attempt, exitCode, lock, files, chan>>

\* Fault: the failure notice does not look at its marker.
GeminiFailsUnchecked(r) ==
    /\ pc[r] = "gemini"
    /\ ~opts[r].dry
    /\ Goto(r, "fallback")
    /\ UNCHANGED <<opts, attempt, exitCode, lock, files, chan>>

\* It fails, times out or answers nothing: notify unless already notified.
GeminiFails(r) ==
    /\ pc[r] = "gemini"
    /\ ~opts[r].dry
    /\ Goto(r, IF errMarker THEN "gemini_failed" ELSE "fallback")
    /\ UNCHANGED <<opts, attempt, exitCode, lock, files, chan>>

\* Fault: the second look repeats the condition of the first.
RecheckSentMarkerRerun(r) ==
    /\ pc[r] = "recheck"
    /\ IF sentMarker /\ ~opts[r].resend /\ ~opts[r].rerun
         THEN WriteStatus(r, "sent_marker", TRUE) /\ Exit(r, 0)
         ELSE Goto(r, "send") /\ UNCHANGED <<exitCode, status>>
    /\ UNCHANGED <<opts, attempt, lock, sentMarker, errMarker, chan>>

\* Second look at sent_discord.ok: a --rerun stops short of a second send.
RecheckSentMarker(r) ==
    /\ pc[r] = "recheck"
    /\ IF sentMarker /\ ~opts[r].resend
         THEN WriteStatus(r, "sent_marker", TRUE) /\ Exit(r, 0)
         ELSE Goto(r, "send") /\ UNCHANGED <<exitCode, status>>
    /\ UNCHANGED <<opts, attempt, lock, sentMarker, errMarker, chan>>

-----------------------------------------------------------------------------
\* _post_webhook of send_insight.py, for either message.
Posting(r) == pc[r] \in {"send", "fallback"}

\* Fault: the exit status of send_insight.py is ignored.
AfterPostIgnored(r, ok) ==
    Goto(r, IF pc[r] = "send" THEN "mark_sent" ELSE "mark_notified")

\* Fault: the marker is not written after a successful send.
AfterPostUnmarked(r, ok) ==
    Goto(r, CASE pc[r] = "send" /\ ok      -> "success"
              [] pc[r] = "send" /\ ~ok     -> "discord_failed"
              [] pc[r] = "fallback" /\ ok  -> "gemini_failed"
              [] pc[r] = "fallback" /\ ~ok -> "notice_failed")

AfterPost(r, ok) ==
    Goto(r, CASE pc[r] = "send" /\ ok      -> "mark_sent"
              [] pc[r] = "send" /\ ~ok     -> "discord_failed"
              [] pc[r] = "fallback" /\ ok  -> "mark_notified"
              [] pc[r] = "fallback" /\ ~ok -> "notice_failed")

Deliver(r) ==
    IF pc[r] = "send"
    THEN insights' = [insights EXCEPT ![r] = @ + 1] /\ UNCHANGED notices
    ELSE notices' = [notices EXCEPT ![r] = @ + 1] /\ UNCHANGED insights

\* The message arrives and the 2xx comes back.
PostAcknowledged(r) ==
    /\ Posting(r)
    /\ Deliver(r)
    /\ acked' = IF pc[r] = "send" THEN acked \cup {r} ELSE acked
    /\ AfterPost(r, TRUE)
    /\ UNCHANGED <<opts, attempt, exitCode, lock, files>>

\* The message arrives and the answer is lost: the socket times out, and
\* only HTTP 429 is ever retried.
PostAnswerLost(r) ==
    /\ Posting(r)
    /\ Deliver(r)
    /\ AfterPost(r, FALSE)
    /\ UNCHANGED <<opts, attempt, exitCode, lock, files, acked>>

\* Fault: one retry too many.
PostRateLimitedOnceMore(r) ==
    /\ Posting(r)
    /\ attempt[r] < MaxAttempts
    /\ attempt' = [attempt EXCEPT ![r] = @ + 1]
    /\ UNCHANGED <<pc, opts, exitCode, lock, files, chan>>

\* HTTP 429 with a tolerable Retry-After: sleep and try again.
PostRateLimited(r) ==
    /\ Posting(r)
    /\ attempt[r] < MaxAttempts - 1
    /\ attempt' = [attempt EXCEPT ![r] = @ + 1]
    /\ UNCHANGED <<pc, opts, exitCode, lock, files, chan>>

\* No webhook, no connection, another HTTP error, a 429 on the last attempt
\* or with a Retry-After above 300 s: nothing arrived, send_insight exits 1.
PostRejected(r) ==
    /\ Posting(r)
    /\ AfterPost(r, FALSE)
    /\ UNCHANGED <<opts, attempt, exitCode, lock, files, chan>>

-----------------------------------------------------------------------------
\* write_marker_atomic sent_discord.ok, then (a separate step) the status.
MarkSent(r) ==
    /\ pc[r] = "mark_sent"
    /\ sentMarker' = TRUE
    /\ Goto(r, "success")
    /\ UNCHANGED <<opts, attempt, exitCode, lock, errMarker, status, chan>>

ReportSuccess(r) ==
    /\ pc[r] = "success"
    /\ WriteStatus(r, "success", TRUE)
    /\ Exit(r, 0)
    /\ UNCHANGED <<opts, attempt, lock, sentMarker, errMarker, chan>>

DiscordFailed(r) ==
    /\ pc[r] = "discord_failed"
    /\ FailWithStatus(r, "discord")
    /\ UNCHANGED <<opts, attempt, lock, sentMarker, errMarker, chan>>

\* write_marker_atomic notified_error_gemini.ok.
MarkNotified(r) ==
    /\ pc[r] = "mark_notified"
    /\ errMarker' = TRUE
    /\ Goto(r, "gemini_failed")
    /\ UNCHANGED <<opts, attempt, exitCode, lock, sentMarker, status, chan>>

\* Interpretation failed, whether the notice went out, failed or was skipped.
GeminiFailed(r) ==
    /\ pc[r] \in {"gemini_failed", "notice_failed"}
    /\ FailWithStatus(r, "gemini")
    /\ UNCHANGED <<opts, attempt, lock, sentMarker, errMarker, chan>>

\* A line of the log, a marker or the status cannot be written (the disk is
\* full): set -e ends the run, and the marker or status is what it was.
WriteFails(r) ==
    /\ pc[r] \in Writing
    /\ Exit(r, 1)
    /\ UNCHANGED <<opts, attempt, lock, files, chan>>

\* Fault: the trap leaves the lock directory (an rmdir that fails).
CleanupKeepsLock(r) ==
    /\ pc[r] = "exit"
    /\ Goto(r, "ended")
    /\ UNCHANGED <<opts, attempt, exitCode, lock, files, chan>>

\* trap cleanup EXIT: rm -rf "$LOCK_DIR", whoever made it.
Cleanup(r) ==
    /\ pc[r] = "exit"
    /\ lock' = NoRun
    /\ Goto(r, "ended")
    /\ UNCHANGED <<opts, attempt, exitCode, files, chan>>

\* SIGKILL or power loss: no trap, the lock directory stays.
Crash(r) ==
    /\ Alive(r)
    /\ Cardinality({s \in Runs : pc[s] = "crashed"}) < MaxCrashes
    /\ Goto(r, "crashed")
    /\ UNCHANGED <<opts, attempt, exitCode, lock, files, chan>>

-----------------------------------------------------------------------------
Acquire(r) == TakeLock(r) \/ LockBusy(r) \/ StartReclaim(r) \/ RemoveLock(r) \/ RemakeLock(r)
Prepare(r) == LoadSafeEnv(r) \/ CheckSentMarker(r) \/ BuildStage(r) \/ BuildPrompt(r) \/ EndDryRun(r)
Interpret(r) == GeminiMissing(r) \/ GeminiAnswers(r) \/ GeminiFails(r) \/ RecheckSentMarker(r)
PostWebhook(r) == PostAcknowledged(r) \/ PostAnswerLost(r) \/ PostRateLimited(r) \/ PostRejected(r)
Conclude(r) == MarkSent(r) \/ ReportSuccess(r) \/ DiscordFailed(r) \/ MarkNotified(r)
                 \/ GeminiFailed(r) \/ WriteFails(r) \/ Cleanup(r)

\* The script's own steps: what scheduling drives once a run has begun.
Step(r) == Acquire(r) \/ Prepare(r) \/ Interpret(r) \/ PostWebhook(r) \/ Conclude(r)

Next == \E r \in Runs : Start(r) \/ Step(r) \/ Crash(r)

Spec == Init /\ [][Next]_vars

\* Every command the script waits for ends: Gemini is killed after 120 s, a
\* webhook request times out, Retry-After is capped, and the report, JSON and
\* sanitizer commands are batch programs over local files.
Fairness == \A r \in Runs : WF_vars(Step(r))

FairSpec == Spec /\ Fairness

-----------------------------------------------------------------------------
RunTypes ==
    /\ pc \in [Runs -> Labels]
    /\ opts \in [Runs -> Invocations]
    /\ attempt \in [Runs -> 0 .. MaxAttempts - 1]
    /\ exitCode \in [Runs -> {-1, 0, 1}]
    /\ lock \in Runs \cup {NoRun}
    /\ status \in Statuses \cup {NoStatus}
    /\ insights \in [Runs -> Nat]
    /\ acked \subseteq Runs
    /\ notices \in [Runs -> Nat]

MarkerTypes == sentMarker \in BOOLEAN /\ errMarker \in BOOLEAN

\* Every variable stays in its range; the retries of one post are bounded.
TypeOK == RunTypes /\ MarkerTypes

\* Two runs are never past the lock of the same week together
\* (scripts/run_weekly_orchestration.sh:258-268).
MutualExclusion == \A r, s \in Runs : InScript(r) /\ InScript(s) => r = s

\* A lock directory nobody alive will remove was left by a killed run: no
\* ordinary exit, early return or lost race for the lock leaves one behind.
NoLockLeak == lock # NoRun => InScript(lock) \/ pc[lock] = "crashed"

\* Of the runs not told to --resend, at most one both posts the insight and
\* lives to record it; every further copy of the insight comes from a run that
\* was killed, lost the answer or failed to write between post and marker.
Recorded(r) == r \in acked /\ (pc[r] = "success" \/ exitCode[r] = 0)
OneRecordedSend ==
    \A r, s \in Runs :
        (Recorded(r) /\ Recorded(s) /\ ~opts[r].resend /\ ~opts[s].resend) => r = s

\* A run that is not a dry run and exits 0 leaves the week marked as sent, by
\* an insight the channel acknowledged, on each of the three ways to exit 0.
ExitZeroMeansSent ==
    \A r \in Runs : (exitCode[r] = 0 /\ ~opts[r].dry) => (sentMarker /\ acked # {})

\* run_status.json never claims more than happened: a success of stage
\* "success" or "sent_marker" only over an acknowledged, marked insight, a
\* "dry_run" only by a run that posted nothing.
StatusHonest ==
    status.success =>
        \/ status.stage = "dry_run" /\ insights[status.run] + notices[status.run] = 0
        \/ status.stage = "sent_marker" /\ sentMarker /\ acked # {}
        \/ status.stage = "success" /\ sentMarker /\ status.run \in acked

\* What the manual says: sent_discord.ok prevents duplicate successful sends
\* (docs/weekly_digest_operator_manual.md:49). Does not hold for a run killed
\* between the acknowledged post and its marker (see README).
NoDuplicateSend ==
    \A r, s \in acked : ~opts[r].resend /\ ~opts[s].resend => r = s

\* Why the lock excludes, as an inductive invariant: a run past the lock made
\* the directory that is there now; a run recovering the lock does so while the
\* lock is there and nobody is past it; and only one run recovers at a time.
Recovering(r) == pc[r] \in {"lock", "reclaim"} /\ opts[r].recover
LockInv ==
    /\ \A r \in Runs : InScript(r) => lock = r
    /\ \A r \in Runs : pc[r] \in {"reclaim", "remake"} => opts[r].recover
    /\ \A r \in Runs : Recovering(r) => lock # NoRun /\ \A s \in Runs : ~InScript(s)
    /\ \A r, s \in Runs :
         (/\ pc[r] \in Outside /\ opts[r].recover
          /\ pc[s] \in Outside /\ opts[s].recover) => r = s

\* Why one unforced run records: between its second look at the marker and its
\* own write of it no other run writes it; a post happens once per run, at its
\* place in the script; and a recorded run has the marker behind it.
AfterSend == {"mark_sent", "success", "discord_failed", "exit", "ended", "crashed"}
SendInv ==
    /\ \A r \in Runs : (pc[r] \in {"send", "mark_sent"} /\ ~opts[r].resend) => ~sentMarker
    /\ \A r \in Runs : insights[r] # 0 => pc[r] \in AfterSend
    /\ \A r \in acked : insights[r] = 1
    /\ \A r \in Runs : pc[r] \in {"mark_sent", "success"} => r \in acked
    /\ \A r \in Runs : exitCode[r] # -1 => pc[r] \in {"exit", "ended", "crashed"}
    /\ \A r \in Runs : Recorded(r) => sentMarker

\* The insight and the failure notice both follow the delivery contract, each
\* over its own marker; only --resend may force an insight, nothing a notice.
InsightDelivery == INSTANCE DigestDelivery WITH
    marker <- sentMarker, posted <- insights, forced <- {r \in Runs : opts[r].resend}
NoticeDelivery == INSTANCE DigestDelivery WITH
    marker <- errMarker, posted <- notices, forced <- {}

\* The insight channel implements the delivery contract.
InsightContract == InsightDelivery!Spec
\* The failure-notice channel implements it with no run entitled to force.
NoticeContract == NoticeDelivery!Spec

\* Every run that begins ends, whatever the commands answer.
RunsEnd == \A r \in Runs : (pc[r] = "lock") ~> ~Alive(r)

\* A lock is given up by the run that made it, unless that run is killed.
LockReleased == \A r \in Runs : (lock = r) ~> (lock # r \/ pc[r] = "crashed")
=============================================================================
