---------------------- MODULE WeeklyOrchestrationProofs ----------------------
(***************************************************************************)
(* Theorems about WeeklyOrchestration for every set of runs, every set of  *)
(* command lines and every number of attempts and kills.                   *)
(***************************************************************************)
EXTENDS WeeklyOrchestration, TLAPS

\* A step of the script keeps the two markers Boolean.
LEMMA MarkerTypesStep == ASSUME MarkerTypes, [Next]_vars PROVE MarkerTypes'
<1> USE DEF MarkerTypes, files, chan, FailWithStatus, WriteStatus, Exit, Goto
<1>1. ASSUME NEW r \in Runs, Start(r) \/ Crash(r) PROVE MarkerTypes'
  BY <1>1 DEF Start, Crash
<1>2. ASSUME NEW r \in Runs, Acquire(r) PROVE MarkerTypes'
  BY <1>2 DEF Acquire, TakeLock, LockBusy, StartReclaim, RemoveLock, RemakeLock
<1>3. ASSUME NEW r \in Runs, Prepare(r) PROVE MarkerTypes'
  BY <1>3 DEF Prepare, LoadSafeEnv, CheckSentMarker, BuildStage, BuildPrompt, EndDryRun
<1>4. ASSUME NEW r \in Runs, Interpret(r) PROVE MarkerTypes'
  BY <1>4 DEF Interpret, GeminiMissing, GeminiAnswers, GeminiFails, RecheckSentMarker
<1>5. ASSUME NEW r \in Runs, PostWebhook(r) PROVE MarkerTypes'
  BY <1>5 DEF PostWebhook, PostAcknowledged, PostAnswerLost, PostRateLimited, PostRejected
<1>6. ASSUME NEW r \in Runs, Conclude(r) PROVE MarkerTypes'
  BY <1>6 DEF Conclude, MarkSent, ReportSuccess, DiscordFailed, MarkNotified, GeminiFailed, WriteFails,
              Cleanup
<1>7. CASE UNCHANGED vars
  BY <1>7 DEF vars
<1>8. QED BY <1>1, <1>2, <1>3, <1>4, <1>5, <1>6, <1>7 DEF Next, Step

\* A step of the script keeps every other variable in its range.
LEMMA RunTypesStep == ASSUME RunTypes, [Next]_vars PROVE RunTypes'
<1> USE AttemptsAssumption
    DEF RunTypes, Labels, Inside, Outside, BuildStages, Goto, files, chan
<1>1. ASSUME NEW r \in Runs, Start(r) \/ Crash(r) PROVE RunTypes'
  BY <1>1 DEF Start, Crash
<1>2. ASSUME NEW r \in Runs, Acquire(r) PROVE RunTypes'
  BY <1>2 DEF Acquire, TakeLock, LockBusy, StartReclaim, RemoveLock, RemakeLock
<1>3. ASSUME NEW r \in Runs, Prepare(r) PROVE RunTypes'
  <2> USE DEF Exit, FailWithStatus, WriteStatus, Statuses, StatusStages
  <2>1. CASE LoadSafeEnv(r) BY <2>1 DEF LoadSafeEnv
  <2>2. CASE CheckSentMarker(r)
    <3>1. /\ Exit(r, 0) \/ (Goto(r, "main_report") /\ UNCHANGED exitCode)
          /\ UNCHANGED <<opts, attempt, lock, status, chan>>
      BY <2>2 DEF CheckSentMarker
    <3>2. QED BY <3>1
  <2>3. CASE BuildStage(r)
    <3>1. CASE /\ Goto(r, AfterStage[pc[r]])
               /\ UNCHANGED <<exitCode, status, opts, attempt, lock, chan>>
      <4>1. AfterStage[pc[r]] \in Labels
        BY <2>3 DEF BuildStage, AfterStage
      <4>2. QED BY <3>1, <4>1
    <3>2. CASE /\ FailWithStatus(r, pc[r])
               /\ UNCHANGED <<opts, attempt, lock, chan>>
      <4>1. pc[r] \in StatusStages
        BY <2>3 DEF BuildStage
      <4>2. QED BY <3>2, <4>1
    <3>3. QED BY <2>3, <3>1, <3>2 DEF BuildStage
  <2>4. CASE BuildPrompt(r) BY <2>4 DEF BuildPrompt
  <2>5. CASE EndDryRun(r) BY <2>5 DEF EndDryRun
  <2>6. QED BY <1>3, <2>1, <2>2, <2>3, <2>4, <2>5 DEF Prepare
<1>4. ASSUME NEW r \in Runs, Interpret(r) PROVE RunTypes'
  <2> USE DEF Exit, FailWithStatus, WriteStatus, Statuses, StatusStages
  <2>1. CASE GeminiMissing(r) BY <2>1 DEF GeminiMissing
  <2>2. CASE GeminiAnswers(r) BY <2>2 DEF GeminiAnswers
  <2>3. CASE GeminiFails(r)
    <3>1. /\ Goto(r, "gemini_failed") \/ Goto(r, "fallback")
          /\ UNCHANGED <<opts, attempt, exitCode, lock, files, chan>>
      BY <2>3 DEF GeminiFails
    <3>2. QED BY <3>1
  <2>4. CASE RecheckSentMarker(r)
    <3>1. /\ \/ WriteStatus(r, "sent_marker", TRUE) /\ Exit(r, 0)
             \/ Goto(r, "send") /\ UNCHANGED <<exitCode, status>>
          /\ UNCHANGED <<opts, attempt, lock, chan>>
      BY <2>4 DEF RecheckSentMarker
    <3>2. CASE WriteStatus(r, "sent_marker", TRUE) /\ Exit(r, 0)
      BY <3>1, <3>2
    <3>3. CASE Goto(r, "send") /\ UNCHANGED <<exitCode, status>>
      BY <3>1, <3>3
    <3>4. QED BY <3>1, <3>2, <3>3
  <2>5. QED BY <1>4, <2>1, <2>2, <2>3, <2>4 DEF Interpret
<1>5. ASSUME NEW r \in Runs, PostWebhook(r) PROVE RunTypes'
  <2> USE DEF Posting, AfterPost, Deliver
  <2>1. CASE PostAcknowledged(r) BY <2>1 DEF PostAcknowledged
  <2>2. CASE PostAnswerLost(r) BY <2>2 DEF PostAnswerLost
  <2>3. CASE PostRateLimited(r) BY <2>3 DEF PostRateLimited
  <2>4. CASE PostRejected(r) BY <2>4 DEF PostRejected
  <2>5. QED BY <1>5, <2>1, <2>2, <2>3, <2>4 DEF PostWebhook
<1>6. ASSUME NEW r \in Runs, Conclude(r) PROVE RunTypes'
  <2> USE DEF Exit, FailWithStatus, WriteStatus, Statuses, StatusStages
  <2>1. CASE MarkSent(r) BY <2>1 DEF MarkSent
  <2>2. CASE ReportSuccess(r) BY <2>2 DEF ReportSuccess
  <2>3. CASE DiscordFailed(r) BY <2>3 DEF DiscordFailed
  <2>4. CASE MarkNotified(r) BY <2>4 DEF MarkNotified
  <2>5. CASE GeminiFailed(r) BY <2>5 DEF GeminiFailed
  <2>6. CASE Cleanup(r) BY <2>6 DEF Cleanup
  <2>7. CASE WriteFails(r) BY <2>7 DEF WriteFails, Writing
  <2>8. QED BY <1>6, <2>1, <2>2, <2>3, <2>4, <2>5, <2>6, <2>7 DEF Conclude
<1>7. CASE UNCHANGED vars
  BY <1>7 DEF vars
<1>8. QED BY <1>1, <1>2, <1>3, <1>4, <1>5, <1>6, <1>7 DEF Next, Step

\* Type correctness: every step of every run keeps every variable in range.
THEOREM TypeCorrect == Spec => []TypeOK
<1>1. Init => TypeOK
  <2>1. Init => RunTypes
    BY AttemptsAssumption DEF Init, RunTypes, Labels
  <2>2. Init => MarkerTypes
    BY DEF Init, MarkerTypes
  <2>3. QED BY <2>1, <2>2 DEF TypeOK
<1>2. TypeOK /\ [Next]_vars => TypeOK'
  BY MarkerTypesStep, RunTypesStep DEF TypeOK
<1>3. QED BY <1>1, <1>2, PTL DEF Spec

-----------------------------------------------------------------------------
\* What the steps other than the taking, stealing and giving up of the lock do
\* to it: nothing, while their run stays past the lock, outside it or is lost.
LEMMA OtherSteps ==
  ASSUME NEW r \in Runs, RunTypes,
         Prepare(r) \/ Interpret(r) \/ PostWebhook(r) \/ (Conclude(r) /\ ~Cleanup(r))
  PROVE  /\ InScript(r)
         /\ pc' = [pc EXCEPT ![r] = pc'[r]]
         /\ pc'[r] \in Inside
         /\ lock' = lock
         /\ opts' = opts
<1> USE DEF RunTypes, Labels, InScript, Inside, Outside, BuildStages, Exit, Goto, files, chan
<1>1. CASE Prepare(r)
  <2>1. CASE LoadSafeEnv(r) BY <2>1 DEF LoadSafeEnv
  <2>2. CASE CheckSentMarker(r) BY <2>2 DEF CheckSentMarker
  <2>3. CASE BuildStage(r) BY <2>3 DEF BuildStage, AfterStage, FailWithStatus
  <2>4. CASE BuildPrompt(r) BY <2>4 DEF BuildPrompt
  <2>5. CASE EndDryRun(r) BY <2>5 DEF EndDryRun
  <2>6. QED BY <1>1, <2>1, <2>2, <2>3, <2>4, <2>5 DEF Prepare
<1>2. CASE Interpret(r)
  <2>1. CASE GeminiMissing(r) BY <2>1 DEF GeminiMissing, FailWithStatus
  <2>2. CASE GeminiAnswers(r) BY <2>2 DEF GeminiAnswers
  <2>3. CASE GeminiFails(r) BY <2>3 DEF GeminiFails
  <2>4. CASE RecheckSentMarker(r) BY <2>4 DEF RecheckSentMarker
  <2>5. QED BY <1>2, <2>1, <2>2, <2>3, <2>4 DEF Interpret
<1>3. CASE PostWebhook(r)
  <2>1. CASE PostAcknowledged(r) BY <2>1 DEF PostAcknowledged, Posting, AfterPost
  <2>2. CASE PostAnswerLost(r) BY <2>2 DEF PostAnswerLost, Posting, AfterPost
  <2>3. CASE PostRateLimited(r) BY <2>3 DEF PostRateLimited, Posting
  <2>4. CASE PostRejected(r) BY <2>4 DEF PostRejected, Posting, AfterPost
  <2>5. QED BY <1>3, <2>1, <2>2, <2>3, <2>4 DEF PostWebhook
<1>4. CASE Conclude(r) /\ ~Cleanup(r)
  BY <1>4 DEF Conclude, MarkSent, ReportSuccess, DiscordFailed, MarkNotified, GeminiFailed,
              WriteFails, Writing, FailWithStatus
<1>5. QED BY <1>1, <1>2, <1>3, <1>4

\* A lock that recovery spares belongs to the run inside: LockInv is inductive
\* once the operator recovers only an abandoned lock.
LEMMA LockInvStep ==
  ASSUME CarefulRecovery, RunTypes, LockInv, [Next]_vars
  PROVE  LockInv'
<1> USE NoRunAssumption
    DEF RunTypes, LockInv, Recovering, InScript, Labels, Inside, Outside, BuildStages, Goto, files, chan
<1>1. ASSUME NEW r \in Runs, Start(r) PROVE LockInv'
  BY <1>1 DEF Start, Alive
<1>2. ASSUME NEW r \in Runs, Crash(r) PROVE LockInv'
  BY <1>2 DEF Crash, Alive
<1>3. ASSUME NEW r \in Runs, TakeLock(r) PROVE LockInv'
  BY <1>3 DEF TakeLock
<1>4. ASSUME NEW r \in Runs, LockBusy(r) PROVE LockInv'
  BY <1>4 DEF LockBusy
<1>5. ASSUME NEW r \in Runs, StartReclaim(r) PROVE LockInv'
  BY <1>5 DEF StartReclaim
<1>6. ASSUME NEW r \in Runs, RemoveLock(r) PROVE LockInv'
  BY <1>6 DEF RemoveLock
<1>7. ASSUME NEW r \in Runs, RemakeLock(r) PROVE LockInv'
  BY <1>7 DEF RemakeLock
<1>8. ASSUME NEW r \in Runs, Cleanup(r) PROVE LockInv'
  BY <1>8 DEF Cleanup
<1>9. ASSUME NEW r \in Runs,
             Prepare(r) \/ Interpret(r) \/ PostWebhook(r) \/ (Conclude(r) /\ ~Cleanup(r))
      PROVE  LockInv'
  BY <1>9, OtherSteps
<1>10. CASE UNCHANGED vars
  BY <1>10 DEF vars
<1>11. QED
  BY <1>1, <1>2, <1>3, <1>4, <1>5, <1>6, <1>7, <1>8, <1>9, <1>10
  DEF Next, Step, Acquire, Conclude

\* Mutual exclusion of the week's runs, for every number of runs, under an
\* operator who passes --recover-stale-lock only over an abandoned lock.
THEOREM LockExcludes == ASSUME CarefulRecovery PROVE Spec => []MutualExclusion
<1>1. Init => RunTypes /\ LockInv
  BY AttemptsAssumption DEF Init, RunTypes, Labels, LockInv, Recovering, InScript, Inside, Outside, BuildStages
<1>2. RunTypes /\ LockInv /\ [Next]_vars => (RunTypes /\ LockInv)'
  BY RunTypesStep, LockInvStep
<1>3. LockInv => MutualExclusion
  BY DEF LockInv, MutualExclusion
<1>4. QED BY <1>1, <1>2, <1>3, PTL DEF Spec

-----------------------------------------------------------------------------
\* No exit leaves the lock behind: with or without careful recovery, a lock
\* that exists is held by a run past it or was left by a killed one.
THEOREM NoLockLeaks == Spec => []NoLockLeak
<1>1. Init => RunTypes /\ NoLockLeak
  BY AttemptsAssumption DEF Init, RunTypes, Labels, NoLockLeak
<1>2. ASSUME RunTypes, NoLockLeak, [Next]_vars PROVE NoLockLeak'
  <2> USE NoRunAssumption, <1>2
      DEF RunTypes, NoLockLeak, InScript, Labels, Inside, Outside, BuildStages, Goto, files, chan
  <2>0. CASE UNCHANGED vars
    BY <2>0 DEF vars
  <2>1. ASSUME NEW r \in Runs, Start(r) \/ Crash(r) PROVE NoLockLeak'
    BY <2>1 DEF Start, Crash, Alive
  <2>2. ASSUME NEW r \in Runs, Acquire(r) PROVE NoLockLeak'
    <3>1. CASE TakeLock(r) BY <3>1 DEF TakeLock
    <3>2. CASE LockBusy(r) BY <3>2 DEF LockBusy
    <3>3. CASE StartReclaim(r) BY <3>3 DEF StartReclaim
    <3>4. CASE RemoveLock(r) BY <3>4 DEF RemoveLock
    <3>5. CASE RemakeLock(r) BY <3>5 DEF RemakeLock
    <3>6. QED BY <2>2, <3>1, <3>2, <3>3, <3>4, <3>5 DEF Acquire
  <2>3. ASSUME NEW r \in Runs, Cleanup(r) PROVE NoLockLeak'
    BY <2>3 DEF Cleanup
  <2>4. ASSUME NEW r \in Runs,
               Prepare(r) \/ Interpret(r) \/ PostWebhook(r) \/ (Conclude(r) /\ ~Cleanup(r))
        PROVE  NoLockLeak'
    BY <2>4, OtherSteps
  <2>5. QED
    BY <2>0, <2>1, <2>2, <2>3, <2>4 DEF Next, Step, Conclude
<1>3. RunTypes /\ NoLockLeak /\ [Next]_vars => (RunTypes /\ NoLockLeak)'
  BY <1>2, RunTypesStep
<1>4. QED BY <1>1, <1>3, PTL DEF Spec

-----------------------------------------------------------------------------
\* A run that has not come to its post goes on to another place before it, or
\* ends; nobody posts or writes the marker meanwhile.
BeforePost(r) ==
    /\ pc[r] \notin AfterSend
    /\ pc' = [pc EXCEPT ![r] = pc'[r]] /\ pc'[r] \notin {"mark_sent", "success"}
    /\ \/ exitCode' = exitCode
       \/ pc'[r] = "exit" /\ exitCode' = [exitCode EXCEPT ![r] = exitCode'[r]]
    /\ UNCHANGED <<opts, sentMarker, chan>>

\* SendInv survives such a step if the marker is not there when it leads to the
\* post of an unforced run.
LEMMA SendBefore ==
    ASSUME RunTypes, SendInv, NEW r \in Runs, BeforePost(r),
           pc'[r] = "send" /\ ~opts[r].resend => ~sentMarker
    PROVE  SendInv'
<1>1. pc \in [Runs -> Labels] /\ exitCode \in [Runs -> {-1, 0, 1}] /\ acked \subseteq Runs
  BY DEF RunTypes
<1>2. /\ pc[r] \notin {"mark_sent", "success", "discord_failed", "exit", "ended", "crashed"}
      /\ pc'[r] \notin {"mark_sent", "success"}
      /\ opts' = opts /\ sentMarker' = sentMarker /\ insights' = insights /\ acked' = acked
  BY DEF BeforePost, AfterSend, chan
<1>3. \A s \in Runs \ {r} : pc'[s] = pc[s] /\ exitCode'[s] = exitCode[s]
  BY <1>1 DEF BeforePost
<1>4. exitCode'[r] = exitCode[r] \/ pc'[r] = "exit"
  BY DEF BeforePost
<1>5. insights[r] = 0 /\ r \notin acked /\ exitCode[r] = -1
  BY <1>2 DEF SendInv, AfterSend
<1>6. \A s \in Runs : (pc'[s] \in {"send", "mark_sent"} /\ ~opts[s].resend) => ~sentMarker
  BY <1>2, <1>3 DEF SendInv
<1>7. \A s \in Runs : insights[s] # 0 => pc'[s] \in AfterSend
  BY <1>3, <1>5 DEF SendInv
<1>8. \A s \in Runs : pc'[s] \in {"mark_sent", "success"} => s \in acked
  BY <1>2, <1>3 DEF SendInv
<1>9. \A s \in Runs : exitCode'[s] # -1 => pc'[s] \in {"exit", "ended", "crashed"}
  BY <1>3, <1>4, <1>5 DEF SendInv
<1>10. \A s \in Runs : Recorded(s)' => sentMarker
  BY <1>2, <1>3, <1>5 DEF SendInv, Recorded
<1>11. \A s \in acked : insights[s] = 1
  BY DEF SendInv
<1>12. QED BY <1>2, <1>6, <1>7, <1>8, <1>9, <1>10, <1>11 DEF SendInv

-----------------------------------------------------------------------------
\* SendInv is inductive relative to LockInv: the marker cannot appear between a
\* run's second look at it and its own write, because no other run is inside.
LEMMA SendInvStep ==
  ASSUME RunTypes, MarkerTypes, LockInv, SendInv, [Next]_vars
  PROVE  SendInv'
<1> USE DEF RunTypes, SendInv, AfterSend, Recorded, Labels, Inside, Outside, BuildStages, Goto,
            files, chan
<1>1. ASSUME NEW r \in Runs, Start(r) \/ Crash(r) PROVE SendInv'
  BY <1>1 DEF Start, Crash, Alive
<1>2. ASSUME NEW r \in Runs, Acquire(r) PROVE SendInv'
  BY <1>2 DEF Acquire, TakeLock, LockBusy, StartReclaim, RemoveLock, RemakeLock
<1>3. ASSUME NEW r \in Runs, Prepare(r) PROVE SendInv'
  <2> USE DEF BeforePost, Exit, FailWithStatus
  <2>1. ASSUME LoadSafeEnv(r) PROVE BeforePost(r) /\ pc'[r] # "send"
    BY <2>1 DEF LoadSafeEnv
  <2>2. ASSUME CheckSentMarker(r) PROVE BeforePost(r) /\ pc'[r] # "send"
    BY <2>2 DEF CheckSentMarker
  <2>3. ASSUME BuildStage(r) PROVE BeforePost(r) /\ pc'[r] # "send"
    BY <2>3 DEF BuildStage, AfterStage
  <2>4. ASSUME BuildPrompt(r) PROVE BeforePost(r) /\ pc'[r] # "send"
    BY <2>4 DEF BuildPrompt
  <2>5. ASSUME EndDryRun(r) PROVE BeforePost(r) /\ pc'[r] # "send"
    BY <2>5 DEF EndDryRun
  <2> HIDE DEF BeforePost
  <2>6. BeforePost(r) /\ pc'[r] # "send"
    BY <1>3, <2>1, <2>2, <2>3, <2>4, <2>5 DEF Prepare
  <2>7. QED BY <2>6, SendBefore
<1>4. ASSUME NEW r \in Runs, Interpret(r) PROVE SendInv'
  <2> USE DEF BeforePost, Exit, FailWithStatus
  <2>1. ASSUME GeminiMissing(r) PROVE BeforePost(r) /\ pc'[r] # "send"
    BY <2>1 DEF GeminiMissing
  <2>2. ASSUME GeminiAnswers(r) PROVE BeforePost(r) /\ pc'[r] # "send"
    BY <2>2 DEF GeminiAnswers
  <2>3. ASSUME GeminiFails(r) PROVE BeforePost(r) /\ pc'[r] # "send"
    BY <2>3 DEF GeminiFails
  <2>4. ASSUME RecheckSentMarker(r)
        PROVE  BeforePost(r) /\ (pc'[r] = "send" /\ ~opts[r].resend => ~sentMarker)
    BY <2>4 DEF RecheckSentMarker
  <2> HIDE DEF BeforePost
  <2>5. BeforePost(r) /\ (pc'[r] = "send" /\ ~opts[r].resend => ~sentMarker)
    BY <1>4, <2>1, <2>2, <2>3, <2>4 DEF Interpret
  <2>6. QED BY <2>5, SendBefore
<1>5. ASSUME NEW r \in Runs, PostWebhook(r) PROVE SendInv'
  <2> USE DEF Posting, AfterPost, Deliver
  <2>1. CASE PostAcknowledged(r) BY <2>1 DEF PostAcknowledged
  <2>2. CASE PostAnswerLost(r) BY <2>2 DEF PostAnswerLost
  <2>3. CASE PostRateLimited(r) BY <2>3 DEF PostRateLimited
  <2>4. CASE PostRejected(r) BY <2>4 DEF PostRejected
  <2>5. QED BY <1>5, <2>1, <2>2, <2>3, <2>4 DEF PostWebhook
<1>6. ASSUME NEW r \in Runs, Conclude(r) PROVE SendInv'
  <2> USE DEF Exit, FailWithStatus
  <2>1. CASE MarkSent(r)
    <3>1. \A s \in Runs \ {r} : pc[s] \notin {"send", "mark_sent"}
      BY <2>1 DEF MarkSent, LockInv, InScript
    <3>2. QED BY <2>1, <3>1 DEF MarkSent
  <2>2. CASE ReportSuccess(r) BY <2>2 DEF ReportSuccess
  <2>3. CASE DiscordFailed(r) BY <2>3 DEF DiscordFailed
  <2>4. CASE MarkNotified(r) BY <2>4 DEF MarkNotified
  <2>5. CASE GeminiFailed(r) BY <2>5 DEF GeminiFailed
  <2>6. CASE Cleanup(r) BY <2>6 DEF Cleanup
  <2>7. CASE WriteFails(r) BY <2>7 DEF WriteFails, Writing
  <2>8. QED BY <1>6, <2>1, <2>2, <2>3, <2>4, <2>5, <2>6, <2>7 DEF Conclude
<1>7. CASE UNCHANGED vars
  BY <1>7 DEF vars
<1>8. QED BY <1>1, <1>2, <1>3, <1>4, <1>5, <1>6, <1>7 DEF Next, Step

IInv == RunTypes /\ MarkerTypes /\ LockInv /\ SendInv

\* The inductive invariant behind every theorem that assumes careful recovery.
LEMMA InductiveInvariant == ASSUME CarefulRecovery PROVE Spec => []IInv
<1>1. Init => IInv
  <2>1. Init => RunTypes
    BY AttemptsAssumption DEF Init, RunTypes, Labels
  <2>2. Init => MarkerTypes
    BY DEF Init, MarkerTypes
  <2>3. Init => LockInv
    BY DEF Init, LockInv, Recovering, InScript, Inside, Outside, BuildStages
  <2>4. Init => SendInv
    BY DEF Init, SendInv, Recorded
  <2>5. QED BY <2>1, <2>2, <2>3, <2>4 DEF IInv
<1>2. IInv /\ [Next]_vars => IInv'
  BY RunTypesStep, MarkerTypesStep, LockInvStep, SendInvStep DEF IInv
<1>3. QED BY <1>1, <1>2, PTL DEF Spec

\* At most one run that was not told to --resend both posts and records.
THEOREM OneRecorded == ASSUME CarefulRecovery PROVE Spec => []OneRecordedSend
<1>1. Init => OneRecordedSend
  BY DEF Init, OneRecordedSend, Recorded
<1>2. ASSUME IInv, OneRecordedSend, [Next]_vars PROVE OneRecordedSend'
  <2> USE <1>2 DEF IInv, RunTypes, SendInv, OneRecordedSend, AfterSend, Recorded, Labels, Inside,
                   Outside, BuildStages, Goto, files, chan
  <2>1. ASSUME NEW r \in Runs, Start(r) \/ Crash(r) PROVE OneRecordedSend'
    BY <2>1 DEF Start, Crash
  <2>2. ASSUME NEW r \in Runs, Acquire(r) PROVE OneRecordedSend'
    BY <2>2 DEF Acquire, TakeLock, LockBusy, StartReclaim, RemoveLock, RemakeLock
  <2>3. ASSUME NEW r \in Runs, Prepare(r) \/ Interpret(r) PROVE OneRecordedSend'
    <3>0. pc[r] \notin AfterSend /\ acked' = acked /\ opts' = opts
      BY <2>3 DEF Prepare, LoadSafeEnv, CheckSentMarker, BuildStage, BuildPrompt, EndDryRun,
                  Interpret, GeminiMissing, GeminiAnswers, GeminiFails, RecheckSentMarker
    <3>1. r \notin acked
      BY <3>0
    <3>2. \A s \in Runs \ {r} : pc'[s] = pc[s] /\ exitCode'[s] = exitCode[s]
      BY <2>3 DEF Prepare, LoadSafeEnv, CheckSentMarker, BuildStage, BuildPrompt, EndDryRun,
                  Interpret, GeminiMissing, GeminiAnswers, GeminiFails, RecheckSentMarker,
                  Exit, FailWithStatus
    <3>3. QED BY <3>0, <3>1, <3>2
  <2>4. ASSUME NEW r \in Runs, PostWebhook(r) PROVE OneRecordedSend'
    <3>1. pc[r] \in {"send", "fallback"} /\ opts' = opts /\ exitCode' = exitCode
      BY <2>4 DEF PostWebhook, PostAcknowledged, PostAnswerLost, PostRateLimited, PostRejected,
                  Posting
    <3>2. pc' = [pc EXCEPT ![r] = pc'[r]] /\ pc'[r] # "success"
      BY <2>4 DEF PostWebhook, PostAcknowledged, PostAnswerLost, PostRateLimited, PostRejected,
                  Posting, AfterPost
    <3>3. acked' \subseteq acked \cup {r}
      BY <2>4 DEF PostWebhook, PostAcknowledged, PostAnswerLost, PostRateLimited, PostRejected
    <3>4. QED BY <3>1, <3>2, <3>3
  <2>5. ASSUME NEW r \in Runs, MarkSent(r) PROVE OneRecordedSend'
    BY <2>5 DEF MarkSent
  <2>6. ASSUME NEW r \in Runs, Conclude(r), ~MarkSent(r) PROVE OneRecordedSend'
    <3> USE DEF Exit, FailWithStatus
    <3>1. CASE ReportSuccess(r) BY <3>1 DEF ReportSuccess
    <3>2. CASE DiscordFailed(r) BY <3>2 DEF DiscordFailed
    <3>3. CASE MarkNotified(r) BY <3>3 DEF MarkNotified
    <3>4. CASE GeminiFailed(r) BY <3>4 DEF GeminiFailed
    <3>5. CASE Cleanup(r) BY <3>5 DEF Cleanup
    <3>6. CASE WriteFails(r) BY <3>6 DEF WriteFails, Writing
    <3>7. QED BY <2>6, <3>1, <3>2, <3>3, <3>4, <3>5, <3>6 DEF Conclude
  <2>7. CASE UNCHANGED vars
    BY <2>7 DEF vars
  <2>8. QED BY <2>1, <2>2, <2>3, <2>4, <2>5, <2>6, <2>7 DEF Next, Step
<1>3. IInv /\ OneRecordedSend /\ [Next]_vars => OneRecordedSend'
  BY <1>2
<1>4. QED BY <1>1, <1>3, InductiveInvariant, PTL DEF Spec

-----------------------------------------------------------------------------
\* The orchestrator implements the delivery contract for the weekly insight:
\* once the marker exists only a run told to --resend posts it again.
THEOREM InsightRefinement == ASSUME CarefulRecovery PROVE Spec => InsightContract
<1>1. Init => InsightDelivery!Init
  BY DEF Init, InsightDelivery!Init
<1>2. ASSUME IInv, [Next]_vars PROVE [InsightDelivery!Next]_(InsightDelivery!vars)
  <2> USE <1>2 DEF IInv, RunTypes, SendInv, Labels, Inside, Outside, BuildStages, files, chan,
                   InsightDelivery!vars
  <2>0. CASE UNCHANGED vars
    BY <2>0 DEF vars
  <2>1. ASSUME NEW r \in Runs, Start(r) \/ Crash(r) \/ Acquire(r) \/ Prepare(r) \/ Interpret(r)
        PROVE  UNCHANGED InsightDelivery!vars
    BY <2>1 DEF Start, Crash, Acquire, TakeLock, LockBusy, StartReclaim, RemoveLock, RemakeLock,
                Prepare, LoadSafeEnv, CheckSentMarker, BuildStage, BuildPrompt, EndDryRun,
                Interpret, GeminiMissing, GeminiAnswers, GeminiFails, RecheckSentMarker
  <2>2. ASSUME NEW r \in Runs, PostWebhook(r)
        PROVE  InsightDelivery!Post(r) \/ UNCHANGED InsightDelivery!vars
    <3>1. CASE pc[r] = "send"
      <4>1. insights[r] = 0 /\ (sentMarker => opts[r].resend)
        BY <3>1 DEF AfterSend
      <4>2. insights' = [insights EXCEPT ![r] = @ + 1] \/ insights' = insights
        BY <2>2, <3>1 DEF PostWebhook, PostAcknowledged, PostAnswerLost, PostRateLimited,
                          PostRejected, Deliver
      <4>3. sentMarker' = sentMarker /\ opts' = opts
        BY <2>2 DEF PostWebhook, PostAcknowledged, PostAnswerLost, PostRateLimited, PostRejected
      <4>4. QED BY <4>1, <4>2, <4>3 DEF InsightDelivery!Post
    <3>2. CASE pc[r] # "send"
      BY <2>2, <3>2 DEF PostWebhook, PostAcknowledged, PostAnswerLost, PostRateLimited,
                        PostRejected, Deliver
    <3>3. QED BY <3>1, <3>2
  <2>3. ASSUME NEW r \in Runs, MarkSent(r) PROVE InsightDelivery!Record(r)
    BY <2>3 DEF MarkSent, InsightDelivery!Record
  <2>4. ASSUME NEW r \in Runs, Conclude(r), ~MarkSent(r)
        PROVE  UNCHANGED InsightDelivery!vars
    BY <2>4 DEF Conclude, ReportSuccess, DiscordFailed, MarkNotified, GeminiFailed, WriteFails, Cleanup
  <2>5. QED BY <2>0, <2>1, <2>2, <2>3, <2>4 DEF Next, Step, InsightDelivery!Next
<1>3. IInv /\ [Next]_vars => [InsightDelivery!Next]_(InsightDelivery!vars)
  BY <1>2
<1>4. QED
  BY <1>1, <1>3, InductiveInvariant, PTL DEF Spec, InsightContract, InsightDelivery!Spec
-----------------------------------------------------------------------------
\* Why the exit status and run_status.json can be believed, as an inductive
\* invariant: the marker follows an acknowledgement; a run that is about to
\* write or has just written it holds one; no run has posted before it comes to
\* a post, nor does one post after it has its exit status; and a dry run's
\* status is that of a run which is over.
Finished  == {"exit", "ended", "crashed"}
AfterPosts == Finished \cup {"mark_sent", "success", "discord_failed", "mark_notified",
                             "notice_failed", "gemini_failed"}
OutcomeInv ==
    /\ sentMarker => acked # {}
    /\ \A r \in Runs : pc[r] \in {"mark_sent", "success"} => r \in acked
    /\ \A r \in Runs : pc[r] = "success" => sentMarker
    /\ \A r \in Runs : exitCode[r] # -1 => pc[r] \in Finished
    /\ \A r \in Runs : insights[r] + notices[r] # 0 => pc[r] \in AfterPosts
    /\ (status.success /\ status.stage = "dry_run") => pc[status.run] \in Finished

\* OutcomeInv, with the two properties it is for, survives every step: this
\* needs neither the lock nor an operator who recovers with care.
LEMMA OutcomeStep ==
  ASSUME RunTypes, OutcomeInv, ExitZeroMeansSent, StatusHonest, [Next]_vars
  PROVE  (OutcomeInv /\ ExitZeroMeansSent /\ StatusHonest)'
<1> USE NoRunAssumption
    DEF RunTypes, OutcomeInv, ExitZeroMeansSent, StatusHonest, Finished, AfterPosts, Labels,
        Inside, Outside, BuildStages, Statuses, StatusStages, NoStatus, Goto, files, chan
<1> DEFINE Goal == (OutcomeInv /\ ExitZeroMeansSent /\ StatusHonest)'
<1>1. ASSUME NEW r \in Runs, Start(r) \/ Crash(r) PROVE Goal
  BY <1>1 DEF Start, Crash, Alive
<1>2. ASSUME NEW r \in Runs, Acquire(r) PROVE Goal
  BY <1>2 DEF Acquire, TakeLock, LockBusy, StartReclaim, RemoveLock, RemakeLock
<1>3. ASSUME NEW r \in Runs, Prepare(r) PROVE Goal
  <2> USE DEF Exit, FailWithStatus, WriteStatus
  <2>1. CASE LoadSafeEnv(r) BY <2>1 DEF LoadSafeEnv
  <2>2. CASE CheckSentMarker(r) BY <2>2 DEF CheckSentMarker
  <2>3. CASE BuildStage(r) BY <2>3 DEF BuildStage, AfterStage
  <2>4. CASE BuildPrompt(r) BY <2>4 DEF BuildPrompt
  <2>5. CASE EndDryRun(r) BY <2>5 DEF EndDryRun
  <2>6. QED BY <1>3, <2>1, <2>2, <2>3, <2>4, <2>5 DEF Prepare
<1>4. ASSUME NEW r \in Runs, Interpret(r) PROVE Goal
  <2> USE DEF Exit, FailWithStatus, WriteStatus
  <2>1. CASE GeminiMissing(r) BY <2>1 DEF GeminiMissing
  <2>2. CASE GeminiAnswers(r) BY <2>2 DEF GeminiAnswers
  <2>3. CASE GeminiFails(r) BY <2>3 DEF GeminiFails
  <2>4. CASE RecheckSentMarker(r) BY <2>4 DEF RecheckSentMarker
  <2>5. QED BY <1>4, <2>1, <2>2, <2>3, <2>4 DEF Interpret
<1>5. ASSUME NEW r \in Runs, PostWebhook(r) PROVE Goal
  <2> USE DEF Posting, AfterPost, Deliver
  <2>1. CASE PostAcknowledged(r) BY <2>1 DEF PostAcknowledged
  <2>2. CASE PostAnswerLost(r) BY <2>2 DEF PostAnswerLost
  <2>3. CASE PostRateLimited(r) BY <2>3 DEF PostRateLimited
  <2>4. CASE PostRejected(r) BY <2>4 DEF PostRejected
  <2>5. QED BY <1>5, <2>1, <2>2, <2>3, <2>4 DEF PostWebhook
<1>6. ASSUME NEW r \in Runs, Conclude(r) PROVE Goal
  <2> USE DEF Exit, FailWithStatus, WriteStatus
  <2>1. CASE MarkSent(r) BY <2>1 DEF MarkSent
  <2>2. CASE ReportSuccess(r) BY <2>2 DEF ReportSuccess
  <2>3. CASE DiscordFailed(r) BY <2>3 DEF DiscordFailed
  <2>4. CASE MarkNotified(r) BY <2>4 DEF MarkNotified
  <2>5. CASE GeminiFailed(r) BY <2>5 DEF GeminiFailed
  <2>6. CASE Cleanup(r) BY <2>6 DEF Cleanup
  <2>7. CASE WriteFails(r) BY <2>7 DEF WriteFails, Writing
  <2>8. QED BY <1>6, <2>1, <2>2, <2>3, <2>4, <2>5, <2>6, <2>7 DEF Conclude
<1>7. CASE UNCHANGED vars
  BY <1>7 DEF vars
<1>8. QED BY <1>1, <1>2, <1>3, <1>4, <1>5, <1>6, <1>7 DEF Next, Step

\* The two properties hold together with their invariant.
LEMMA OutcomeInvariant == Spec => [](OutcomeInv /\ ExitZeroMeansSent /\ StatusHonest)
<1>1. Init => RunTypes /\ OutcomeInv /\ ExitZeroMeansSent /\ StatusHonest
  <2>1. Init => RunTypes
    BY AttemptsAssumption DEF Init, RunTypes, Labels
  <2>2. Init => OutcomeInv /\ ExitZeroMeansSent /\ StatusHonest
    BY DEF Init, OutcomeInv, ExitZeroMeansSent, StatusHonest, NoStatus
  <2>3. QED BY <2>1, <2>2
<1>2. RunTypes /\ OutcomeInv /\ ExitZeroMeansSent /\ StatusHonest /\ [Next]_vars
        => (RunTypes /\ OutcomeInv /\ ExitZeroMeansSent /\ StatusHonest)'
  BY RunTypesStep, OutcomeStep
<1>3. QED BY <1>1, <1>2, PTL DEF Spec

\* An exit status of 0 from a run that is not a dry run means the week is marked
\* as sent over an insight the channel acknowledged, however the operator
\* recovers the lock and whoever is killed.
THEOREM ExitZeroIsTrue == Spec => []ExitZeroMeansSent
BY OutcomeInvariant, PTL

\* run_status.json never claims a success that did not happen, however the
\* operator recovers the lock and whoever is killed.
THEOREM StatusIsHonest == Spec => []StatusHonest
BY OutcomeInvariant, PTL

-----------------------------------------------------------------------------
\* Why no second failure notice follows a recorded one: the notice marker cannot
\* appear between a run's look at it and its own write, because no other run is
\* inside; and a run posts at most one notice, at its place in the script.
AfterNotice == Finished \cup {"mark_notified", "notice_failed", "gemini_failed"}
NoticeInv ==
    /\ \A r \in Runs : pc[r] \in {"fallback", "mark_notified"} => ~errMarker
    /\ \A r \in Runs : notices[r] # 0 => pc[r] \in AfterNotice
    /\ \A r \in Runs : pc[r] = "mark_notified" => notices[r] = 1

\* NoticeInv is inductive relative to LockInv.
LEMMA NoticeInvStep ==
  ASSUME RunTypes, MarkerTypes, LockInv, NoticeInv, [Next]_vars
  PROVE  NoticeInv'
<1> USE DEF RunTypes, NoticeInv, AfterNotice, Finished, Labels, Inside, Outside, BuildStages, Goto,
            files, chan
<1>1. ASSUME NEW r \in Runs, Start(r) \/ Crash(r) PROVE NoticeInv'
  BY <1>1 DEF Start, Crash, Alive
<1>2. ASSUME NEW r \in Runs, Acquire(r) PROVE NoticeInv'
  BY <1>2 DEF Acquire, TakeLock, LockBusy, StartReclaim, RemoveLock, RemakeLock
<1>3. ASSUME NEW r \in Runs, Prepare(r) PROVE NoticeInv'
  <2> USE DEF Exit, FailWithStatus
  <2>1. CASE LoadSafeEnv(r) BY <2>1 DEF LoadSafeEnv
  <2>2. CASE CheckSentMarker(r) BY <2>2 DEF CheckSentMarker
  <2>3. CASE BuildStage(r) BY <2>3 DEF BuildStage, AfterStage
  <2>4. CASE BuildPrompt(r) BY <2>4 DEF BuildPrompt
  <2>5. CASE EndDryRun(r) BY <2>5 DEF EndDryRun
  <2>6. QED BY <1>3, <2>1, <2>2, <2>3, <2>4, <2>5 DEF Prepare
<1>4. ASSUME NEW r \in Runs, Interpret(r) PROVE NoticeInv'
  <2> USE DEF Exit, FailWithStatus
  <2>1. CASE GeminiMissing(r) BY <2>1 DEF GeminiMissing
  <2>2. CASE GeminiAnswers(r) BY <2>2 DEF GeminiAnswers
  <2>3. CASE GeminiFails(r) BY <2>3 DEF GeminiFails
  <2>4. CASE RecheckSentMarker(r) BY <2>4 DEF RecheckSentMarker
  <2>5. QED BY <1>4, <2>1, <2>2, <2>3, <2>4 DEF Interpret
<1>5. ASSUME NEW r \in Runs, PostWebhook(r) PROVE NoticeInv'
  <2> USE DEF Posting, AfterPost, Deliver
  <2>1. CASE PostAcknowledged(r) BY <2>1 DEF PostAcknowledged
  <2>2. CASE PostAnswerLost(r) BY <2>2 DEF PostAnswerLost
  <2>3. CASE PostRateLimited(r) BY <2>3 DEF PostRateLimited
  <2>4. CASE PostRejected(r) BY <2>4 DEF PostRejected
  <2>5. QED BY <1>5, <2>1, <2>2, <2>3, <2>4 DEF PostWebhook
<1>6. ASSUME NEW r \in Runs, Conclude(r) PROVE NoticeInv'
  <2> USE DEF Exit, FailWithStatus
  <2>1. CASE MarkNotified(r)
    <3>1. \A s \in Runs \ {r} : pc[s] \notin {"fallback", "mark_notified"}
      BY <2>1 DEF MarkNotified, LockInv, InScript
    <3>2. QED BY <2>1, <3>1 DEF MarkNotified
  <2>2. CASE MarkSent(r) BY <2>2 DEF MarkSent
  <2>3. CASE ReportSuccess(r) BY <2>3 DEF ReportSuccess
  <2>4. CASE DiscordFailed(r) BY <2>4 DEF DiscordFailed
  <2>5. CASE GeminiFailed(r) BY <2>5 DEF GeminiFailed
  <2>6. CASE Cleanup(r) BY <2>6 DEF Cleanup
  <2>7. CASE WriteFails(r) BY <2>7 DEF WriteFails, Writing
  <2>8. QED BY <1>6, <2>1, <2>2, <2>3, <2>4, <2>5, <2>6, <2>7 DEF Conclude
<1>7. CASE UNCHANGED vars
  BY <1>7 DEF vars
<1>8. QED BY <1>1, <1>2, <1>3, <1>4, <1>5, <1>6, <1>7 DEF Next, Step

\* The orchestrator implements the delivery contract for the failure notice,
\* with nobody entitled to force one: a recorded notice is never repeated.
THEOREM NoticeRefinement == ASSUME CarefulRecovery PROVE Spec => NoticeContract
<1>1. Init => NoticeDelivery!Init /\ NoticeInv
  BY DEF Init, NoticeDelivery!Init, NoticeInv
<1>2. IInv /\ NoticeInv /\ [Next]_vars => NoticeInv'
  BY NoticeInvStep DEF IInv
<1>3. ASSUME IInv, NoticeInv, [Next]_vars PROVE [NoticeDelivery!Next]_(NoticeDelivery!vars)
  <2> USE <1>3 DEF IInv, RunTypes, NoticeInv, files, chan, NoticeDelivery!vars
  <2>0. CASE UNCHANGED vars
    BY <2>0 DEF vars
  <2>1. ASSUME NEW r \in Runs, Start(r) \/ Crash(r) \/ Acquire(r) \/ Prepare(r) \/ Interpret(r)
        PROVE  UNCHANGED NoticeDelivery!vars
    BY <2>1 DEF Start, Crash, Acquire, TakeLock, LockBusy, StartReclaim, RemoveLock, RemakeLock,
                Prepare, LoadSafeEnv, CheckSentMarker, BuildStage, BuildPrompt, EndDryRun,
                Interpret, GeminiMissing, GeminiAnswers, GeminiFails, RecheckSentMarker
  <2>2. ASSUME NEW r \in Runs, PostWebhook(r)
        PROVE  NoticeDelivery!Post(r) \/ UNCHANGED NoticeDelivery!vars
    <3>1. CASE pc[r] = "fallback"
      <4>1. notices[r] = 0 /\ ~errMarker
        BY <3>1 DEF AfterNotice, Finished
      <4>2. notices' = [notices EXCEPT ![r] = @ + 1] \/ notices' = notices
        BY <2>2, <3>1 DEF PostWebhook, PostAcknowledged, PostAnswerLost, PostRateLimited,
                          PostRejected, Deliver
      <4>3. errMarker' = errMarker
        BY <2>2 DEF PostWebhook, PostAcknowledged, PostAnswerLost, PostRateLimited, PostRejected
      <4>4. QED BY <4>1, <4>2, <4>3 DEF NoticeDelivery!Post
    <3>2. CASE pc[r] # "fallback"
      BY <2>2, <3>2 DEF PostWebhook, PostAcknowledged, PostAnswerLost, PostRateLimited,
                        PostRejected, Deliver, Posting
    <3>3. QED BY <3>1, <3>2
  <2>3. ASSUME NEW r \in Runs, MarkNotified(r) PROVE NoticeDelivery!Record(r)
    BY <2>3 DEF MarkNotified, NoticeDelivery!Record
  <2>4. ASSUME NEW r \in Runs, Conclude(r), ~MarkNotified(r)
        PROVE  UNCHANGED NoticeDelivery!vars
    BY <2>4 DEF Conclude, MarkSent, ReportSuccess, DiscordFailed, GeminiFailed, WriteFails, Cleanup
  <2>5. QED BY <2>0, <2>1, <2>2, <2>3, <2>4 DEF Next, Step, NoticeDelivery!Next
<1>4. IInv /\ NoticeInv /\ [Next]_vars => [NoticeDelivery!Next]_(NoticeDelivery!vars)
  BY <1>3
<1>5. QED
  BY <1>1, <1>2, <1>4, InductiveInvariant, PTL DEF Spec, NoticeContract, NoticeDelivery!Spec
=============================================================================
