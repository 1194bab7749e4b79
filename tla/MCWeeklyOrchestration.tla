----------------------- MODULE MCWeeklyOrchestration -----------------------
(***************************************************************************)
(* Small instances of WeeklyOrchestration: the command lines the runs are  *)
(* given, and the symmetry of the runs.                                    *)
(***************************************************************************)
EXTENDS WeeklyOrchestration, TLC

Plain   == [dry |-> FALSE, rerun |-> FALSE, resend |-> FALSE, recover |-> FALSE]
Rerun   == [Plain EXCEPT !.rerun = TRUE]
Resend  == [Plain EXCEPT !.resend = TRUE]
Recover == [Plain EXCEPT !.recover = TRUE]
DryRun  == [Plain EXCEPT !.dry = TRUE]

\* What the scheduler and an operator following the manual pass.
EveryInvocation == {Plain, Rerun, Resend, Recover, DryRun}

\* Scheduled runs among operators who recover a lock, and recover and resend.
RecoveringInvocations == {Plain, Recover, [Recover EXCEPT !.resend = TRUE]}

RunSymmetry == Permutations(Runs)
=============================================================================
