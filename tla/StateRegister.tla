---------------------------- MODULE StateRegister ----------------------------
(***************************************************************************)
(* What the live state store promises (save_state and load_state of        *)
(* qqq_cycle/live/state_io.py): a register that holds one whole state or   *)
(* none, and an archive of the states it held, one per week.  There are no *)
(* files in it: a save clears the register and later sets it in one step,  *)
(* and a kill in between loses the state being saved and nothing else.     *)
(* An archive is not set in one step: until it is whole it may be readable *)
(* already, and a kill leaves it so.                                       *)
(***************************************************************************)
EXTENDS Integers, Sequences

CONSTANTS
    LastWeek,     \* weeks are 0 .. LastWeek
    Absent        \* no state

VARIABLES
    content,      \* what load_state returns
    archive,      \* the state of the directory of each week, and if it is whole
    saving        \* the state save_state was given, until it is in the register

vars == <<content, archive, saving>>

Weeks == 0 .. LastWeek
Final(state) == state[Len(state)]
Replays == {[i \in 1 .. n |-> i - 1] : n \in 1 .. LastWeek + 1}

Copy(state, whole) == [state |-> state, whole |-> whole]

Init ==
    /\ content = <<0>>
    /\ archive = [w \in Weeks |-> IF w = 0 THEN Copy(content, TRUE) ELSE Absent]
    /\ saving = Absent

\* run_week: one more week on top of the state that was loaded.
Consume ==
    /\ saving = Absent /\ content # Absent
    /\ \E w \in Weeks : saving' = Append(content, w)
    /\ UNCHANGED <<content, archive>>

\* bootstrap_live_state.py: the weeks from the first, nothing loaded.
Replay ==
    /\ saving = Absent
    /\ saving' \in Replays
    /\ UNCHANGED <<content, archive>>

\* The old state goes before the new one comes.
Clear ==
    /\ saving # Absent
    /\ content' = Absent
    /\ UNCHANGED <<archive, saving>>

Save ==
    /\ saving # Absent /\ content = Absent
    /\ content' = saving /\ saving' = Absent
    /\ UNCHANGED archive

Kill ==
    /\ saving' = Absent
    /\ UNCHANGED <<content, archive>>

\* Only the archive of the week of the state in the register is touched, only
\* once that state is saved, and it becomes nothing else than that state.
Discard ==
    /\ saving = Absent /\ content # Absent
    /\ archive' = [archive EXCEPT ![Final(content)] = Absent]
    /\ UNCHANGED <<content, saving>>

Archive ==
    /\ saving = Absent /\ content # Absent
    /\ archive[Final(content)] \in {Absent, Copy(content, FALSE)}
    /\ \E whole \in BOOLEAN :
         archive' = [archive EXCEPT ![Final(content)] = Copy(content, whole)]
    /\ UNCHANGED <<content, saving>>

Next == Consume \/ Replay \/ Clear \/ Save \/ Kill \/ Discard \/ Archive

Spec == Init /\ [][Next]_vars
=============================================================================
