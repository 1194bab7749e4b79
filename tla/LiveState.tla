------------------------------ MODULE LiveState ------------------------------
(***************************************************************************)
(* Persistence of the live kernel: qqq_cycle/live/state_io.py as used by   *)
(* LiveRuntime.run_week and scripts/bootstrap_live_state.py.  A state is   *)
(* the sequence of weeks consumed into it.  It is kept twice, in           *)
(* live_state_latest/ and in a directory named after its week; each is     *)
(* several files, removed and written one after the other, so a run killed *)
(* anywhere leaves what it had done so far.  One run at a time: the weekly *)
(* run is started by hand.                                                 *)
(***************************************************************************)
EXTENDS Integers, Sequences, FiniteSets

CONSTANTS
    LastWeek,     \* bound: weeks are 0 .. LastWeek
    MaxRuns,      \* bound: weekly runs and bootstraps
    MaxCrashes,   \* bound: runs killed
    FollowLog,    \* the operator never bootstraps again, and runs a week after
                  \* the first only while live_run_log.csv lacks it
    Absent,       \* no such file
    Torn          \* a file, or one of several, cut short

Weeks == 0 .. LastWeek
Files == {"arrays", "tail", "manifest"}   \* written in this order
Fresh == [f \in Files |-> Absent]

ASSUME StateAssumption ==
    /\ LastWeek \in Nat /\ MaxRuns \in Nat /\ MaxCrashes \in Nat
    /\ FollowLog \in BOOLEAN
ASSUME ContentAssumption ==
    Absent \notin Seq(Weeks) /\ Torn \notin Seq(Weeks) /\ Absent # Torn

VARIABLES
    latest,     \* live_state_latest/: each file's content
    dated,      \* live_state_YYYYMMDD/ of each week
    log,        \* live_run_log.csv: the weeks of its rows
    available,  \* newest week of the staging CSV
    pc, mem,    \* the run: where it is, the state it is saving
    logs,       \* it is a weekly run, which logs; a bootstrap does not
    runs, crashes,
    committed   \* history: the last state whose save into latest finished

disk == <<latest, dated, log>>
run  == <<pc, mem, logs>>
vars == <<disk, available, run, runs, crashes, committed>>

\* load_state accepts a directory that has every file its manifest implies, a
\* manifest that parses and whole arrays; a CSV cut short is a shorter CSV.
Loadable(dir) ==
    /\ dir["manifest"] \notin {Absent, Torn} /\ dir["arrays"] \notin {Absent, Torn}
    /\ dir["tail"] # Absent

\* What it returns: scalars of the manifest, arrays and tail beside them.
Loaded(dir) == dir["manifest"]

Final(state) == state[Len(state)]     \* week_end of a state
Bootstrapped == [i \in 1 .. available + 1 |-> i - 1]

-----------------------------------------------------------------------------
\* A bootstrap has been run once, over the first week.
Init ==
    /\ latest = [f \in Files |-> <<0>>]
    /\ dated = [w \in Weeks |-> IF w = 0 THEN latest ELSE Fresh]
    /\ log = <<>>
    /\ available = 0
    /\ pc = "idle" /\ mem = <<>> /\ logs = FALSE
    /\ runs = 0 /\ crashes = 0
    /\ committed = <<0>>

Goto(label) == pc' = label

\* The staging CSV gets its next Friday.
NewWeek ==
    /\ available < LastWeek
    /\ available' = available + 1
    /\ UNCHANGED <<disk, run, runs, crashes, committed>>

\* run_week: load_state is fail-closed; else the week is consumed in memory
\* and saved.  Any week of the staging CSV may be asked for with --week-end.
RunWeek(w) ==
    /\ pc = "idle" /\ runs < MaxRuns
    /\ FollowLog => w > 0 /\ w \notin {log[i] : i \in DOMAIN log}
    /\ runs' = runs + 1
    /\ IF Loadable(latest)
         THEN Goto("remove") /\ mem' = Append(Loaded(latest), w) /\ logs' = TRUE
         ELSE UNCHANGED run
    /\ UNCHANGED <<disk, available, crashes, committed>>

\* bootstrap_live_state.py replays the whole staging CSV.
Bootstrap ==
    /\ pc = "idle" /\ runs < MaxRuns
    /\ ~FollowLog
    /\ runs' = runs + 1
    /\ Goto("remove") /\ mem' = Bootstrapped /\ logs' = FALSE
    /\ UNCHANGED <<disk, available, crashes, committed>>

\* Fault: the old files are not removed first, only overwritten.
RemoveLatestKeepsFiles ==
    /\ pc = "remove"
    /\ Goto("arrays")
    /\ UNCHANGED <<disk, available, mem, logs, runs, crashes, committed>>

\* Fault: the archive is cleared together with the latest state.
RemoveLatestAndArchive ==
    /\ pc = "remove"
    /\ latest' = Fresh
    /\ dated' = [dated EXCEPT ![Final(mem)] = Fresh]
    /\ Goto("arrays")
    /\ UNCHANGED <<log, available, mem, logs, runs, crashes, committed>>

\* shutil.rmtree of live_state_latest/, file by file in no given order.
RemoveLatest ==
    /\ pc = "remove"
    /\ \/ /\ \E f \in Files :
               latest[f] # Absent /\ latest' = [latest EXCEPT ![f] = Absent]
          /\ UNCHANGED pc
       \/ latest = Fresh /\ Goto("arrays") /\ UNCHANGED latest
    /\ UNCHANGED <<dated, log, available, mem, logs, runs, crashes, committed>>

\* A write creates the file before its content is complete; a kill in between
\* leaves it cut short.
Written(old, new) == IF old = Torn THEN new ELSE Torn

\* _write_state_to_dir: arrays, seed and buffers, then the macro tail.
WriteArrays ==
    /\ pc = "arrays"
    /\ latest' = [latest EXCEPT !["arrays"] = Written(@, mem)]
    /\ Goto(IF latest["arrays"] = Torn THEN "tail" ELSE "arrays")
    /\ UNCHANGED <<dated, log, available, mem, logs, runs, crashes, committed>>

WriteTail ==
    /\ pc = "tail"
    /\ latest' = [latest EXCEPT !["tail"] = Written(@, mem)]
    /\ Goto(IF latest["tail"] = Torn THEN "manifest" ELSE "tail")
    /\ UNCHANGED <<dated, log, available, mem, logs, runs, crashes, committed>>

\* manifest.json last.
WriteManifest ==
    /\ pc = "manifest"
    /\ latest' = [latest EXCEPT !["manifest"] = Written(@, mem)]
    /\ IF latest["manifest"] = Torn
         THEN committed' = mem /\ Goto("replace")
         ELSE UNCHANGED <<pc, committed>>
    /\ UNCHANGED <<dated, log, available, mem, logs, runs, crashes>>

\* Fault: the archive is named after the newest week instead of the state's.
CopyDatedNewest ==
    /\ pc = "copy"
    /\ \E f \in Files :
         /\ dated[available][f] # mem
         /\ dated' = [dated EXCEPT ![available][f] = Written(@, latest[f])]
    /\ Goto(IF \A f \in Files : dated'[available][f] = mem THEN "log" ELSE "copy")
    /\ UNCHANGED <<latest, log, available, mem, logs, runs, crashes, committed>>

\* Fault: an existing archive is left for copytree, which then refuses.
RemoveDatedSkipped ==
    /\ pc = "replace"
    /\ Goto("copy")
    /\ UNCHANGED <<disk, available, mem, logs, runs, crashes, committed>>

\* rmtree of the dated directory, if there is one.
RemoveDated ==
    /\ pc = "replace"
    /\ LET w == Final(mem) IN
       \/ /\ \E f \in Files :
               dated[w][f] # Absent /\ dated' = [dated EXCEPT ![w][f] = Absent]
          /\ UNCHANGED pc
       \/ dated[w] = Fresh /\ Goto("copy") /\ UNCHANGED dated
    /\ UNCHANGED <<latest, log, available, mem, logs, runs, crashes, committed>>

\* shutil.copytree, file by file in no given order, each cut short until it is
\* copied; "arrays" are several files, so any two may be unfinished at once.
CopyDated ==
    /\ pc = "copy"
    /\ LET w == Final(mem) IN
       /\ \E f \in Files :
            /\ dated[w][f] \in {Absent, Torn}
            /\ dated' = [dated EXCEPT ![w][f] = Written(@, latest[f])]
       /\ Goto(IF \A f \in Files : dated'[w][f] \notin {Absent, Torn} THEN "log" ELSE "copy")
    /\ UNCHANGED <<latest, log, available, mem, logs, runs, crashes, committed>>

\* _append_run_log of a weekly run.
AppendRunLog ==
    /\ pc = "log"
    /\ log' = IF logs THEN Append(log, Final(mem)) ELSE log
    /\ Goto("idle")
    /\ UNCHANGED <<latest, dated, available, mem, logs, runs, crashes, committed>>

\* The run is killed.
Crash ==
    /\ pc # "idle" /\ crashes < MaxCrashes
    /\ crashes' = crashes + 1
    /\ Goto("idle")
    /\ UNCHANGED <<disk, available, mem, logs, runs, committed>>

SaveState == RemoveLatest \/ WriteArrays \/ WriteTail \/ WriteManifest \/ RemoveDated \/ CopyDated

Next ==
    \/ NewWeek \/ Bootstrap \/ SaveState \/ AppendRunLog \/ Crash
    \/ \E w \in 0 .. available : RunWeek(w)

Spec == Init /\ [][Next]_vars

\* A weekly run, once begun, is a batch program over local files.
FairSpec == Spec /\ WF_vars(SaveState \/ AppendRunLog)

-----------------------------------------------------------------------------
States   == Seq(Weeks)
Contents == States \cup {Absent, Torn}
Labels   == {"idle", "remove", "arrays", "tail", "manifest", "replace", "copy", "log"}

TypeOK ==
    /\ latest \in [Files -> Contents]
    /\ dated \in [Weeks -> [Files -> Contents]]
    /\ log \in Seq(Weeks) /\ available \in Weeks
    /\ pc \in Labels /\ mem \in States /\ logs \in BOOLEAN
    /\ runs \in 0 .. MaxRuns /\ crashes \in 0 .. MaxCrashes
    /\ committed \in States

\* load_state checks only that files are there and parse; still it never
\* assembles a state from two saves or from a file cut short, nor an older state
\* than the last one saved, wherever runs were killed (state_io.py:190-288).
LoadsOneSave ==
    Loadable(latest) => \A f \in Files : latest[f] = committed

\* Every file is of the state the manifest is of, or all are but a macro tail
\* that is cut short.
Whole(dir)   == Loadable(dir) /\ \A f \in Files : dir[f] = Loaded(dir)
OneSave(dir) == dir["arrays"] = Loaded(dir) /\ dir["tail"] \in {Loaded(dir), Torn}

\* A dated directory that load_state would accept once copied back holds one
\* state, of the week it is named after; its macro tail may be cut short.
ArchiveIsItsWeek ==
    \A w \in Weeks : Loadable(dated[w]) =>
        Final(Loaded(dated[w])) = w /\ OneSave(dated[w])

\* "Creates two full copies" (state_io.py:177). Does not hold of the second: a
\* kill may leave a macro tail cut short beside a whole manifest (see README).
ArchiveIsWhole == \A w \in Weeks : Loadable(dated[w]) => Whole(dated[w])

\* The state a directory holds as load_state sees it: none until it is loadable,
\* and Torn if its files were of different saves. Of an archive also whether
\* its tail is whole.
Held ==
    IF ~Loadable(latest) THEN Absent
    ELSE IF Whole(latest) THEN Loaded(latest) ELSE Torn

CopyIn(dir) ==
    IF ~Loadable(dir) THEN Absent
    ELSE IF OneSave(dir) THEN [state |-> Loaded(dir), whole |-> dir["tail"] # Torn] ELSE Torn

Archived == [w \in Weeks |-> CopyIn(dated[w])]
Saving   == IF pc \in {"remove", "arrays", "tail", "manifest"} THEN mem ELSE Absent

Register == INSTANCE StateRegister WITH
    content <- Held, archive <- Archived, saving <- Saving

\* Removed, written and copied file by file, and killed anywhere, the latest
\* directory is still a register that is set in one step; the archive of a week
\* goes from a state the register held in that week to none and to the state it
\* holds, first possibly without the end of its tail, and so it stays if the
\* copy is killed; no other archive is ever touched (state_io.py:174-187).
IsRegister == Register!Spec

\* One kill, at any point of a save, leaves the last saved state complete in
\* at least one of the two places.
Recoverable ==
    (pc = "idle" /\ crashes <= 1) =>
        \E dir \in {latest} \cup {dated[w] : w \in Weeks} :
            Whole(dir) /\ Loaded(dir) = committed

\* "Each call to LiveRuntime.run_week() consumes one new week of macro data"
\* (runtime.py:3): no week is consumed twice into the kernel state. Does not
\* hold for a run killed before its log row and run again (see README).
EachWeekOnce == \A i, j \in DOMAIN committed : committed[i] = committed[j] => i = j

\* A save that begins ends in a loadable state, unless it is killed.
SavesEnd == pc = "remove" ~> (pc = "idle" /\ (Loadable(latest) \/ crashes > 0))
=============================================================================
