--------------------------- MODULE LiveStateProofs ---------------------------
(***************************************************************************)
(* What TLAPS proves of LiveState, for any number of weeks, runs and kills *)
(* at any point.                                                           *)
(***************************************************************************)
EXTENDS LiveState, TLAPS

\* What is in the directory being rewritten at each point of a save, and what
\* the archive of the state's week may hold while it is copied.
Phases ==
    /\ pc # "idle" => mem # <<>>
    /\ pc = "arrays" => latest["arrays"] \in {Absent, Torn}
                        /\ latest["tail"] = Absent /\ latest["manifest"] = Absent
    /\ pc = "tail" => latest["arrays"] = mem /\ latest["tail"] \in {Absent, Torn}
                      /\ latest["manifest"] = Absent
    /\ pc = "manifest" => latest["arrays"] = mem /\ latest["tail"] = mem
                          /\ latest["manifest"] \in {Absent, Torn}
    /\ pc \in {"replace", "copy", "log"} =>
         committed = mem /\ \A f \in Files : latest[f] = mem
    /\ pc = "copy" => \A f \in Files : dated[Final(mem)][f] \in {Absent, Torn, mem}

SaveInv == TypeOK /\ Phases /\ LoadsOneSave /\ ArchiveIsItsWeek

LEMMA SaveInit == Init => SaveInv
<1> SUFFICES ASSUME Init PROVE SaveInv
  OBVIOUS
<1>1. latest \in [Files -> {<<0>>}] /\ \A w \in Weeks : dated[w] = IF w = 0 THEN latest ELSE Fresh
  BY DEF Init
<1>2. TypeOK
  <2>1. 0 \in Weeks /\ <<0>> \in States /\ <<>> \in States
    BY StateAssumption DEF Weeks, States
  <2>2. latest \in [Files -> States] /\ Fresh \in [Files -> {Absent}]
    BY <1>1, <2>1 DEF Fresh
  <2>3. dated \in [Weeks -> [Files -> Contents]]
    BY <2>2 DEF Init, Contents
  <2>4. latest \in [Files -> Contents]
    BY <2>2 DEF Contents
  <2>5. log \in Seq(Weeks) /\ mem \in States
    BY <2>1 DEF Init, States
  <2>6. runs \in 0 .. MaxRuns /\ crashes \in 0 .. MaxCrashes
    BY StateAssumption DEF Init
  <2>7. pc \in Labels /\ logs \in BOOLEAN /\ available \in Weeks /\ committed \in States
    BY <2>1 DEF Init, Labels
  <2>8. QED BY <2>3, <2>4, <2>5, <2>6, <2>7 DEF TypeOK
<1>3. Phases
  BY DEF Init, Phases
<1>4. LoadsOneSave
  BY <1>1 DEF Init, LoadsOneSave
<1>5. ArchiveIsItsWeek
  <2>1. Final(<<0>>) = 0
    BY DEF Final
  <2>2. "manifest" \in Files
    BY DEF Files
  <2>3. ASSUME NEW w \in Weeks, Loadable(dated[w])
        PROVE  w = 0
    BY <1>1, <2>2, <2>3 DEF Loadable, Fresh
  <2>4. QED BY <1>1, <2>1, <2>2, <2>3 DEF ArchiveIsItsWeek, Loaded, OneSave, Files
<1>6. QED BY <1>2, <1>3, <1>4, <1>5 DEF SaveInv

\* The week a state is of, while it is saved.
LEMMA FinalType == ASSUME TypeOK, mem # <<>> PROVE Final(mem) \in Weeks
<1>1. mem \in Seq(Weeks)
  BY DEF TypeOK, States
<1>2. QED BY <1>1 DEF Final

\* The states a run starts to save.
LEMMA LoadedType ==
    ASSUME TypeOK, Loadable(latest), NEW w \in 0 .. available
    PROVE  Append(Loaded(latest), w) \in States /\ Append(Loaded(latest), w) # <<>>
<1>1. Loaded(latest) \in Seq(Weeks)
  BY DEF TypeOK, Loadable, Loaded, Contents, States, Files
<1>2. w \in Weeks
  BY StateAssumption DEF TypeOK, Weeks
<1>3. QED BY <1>1, <1>2 DEF States

LEMMA BootstrappedType == ASSUME TypeOK PROVE Bootstrapped \in States /\ Bootstrapped # <<>>
<1>1. available \in 0 .. LastWeek /\ LastWeek \in Nat
  BY StateAssumption DEF TypeOK, Weeks
<1>2. \A i \in 1 .. available + 1 : i - 1 \in Weeks
  BY <1>1 DEF Weeks
<1>3. available + 1 \in Nat \ {0}
  BY <1>1
<1>4. Bootstrapped \in Seq(Weeks) /\ Len(Bootstrapped) = available + 1
  BY <1>2, <1>3 DEF Bootstrapped
<1>5. QED BY <1>3, <1>4 DEF States

LEMMA SaveStep == SaveInv /\ [Next]_vars => SaveInv'
<1> SUFFICES ASSUME SaveInv, [Next]_vars PROVE SaveInv'
  OBVIOUS
<1> USE DEF SaveInv, Files
<1>1. CASE NewWeek
  <2>1. available' \in Weeks
    BY <1>1, StateAssumption DEF NewWeek, TypeOK, Weeks
  <2>2. QED BY <1>1, <2>1 DEF NewWeek, disk, run, TypeOK, Phases, LoadsOneSave, ArchiveIsItsWeek, OneSave, Loadable, Loaded
<1>2. CASE Bootstrap
  <2>1. mem' \in States /\ mem' # <<>> /\ runs' \in 0 .. MaxRuns
    BY <1>2, BootstrappedType, StateAssumption DEF Bootstrap, TypeOK
  <2>2. QED BY <1>2, <2>1 DEF Bootstrap, Goto, disk, TypeOK, Phases, LoadsOneSave, ArchiveIsItsWeek, OneSave, Loadable, Loaded, Labels
<1>3. ASSUME NEW w \in 0 .. available, RunWeek(w) PROVE SaveInv'
  <2>1. runs' \in 0 .. MaxRuns
    BY <1>3, StateAssumption DEF RunWeek, TypeOK
  <2>2. CASE Loadable(latest)
    <3>1. mem' \in States /\ mem' # <<>> /\ pc' = "remove" /\ logs' = TRUE
      BY <1>3, <2>2, LoadedType DEF RunWeek, Goto
    <3>2. QED BY <1>3, <2>1, <3>1 DEF RunWeek, disk, TypeOK, Phases, LoadsOneSave, ArchiveIsItsWeek, OneSave, Loadable, Loaded, Labels
  <2>3. CASE ~Loadable(latest)
    BY <1>3, <2>1, <2>3 DEF RunWeek, run, disk, TypeOK, Phases, LoadsOneSave, ArchiveIsItsWeek, OneSave, Loadable, Loaded
  <2>4. QED BY <2>2, <2>3
<1>4. CASE Crash
  <2>1. crashes' \in 0 .. MaxCrashes
    BY <1>4, StateAssumption DEF Crash, TypeOK
  <2>2. QED BY <1>4, <2>1 DEF Crash, Goto, disk, TypeOK, Phases, LoadsOneSave, ArchiveIsItsWeek, OneSave, Loadable, Loaded, Labels
<1>5. CASE AppendRunLog
  <2>1. Final(mem) \in Weeks
    BY <1>5, FinalType DEF AppendRunLog, Phases
  <2>2. log' \in Seq(Weeks)
    BY <1>5, <2>1 DEF AppendRunLog, TypeOK
  <2>3. QED BY <1>5, <2>2 DEF AppendRunLog, Goto, TypeOK, Phases, LoadsOneSave, ArchiveIsItsWeek, OneSave, Loadable, Loaded, Labels
<1>6. CASE RemoveLatest
  <2> USE <1>6 DEF RemoveLatest, Goto
  <2>1. latest' \in [Files -> Contents] /\ \A f \in Files : latest'[f] \in {latest[f], Absent}
    BY DEF TypeOK, Contents
  <2>2. TypeOK'
    BY <2>1 DEF TypeOK, Labels
  <2>3. Phases'
    BY DEF Phases, Fresh
  <2>4. LoadsOneSave'
    BY <2>1 DEF LoadsOneSave, Loadable
  <2>5. QED BY <2>2, <2>3, <2>4 DEF ArchiveIsItsWeek
<1>7. CASE WriteArrays
  BY <1>7 DEF WriteArrays, Written, Goto, TypeOK, Contents, Phases, LoadsOneSave, ArchiveIsItsWeek, OneSave, Loadable, Loaded, Labels
<1>8. CASE WriteTail
  BY <1>8 DEF WriteTail, Written, Goto, TypeOK, Contents, Phases, LoadsOneSave, ArchiveIsItsWeek, OneSave, Loadable, Loaded, Labels
<1>9. CASE WriteManifest
  BY <1>9 DEF WriteManifest, Written, Goto, TypeOK, Contents, Phases, LoadsOneSave, ArchiveIsItsWeek, OneSave, Loadable, Loaded, Labels
<1>10. CASE RemoveDated
  <2> USE <1>10 DEF RemoveDated, Goto
  <2>1. latest' = latest /\ mem' = mem /\ committed' = committed /\ pc = "replace"
    OBVIOUS
  <2>2. LoadsOneSave'
    BY <2>1 DEF LoadsOneSave, Loadable
  <2>3. CASE UNCHANGED pc
    <3>1. PICK f \in Files : dated' = [dated EXCEPT ![Final(mem)][f] = Absent]
      BY <2>1, <2>3
    <3>2. TypeOK'
      <4>1. dated' \in [Weeks -> [Files -> Contents]]
        BY <3>1 DEF TypeOK, Contents
      <4>2. QED BY <2>1, <2>3, <4>1 DEF TypeOK
    <3>3. Phases'
      BY <2>1, <2>3 DEF Phases
    <3>4. ASSUME NEW w \in Weeks, Loadable(dated'[w])
          PROVE  dated'[w] = dated[w]
      BY <3>1, <3>4 DEF TypeOK, Loadable
    <3>5. ArchiveIsItsWeek'
      BY <3>4 DEF ArchiveIsItsWeek, Loadable
    <3>6. QED BY <2>2, <3>2, <3>3, <3>5
  <2>4. CASE dated[Final(mem)] = Fresh /\ pc' = "copy" /\ dated' = dated
    <3>1. TypeOK' /\ ArchiveIsItsWeek'
      BY <2>1, <2>4 DEF TypeOK, ArchiveIsItsWeek, Labels
    <3>2. Phases'
      BY <2>1, <2>4 DEF Phases, Fresh
    <3>3. QED BY <2>2, <3>1, <3>2
  <2>5. QED BY <2>3, <2>4
<1>11. CASE CopyDated
  <2>1. /\ latest' = latest /\ mem' = mem /\ committed' = committed /\ pc = "copy"
        /\ UNCHANGED <<log, available, logs, runs, crashes>>
        /\ pc' \in {"copy", "log"}
    BY <1>11 DEF CopyDated, Goto
  <2>2. PICK f \in Files :
          /\ dated[Final(mem)][f] \in {Absent, Torn}
          /\ dated' = [dated EXCEPT ![Final(mem)][f] = Written(dated[Final(mem)][f], latest[f])]
    BY <1>11 DEF CopyDated
  <2>3. LoadsOneSave'
    BY <2>1 DEF LoadsOneSave, Loadable
  <2>4. latest[f] = mem /\ mem \in States /\ Final(mem) \in Weeks
    BY <2>1, FinalType DEF Phases, TypeOK
  <2>5. Written(dated[Final(mem)][f], latest[f]) \in {Torn, mem}
    BY <2>4 DEF Written
  <2>6. TypeOK'
    BY <2>1, <2>2, <2>4, <2>5 DEF TypeOK, Labels, Contents
  \* Whatever the archive of the week holds is of this state.
  <2>7. \A g \in Files : dated'[Final(mem)][g] \in {Absent, Torn, mem}
    BY <2>1, <2>2, <2>4, <2>5 DEF TypeOK, Phases
  <2>8. Phases'
    BY <2>1, <2>7 DEF Phases
  <2>9. ASSUME NEW w \in Weeks, Loadable(dated'[w])
        PROVE  Final(Loaded(dated'[w])) = w /\ OneSave(dated'[w])
    <3>1. CASE w = Final(mem)
      <4>1. dated'[w]["manifest"] = mem /\ dated'[w]["arrays"] = mem
            /\ dated'[w]["tail"] \in {Torn, mem}
        BY <2>7, <2>9, <3>1 DEF Loadable
      <4>2. QED BY <4>1, <3>1 DEF Loaded, OneSave
    <3>2. CASE w # Final(mem)
      <4>1. dated'[w] = dated[w]
        BY <2>2, <3>2 DEF TypeOK
      <4>2. QED BY <4>1, <2>9 DEF ArchiveIsItsWeek
    <3>3. QED BY <3>1, <3>2
  <2>10. ArchiveIsItsWeek'
    BY <2>9 DEF ArchiveIsItsWeek, OneSave, Loadable, Loaded
  <2>11. QED BY <2>3, <2>6, <2>8, <2>10
<1>12. CASE UNCHANGED vars
  BY <1>12 DEF vars, disk, run, TypeOK, Phases, LoadsOneSave, ArchiveIsItsWeek, OneSave, Loadable, Loaded
<1>13. QED
  BY <1>1, <1>2, <1>3, <1>4, <1>5, <1>6, <1>7, <1>8, <1>9, <1>10, <1>11, <1>12
     DEF Next, SaveState

\* Every file of both stores is absent, cut short or a whole state's, wherever
\* a save or its copy was killed (TypeOK).
THEOREM TypeCorrect == Spec => []TypeOK
<1>1. SaveInv => TypeOK
  BY DEF SaveInv
<1>2. QED BY SaveInit, SaveStep, <1>1, PTL DEF Spec

\* load_state accepts nothing but the last state saved whole (LoadsOneSave).
THEOREM LoadsWhole == Spec => []LoadsOneSave
<1>1. SaveInv => LoadsOneSave
  BY DEF SaveInv
<1>2. QED BY SaveInit, SaveStep, <1>1, PTL DEF Spec

\* An archive that loads is of one state, of the week it is named after, though
\* its copy was killed (ArchiveIsItsWeek).
THEOREM ArchivesMatch == Spec => []ArchiveIsItsWeek
<1>1. SaveInv => ArchiveIsItsWeek
  BY DEF SaveInv
<1>2. QED BY SaveInit, SaveStep, <1>1, PTL DEF Spec

-----------------------------------------------------------------------------
\* What load_state makes of a directory: nothing while a file is missing or its
\* manifest or arrays are cut short, and the state once every file is of it.
LEMMA WholeState ==
    ASSUME NEW dir, NEW state \in States, \A f \in Files : dir[f] = state
    PROVE  /\ Whole(dir) /\ Loadable(dir) /\ Loaded(dir) = state
           /\ CopyIn(dir) = Register!Copy(state, TRUE) /\ state # Absent
<1>1. state \notin {Absent, Torn}
  BY ContentAssumption DEF States
<1>2. Loadable(dir) /\ Loaded(dir) = state
  BY <1>1 DEF Loadable, Loaded, Files
<1>3. Whole(dir) /\ OneSave(dir) /\ (dir["tail"] # Torn) = TRUE
  BY <1>1, <1>2 DEF Whole, OneSave, Files
<1>4. QED BY <1>1, <1>2, <1>3 DEF CopyIn, Register!Copy

LEMMA NoState ==
    ASSUME NEW dir, NEW f \in Files, dir[f] = Absent \/ (f # "tail" /\ dir[f] = Torn)
    PROVE  ~Loadable(dir) /\ CopyIn(dir) = Absent
BY DEF CopyIn, Loadable, Files

\* A step that leaves the register's directory, or the dated ones, as they are.
LEMMA HeldKept == ASSUME latest' = latest PROVE Held' = Held
BY DEF Held, Whole, Loadable, Loaded

LEMMA ArchiveKept == ASSUME dated' = dated PROVE Archived' = Archived
BY DEF Archived, CopyIn, OneSave, Loadable, Loaded

LEMMA RegisterStutters ==
    ASSUME latest' = latest, dated' = dated, Saving' = Saving
    PROVE  UNCHANGED Register!vars
BY HeldKept, ArchiveKept DEF Register!vars

LEMMA RegisterInit == Init => Register!Init
<1> SUFFICES ASSUME Init PROVE Register!Init
  OBVIOUS
<1>1. latest = [f \in Files |-> <<0>>] /\ pc = "idle"
  BY DEF Init
<1>2. <<0>> \in States
  BY StateAssumption DEF Weeks, States
<1>3. Held = <<0>> /\ CopyIn(latest) = Register!Copy(<<0>>, TRUE)
  <2>1. \A f \in Files : latest[f] = <<0>>
    BY <1>1
  <2>2. QED BY <1>2, <2>1, WholeState DEF Held
<1>4. CopyIn(Fresh) = Absent
  BY NoState DEF Fresh, Files
<1>5. Archived = [w \in Weeks |-> IF w = 0 THEN Register!Copy(Held, TRUE) ELSE Absent]
  BY <1>3, <1>4 DEF Init, Archived
<1>6. Saving = Absent
  BY <1>1 DEF Saving
<1>7. QED BY <1>3, <1>5, <1>6 DEF Register!Init, Register!Weeks, Weeks

\* One file operation, crash or call is one step of the register, or none.
LEMMA RegisterStep == SaveInv /\ [Next]_vars => [Register!Next]_(Register!vars)
<1> SUFFICES ASSUME SaveInv, [Next]_vars
             PROVE  Register!Next \/ UNCHANGED Register!vars
  OBVIOUS
<1>0. TypeOK /\ Phases /\ LoadsOneSave
  BY DEF SaveInv
<1>1. CASE NewWeek
  BY <1>1, RegisterStutters DEF NewWeek, disk, run, Saving
<1>2. CASE Bootstrap
  <2>1. Held' = Held /\ Archived' = Archived
    BY <1>2, HeldKept, ArchiveKept DEF Bootstrap, disk
  <2>2. Saving = Absent /\ Saving' = Bootstrapped
    BY <1>2 DEF Bootstrap, Goto, Saving
  <2>3. available + 1 \in 1 .. LastWeek + 1
    BY <1>0, StateAssumption DEF TypeOK, Weeks
  <2>4. Bootstrapped \in Register!Replays
    BY <2>3 DEF Bootstrapped, Register!Replays
  <2>5. Register!Replay
    BY <2>1, <2>2, <2>4 DEF Register!Replay
  <2>6. QED BY <2>5 DEF Register!Next
<1>3. ASSUME NEW w \in 0 .. available, RunWeek(w)
      PROVE  Register!Next \/ UNCHANGED Register!vars
  <2>1. UNCHANGED <<latest, dated>> /\ pc = "idle"
    BY <1>3 DEF RunWeek, disk
  <2>2. CASE Loadable(latest)
    <3>1. Held = committed /\ committed # Absent /\ Loaded(latest) = committed
      BY <1>0, <2>2, WholeState DEF LoadsOneSave, TypeOK, Held
    <3>2. Held' = Held /\ Archived' = Archived
      BY <2>1, HeldKept, ArchiveKept
    <3>3. Saving = Absent /\ Saving' = Append(Held, w)
      BY <1>3, <2>1, <2>2, <3>1 DEF RunWeek, Goto, Saving
    <3>4. w \in Register!Weeks
      BY <1>0, StateAssumption DEF TypeOK, Weeks, Register!Weeks
    <3>5. Register!Consume
      BY <3>1, <3>2, <3>3, <3>4 DEF Register!Consume
    <3>6. QED BY <3>5 DEF Register!Next
  <2>3. CASE ~Loadable(latest)
    BY <1>3, <2>1, <2>3, RegisterStutters DEF RunWeek, run, Saving
  <2>4. QED BY <2>2, <2>3
<1>4. CASE Crash
  <2>1. Held' = Held /\ Archived' = Archived
    BY <1>4, HeldKept, ArchiveKept DEF Crash, disk
  <2>2. Saving' = Absent
    BY <1>4 DEF Crash, Goto, Saving
  <2>3. QED BY <2>1, <2>2 DEF Register!Kill, Register!Next
<1>5. CASE AppendRunLog
  BY <1>5, RegisterStutters DEF AppendRunLog, Goto, Saving
<1>6. CASE RemoveLatest
  <2>1. pc = "remove" /\ dated' = dated /\ mem' = mem
    BY <1>6 DEF RemoveLatest
  <2>2. ASSUME NEW f \in Files, latest' = [latest EXCEPT ![f] = Absent], pc' = pc
        PROVE  Register!Next
    <3>1. latest'[f] = Absent
      BY <1>0, <2>2 DEF TypeOK
    <3>2. Held' = Absent
      BY <3>1, NoState DEF Held
    <3>3. Saving' = Saving /\ Saving # Absent
      BY <1>0, <2>1, <2>2, ContentAssumption DEF Saving, TypeOK, States
    <3>4. Register!Clear
      BY <2>1, <3>2, <3>3, ArchiveKept DEF Register!Clear
    <3>5. QED BY <3>4 DEF Register!Next
  <2>3. CASE latest' = latest /\ pc' = "arrays"
    BY <2>1, <2>3, RegisterStutters DEF Saving
  <2>4. QED BY <1>6, <2>2, <2>3 DEF RemoveLatest, Goto
\* Until the manifest is whole the directory holds no state.
<1>7. CASE WriteArrays \/ WriteTail \/ (WriteManifest /\ latest["manifest"] # Torn)
  <2>1. dated' = dated /\ mem' = mem /\ Saving' = Saving
    BY <1>7 DEF WriteArrays, WriteTail, WriteManifest, Goto, Saving
  <2>2. latest["manifest"] \in {Absent, Torn} /\ latest'["manifest"] \in {Absent, Torn}
    BY <1>0, <1>7 DEF WriteArrays, WriteTail, WriteManifest, Written, Phases, TypeOK, Files
  <2>3. Held = Absent /\ Held' = Absent
    BY <2>2, NoState DEF Held, Files
  <2>4. QED BY <2>1, <2>3, ArchiveKept DEF Register!vars
<1>8. CASE WriteManifest /\ latest["manifest"] = Torn
  <2>1. /\ pc = "manifest" /\ pc' = "replace" /\ dated' = dated
        /\ latest' = [latest EXCEPT !["manifest"] = mem]
    BY <1>8 DEF WriteManifest, Written, Goto
  <2>2. \A f \in Files : latest'[f] = mem
    BY <1>0, <2>1 DEF Phases, TypeOK, Files
  <2>3. mem \in States
    BY <1>0 DEF TypeOK
  <2>4. Held = Absent
    BY <1>8, NoState DEF Held, Files
  <2>5. Held' = mem /\ mem # Absent
    BY <2>2, <2>3, WholeState DEF Held
  <2>6. Saving = mem /\ Saving' = Absent
    BY <2>1 DEF Saving
  <2>7. Register!Save
    BY <2>1, <2>4, <2>5, <2>6, ArchiveKept DEF Register!Save
  <2>8. QED BY <2>7 DEF Register!Next
\* From here on the register holds the state that was saved.
<1>9. ASSUME RemoveDated \/ CopyDated
      PROVE  /\ Held = mem /\ Held # Absent /\ Held' = Held
             /\ Saving = Absent /\ Saving' = Absent /\ Final(mem) \in Weeks
  <2>1. pc \in {"replace", "copy"} /\ pc' \in {"replace", "copy", "log"} /\ latest' = latest
    BY <1>9 DEF RemoveDated, CopyDated, Goto
  <2>2. Held = mem /\ Held # Absent
    BY <1>0, <2>1, WholeState DEF Phases, TypeOK, Held
  <2>3. Held' = Held
    BY <2>1, HeldKept
  <2>4. Saving = Absent /\ Saving' = Absent
    BY <2>1 DEF Saving
  <2>5. QED BY <1>0, <2>1, <2>2, <2>3, <2>4, FinalType DEF Phases
<1>10. CASE RemoveDated
  <2>1. ASSUME NEW f \in Files, dated' = [dated EXCEPT ![Final(mem)][f] = Absent]
        PROVE  Register!Next
    <3>1. dated'[Final(mem)][f] = Absent /\ \A v \in Weeks \ {Final(mem)} : dated'[v] = dated[v]
      BY <1>0, <1>9, <1>10, <2>1 DEF TypeOK
    <3>2. CopyIn(dated'[Final(mem)]) = Absent
      BY <3>1, NoState
    <3>3. Archived' = [Archived EXCEPT ![Final(mem)] = Absent]
      BY <1>9, <1>10, <3>1, <3>2 DEF Archived
    <3>4. Register!Discard
      BY <1>9, <1>10, <3>3 DEF Register!Discard, Register!Final, Final
    <3>5. QED BY <3>4 DEF Register!Next
  <2>2. CASE dated' = dated
    BY <1>9, <1>10, <2>2, ArchiveKept DEF Register!vars
  <2>3. QED BY <1>10, <2>1, <2>2 DEF RemoveDated
\* The archive becomes readable when its last missing file but the tail is whole.
<1>11. CASE CopyDated
  <2> DEFINE week == Final(mem)
  <2>1. PICK f \in Files :
          /\ dated[week][f] \in {Absent, Torn}
          /\ dated' = [dated EXCEPT ![week][f] = Written(dated[week][f], latest[f])]
    BY <1>11 DEF CopyDated
  <2>2. /\ pc = "copy" /\ latest[f] = mem /\ mem \notin {Absent, Torn}
        /\ \A g \in Files : dated[week][g] \in {Absent, Torn, mem}
    BY <1>0, <1>11, ContentAssumption DEF CopyDated, Phases, TypeOK, States
  <2>3. /\ dated'[week][f] \in {Torn, mem}
        /\ \A g \in Files \ {f} : dated'[week][g] = dated[week][g]
        /\ \A v \in Weeks \ {week} : dated'[v] = dated[v]
    BY <1>0, <1>9, <1>11, <2>1, <2>2 DEF TypeOK, Written
  <2>4. Archived[week] = CopyIn(dated[week]) /\ Archived'[week] = CopyIn(dated'[week])
    BY <1>9, <1>11 DEF Archived
  <2>5. Archived' = [Archived EXCEPT ![week] = CopyIn(dated'[week])]
    BY <1>9, <1>11, <2>3 DEF Archived
  \* Before the step it was not readable, or only its tail was cut short.
  <2>6. Archived[week] \in {Absent, Register!Copy(mem, FALSE)}
    <3>1. CASE f = "tail" /\ Loadable(dated[week])
      <4>1. dated[week]["manifest"] = mem /\ dated[week]["arrays"] = mem /\ dated[week]["tail"] = Torn
        BY <2>1, <2>2, <3>1 DEF Loadable, Files
      <4>2. OneSave(dated[week]) /\ Loaded(dated[week]) = mem /\ (dated[week]["tail"] # Torn) = FALSE
        BY <4>1 DEF OneSave, Loaded
      <4>3. QED BY <2>4, <3>1, <4>2 DEF CopyIn, Register!Copy
    <3>2. CASE ~Loadable(dated[week])
      BY <2>4, <3>2 DEF CopyIn
    <3>3. CASE f # "tail"
      BY <2>1, <2>4, <3>3, NoState
    <3>4. QED BY <3>1, <3>2, <3>3
  <2>7. CASE Loadable(dated'[week])
    <3>1. dated'[week]["manifest"] = mem /\ dated'[week]["arrays"] = mem
          /\ dated'[week]["tail"] \in {Torn, mem}
      BY <2>2, <2>3, <2>7 DEF Loadable, Files
    <3>2. OneSave(dated'[week]) /\ Loaded(dated'[week]) = mem
      BY <3>1 DEF OneSave, Loaded
    <3>3. CopyIn(dated'[week]) = Register!Copy(mem, dated'[week]["tail"] # Torn)
      BY <2>7, <3>2 DEF CopyIn, Register!Copy
    <3>4. \E whole \in BOOLEAN :
            Archived' = [Archived EXCEPT ![week] = Register!Copy(mem, whole)]
      BY <2>5, <3>3
    <3>5. Register!Archive
      BY <1>9, <1>11, <2>6, <3>4 DEF Register!Archive, Register!Final, Final
    <3>6. QED BY <3>5 DEF Register!Next
  <2>8. CASE ~Loadable(dated'[week])
    <3>1. ~Loadable(dated[week])
      BY <2>1, <2>2, <2>3, <2>8, ContentAssumption DEF Loadable, Files
    <3>2. Archived'[week] = Archived[week]
      BY <2>4, <2>8, <3>1 DEF CopyIn
    <3>3. Archived' = Archived
      BY <2>3, <3>2 DEF Archived
    <3>4. QED BY <1>9, <1>11, <3>3 DEF Register!vars
  <2>9. QED BY <2>7, <2>8
<1>12. CASE UNCHANGED vars
  BY <1>12, RegisterStutters DEF vars, disk, run, Saving
<1>13. QED
  BY <1>1, <1>2, <1>3, <1>4, <1>5, <1>6, <1>7, <1>8, <1>10, <1>11, <1>12 DEF Next, SaveState

\* Both directories, rewritten file by file and killed at any of them, are one
\* register and its archive (IsRegister).
THEOREM SavesAreAtomic == Spec => IsRegister
<1>1. SaveInv /\ [Next]_vars => [Register!Next]_(Register!vars)
  BY RegisterStep
<1>2. QED BY RegisterInit, SaveInit, SaveStep, <1>1, PTL DEF Spec, IsRegister, Register!Spec

-----------------------------------------------------------------------------
\* Where the last saved state is, when at most one run was killed: until then
\* the archive of its week has it whenever live_state_latest is being rewritten
\* or no run is on; the one kill takes at most one of the two copies; and a save
\* that comes to its log row has both.
InLatest  == \A f \in Files : latest[f] = committed
InArchive == \A f \in Files : dated[Final(committed)][f] = committed
CopiesInv ==
    /\ committed # <<>>
    /\ (crashes = 0 /\ pc \in {"idle", "remove", "arrays", "tail", "manifest"}) => InArchive
    /\ (crashes <= 1 /\ pc = "idle") => InLatest \/ InArchive
    /\ pc = "log" => InArchive

LEMMA CopiesInit == Init => CopiesInv
<1> SUFFICES ASSUME Init PROVE CopiesInv
  OBVIOUS
<1>1. latest = [f \in Files |-> <<0>>] /\ committed = <<0>> /\ pc = "idle"
  BY DEF Init
<1>2. 0 \in Weeks /\ dated[0] = latest /\ Final(committed) = 0
  BY StateAssumption, <1>1 DEF Init, Weeks, Final
<1>3. InLatest /\ InArchive
  BY <1>1, <1>2 DEF InLatest, InArchive
<1>4. QED BY <1>1, <1>3 DEF CopiesInv

\* A step that touches neither directory nor the saved state.
LEMMA CopiesKept ==
  ASSUME UNCHANGED <<latest, dated, committed>>
  PROVE  InLatest' = InLatest /\ InArchive' = InArchive
BY DEF InLatest, InArchive

\* CopiesInv is inductive relative to the phases of a save.
LEMMA CopiesStep == SaveInv /\ CopiesInv /\ [Next]_vars => CopiesInv'
<1> SUFFICES ASSUME SaveInv, CopiesInv, [Next]_vars PROVE CopiesInv'
  OBVIOUS
<1>0. crashes \in Nat /\ committed \in States /\ mem \in States
  BY StateAssumption DEF SaveInv, TypeOK
<1>1. CASE NewWeek
  BY <1>1, CopiesKept DEF NewWeek, disk, run, CopiesInv
<1>2. CASE Bootstrap
  BY <1>2, CopiesKept DEF Bootstrap, Goto, disk, CopiesInv
<1>3. ASSUME NEW w \in 0 .. available, RunWeek(w) PROVE CopiesInv'
  <2>1. UNCHANGED <<latest, dated, committed, crashes>> /\ pc = "idle" /\ pc' \in {"idle", "remove"}
    BY <1>3 DEF RunWeek, Goto, disk, run
  <2>2. QED BY <2>1, CopiesKept DEF CopiesInv
<1>4. CASE Crash
  <2>1. UNCHANGED <<latest, dated, committed>> /\ pc # "idle" /\ pc' = "idle" /\ crashes' = crashes + 1
    BY <1>4 DEF Crash, Goto, disk
  <2>2. CASE crashes = 0
    <3>1. InLatest \/ InArchive
      BY <2>1, <2>2 DEF CopiesInv, SaveInv, TypeOK, Labels, Phases, InLatest
    <3>2. QED BY <2>1, <2>2, <3>1, CopiesKept DEF CopiesInv
  <2>3. CASE crashes # 0
    BY <1>0, <2>1, <2>3 DEF CopiesInv
  <2>4. QED BY <2>2, <2>3
<1>5. CASE AppendRunLog
  <2>1. UNCHANGED <<latest, dated, committed, crashes>> /\ pc = "log" /\ pc' = "idle"
    BY <1>5 DEF AppendRunLog, Goto
  <2>2. QED BY <2>1, CopiesKept DEF CopiesInv
<1>6. CASE RemoveLatest \/ WriteArrays \/ WriteTail
  <2>1. UNCHANGED <<dated, committed, crashes>>
    BY <1>6 DEF RemoveLatest, WriteArrays, WriteTail
  <2>2. pc \in {"remove", "arrays", "tail"} /\ pc' \in {"remove", "arrays", "tail", "manifest"}
    BY <1>6 DEF RemoveLatest, WriteArrays, WriteTail, Goto
  <2>3. InArchive' = InArchive
    BY <2>1 DEF InArchive
  <2>4. QED BY <2>1, <2>2, <2>3 DEF CopiesInv
<1>7. CASE WriteManifest
  <2>1. CASE latest["manifest"] # Torn
    <3>1. UNCHANGED <<dated, committed, crashes, pc>> /\ pc = "manifest"
      BY <1>7, <2>1 DEF WriteManifest
    <3>2. InArchive' = InArchive
      BY <3>1 DEF InArchive
    <3>3. QED BY <3>1, <3>2 DEF CopiesInv
  <2>2. CASE latest["manifest"] = Torn
    <3>1. committed' = mem /\ pc = "manifest" /\ pc' = "replace"
      BY <1>7, <2>2 DEF WriteManifest, Goto
    <3>2. QED BY <3>1 DEF CopiesInv, SaveInv, Phases
  <2>3. QED BY <2>1, <2>2
<1>8. CASE RemoveDated
  <2>1. pc' \in {"replace", "copy"} /\ committed' = committed
    BY <1>8 DEF RemoveDated, Goto
  <2>2. QED BY <2>1 DEF CopiesInv
<1>9. CASE CopyDated
  <2>1. pc = "copy" /\ pc' \in {"copy", "log"} /\ committed' = committed /\ committed = mem
    BY <1>9 DEF CopyDated, Goto, SaveInv, Phases
  <2>2. CASE pc' = "log"
    <3>1. \A g \in Files : dated'[Final(mem)][g] \notin {Absent, Torn}
      BY <1>9, <2>2 DEF CopyDated, Goto
    <3>2. Final(mem) \in Weeks /\ \A g \in Files : dated[Final(mem)][g] \in {Absent, Torn, mem}
      BY <2>1, FinalType DEF SaveInv, Phases
    <3>3. \A g \in Files : dated'[Final(mem)][g] \in {Absent, Torn, mem}
      BY <1>9, <2>1, <3>2 DEF CopyDated, Written, SaveInv, TypeOK, Phases
    <3>4. \A g \in Files : dated'[Final(mem)][g] = mem
      BY <3>1, <3>3
    <3>5. InArchive'
      BY <2>1, <3>4 DEF InArchive
    <3>6. QED BY <2>1, <2>2, <3>5 DEF CopiesInv
  <2>3. CASE pc' = "copy"
    BY <2>1, <2>3 DEF CopiesInv
  <2>4. QED BY <2>1, <2>2, <2>3
<1>10. CASE UNCHANGED vars
  BY <1>10, CopiesKept DEF vars, disk, run, CopiesInv
<1>11. QED
  BY <1>1, <1>2, <1>3, <1>4, <1>5, <1>6, <1>7, <1>8, <1>9, <1>10 DEF Next, SaveState

\* A state whose files are all in one place is found there, whole.
LEMMA CopiesRecover == SaveInv /\ CopiesInv => Recoverable
<1> SUFFICES ASSUME SaveInv, CopiesInv, pc = "idle", crashes <= 1
             PROVE  \E dir \in {latest} \cup {dated[w] : w \in Weeks} :
                        Whole(dir) /\ Loaded(dir) = committed
  BY DEF Recoverable
<1>1. committed \in States
  BY DEF SaveInv, TypeOK
<1>2. CASE InLatest
  BY <1>1, <1>2, WholeState DEF InLatest
<1>3. CASE InArchive
  <2>1. Final(committed) \in Weeks
    BY <1>1 DEF CopiesInv, Final, States
  <2>2. Whole(dated[Final(committed)]) /\ Loaded(dated[Final(committed)]) = committed
    BY <1>1, <1>3, WholeState DEF InArchive
  <2>3. QED BY <2>1, <2>2
<1>4. QED BY <1>2, <1>3 DEF CopiesInv

\* One kill at any point of any save, and any number of whole runs before and
\* after it, leave the last saved state complete in one of its two places.
THEOREM OneKillRecovers == Spec => []Recoverable
<1>1. Init => SaveInv /\ CopiesInv
  BY SaveInit, CopiesInit
<1>2. SaveInv /\ CopiesInv /\ [Next]_vars => (SaveInv /\ CopiesInv)'
  BY SaveStep, CopiesStep
<1>3. QED BY <1>1, <1>2, CopiesRecover, PTL DEF Spec
=============================================================================
