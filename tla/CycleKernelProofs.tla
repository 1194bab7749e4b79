-------------------------- MODULE CycleKernelProofs --------------------------
(***************************************************************************)
(* What TLAPS proves of CycleKernel, for every set of prototypes, every    *)
(* number of weeks and every decay table that never grows; and of          *)
(* LiveReplay, the kernel advanced one week at a time beside the batch     *)
(* loop that replays everything, for every week of going live.             *)
(***************************************************************************)
EXTENDS LiveReplay, TLAPS

\* The covariance counters stay in their type, whatever a week delivers.
LEMMA CovUpdateType ==
    ASSUME NEW c \in CovType, NEW kind \in ThetaKinds
    PROVE  CovUpdate(c, kind) \in CovType
<1>1. CASE kind = "finite"
  <2>1. [warm |-> c.warm + 1, pending |-> 0, ok |-> TRUE] \in CovType
    BY DEF CovType
  <2>2. QED BY <1>1, <2>1 DEF CovUpdate
<1>2. CASE kind = "missing"
  <2>1. [c EXCEPT !.pending = @ + 1] \in CovType
    BY DEF CovType
  <2>2. QED BY <1>2, <2>1 DEF CovUpdate
<1>3. CASE kind = "singular"
  <2>1. [c EXCEPT !.ok = FALSE] \in CovType
    BY DEF CovType
  <2>2. QED BY <1>3, <2>1 DEF CovUpdate
<1>4. QED BY <1>1, <1>2, <1>3 DEF ThetaKinds

\* An excess is a level, and restores the envelope it was taken from.
LEMMA ExcessType ==
    ASSUME NEW l \in Levels
    PROVE  Excess(l) \in Levels /\ Neutral + Excess(l) \in Levels
  BY LevelsAssumption DEF Excess, Larger, Levels

\* A level above neutral and the excess over it determine each other.
LEMMA ExcessOfSum ==
    ASSUME NEW e \in Nat
    PROVE  Excess(Neutral + e) = e
  BY LevelsAssumption DEF Excess, Larger, Levels

\* One micro week keeps the envelope within the levels and the heal counter
\* below the number of weeks that heals.
LEMMA MicroUpdateType ==
    ASSUME NEW m \in MicroType, NEW in \in Micros
    PROVE  MicroUpdate(m, in) \in MicroType
<1>1. Excess(m.lead) \in Nat /\ Neutral + Excess(m.lead) \in Levels
  BY ExcessType DEF MicroType, Levels
<1>2. Decay[Excess(m.lead)] \in Nat /\ Decay[Excess(m.lead)] <= Excess(m.lead)
  BY ExcessType, DecayAssumption DEF MicroType, Levels
<1>3. Neutral \in Levels /\ Neutral \in Nat
  BY LevelsAssumption DEF Levels
<1>4. CASE in.gate # "open"
  BY <1>4 DEF MicroUpdate
<1>5. CASE in.gate = "open" /\ in.h = NoLevel
  <2>1. Neutral + Decay[Excess(m.lead)] \in Levels
    BY <1>1, <1>2, <1>3, LevelsAssumption DEF Levels
  <2>2. QED BY <1>5, <2>1, CountersAssumption DEF MicroUpdate, MicroType
<1>6. CASE in.gate = "open" /\ in.h # NoLevel
  <2>1. in.h \in Levels
    BY <1>6 DEF Micros
  <2>2. Neutral + Larger(Excess(in.h), Decay[Excess(m.lead)]) \in Levels
    BY <2>1, <1>1, <1>2, <1>3, ExcessType, LevelsAssumption DEF Levels, Larger
  <2>3. m.heal \in 0 .. HealWeeks - 1 /\ in.h \in Nat
    BY <2>1 DEF MicroType, Levels
  <2>4. QED BY <1>6, <2>2, <2>3, <1>3, CountersAssumption, LevelsAssumption
         DEF MicroUpdate, MicroType
<1>7. QED BY <1>4, <1>5, <1>6

\* One assigned sample keeps the counters of the prototypes in their ranges:
\* the buffer is emptied when it would reach ReadySamples.
LEMMA UpdatePrototypesType ==
    ASSUME NEW p \in ProtoType, NEW k \in Clusters, NEW t \in Nat
    PROVE  UpdatePrototypes(p, k, t) \in ProtoType
<1>1. /\ p.buf[k] \in Nat /\ p.last[k] \in Nat
      /\ \A j \in Clusters : p.age[j] + 1 \in Nat
  BY CountersAssumption DEF ProtoType
<1>2. Branch(p, k, t) = "buffer" => p.buf[k] + 1 \in 0 .. ReadySamples - 1
  BY <1>1, CountersAssumption DEF Branch, IsReady
<1>3. Branch(p, k, t) \in {"fresh", "buffer", "reactivate"}
  BY DEF Branch
<1> DEFINE b == Branch(p, k, t)
           bufK == CASE b = "fresh" -> p.buf[k] [] b = "buffer" -> p.buf[k] + 1 [] b = "reactivate" -> 0
           buf  == [p.buf EXCEPT ![k] = bufK]
           last == [p.last EXCEPT ![k] = IF b = "buffer" THEN p.last[k] ELSE t]
           age  == [j \in Clusters |-> IF j = k /\ b # "buffer" THEN 0 ELSE p.age[j] + 1]
<1>4. UpdatePrototypes(p, k, t) = [p EXCEPT !.buf = buf, !.last = last, !.age = age]
  BY DEF UpdatePrototypes, ProtoType
<1>5. bufK \in 0 .. ReadySamples - 1
  <2>1. p.buf[k] \in 0 .. ReadySamples - 1 /\ 0 \in 0 .. ReadySamples - 1
    BY CountersAssumption DEF ProtoType
  <2>2. QED BY <2>1, <1>2, <1>3
<1>6. buf \in [Clusters -> 0 .. ReadySamples - 1]
  BY <1>5 DEF ProtoType
<1>7. last \in [Clusters -> Nat] /\ age \in [Clusters -> Nat]
  BY <1>1 DEF ProtoType
<1> HIDE DEF b, bufK, buf, last, age
<1>8. QED BY <1>4, <1>6, <1>7 DEF ProtoType

\* initialize_prototypes_from_history yields typed prototypes.
LEMMA SeededType ==
    ASSUME NEW p \in ProtoType
    PROVE  Seeded(p) \in ProtoType
<1>1. Zeros \in [Clusters -> 0 .. ReadySamples - 1] /\ Zeros \in [Clusters -> Nat]
  BY CountersAssumption DEF Zeros
<1>2. InitializePrototypes(p) \in ProtoType
  BY <1>1 DEF InitializePrototypes, ProtoType
<1>3. QED BY <1>2 DEF Seeded

\* The prototypes and the seed stay typed over every kind of week.
LEMMA ProtoAfterType ==
    ASSUME NEW c \in CovType, NEW p \in ProtoType, NEW theta \in Thetas, NEW t \in Nat
    PROVE  ProtoAfter(c, p, theta, t) \in ProtoType
<1>1. UpdatePrototypes(Seeded(p), theta.k, t) \in ProtoType
  BY SeededType, UpdatePrototypesType DEF Thetas
<1>2. [p EXCEPT !.seed = @ + 1] \in ProtoType
  BY DEF ProtoType
<1>3. QED BY <1>1, <1>2 DEF ProtoAfter

-----------------------------------------------------------------------------
\* The parts of the type invariant the safety proofs need: all but out, idle.
KernelType ==
    /\ row \in Nat
    /\ cov \in CovType /\ proto \in ProtoType /\ micro \in MicroType
    /\ elapsed \in Nat /\ failures \in Nat
    /\ touched \in [Clusters -> Nat] /\ \A k \in Clusters : touched[k] <= row
    /\ lowRun \in Nat /\ specLead \in Levels

\* Ranges of the history the properties are stated over.
LEMMA KernelTypeInit == Init => KernelType
<1>1. Zeros \in [Clusters -> Nat] /\ Zeros \in [Clusters -> 0 .. ReadySamples - 1]
  BY CountersAssumption DEF Zeros
<1>2. NoProto \in ProtoType
  BY <1>1 DEF NoProto, ProtoType
<1>3. ColdCov \in CovType
  BY DEF ColdCov, CovType
<1>4. [lead |-> Neutral, heal |-> 0] \in MicroType
  BY LevelsAssumption, CountersAssumption DEF MicroType
<1>5. 0 \in Levels
  BY LevelsAssumption DEF Levels
<1>6. QED BY <1>1, <1>2, <1>3, <1>4, <1>5
       DEF Init, InitKernel, InitHistory, KernelType, Zeros

\* One pass of the weekly loop (pipeline.py:602-803) keeps every range.
LEMMA KernelTypeWeek ==
    ASSUME KernelType, NEW theta \in ThetaInputs, NEW in \in MicroInputs, Week(theta, in)
    PROVE  KernelType'
<1> USE DEF KernelType
<1>1. theta \in Thetas /\ in \in Micros
  BY InputsAssumption
<1>2. row' \in Nat /\ row' = row + 1
  BY DEF Week
<1>3. cov' \in CovType
  BY <1>1, CovUpdateType DEF Week, Thetas
<1>4. proto' \in ProtoType
  BY <1>1, ProtoAfterType DEF Week
<1>5. micro' \in MicroType
  BY <1>1, MicroUpdateType DEF Week, MicroAfter
<1>6. elapsed' \in Nat /\ failures' \in Nat
  <2>1. cov.pending \in Nat
    BY DEF CovType
  <2>2. QED BY <2>1 DEF Week, Record
<1>7. touched' \in [Clusters -> Nat] /\ \A k \in Clusters : touched'[k] <= row'
  <2>1. theta.k \in Clusters
    BY <1>1 DEF Thetas
  <2>2. CASE IsWarm(cov) /\ HasSignal(proto, theta)
    <3> DEFINE base == IF proto.up THEN touched ELSE [k \in Clusters |-> row]
    <3>1. base \in [Clusters -> Nat] /\ \A k \in Clusters : base[k] <= row
      OBVIOUS
    <3>2. touched' = [base EXCEPT ![theta.k] = row]
      BY <2>2 DEF Week, Record
    <3> HIDE DEF base
    <3>3. QED BY <3>1, <3>2, <2>1, <1>2
  <2>3. CASE ~(IsWarm(cov) /\ HasSignal(proto, theta))
    BY <2>3, <1>2 DEF Week, Record
  <2>4. QED BY <2>2, <2>3
<1>8. lowRun' \in Nat /\ specLead' \in Levels
  <2>1. Decay[specLead] \in Levels
    BY DecayAssumption
  <2>2. Scored(in) => Excess(in.h) \in Levels /\ in.h \in Levels
    BY <1>1, ExcessType DEF Scored, Micros
  <2>3. ASSUME Scored(in), NEW n \in Nat PROVE SpecLead(in, n) \in Levels
    BY <2>1, <2>2, <2>3, LevelsAssumption DEF SpecLead, Larger, Levels
  <2>4. RecordMicro(in)
    BY DEF Week, Record
  <2>5. CASE ~IsWarm(cov) \/ in.gate # "open"
    BY <2>4, <2>5 DEF RecordMicro, Scored
  <2>6. CASE IsWarm(cov) /\ in.gate = "open" /\ in.h = NoLevel
    BY <2>4, <2>6, <2>1 DEF RecordMicro, Scored
  <2>7. CASE IsWarm(cov) /\ Scored(in)
    <3> DEFINE n == IF in.h < HealLevel THEN lowRun + 1 ELSE 0
    <3>1. lowRun' = n /\ specLead' = SpecLead(in, n)
      BY <2>4, <2>7 DEF RecordMicro, Scored
    <3>2. n \in Nat
      OBVIOUS
    <3> HIDE DEF n
    <3>3. QED BY <3>1, <3>2, <2>3, <2>7
  <2>8. QED BY <2>5, <2>6, <2>7 DEF Scored
<1>9. QED BY <1>2, <1>3, <1>4, <1>5, <1>6, <1>7, <1>8

\* A step that leaves the kernel alone keeps every range.
LEMMA KernelTypeStutter == KernelType /\ UNCHANGED vars => KernelType'
  BY DEF KernelType, vars, kernel, history

\* The counters of the weekly loop stay in their ranges whatever the weeks bring.
THEOREM KernelTyped == Spec => []KernelType
<1>1. KernelType /\ [Next]_vars => KernelType'
  BY KernelTypeWeek, KernelTypeStutter DEF Next
<1>2. QED BY KernelTypeInit, <1>1, PTL DEF Spec

\* What a row shows is in its type: the branch of the assigned prototype, its
\* gap and the decay its weight has undergone (PipelineResult).
LEMMA OutAfterType ==
    ASSUME NEW c \in CovType, NEW p \in ProtoType, NEW theta \in Thetas,
           NEW in \in Micros, NEW t \in Nat
    PROVE  OutAfter(c, p, theta, in, t) \in OutType
<1> DEFINE q == Seeded(p)
           b == Branch(q, theta.k, t)
           g == Gap(q, theta.k, t)
           mode == IF Scored(in) THEN "strict" ELSE "degraded"
           d == IF b = "reactivate" THEN q.age[theta.k] + g ELSE 0
           rho == Scored(in) /\ theta.s
<1>1. theta.k \in Clusters /\ theta.s \in BOOLEAN
  BY DEF Thetas
<1>2. q.last[theta.k] \in Nat /\ q.age[theta.k] \in Nat
  BY <1>1, SeededType DEF ProtoType
<1>3. g \in Nat
  BY <1>2 DEF Gap, Larger
<1>4. b \in Branches
  BY DEF Branch, Branches
<1>5. d \in Nat /\ mode \in {"warmup", "degraded", "strict"} /\ rho \in BOOLEAN
  BY <1>2, <1>3
<1>6. Silent \in OutType /\ [Silent EXCEPT !.mode = mode] \in OutType
  BY <1>5 DEF Silent, OutType, Branches
<1>7. OutAfter(c, p, theta, in, t) =
        CASE ~IsWarm(c) -> Silent
          [] IsWarm(c) /\ ~HasSignal(p, theta) -> [Silent EXCEPT !.mode = mode]
          [] IsWarm(c) /\ HasSignal(p, theta) ->
               [mode |-> mode, signal |-> TRUE, rho |-> rho,
                k |-> theta.k, branch |-> b, gap |-> g, decayed |-> d]
  BY DEF OutAfter
<1> HIDE DEF q, b, g, mode, d, rho
<1>8. [mode |-> mode, signal |-> TRUE, rho |-> rho,
       k |-> theta.k, branch |-> b, gap |-> g, decayed |-> d] \in OutType
  BY <1>1, <1>3, <1>4, <1>5 DEF OutType
<1>9. QED BY <1>6, <1>7, <1>8

\* Every variable of the weekly loop stays in its range (TypeOK): a buffer never
\* reaches the size that reactivates, the heal counter never the number of weeks
\* that heals.
THEOREM TypeCorrect == Spec => []TypeOK
<1>1. Init => TypeOK
  <2>1. Silent \in OutType
    BY DEF Silent, OutType, Branches
  <2>2. Init => out = Silent /\ idle = 0 /\ KernelType
    BY KernelTypeInit DEF Init, InitKernel, InitHistory
  <2>3. QED BY <2>1, <2>2 DEF KernelType, TypeOK
<1>2. KernelType /\ TypeOK /\ [Next]_vars => TypeOK'
  <2>1. KernelType /\ TypeOK /\ UNCHANGED vars => TypeOK'
    BY DEF TypeOK, vars, kernel, history
  <2>2. ASSUME KernelType, TypeOK, NEW theta \in ThetaInputs, NEW in \in MicroInputs,
               Week(theta, in)
        PROVE  TypeOK'
    <3>1. theta \in Thetas /\ in \in Micros /\ theta.k \in Clusters
      BY InputsAssumption DEF Thetas
    <3>2. KernelType'
      BY <2>2, KernelTypeWeek
    <3>3. out' \in OutType
      BY <2>2, <3>1, OutAfterType DEF Week, KernelType
    <3>4. idle' \in Nat
      <4>1. touched[theta.k] \in Nat /\ touched[theta.k] <= row /\ row \in Nat /\ idle \in Nat
        BY <2>2, <3>1 DEF KernelType, TypeOK
      <4>2. idle' \in {idle, 0, row - touched[theta.k]}
        BY <2>2 DEF Week, Record
      <4>3. QED BY <4>1, <4>2
    <3>5. QED BY <3>2, <3>3, <3>4 DEF KernelType, TypeOK
  <2>3. QED BY <2>1, <2>2 DEF Next
<1>3. QED BY <1>1, <1>2, KernelTyped, PTL DEF Spec

-----------------------------------------------------------------------------
\* Every week decays the covariance exactly once (EveryWeekDecays).
THEOREM WeeksDecay == Spec => []EveryWeekDecays
<1>1. Init => EveryWeekDecays
  BY DEF Init, InitKernel, InitHistory, ColdCov, EveryWeekDecays
<1>2. KernelType /\ EveryWeekDecays /\ [Next]_vars => EveryWeekDecays'
  <2> SUFFICES ASSUME KernelType, EveryWeekDecays, [Next]_vars PROVE EveryWeekDecays'
    OBVIOUS
  <2>1. ASSUME NEW theta \in ThetaInputs, NEW in \in MicroInputs, Week(theta, in)
        PROVE  EveryWeekDecays'
    <3>1. theta.kind \in ThetaKinds
      BY InputsAssumption DEF Thetas
    <3>2. row \in Nat /\ elapsed \in Nat /\ failures \in Nat /\ cov.pending \in Nat
      BY DEF KernelType, CovType
    <3>3. /\ theta.kind = "finite" => cov'.pending = 0
          /\ theta.kind = "missing" => cov'.pending = cov.pending + 1
          /\ theta.kind = "singular" => cov'.pending = cov.pending
      BY <2>1 DEF Week, CovUpdate, KernelType, CovType
    <3>4. QED BY <2>1, <3>1, <3>2, <3>3 DEF Week, Record, EveryWeekDecays, ThetaKinds
  <2>2. CASE UNCHANGED vars
    BY <2>2 DEF vars, kernel, history, EveryWeekDecays
  <2>3. QED BY <2>1, <2>2 DEF Next
<1>3. QED BY <1>1, <1>2, KernelTyped, PTL DEF Spec


-----------------------------------------------------------------------------
\* Until the prototypes are up the seed holds every finite week counted warm.
SeedInv ==
    /\ ~IsWarm(cov) => ~proto.up /\ proto.seed >= cov.warm
    /\ SeedSuffices

\* A warm covariance always has the seed its prototypes need (SeedSuffices).
THEOREM SeedEnough == Spec => []SeedSuffices
<1>1. Init => SeedInv
  BY CountersAssumption
     DEF Init, InitKernel, ColdCov, NoProto, SeedInv, SeedSuffices, IsWarm
<1>2. KernelType /\ SeedInv /\ [Next]_vars => SeedInv'
  <2> SUFFICES ASSUME KernelType, SeedInv, [Next]_vars PROVE SeedInv'
    OBVIOUS
  <2>1. ASSUME NEW theta \in ThetaInputs, NEW in \in MicroInputs, Week(theta, in)
        PROVE  SeedInv'
    <3>1. theta.kind \in ThetaKinds /\ theta.k \in Clusters
      BY InputsAssumption DEF Thetas
    <3>2. cov.warm \in Nat /\ proto.seed \in Nat /\ WarmupWeeks \in Nat
      BY CountersAssumption DEF KernelType, CovType, ProtoType
    <3>3. /\ theta.kind = "finite" => cov'.warm = cov.warm + 1
          /\ theta.kind # "finite" => cov'.warm = cov.warm
      BY <2>1, <3>1 DEF Week, CovUpdate, KernelType, CovType, ThetaKinds
    <3>4. proto' = ProtoAfter(cov, proto, theta, row)
      BY <2>1 DEF Week
    <3>5. CASE theta.kind = "missing"
      <4>1. proto' = proto
        BY <3>4, <3>5 DEF ProtoAfter
      <4>2. QED BY <4>1, <3>3, <3>5 DEF SeedInv, SeedSuffices, IsWarm
    <3>6. CASE theta.kind # "missing" /\ ~IsWarm(cov)
      <4>1. proto'.seed = proto.seed + 1 /\ proto'.up = proto.up
        BY <3>4, <3>6 DEF ProtoAfter, KernelType, ProtoType
      <4>2. QED BY <4>1, <3>2, <3>3, <3>6 DEF SeedInv, SeedSuffices, IsWarm
    <3>7. CASE theta.kind # "missing" /\ IsWarm(cov)
      <4>1. HasSignal(proto, theta)
        BY <3>7 DEF HasSignal, Seeded, InitializePrototypes, SeedInv, SeedSuffices, KernelType, ProtoType
      <4>2. proto' = UpdatePrototypes(Seeded(proto), theta.k, row)
        BY <3>4, <3>7, <4>1 DEF ProtoAfter
      <4>3. proto'.up
        BY <4>1, <4>2, SeededType DEF HasSignal, UpdatePrototypes, KernelType, ProtoType
      <4>4. IsWarm(cov)'
        BY <3>2, <3>3, <3>7 DEF IsWarm
      <4>5. QED BY <4>3, <4>4 DEF SeedInv, SeedSuffices
    <3>8. QED BY <3>5, <3>6, <3>7
  <2>2. CASE UNCHANGED vars
    BY <2>2 DEF vars, kernel, SeedInv, SeedSuffices, IsWarm
  <2>3. QED BY <2>1, <2>2 DEF Next
<1>3. SeedInv => SeedSuffices
  BY DEF SeedInv
<1>4. QED BY <1>1, <1>2, <1>3, KernelTyped, PTL DEF Spec

-----------------------------------------------------------------------------
\* While fewer than HealWeeks low scores ran the code's counter is their
\* number; from then on the document's excess stays zero, and the code's
\* counter starts over without raising the envelope.
HealInv ==
    /\ micro.lead = Neutral + specLead
    /\ lowRun < HealWeeks => micro.heal = lowRun
    /\ lowRun >= HealWeeks => specLead = 0

\* The streamed envelope is the one the model document defines
\* (HealMatchesSpec), whatever weeks are held, missing or low.
THEOREM EnvelopeHeals == Spec => []HealMatchesSpec
<1>1. Init => HealInv
  BY LevelsAssumption, CountersAssumption DEF Init, InitKernel, InitHistory, HealInv, Levels
<1>2. KernelType /\ HealInv /\ [Next]_vars => HealInv'
  <2> SUFFICES ASSUME KernelType, HealInv, [Next]_vars PROVE HealInv'
    OBVIOUS
  <2>1. ASSUME NEW theta \in ThetaInputs, NEW in \in MicroInputs, Week(theta, in)
        PROVE  HealInv'
    <3>1. /\ micro' = MicroAfter(cov, micro, in)
          /\ RecordMicro(in)
      BY <2>1 DEF Week, Record
    <3>2. specLead \in Nat /\ lowRun \in Nat /\ Neutral \in Nat /\ HealWeeks \in Nat \ {0}
      BY LevelsAssumption, CountersAssumption DEF KernelType, Levels
    <3>3. Excess(micro.lead) = specLead
      BY <3>2, ExcessOfSum DEF HealInv
    <3>4. Decay[specLead] \in Nat /\ Decay[specLead] <= specLead
      BY DecayAssumption DEF KernelType, Levels
    <3>5. CASE ~IsWarm(cov) \/ in.gate # "open"
      BY <3>1, <3>5 DEF MicroAfter, MicroUpdate, RecordMicro, Scored, HealInv
    <3>6. CASE IsWarm(cov) /\ in.gate = "open" /\ in.h = NoLevel
      <4>1. micro' = [lead |-> Neutral + Decay[specLead], heal |-> 0]
        BY <3>1, <3>3, <3>6 DEF MicroAfter, MicroUpdate
      <4>2. lowRun' = 0 /\ specLead' = Decay[specLead]
        BY <3>1, <3>6 DEF RecordMicro, Scored
      <4>3. QED BY <4>1, <4>2, <3>2 DEF HealInv
    <3>7. CASE IsWarm(cov) /\ Scored(in)
      <4> DEFINE low == in.h < HealLevel
                 n   == IF low THEN lowRun + 1 ELSE 0
                 new == Larger(Excess(in.h), Decay[specLead])
                 heals == low /\ micro.heal + 1 >= HealWeeks
      <4>1. /\ micro'.lead = Neutral + (IF heals THEN 0 ELSE new)
            /\ micro'.heal = (IF low /\ ~heals THEN micro.heal + 1 ELSE 0)
        BY <3>1, <3>3, <3>7 DEF MicroAfter, MicroUpdate, Scored
      <4>2. lowRun' = n /\ specLead' = (IF n >= HealWeeks THEN 0 ELSE new)
        BY <3>1, <3>7 DEF RecordMicro, Scored, SpecLead
      <4>3. in.h \in Nat /\ Excess(in.h) \in Nat
        BY <3>7, InputsAssumption, ExcessType DEF Scored, Micros, Levels
      <4>4. micro.heal \in Nat
        BY DEF KernelType, MicroType
      <4>5. low /\ specLead = 0 => new = 0
        BY <4>3, <3>2, <3>4, LevelsAssumption DEF Excess, Larger
      <4> HIDE DEF new
      <4>6. CASE ~low
        BY <4>1, <4>2, <4>6, <3>2 DEF HealInv
      <4>7. CASE low /\ lowRun < HealWeeks
        BY <4>1, <4>2, <4>7, <3>2 DEF HealInv
      <4>8. CASE low /\ lowRun >= HealWeeks
        BY <4>1, <4>2, <4>4, <4>5, <4>8, <3>2 DEF HealInv
      <4>9. QED BY <4>6, <4>7, <4>8, <3>2
    <3>8. QED BY <3>5, <3>6, <3>7 DEF Scored
  <2>2. CASE UNCHANGED vars
    BY <2>2 DEF vars, kernel, history, HealInv
  <2>3. QED BY <2>1, <2>2 DEF Next
<1>3. KernelType /\ HealInv => HealMatchesSpec
  BY ExcessOfSum DEF HealInv, HealMatchesSpec, KernelType, Levels
<1>4. QED BY <1>1, <1>2, <1>3, KernelTyped, PTL DEF Spec

-----------------------------------------------------------------------------
\* No prototype was active in a week to come.
BufferInv == BufferIsRecent /\ \A k \in Clusters : proto.last[k] <= row

\* A prototype that holds samples back was last active StaleGap weeks before
\* its last sample, so the next one finds it stale again.
LEMMA BufferStep ==
    ASSUME KernelType, BufferInv, NEW theta \in ThetaInputs, NEW in \in MicroInputs,
           Week(theta, in)
    PROVE  BufferInv'
<1> DEFINE k == theta.k
           q == Seeded(proto)
           base == IF proto.up THEN touched ELSE [j \in Clusters |-> row]
<1>1. theta \in Thetas /\ k \in Clusters /\ row \in Nat /\ row' = row + 1
  BY InputsAssumption DEF Thetas, KernelType, Week
<1>2. proto \in ProtoType /\ q \in ProtoType
  BY SeededType DEF KernelType
<1>3. proto' = ProtoAfter(cov, proto, theta, row)
  BY DEF Week
<1>4. CASE ~(IsWarm(cov) /\ HasSignal(proto, theta))
  <2>1. touched' = touched
    BY <1>4 DEF Week, Record
  <2>2. /\ proto'.up = proto.up /\ proto'.buf = proto.buf
        /\ proto'.last = proto.last /\ proto'.age = proto.age
    BY <1>2, <1>3, <1>4 DEF ProtoAfter, HasSignal, ProtoType
  <2>3. \A j \in Clusters : proto.last[j] \in Nat
    BY <1>2 DEF ProtoType
  <2>4. QED BY <2>1, <2>2, <2>3, <1>1 DEF BufferInv, BufferIsRecent
<1>5. CASE IsWarm(cov) /\ HasSignal(proto, theta)
  <2>1. proto' = UpdatePrototypes(q, k, row)
    BY <1>3, <1>5 DEF ProtoAfter, HasSignal
  <2>2. base \in [Clusters -> Nat] /\ touched' = [base EXCEPT ![k] = row]
    BY <1>1, <1>5 DEF Week, Record, KernelType
  <2>3. q.up
    BY <1>5 DEF HasSignal
  <2>4. \A j \in Clusters :
          /\ q.last[j] <= row
          /\ base[j] <= row
          /\ q.buf[j] > 0 => base[j] - q.last[j] >= StaleGap /\ q.age[j] >= q.buf[j]
    <3>1. CASE proto.up
      BY <3>1 DEF Seeded, BufferInv, BufferIsRecent, KernelType
    <3>2. CASE ~proto.up
      <4>1. q = InitializePrototypes(proto)
        BY <3>2, <2>3 DEF Seeded
      <4>2. q.buf = Zeros /\ q.last = Zeros
        BY <4>1, <1>2 DEF InitializePrototypes, ProtoType
      <4>3. QED BY <4>2, <3>2, <1>1 DEF Zeros
    <3>3. QED BY <3>1, <3>2
  <2>5. proto'.up
    BY <2>1, <2>3, <1>2 DEF UpdatePrototypes, ProtoType
  <2> DEFINE b == Branch(q, k, row)
  <2>6. /\ StaleGap \in Nat /\ ReadySamples \in Nat
        /\ \A j \in Clusters : q.age[j] \in Nat /\ q.last[j] \in Nat /\ q.buf[j] \in Nat
    BY <1>2, CountersAssumption DEF ProtoType
  <2>7. /\ b \in {"fresh", "buffer", "reactivate"}
        /\ b = "fresh" <=> row - q.last[k] < StaleGap
    <3>1. Gap(q, k, row) = row - q.last[k]
      BY <2>4, <2>6, <1>1 DEF Gap, Larger
    <3>2. QED BY <3>1, <2>6, <1>1 DEF Branch, IsStale
  <2> HIDE DEF k, q, base, b
  <2>8. /\ proto'.buf = [q.buf EXCEPT ![k] = CASE b = "fresh" -> q.buf[k]
                              [] b = "buffer" -> q.buf[k] + 1 [] b = "reactivate" -> 0]
        /\ proto'.last = [q.last EXCEPT ![k] = IF b = "buffer" THEN q.last[k] ELSE row]
        /\ proto'.age = [j \in Clusters |->
                            IF j = k /\ b # "buffer" THEN 0 ELSE q.age[j] + 1]
    BY <2>1, <1>2 DEF UpdatePrototypes, ProtoType, b
  <2>9. q.buf \in [Clusters -> Nat] /\ q.last \in [Clusters -> Nat]
    BY <1>2, CountersAssumption DEF ProtoType
  <2>10. ASSUME NEW j \in Clusters
         PROVE  /\ proto'.last[j] <= row + 1
                /\ proto'.buf[j] > 0 =>
                     touched'[j] - proto'.last[j] >= StaleGap /\ proto'.age[j] >= proto'.buf[j]
    <3>1. CASE j # k
      BY <3>1, <2>2, <2>4, <2>6, <2>8, <2>9, <1>1
    <3>2. CASE j = k /\ b = "fresh"
      \* Nothing was buffered: it would have been stale.
      <4>1. q.buf[k] = 0
        BY <3>2, <2>2, <2>4, <2>6, <2>7, <1>1
      <4>2. QED BY <4>1, <3>2, <2>2, <2>6, <2>8, <2>9, <1>1
    <3>3. CASE j = k /\ b = "buffer"
      BY <3>3, <2>2, <2>4, <2>6, <2>7, <2>8, <2>9, <1>1
    <3>4. CASE j = k /\ b = "reactivate"
      BY <3>4, <2>2, <2>6, <2>8, <2>9, <1>1
    <3>5. QED BY <3>1, <3>2, <3>3, <3>4, <2>7
  <2>11. QED BY <2>5, <2>10, <1>1 DEF BufferInv, BufferIsRecent
<1>6. QED BY <1>4, <1>5

\* Whatever a buffer holds came since its prototype was last active
\* (BufferIsRecent).
THEOREM BuffersRecent == Spec => []BufferIsRecent
<1>1. Init => BufferInv
  BY DEF Init, InitKernel, NoProto, Zeros, BufferInv, BufferIsRecent
<1>2. KernelType /\ BufferInv /\ [Next]_vars => BufferInv'
  <2>1. KernelType /\ BufferInv /\ UNCHANGED vars => BufferInv'
    BY DEF vars, kernel, history, BufferInv, BufferIsRecent
  <2>2. QED BY <2>1, BufferStep DEF Next
<1>3. BufferInv => BufferIsRecent
  BY DEF BufferInv
<1>4. QED BY <1>1, <1>2, <1>3, KernelTyped, PTL DEF Spec

-----------------------------------------------------------------------------
(* LiveReplay                                                               *)

\* The rows beside the live kernel are those of the batch pipeline.
LEMMA LiveStepIsBatchStep == [LiveNext]_lvars => [Next]_vars
  BY DEF LiveNext, BootstrapWeek, RunWeek, BothWeek, GoLive, Next, lvars

\* The batch half of the composition is a batch run: what is proved of
\* CycleKernel holds of it beside a live kernel too.
THEOREM BatchInside == LiveSpec => Spec
<1>1. LiveInit => Init
  BY DEF LiveInit
<1>2. QED BY <1>1, LiveStepIsBatchStep, PTL DEF LiveSpec, Spec

-----------------------------------------------------------------------------
\* A low score has no excess, the top score the largest one.
LEMMA ExcessOfScore ==
    ASSUME NEW h \in Levels, NEW d \in Levels
    PROVE  /\ h < HealLevel => Excess(h) = 0
           /\ h = TopLevel /\ d <= TopLevel - Neutral => Larger(Excess(h), d) = Excess(TopLevel)
BY LevelsAssumption DEF Excess, Larger, Levels

\* What one advance of the envelope leaves above neutral.
LEMMA MicroAdvances ==
    ASSUME NEW m \in MicroType, NEW in \in Micros, in.gate = "open"
    PROVE  LET n == MicroUpdate(m, in)
               x == Excess(m.lead)
               heals == in.h < HealLevel /\ m.heal + 1 >= HealWeeks
           IN  /\ in.h = NoLevel => Excess(n.lead) = Decay[x] /\ n.heal = 0
               /\ in.h # NoLevel =>
                    /\ Excess(n.lead) = (IF heals THEN 0 ELSE Larger(Excess(in.h), Decay[x]))
                    /\ n.heal = (IF in.h < HealLevel /\ ~heals THEN m.heal + 1 ELSE 0)
               /\ Decay[x] \in Nat /\ Decay[x] <= x /\ x \in 0 .. TopLevel - Neutral
<1>1. Excess(m.lead) \in Levels
  BY ExcessType DEF MicroType
<1>2. Decay[Excess(m.lead)] \in Nat /\ Decay[Excess(m.lead)] <= Excess(m.lead)
  BY <1>1, DecayAssumption DEF Levels
<1>3. Excess(m.lead) \in 0 .. TopLevel - Neutral
  BY LevelsAssumption DEF MicroType, Levels, Excess, Larger
<1>4. CASE in.h = NoLevel
  <2>1. Excess(Neutral + Decay[Excess(m.lead)]) = Decay[Excess(m.lead)]
    BY <1>2, ExcessOfSum
  <2>2. MicroUpdate(m, in) = [lead |-> Neutral + Decay[Excess(m.lead)], heal |-> 0]
    BY <1>4 DEF MicroUpdate
  <2>3. /\ Excess(MicroUpdate(m, in).lead) = Decay[Excess(m.lead)]
        /\ MicroUpdate(m, in).heal = 0
    BY <2>1, <2>2
  <2>4. QED BY <1>2, <1>4, <1>3, <2>3
<1>5. CASE in.h # NoLevel
  <2> DEFINE heals == in.h < HealLevel /\ m.heal + 1 >= HealWeeks
             e == IF heals THEN 0 ELSE Larger(Excess(in.h), Decay[Excess(m.lead)])
  <2>1. in.h \in Levels
    BY <1>5 DEF Micros
  <2>2. Excess(in.h) \in Nat
    BY <2>1, ExcessType DEF Levels
  <2>3. e \in Nat
    BY <1>2, <2>2 DEF Larger
  <2>4. MicroUpdate(m, in) = [lead |-> Neutral + e,
                              heal |-> IF in.h < HealLevel /\ ~heals THEN m.heal + 1 ELSE 0]
    BY <1>5 DEF MicroUpdate
  <2> HIDE DEF e
  <2>5. Excess(Neutral + e) = e
    BY <2>3, ExcessOfSum
  <2>6. Excess(MicroUpdate(m, in).lead) = e
    BY <2>4, <2>5
  <2>7. MicroUpdate(m, in).heal = IF in.h < HealLevel /\ ~heals THEN m.heal + 1 ELSE 0
    BY <2>4
  <2>8. QED BY <1>2, <1>5, <1>3, <2>6, <2>7 DEF e
<1>6. QED BY <1>4, <1>5

\* The envelopes agree while they have not parted, up to the phase of a heal
\* counter that no longer matters; and each has healed, or counts every low
\* score that both were given since they parted.
Agree(m, n)    == Excess(m.lead) = Excess(n.lead) /\ (m.heal = n.heal \/ Excess(n.lead) = 0)
Counts(m, low) == m.heal >= low \/ Excess(m.lead) = 0
Joint(m, n, apart, low) ==
    /\ apart \in BOOLEAN /\ low \in 0 .. HealWeeks - 1
    /\ ~apart => Agree(m, n)
    /\ apart  => Counts(m, low) /\ Counts(n, low)

\* The same score leaves envelopes that agree in agreement, whatever the phase
\* of their heal counters: an excess of zero is not raised by a low score.
LEMMA AgreeKept ==
    ASSUME NEW m \in MicroType, NEW n \in MicroType, NEW in \in Micros,
           in.gate = "open", Agree(m, n)
    PROVE  Agree(MicroUpdate(m, in), MicroUpdate(n, in))
<1>1. CASE m.heal = n.heal
  BY <1>1, MicroAdvances DEF Agree
<1>2. CASE in.h = NoLevel
  BY <1>2, MicroAdvances DEF Agree
<1>3. CASE in.h # NoLevel /\ ~(in.h < HealLevel)
  BY <1>3, MicroAdvances DEF Agree
<1>4. CASE in.h # NoLevel /\ in.h < HealLevel /\ Excess(n.lead) = 0
  <2>1. in.h \in Levels /\ 0 \in Levels
    BY <1>4, LevelsAssumption DEF Micros, Levels
  <2>2. Excess(in.h) = 0
    BY <1>4, <2>1, ExcessOfScore
  <2>3. Decay[0] = 0
    BY <2>1, DecayAssumption DEF Levels
  <2>4. Larger(Excess(in.h), Decay[0]) = 0
    BY <2>2, <2>3 DEF Larger
  <2>5. QED BY <1>4, <2>4, MicroAdvances DEF Agree
<1>5. QED BY <1>1, <1>2, <1>3, <1>4 DEF Agree

\* One low score is counted, heals, or finds nothing to heal.
LEMMA CountsKept ==
    ASSUME NEW m \in MicroType, NEW in \in Micros, NEW low \in 0 .. HealWeeks - 1,
           in.gate = "open", in.h # NoLevel, in.h < HealLevel, Counts(m, low)
    PROVE  LET n == MicroUpdate(m, in)
           IN  Counts(n, low + 1) /\ (low + 1 >= HealWeeks => Excess(n.lead) = 0)
<1>1. in.h \in Levels /\ 0 \in Levels
  BY LevelsAssumption DEF Micros, Levels
<1>2. Excess(in.h) = 0 /\ Decay[0] = 0
  BY <1>1, ExcessOfScore, DecayAssumption DEF Levels
<1>3. Larger(Excess(in.h), Decay[0]) = 0
  BY <1>2 DEF Larger
<1>4. CASE Excess(m.lead) = 0
  BY <1>3, <1>4, MicroAdvances DEF Counts
<1>5. CASE m.heal >= low
  <2>1. m.heal \in Nat /\ HealWeeks \in Nat
    BY CountersAssumption DEF MicroType
  <2>2. CASE m.heal + 1 >= HealWeeks
    BY <2>2, MicroAdvances DEF Counts
  <2>3. CASE ~(m.heal + 1 >= HealWeeks)
    BY <2>1, <2>3, <1>5, MicroAdvances DEF Counts
  <2>4. QED BY <2>2, <2>3
<1>6. QED BY <1>4, <1>5 DEF Counts

\* A top score leaves every envelope at the top with no low score counted.
LEMMA TopJoins ==
    ASSUME NEW m \in MicroType, NEW n \in MicroType, NEW in \in Micros,
           in.gate = "open", in.h = TopLevel
    PROVE  Agree(MicroUpdate(m, in), MicroUpdate(n, in))
<1>1. in.h \in Levels /\ in.h # NoLevel /\ ~(in.h < HealLevel)
  BY LevelsAssumption DEF Levels, NoLevel
<1>2. ASSUME NEW x \in MicroType
      PROVE  /\ MicroUpdate(x, in).heal = 0
             /\ Excess(MicroUpdate(x, in).lead) = Excess(TopLevel)
  <2>1. /\ Decay[Excess(x.lead)] \in Levels
        /\ Decay[Excess(x.lead)] <= TopLevel - Neutral
    BY MicroAdvances, LevelsAssumption DEF Levels
  <2>2. Larger(Excess(in.h), Decay[Excess(x.lead)]) = Excess(TopLevel)
    BY <1>1, <2>1, ExcessOfScore
  <2>3. QED BY <1>1, <2>2, MicroAdvances
<1>3. QED BY <1>2 DEF Agree

\* One week of the two envelopes, each with its own input.
LEMMA JointStep ==
    ASSUME NEW m \in MicroType, NEW n \in MicroType, NEW in \in Micros, NEW mine \in Micros,
           lcov = cov, Joint(m, n, parted, lows), RecordJoin(in, mine)
    PROVE  Joint(MicroAfter(cov, m, mine), MicroAfter(cov, n, in), parted', lows')
<1> DEFINE m1 == MicroAfter(cov, m, mine)
           n1 == MicroAfter(cov, n, in)
<1>1. /\ parted \in BOOLEAN /\ lows \in 0 .. HealWeeks - 1
      /\ HealWeeks \in Nat \ {0} /\ 0 \in 0 .. HealWeeks - 1
  BY CountersAssumption DEF Joint
<1>2. CASE ~IsWarm(cov) \/ {in.gate, mine.gate} \subseteq {"held", "closed"}
  <2>1. parted' = parted /\ lows' = lows
    BY <1>2 DEF RecordJoin
  <2>2. m1 = m /\ n1 = n
    BY <1>2 DEF MicroAfter, MicroUpdate
  <2>3. QED BY <2>1, <2>2
<1>3. CASE IsWarm(cov) /\ "open" \in {in.gate, mine.gate} /\ in # mine
  <2>1. parted' = TRUE /\ lows' = 0
    BY <1>3 DEF RecordJoin
  <2>2. MicroUpdate(m, mine) \in MicroType /\ MicroUpdate(n, in) \in MicroType
    BY MicroUpdateType
  <2>3. m1.heal >= 0 /\ n1.heal >= 0
    BY <1>3, <2>2 DEF MicroAfter, MicroType
  <2>4. QED BY <1>1, <2>1, <2>3 DEF Joint, Counts
<1>4. CASE IsWarm(cov) /\ in.gate = "open" /\ in = mine
  <2>1. /\ parted' = (parted /\ ~Joins(in))
        /\ lows' = IF parted' /\ in.h < HealLevel THEN lows + 1 ELSE 0
    BY <1>4 DEF RecordJoin
  <2>2. m1 = MicroUpdate(m, in) /\ n1 = MicroUpdate(n, in)
    BY <1>4 DEF MicroAfter
  <2>3. m1 \in MicroType /\ n1 \in MicroType
    BY <2>2, MicroUpdateType
  <2>4. m1.heal >= 0 /\ n1.heal >= 0
    BY <2>3 DEF MicroType
  <2>5. in.h # NoLevel => in.h \in Levels
    BY DEF Micros
  <2> SUFFICES Joint(m1, n1, parted', lows')
    OBVIOUS
  <2> HIDE DEF m1, n1
  <2>6. CASE ~parted
    <3>1. parted' = FALSE /\ lows' = 0
      BY <2>1, <2>6
    <3>2. Agree(m1, n1)
      BY <1>4, <2>2, <2>6, AgreeKept DEF Joint
    <3>3. QED BY <1>1, <3>1, <3>2 DEF Joint
  <2>7. CASE parted /\ in.h = TopLevel
    <3>1. in.h # NoLevel /\ ~(in.h < HealLevel)
      BY <2>7, LevelsAssumption DEF Levels, NoLevel
    <3>2. parted' = FALSE /\ lows' = 0
      BY <2>1, <2>7, <3>1 DEF Joins
    <3>3. Agree(m1, n1)
      BY <1>4, <2>2, <2>7, TopJoins
    <3>4. QED BY <1>1, <3>2, <3>3 DEF Joint
  <2>8. CASE parted /\ in.h # TopLevel /\ in.h # NoLevel /\ in.h < HealLevel
    <3>1. Counts(m, lows) /\ Counts(n, lows)
      BY <2>8 DEF Joint
    <3>2. /\ Counts(m1, lows + 1) /\ Counts(n1, lows + 1)
          /\ lows + 1 >= HealWeeks => Excess(m1.lead) = 0 /\ Excess(n1.lead) = 0
      BY <1>1, <1>4, <2>2, <2>8, <3>1, CountsKept
    <3>3. CASE lows + 1 >= HealWeeks
      <4>1. parted' = FALSE /\ lows' = 0
        BY <2>1, <2>8, <3>3 DEF Joins
      <4>2. QED BY <1>1, <4>1, <3>2, <3>3 DEF Joint, Agree
    <3>4. CASE ~(lows + 1 >= HealWeeks)
      <4>1. parted' = TRUE /\ lows' = lows + 1
        BY <2>1, <2>8, <3>4 DEF Joins
      <4>2. lows + 1 \in 0 .. HealWeeks - 1
        BY <1>1, <3>4
      <4>3. QED BY <4>1, <4>2, <3>2 DEF Joint
    <3>5. QED BY <3>3, <3>4
  <2>9. CASE parted /\ in.h # TopLevel /\ (in.h = NoLevel \/ ~(in.h < HealLevel))
    <3>1. in.h = NoLevel => ~(in.h < HealLevel)
      BY LevelsAssumption DEF NoLevel, Levels
    <3>2. parted' = TRUE /\ lows' = 0
      BY <2>1, <2>9, <3>1 DEF Joins
    <3>3. QED BY <1>1, <2>4, <3>2 DEF Joint, Counts
  <2>10. QED BY <1>1, <2>6, <2>7, <2>8, <2>9
<1>5. {in.gate, mine.gate} \subseteq {"held", "closed"} \/ "open" \in {in.gate, mine.gate}
  BY DEF Micros
<1>6. in = mine /\ "open" \in {in.gate, mine.gate} => in.gate = "open"
  OBVIOUS
<1>7. QED BY <1>2, <1>3, <1>4, <1>5, <1>6

\* Dropping the seed once the prototypes are up changes no other part of them.
LEMMA DropSeedType ==
    ASSUME NEW p \in ProtoType
    PROVE  /\ DropSeed(p) \in ProtoType
           /\ DropSeed(p).up = p.up
           /\ DropSeed(p).last = p.last /\ DropSeed(p).buf = p.buf /\ DropSeed(p).age = p.age
           /\ DropSeed(DropSeed(p)) = DropSeed(p)
BY DEF DropSeed, ProtoType

\* Of an assigned sample the prototypes' branch does not depend on the seed,
\* and neither does what it leaves.
LEMMA UpdateIgnoresSeed ==
    ASSUME NEW p \in ProtoType, NEW n \in Nat, NEW k \in Clusters, NEW t
    PROVE  /\ Branch([p EXCEPT !.seed = n], k, t) = Branch(p, k, t)
           /\ Gap([p EXCEPT !.seed = n], k, t) = Gap(p, k, t)
           /\ UpdatePrototypes([p EXCEPT !.seed = n], k, t)
                = [UpdatePrototypes(p, k, t) EXCEPT !.seed = n]
<1> DEFINE q == [p EXCEPT !.seed = n]
<1>1. /\ q.up = p.up /\ q.last = p.last /\ q.buf = p.buf /\ q.age = p.age
      /\ q \in ProtoType
  BY DEF ProtoType
<1>2. Branch(q, k, t) = Branch(p, k, t) /\ Gap(q, k, t) = Gap(p, k, t)
  BY <1>1 DEF Branch, IsStale, IsReady, Gap
<1> DEFINE b    == Branch(p, k, t)
           bufK == CASE b = "fresh" -> p.buf[k] [] b = "buffer" -> p.buf[k] + 1 [] b = "reactivate" -> 0
           buf  == [p.buf EXCEPT ![k] = bufK]
           last == [p.last EXCEPT ![k] = IF b = "buffer" THEN p.last[k] ELSE t]
           age  == [j \in Clusters |-> IF j = k /\ b # "buffer" THEN 0 ELSE p.age[j] + 1]
<1>3. UpdatePrototypes(p, k, t) = [p EXCEPT !.buf = buf, !.last = last, !.age = age]
  BY DEF UpdatePrototypes, ProtoType
<1>4. UpdatePrototypes(q, k, t) = [q EXCEPT !.buf = buf, !.last = last, !.age = age]
  BY <1>1, <1>2 DEF UpdatePrototypes, ProtoType
<1> HIDE DEF b, bufK, buf, last, age
<1>5. UpdatePrototypes(q, k, t) = [UpdatePrototypes(p, k, t) EXCEPT !.seed = n]
  BY <1>3, <1>4 DEF ProtoType
<1>6. QED BY <1>2, <1>5

\* A sample leaves prototypes that are up, up.
LEMMA UpdateKeepsUp ==
    ASSUME NEW p \in ProtoType, NEW k \in Clusters, NEW t
    PROVE  UpdatePrototypes(p, k, t).up = p.up
BY DEF UpdatePrototypes, ProtoType

\* A week of the loop body may be run over prototypes without their seed: what
\* it leaves differs in the seed alone, and what it shows not at all.
LEMMA WeekIgnoresSeed ==
    ASSUME NEW c \in CovType, NEW p \in ProtoType, NEW theta \in Thetas, NEW in \in Micros,
           NEW t \in Nat
    PROVE  /\ DropSeed(ProtoAfter(c, DropSeed(p), theta, t)) = DropSeed(ProtoAfter(c, p, theta, t))
           /\ OutAfter(c, DropSeed(p), theta, in, t) = OutAfter(c, p, theta, in, t)
<1>1. CASE ~p.up
  BY <1>1 DEF DropSeed
<1>2. CASE p.up
  <2> DEFINE q == [p EXCEPT !.seed = 0]
  <2>1. DropSeed(p) = q /\ q.up /\ q \in ProtoType
    BY <1>2 DEF DropSeed, ProtoType
  <2>2. Seeded(p) = p /\ Seeded(q) = q
    BY <1>2, <2>1 DEF Seeded
  <2>3. theta.k \in Clusters
    BY DEF Thetas
  <2>4. /\ Branch(q, theta.k, t) = Branch(p, theta.k, t)
        /\ Gap(q, theta.k, t) = Gap(p, theta.k, t)
        /\ UpdatePrototypes(q, theta.k, t) = [UpdatePrototypes(p, theta.k, t) EXCEPT !.seed = 0]
    BY <2>3, UpdateIgnoresSeed
  <2>5. q.age = p.age
    BY DEF ProtoType
  <2>6. HasSignal(q, theta) = HasSignal(p, theta)
    BY <1>2, <2>1, <2>2 DEF HasSignal
  <2>7. OutAfter(c, q, theta, in, t) = OutAfter(c, p, theta, in, t)
    BY <2>2, <2>4, <2>5, <2>6 DEF OutAfter
  <2>8. DropSeed(ProtoAfter(c, q, theta, t)) = DropSeed(ProtoAfter(c, p, theta, t))
    <3>1. CASE theta.kind = "missing"
      BY <3>1, <1>2, <2>1, DropSeedType DEF ProtoAfter
    <3>2. CASE theta.kind # "missing" /\ ~IsWarm(c)
      <4>1. /\ ProtoAfter(c, p, theta, t) = [p EXCEPT !.seed = @ + 1]
            /\ ProtoAfter(c, q, theta, t) = [q EXCEPT !.seed = @ + 1]
        BY <3>2 DEF ProtoAfter
      <4> DEFINE pa == [p EXCEPT !.seed = @ + 1]
                 qa == [q EXCEPT !.seed = @ + 1]
      <4>2. pa \in ProtoType /\ qa \in ProtoType
        <5>1. p.seed \in Nat /\ q.seed \in Nat BY <2>1 DEF ProtoType
        <5> DEFINE r == p.seed + 1
                   s == q.seed + 1
        <5>2. r \in Nat /\ s \in Nat BY <5>1
        <5>3. pa = [p EXCEPT !.seed = r] /\ qa = [q EXCEPT !.seed = s]
          BY DEF ProtoType
        <5>4. q \in ProtoType BY <2>1
        <5> HIDE DEF r, s, q, pa, qa
        <5>5. pa \in ProtoType BY <5>2, <5>3 DEF ProtoType
        <5>6. qa \in ProtoType BY <5>2, <5>3, <5>4 DEF ProtoType
        <5>7. QED BY <5>5, <5>6
      <4>3. /\ pa.up = p.up /\ pa.last = p.last /\ pa.buf = p.buf /\ pa.age = p.age
            /\ qa.up = p.up /\ qa.last = p.last /\ qa.buf = p.buf /\ qa.age = p.age
        BY DEF ProtoType
      <4> HIDE DEF pa, qa
      <4>4. [pa EXCEPT !.seed = 0] = [qa EXCEPT !.seed = 0]
        BY <4>2, <4>3 DEF ProtoType
      <4>5. DropSeed(pa) = DropSeed(qa)
        BY <4>3, <4>4, <1>2 DEF DropSeed
      <4>6. QED BY <4>1, <4>5 DEF pa, qa
    <3>3. CASE theta.kind # "missing" /\ IsWarm(c)
      <4>1. HasSignal(p, theta) /\ HasSignal(q, theta)
        BY <3>3, <1>2, <2>2, <2>6 DEF HasSignal
      <4>2. /\ ProtoAfter(c, p, theta, t) = UpdatePrototypes(p, theta.k, t)
            /\ ProtoAfter(c, q, theta, t) = [UpdatePrototypes(p, theta.k, t) EXCEPT !.seed = 0]
        BY <3>3, <4>1, <2>2, <2>4 DEF ProtoAfter
      <4>3. UpdatePrototypes(p, theta.k, t) \in ProtoType
        BY <2>3, UpdatePrototypesType
      <4>4. UpdatePrototypes(p, theta.k, t).up
        BY <1>2, <2>3, UpdateKeepsUp
      <4> HIDE DEF q
      <4>5. QED BY <4>2, <4>3, <4>4 DEF DropSeed, ProtoType
    <3>4. QED BY <3>1, <3>2, <3>3
  <2>9. QED BY <2>1, <2>7, <2>8
<1>3. QED BY <1>1, <1>2

\* Whether the prototypes come up in a week, and whether the week has a signal,
\* depends on nothing of them but whether they are up and, until then, the seed;
\* the micro input shows only in the mode and in whether rho_t exists.
LEMMA SignalAgrees ==
    ASSUME NEW c \in CovType, NEW p \in ProtoType, NEW q \in ProtoType,
           NEW theta \in Thetas, NEW in \in Micros, NEW mine \in Micros,
           NEW t \in Nat, NEW u \in Nat,
           q.up = p.up, ~p.up => q = p
    PROVE  LET qa == DropSeed(ProtoAfter(c, q, theta, u))
               pa == ProtoAfter(c, p, theta, t)
               qo == OutAfter(c, q, theta, mine, u)
               po == OutAfter(c, p, theta, in, t)
           IN  /\ qa.up = pa.up /\ (~pa.up => qa = pa)
               /\ qo.signal = po.signal /\ qo.k = po.k
               /\ Scored(in) = Scored(mine) => qo.mode = po.mode /\ qo.rho = po.rho
<1> DEFINE qb == ProtoAfter(c, q, theta, u)
           pa == ProtoAfter(c, p, theta, t)
<1>1. theta.k \in Clusters
  BY DEF Thetas
<1>2. Seeded(q).up = Seeded(p).up /\ Seeded(p) \in ProtoType /\ Seeded(q) \in ProtoType
  BY SeededType DEF Seeded, InitializePrototypes, ProtoType
<1>3. HasSignal(q, theta) = HasSignal(p, theta)
  BY <1>2 DEF HasSignal
<1>4. qb \in ProtoType /\ pa \in ProtoType
  BY ProtoAfterType
<1>5. qb.up = pa.up /\ (~pa.up => qb = pa)
  <2>1. CASE theta.kind = "missing"
    BY <2>1 DEF ProtoAfter
  <2>2. CASE theta.kind # "missing" /\ ~IsWarm(c)
    BY <2>2 DEF ProtoAfter, ProtoType
  <2>3. CASE theta.kind # "missing" /\ IsWarm(c) /\ HasSignal(p, theta)
    <3>1. /\ pa = UpdatePrototypes(Seeded(p), theta.k, t)
          /\ qb = UpdatePrototypes(Seeded(q), theta.k, u)
      BY <2>3, <1>3 DEF ProtoAfter
    <3>2. Seeded(p).up /\ Seeded(q).up
      BY <2>3, <1>3 DEF HasSignal
    <3>3. QED BY <3>1, <3>2, <1>1, <1>2, UpdateKeepsUp
  <2>4. CASE theta.kind # "missing" /\ IsWarm(c) /\ ~HasSignal(p, theta)
    BY <2>4, <1>3 DEF ProtoAfter
  <2>5. QED BY <2>1, <2>2, <2>3, <2>4
<1>6. DropSeed(qb).up = pa.up /\ (~pa.up => DropSeed(qb) = pa)
  BY <1>4, <1>5, DropSeedType DEF DropSeed
<1>7. LET qo == OutAfter(c, q, theta, mine, u)
          po == OutAfter(c, p, theta, in, t)
      IN  /\ qo.signal = po.signal /\ qo.k = po.k
          /\ Scored(in) = Scored(mine) => qo.mode = po.mode /\ qo.rho = po.rho
  <2>1. CASE ~IsWarm(c)
    BY <2>1 DEF OutAfter
  <2>2. CASE IsWarm(c) /\ ~HasSignal(p, theta)
    BY <2>2, <1>3 DEF OutAfter, Silent
  <2>3. CASE IsWarm(c) /\ HasSignal(p, theta)
    BY <2>3, <1>3 DEF OutAfter
  <2>4. QED BY <2>1, <2>2, <2>3
<1>8. QED BY <1>6, <1>7

\* The micro input does not reach what a week shows of its prototype.
LEMMA PrototypeIgnoresMicro ==
    ASSUME NEW c, NEW p, NEW theta, NEW in, NEW mine, NEW t
    PROVE  /\ ShownPrototype(OutAfter(c, p, theta, mine, t))
                = ShownPrototype(OutAfter(c, p, theta, in, t))
           /\ Scored(in) = Scored(mine) =>
                OutAfter(c, p, theta, mine, t) = OutAfter(c, p, theta, in, t)
<1>1. CASE ~IsWarm(c)
  BY <1>1 DEF OutAfter
<1>2. CASE IsWarm(c) /\ ~HasSignal(p, theta)
  BY <1>2 DEF OutAfter, ShownPrototype, Silent
<1>3. CASE IsWarm(c) /\ HasSignal(p, theta)
  BY <1>3 DEF OutAfter, ShownPrototype
<1>4. QED BY <1>1, <1>2, <1>3

-----------------------------------------------------------------------------
\* What the live kernel shares with the replay. While no week was missing or
\* failed the covariance's count is the row; once it falls behind it stays
\* behind, so the two week indices that agree now agreed in every week before.
ReplayInv ==
    /\ KernelType
    /\ live \in BOOLEAN /\ lproto \in ProtoType /\ lmicro \in MicroType
    /\ cov.warm <= row
    /\ Joint(lmicro, micro, parted, lows)
    /\ LiveMatchesReplay
    /\ PrototypesAgree

LEMMA ReplayInit == LiveInit => ReplayInv
<1> SUFFICES ASSUME LiveInit PROVE ReplayInv
  OBVIOUS
<1>1. KernelType /\ proto = NoProto /\ proto \in ProtoType
  BY KernelTypeInit DEF LiveInit, Init, InitKernel, KernelType
<1>2. lmicro \in MicroType
  BY LevelsAssumption, CountersAssumption DEF LiveInit, MicroType, Levels
<1>3. Excess(0) = Excess(Neutral)
  BY LevelsAssumption DEF Excess, Larger, Levels
<1>4. Joint(lmicro, micro, parted, lows)
  <2>1. lmicro.lead = 0 /\ lmicro.heal = 0 /\ micro.lead = Neutral /\ micro.heal = 0
    BY DEF LiveInit, Init, InitKernel
  <2>2. Agree(lmicro, micro)
    BY <2>1, <1>3 DEF Agree
  <2>3. parted = FALSE /\ lows = 0 /\ 0 \in 0 .. HealWeeks - 1
    BY CountersAssumption DEF LiveInit
  <2>4. QED BY <2>2, <2>3 DEF Joint
<1>5. LiveMatchesReplay
  BY <1>3 DEF LiveInit, Init, InitKernel, LiveMatchesReplay
<1>6. PrototypesAgree /\ cov.warm <= row
  BY DEF LiveInit, Init, InitKernel, PrototypesAgree, NoProto, ColdCov
<1>7. QED BY <1>1, <1>2, <1>4, <1>5, <1>6 DEF LiveInit, ReplayInv

\* A week of either kind: the replay is given the row as its index, the live
\* kernel an index that is the row too while the two agree; each side has its
\* own micro input.
LEMMA ReplayWeek ==
    ASSUME ReplayInv, NEW theta \in ThetaInputs, NEW in \in MicroInputs, NEW mine \in LiveInputs,
           NEW t \in Nat, BothWeek(theta, in, mine, t),
           (row = cov.warm \/ ~live) => t = row
    PROVE  ReplayInv'
<1>1. theta \in Thetas /\ in \in Micros /\ mine \in Micros /\ theta.kind \in ThetaKinds
  BY InputsAssumption, LiveInputsAssumption DEF Thetas
<1>2. /\ cov \in CovType /\ proto \in ProtoType /\ micro \in MicroType /\ row \in Nat
      /\ lproto \in ProtoType /\ lmicro \in MicroType /\ lcov = cov
  BY DEF ReplayInv, KernelType, LiveMatchesReplay
<1>3. KernelType'
  BY KernelTypeWeek DEF ReplayInv, BothWeek
<1>4. /\ row' = row + 1 /\ live' = live
      /\ cov' = CovUpdate(cov, theta.kind) /\ lcov' = cov'
      /\ proto' = ProtoAfter(cov, proto, theta, row)
      /\ lproto' = DropSeed(ProtoAfter(cov, lproto, theta, t))
      /\ micro' = MicroAfter(cov, micro, in) /\ lmicro' = MicroAfter(cov, lmicro, mine)
      /\ out' = OutAfter(cov, proto, theta, in, row)
      /\ lout' = OutAfter(cov, lproto, theta, mine, t)
      /\ alike' = (Scored(in) = Scored(mine)) /\ RecordJoin(in, mine)
  BY <1>2 DEF BothWeek, Week, PipelineStep
<1>5. lproto' \in ProtoType /\ lmicro' \in MicroType
  <2>1. ProtoAfter(cov, lproto, theta, t) \in ProtoType
    BY <1>1, <1>2, ProtoAfterType
  <2>2. QED BY <1>1, <1>2, <1>4, <2>1, DropSeedType, MicroUpdateType DEF MicroAfter
<1>6. cov'.warm <= cov.warm + 1 /\ cov.warm \in Nat /\ cov'.warm <= row' /\ cov'.warm \in Nat
  <2>1. cov'.warm \in {cov.warm, cov.warm + 1} /\ cov.warm \in Nat
    BY <1>1, <1>2, <1>4 DEF CovUpdate, CovType, ThetaKinds
  <2>2. cov.warm <= row
    BY DEF ReplayInv
  <2>3. QED BY <2>1, <2>2, <1>2, <1>4
<1>7. Joint(lmicro', micro', parted', lows')
  <2>1. Joint(lmicro, micro, parted, lows)
    BY DEF ReplayInv
  <2>2. QED BY <2>1, <1>1, <1>2, <1>4, JointStep
<1>8. LiveMatchesReplay'
  <2>1. ~parted' => Excess(lmicro'.lead) = Excess(micro'.lead)
    BY <1>7 DEF Joint, Agree
  <2>2. lproto.up = proto.up /\ (~proto.up => lproto = proto)
    BY DEF ReplayInv, LiveMatchesReplay
  <2>3. /\ lproto'.up = proto'.up /\ (~proto'.up => lproto' = proto')
        /\ lout'.signal = out'.signal /\ lout'.k = out'.k
        /\ Scored(in) = Scored(mine) => lout'.mode = out'.mode /\ lout'.rho = out'.rho
    BY <2>2, <1>1, <1>2, <1>4, SignalAgrees
  <2>4. alike' => Scored(in) = Scored(mine)
    BY <1>4
  <2>5. QED BY <1>4, <2>1, <2>3, <2>4 DEF LiveMatchesReplay
<1>9. PrototypesAgree'
  <2> SUFFICES ASSUME row' = cov'.warm \/ ~live'
               PROVE  /\ ShownPrototype(lout') = ShownPrototype(out')
                      /\ alike' => lout' = out'
                      /\ proto'.up => lproto' = [proto' EXCEPT !.seed = 0]
    BY DEF PrototypesAgree
  <2>1. row = cov.warm \/ ~live
    BY <1>2, <1>4, <1>6 DEF ReplayInv
  <2>2. t = row
    BY <2>1
  <2>3. lproto = DropSeed(proto)
    BY <2>1 DEF ReplayInv, PrototypesAgree, LiveMatchesReplay, DropSeed
  <2>4. /\ lproto' = DropSeed(ProtoAfter(cov, proto, theta, row))
        /\ lout' = OutAfter(cov, proto, theta, mine, row)
    BY <2>2, <2>3, <1>1, <1>2, <1>4, WeekIgnoresSeed
  <2>5. /\ ShownPrototype(OutAfter(cov, proto, theta, mine, row))
             = ShownPrototype(OutAfter(cov, proto, theta, in, row))
        /\ Scored(in) = Scored(mine) =>
             OutAfter(cov, proto, theta, mine, row) = OutAfter(cov, proto, theta, in, row)
    BY PrototypeIgnoresMicro
  <2>6. ShownPrototype(lout') = ShownPrototype(out') /\ (Scored(in) = Scored(mine) => lout' = out')
    BY <2>4, <2>5, <1>4
  <2>7. alike' => Scored(in) = Scored(mine)
    BY <1>4
  <2>8. QED BY <2>4, <2>6, <2>7, <1>4 DEF DropSeed
<1>10. QED BY <1>3, <1>4, <1>5, <1>6, <1>7, <1>8, <1>9 DEF ReplayInv

LEMMA ReplayStep == ReplayInv /\ [LiveNext]_lvars => ReplayInv'
<1> SUFFICES ASSUME ReplayInv, [LiveNext]_lvars PROVE ReplayInv'
  OBVIOUS
<1>1. ASSUME NEW theta \in ThetaInputs, NEW in \in MicroInputs, NEW mine \in LiveInputs,
             BootstrapWeek(theta, in, mine)
      PROVE  ReplayInv'
  BY <1>1, ReplayWeek DEF BootstrapWeek, ReplayInv, KernelType
<1>2. ASSUME NEW theta \in ThetaInputs, NEW in \in MicroInputs, NEW mine \in LiveInputs,
             RunWeek(theta, in, mine)
      PROVE  ReplayInv'
  <2>1. lcov = cov /\ live /\ cov.warm \in Nat
    BY <1>2 DEF RunWeek, ReplayInv, LiveMatchesReplay, KernelType, CovType
  <2>2. QED BY <1>2, <2>1, ReplayWeek DEF RunWeek
<1>3. CASE GoLive
  <2>1. KernelType'
    BY <1>3, KernelTypeStutter DEF GoLive, ReplayInv
  <2>2. QED
    BY <1>3, <2>1
    DEF GoLive, ReplayInv, vars, kernel, history, lkernel, lhistory, LiveMatchesReplay, PrototypesAgree
<1>4. CASE UNCHANGED lvars
  <2>1. KernelType'
    BY <1>4, KernelTypeStutter DEF lvars, ReplayInv
  <2>2. QED
    BY <1>4, <2>1
    DEF lvars, ReplayInv, vars, kernel, history, lkernel, lhistory, LiveMatchesReplay, PrototypesAgree
<1>5. QED BY <1>1, <1>2, <1>3, <1>4 DEF LiveNext

\* A hot restart loses nothing of the covariance and the signal, nothing of
\* mode and rho_t in a week both sides score or neither does, and nothing of
\* the envelope that a top score or HealWeeks low ones do not bring back
\* (LiveMatchesReplay), whichever week the kernel goes live.
THEOREM RestartLosesNothing == LiveSpec => []LiveMatchesReplay
<1>1. ReplayInv => LiveMatchesReplay
  BY DEF ReplayInv
<1>2. QED BY ReplayInit, ReplayStep, <1>1, PTL DEF LiveSpec

\* Until a live week follows a missing or failed one the prototypes are those
\* of the replay as well (PrototypesAgree), whatever either side's contracts
\* deliver.
THEOREM PrototypesMatch == LiveSpec => []PrototypesAgree
<1>1. ReplayInv => PrototypesAgree
  BY DEF ReplayInv
<1>2. QED BY ReplayInit, ReplayStep, <1>1, PTL DEF LiveSpec
=============================================================================
