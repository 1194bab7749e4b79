------------------------ MODULE BackfillStoresProofs ------------------------
(***************************************************************************)
(* What TLAPS proves of the controlled backfill, for all payloads, rows,   *)
(* instrument masters and archives, and any number of scripts and kills.   *)
(***************************************************************************)
EXTENDS BackfillStores, TLAPS

Scripts ==
    {Idle} \cup [pc : {"proof"}, proof : Proof]
           \cup [pc : Kinds \cup {"result"}, mode : Schemes, src : Payloads \cup {None}]

FileTypes ==
    /\ late \in BOOLEAN /\ source \in Payloads
    /\ archive \subseteq [payload : Payloads, late : BOOLEAN, wrapper : Wrappers]
    /\ raw \in Payloads \cup {None} /\ normalized \in Payloads \cup {None}
    /\ proof \in Proof \cup {None} /\ candidate \in Proof \cup {None}
    /\ script \in Scripts
    /\ store = [n \in Namespaces |-> [k \in Kinds |-> store[n][k]]]

\* Contents once published stay published.
LEMMA PublishedGrows == [Next]_vars => published \subseteq published'
<1> SUFFICES ASSUME [Next]_vars PROVE published \subseteq published'
  OBVIOUS
<1>1. CASE SourceMoves
  BY <1>1 DEF SourceMoves
<1>2. CASE UNCHANGED published
  BY <1>2
<1>3. QED
  BY <1>1, <1>2 DEF Next, vars, sourceVars, ArchiveCrawls, CutoffPasses, CaptureRaw, CaptureWriteProof,
     ExploreEvidence, Normalize, Decide, WriteStore, WriteResult, Kill, ResolveMode, ResolveGate,
     ResolveBuild

-----------------------------------------------------------------------------
\* The proofs and mappings the scripts write are in their type.
LEMMA CaptureProofType ==
    ASSUME NEW p \in Payloads, NEW l \in BOOLEAN, NEW ok \in BOOLEAN
    PROVE  CaptureProof(p, l, ok) \in Proof
BY DEF CaptureProof, Proof

LEMMA SnapshotProofType ==
    ASSUME NEW e \in Proof, NEW p \in Payloads, NEW l \in BOOLEAN
    PROVE  /\ SnapshotProof(e, p, l) \in Proof
           /\ SnapshotProof(e, p, l).late = l /\ SnapshotProof(e, p, l).hash = p
           /\ SnapshotProof(e, p, l).canonical = Content[p]
BY DEF SnapshotProof, Proof, CanonicalHash

\* A file written, whole or cut short, changes no other file of the stores.
LEMMA StoreWrite ==
    ASSUME store = [n \in Namespaces |-> [k \in Kinds |-> store[n][k]]],
           NEW t \in Namespaces, NEW kind \in Kinds, NEW file,
           store' = [store EXCEPT ![t][kind] = file]
    PROVE  /\ store' = [n \in Namespaces |-> [k \in Kinds |-> store'[n][k]]]
           /\ store'[t][kind] = file
           /\ \A n \in Namespaces, k \in Kinds : (n # t \/ k # kind) => store'[n][k] = store[n][k]
OBVIOUS

LEMMA TargetType == Target \in Namespaces
BY DEF Target, Namespaces

\* What a kill leaves: everything, or one file of the stores or the result cut.
LEMMA KillCases ==
    ASSUME Kill
    PROVE  /\ script # Idle /\ script' = Idle /\ cut' = (cut \/ script.pc # "proof")
           /\ UNCHANGED <<sourceVars, captureVars, liveVars>>
           /\ \/ UNCHANGED <<store, result>>
              \/ /\ script.pc \in Kinds /\ UNCHANGED result
                 /\ \E n \in 0 .. Len(Holdings[script.src]) - 1 :
                      store' = [store EXCEPT ![Target][script.pc] =
                                  [src |-> script.src, ids |-> IdsUpTo(script.src, n)]]
              \/ script.pc = "result" /\ result' = Torn /\ UNCHANGED store
BY DEF Kill, storeVars

\* Every file and the script keep their types.
LEMMA TypesStep == FileTypes /\ [Next]_vars => FileTypes'
<1> SUFFICES ASSUME FileTypes, [Next]_vars PROVE FileTypes'
  OBVIOUS
<1> USE DEF FileTypes, sourceVars, captureVars, storeVars, liveVars
<1>1. CASE SourceMoves
  BY <1>1, BoundsAssumption DEF SourceMoves
<1>2. CASE ArchiveCrawls
  BY <1>2 DEF ArchiveCrawls
<1>3. CASE CutoffPasses
  BY <1>3 DEF CutoffPasses
<1>4. CASE CaptureRaw
  <2>1. PICK ok \in BOOLEAN :
          /\ raw' = IF ok THEN source ELSE raw
          /\ script' = [pc |-> "proof", proof |-> CaptureProof(source, late, ok)]
    BY <1>4 DEF CaptureRaw, FetchOutcomes
  <2>2. script' \in Scripts
    BY <2>1, CaptureProofType DEF Scripts
  <2>3. QED BY <1>4, <2>1, <2>2 DEF CaptureRaw
<1>5. CASE CaptureWriteProof
  <2>1. script.proof \in Proof
    BY <1>5 DEF CaptureWriteProof, Scripts, Idle, Kinds
  <2>2. QED BY <1>5, <2>1 DEF CaptureWriteProof, Scripts
<1>6. CASE ExploreEvidence
  <2>1. candidate' \in Proof \cup {None}
    <3>1. CASE candidate' = candidate
      BY <3>1
    <3>2. CASE candidate' \in ArchiveCandidates(proof, raw)
      <4>1. proof \in Proof
        BY <1>6 DEF ExploreEvidence
      <4>2. QED BY <3>2, <4>1, SnapshotProofType DEF ArchiveCandidates
    <3>3. QED BY <1>6, <3>1, <3>2 DEF ExploreEvidence
  <2>2. QED BY <1>6, <2>1 DEF ExploreEvidence
<1>7. CASE Normalize
  BY <1>7 DEF Normalize
<1>8. CASE Decide
  <2>1. PICK reason, ok : LET scheme == DecideScheme(ok, reason) IN
          script' = [pc |-> IF scheme = "block" THEN "result" ELSE "constituents",
                     mode |-> scheme, src |-> normalized]
    BY <1>8 DEF Decide
  <2>2. DecideScheme(ok, reason) \in Schemes
    BY DEF DecideScheme, Schemes
  <2>3. script' \in Scripts
    BY <2>1, <2>2 DEF Scripts, Kinds
  <2>4. QED BY <1>8, <2>3 DEF Decide
<1>9. ASSUME NEW kind \in Kinds, NEW next \in Kinds \cup {"result"}, WriteStore(kind, next)
      PROVE FileTypes'
  <2>1. script' \in Scripts
    BY <1>9 DEF WriteStore, Scripts, Idle, Kinds
  <2>2. store' = [n \in Namespaces |-> [k \in Kinds |-> store'[n][k]]]
    BY <1>9, StoreWrite, TargetType DEF WriteStore
  <2>3. QED BY <1>9, <2>1, <2>2 DEF WriteStore
<1>10. CASE WriteResult
  BY <1>10 DEF WriteResult, Scripts
<1>11. CASE Kill
  <2>1. store' = [n \in Namespaces |-> [k \in Kinds |-> store'[n][k]]]
    <3>1. CASE UNCHANGED store
      BY <3>1
    <3>2. CASE script.pc \in Kinds /\ \E n \in 0 .. Len(Holdings[script.src]) - 1 :
                 store' = [store EXCEPT ![Target][script.pc] =
                             [src |-> script.src, ids |-> IdsUpTo(script.src, n)]]
      BY <3>2, StoreWrite, TargetType
    <3>3. QED BY <1>11, KillCases, <3>1, <3>2
  <2>2. QED BY <1>11, <2>1, KillCases DEF Scripts
<1>12. CASE ResolveMode \/ ResolveGate \/ ResolveBuild
  BY <1>12 DEF ResolveMode, ResolveGate, ResolveBuild
<1>13. CASE UNCHANGED vars
  BY <1>13 DEF vars
<1>14. QED
  BY <1>1, <1>2, <1>3, <1>4, <1>5, <1>6, <1>7, <1>8, <1>9, <1>10, <1>11, <1>12, <1>13
  DEF Next, Kinds

LEMMA TypesInit == Init => FileTypes
BY BoundsAssumption DEF Init, FileTypes, Scripts

-----------------------------------------------------------------------------
\* What is published is a beginning of what was served: until the cutoff all of
\* it, and afterwards, if anything is at all newer than it, nothing newer. So the
\* rows normalized last, which are of the raw payload or of an older one, were
\* published whenever the raw payload was.
SourceInv ==
    /\ Content[source] \in served
    /\ published \subseteq served
    /\ ~late => served \subseteq published
    /\ Content[source] \in published => served \subseteq published
    /\ raw # None => Content[raw] \in served
    /\ normalized # None => Content[normalized] \in served
    /\ (raw # None /\ normalized # None /\ Content[raw] \in published)
          => Content[normalized] \in published

LEMMA SourceStep == FileTypes /\ SourceInv /\ [Next]_vars => SourceInv'
<1> SUFFICES ASSUME FileTypes, SourceInv, [Next]_vars PROVE SourceInv'
  OBVIOUS
<1> USE DEF SourceInv, sourceVars, captureVars, storeVars, liveVars
<1>1. CASE SourceMoves
  BY <1>1 DEF SourceMoves, FileTypes
<1>2. CASE CutoffPasses
  BY <1>2 DEF CutoffPasses
<1>3. CASE CaptureRaw
  BY <1>3 DEF CaptureRaw
<1>4. CASE Normalize
  BY <1>4 DEF Normalize
<1>5. CASE UNCHANGED <<late, source, served, published, raw, normalized>>
  BY <1>5
<1>6. QED
  BY <1>1, <1>2, <1>3, <1>4, <1>5
  DEF Next, vars, ArchiveCrawls, CaptureWriteProof, ExploreEvidence, Decide, WriteStore, WriteResult,
      Kill, ResolveMode, ResolveGate, ResolveBuild

-----------------------------------------------------------------------------
\* Evidence that is not late is about bytes, and about a canonical form, that
\* were published by the cutoff; so is a snapshot the archive took by then.
Timely(e) ==
    ~e.late => /\ Content[e.hash] \in published
               /\ e.canonical # None => e.canonical \in published
EvidenceInv ==
    /\ proof # None => Timely(proof)
    /\ candidate # None => Timely(candidate)
    /\ script.pc = "proof" => Timely(script.proof)
    /\ \A s \in archive : ~s.late => Content[s.payload] \in published

LEMMA EvidenceStep ==
    FileTypes /\ SourceInv /\ EvidenceInv /\ [Next]_vars => EvidenceInv'
<1> SUFFICES ASSUME FileTypes, SourceInv, EvidenceInv, [Next]_vars PROVE EvidenceInv'
  OBVIOUS
<1> USE DEF EvidenceInv, sourceVars, captureVars, storeVars, liveVars
<1>0. published \subseteq published'
  BY PublishedGrows
<1>1. CASE ArchiveCrawls
  BY <1>1 DEF ArchiveCrawls, SourceInv, Timely
<1>2. CASE CaptureRaw
  <2>1. PICK ok \in BOOLEAN :
          script' = [pc |-> "proof", proof |-> CaptureProof(source, late, ok)]
    BY <1>2 DEF CaptureRaw, FetchOutcomes
  <2>2. Timely(script'.proof)
    BY <2>1 DEF Timely, CaptureProof, SourceInv
  <2>3. QED BY <1>2, <2>2 DEF CaptureRaw, Timely
<1>3. CASE CaptureWriteProof
  BY <1>3 DEF CaptureWriteProof, Timely, Idle
<1>4. CASE ExploreEvidence
  <2>1. proof \in Proof /\ proof # None
    BY <1>4 DEF ExploreEvidence, FileTypes
  <2>2. candidate' = None \/ Timely(candidate')
    <3>1. CASE candidate' = candidate \/ candidate' = proof
      BY <3>1, <2>1
    <3>2. CASE \E s \in archive : candidate' = SnapshotProof(proof, s.payload, s.late)
      <4>1. PICK s \in archive : candidate' = SnapshotProof(proof, s.payload, s.late)
        BY <3>2
      <4>2. s.payload \in Payloads /\ s.late \in BOOLEAN
        BY DEF FileTypes
      <4>3. QED BY <4>1, <4>2, <2>1, SnapshotProofType DEF Timely
    <3>3. QED BY <1>4, <3>1, <3>2 DEF ExploreEvidence, ArchiveCandidates
  <2>3. QED BY <1>4, <2>2 DEF ExploreEvidence, Timely
<1>5. CASE Decide
  <2>1. script'.pc # "proof"
    BY <1>5 DEF Decide
  <2>2. QED BY <1>5, <2>1 DEF Decide, Timely
<1>6. ASSUME NEW kind, NEW next \in Kinds \cup {"result"}, WriteStore(kind, next), kind \in Kinds
      PROVE EvidenceInv'
  <2>1. script'.pc # "proof"
    BY <1>6 DEF WriteStore, FileTypes, Scripts, Idle, Kinds
  <2>2. QED BY <1>6, <2>1 DEF WriteStore, Timely
<1>7. CASE WriteResult \/ Kill
  <2>1. script'.pc # "proof"
    BY <1>7, KillCases DEF WriteResult, Idle
  <2>2. QED BY <1>7, <2>1, KillCases DEF WriteResult, Timely
<1>8. CASE UNCHANGED <<proof, candidate, script, archive>>
  BY <1>0, <1>8 DEF Timely
<1>9. QED
  BY <1>1, <1>2, <1>3, <1>4, <1>5, <1>6, <1>7, <1>8
  DEF Next, vars, Kinds, SourceMoves, CutoffPasses, Normalize, ResolveMode, ResolveGate, ResolveBuild

\* What accepted evidence proves of the raw payload it is compared with.
LEMMA EvidenceProves ==
    ASSUME EvidenceInv, FileTypes, NEW e \in {proof, candidate}, e # None, raw # None,
           EvaluateProof(e, raw)
    PROVE  Content[raw] \in published
BY DEF EvidenceInv, FileTypes, Timely, EvaluateProof, HashMatches, CanonicalHash

-----------------------------------------------------------------------------
\* The strict scheme is decided only over rows that pass with a namespace.
LEMMA StrictDecision ==
    ASSUME NEW ok, NEW rows, NEW given \in BOOLEAN,
           DecideScheme(ok, ValidationReason(rows, given)) = "strict_recovery"
    PROVE  ok /\ rows # <<>> /\ StrictOk(ValidationReason(rows, TRUE))
<1>1. ok /\ StrictOk(ValidationReason(rows, given))
  BY DEF DecideScheme
<1>2. rows # <<>>
  BY <1>1 DEF StrictOk, ValidationReason
<1>3. given
  BY <1>1, <1>2 DEF StrictOk, ValidationReason
<1>4. QED BY <1>1, <1>2, <1>3

\* Rows fit for a strict file, and a script that is writing them.
Proven(p) == Content[p] \in published /\ StrictOk(ValidationReason(NormalizeHoldings(p), TRUE))
Writing == script.pc \in Kinds \cup {"result"}
ProvenInv ==
    /\ Writing /\ script.mode = "strict_recovery" => Proven(script.src)
    /\ \A k \in Kinds : store["strict"][k] # None => Proven(store["strict"][k].src)

LEMMA ProvenStep ==
    FileTypes /\ SourceInv /\ EvidenceInv /\ ProvenInv /\ [Next]_vars => ProvenInv'
<1> SUFFICES ASSUME FileTypes, SourceInv, EvidenceInv, ProvenInv, [Next]_vars PROVE ProvenInv'
  OBVIOUS
<1> USE DEF ProvenInv, sourceVars, captureVars, storeVars, liveVars
<1>0. \A p : Proven(p) => Proven(p)'
  BY PublishedGrows DEF Proven
<1>1. CASE Decide
  <2> DEFINE rows == IF normalized = None THEN <<>> ELSE NormalizeHoldings(normalized)
  <2>1. PICK given \in BOOLEAN, evidence \in {proof, candidate} :
          LET ok == evidence # None /\ raw # None /\ EvaluateProof(evidence, raw)
              scheme == DecideScheme(ok, ValidationReason(rows, given))
          IN script' = [pc |-> IF scheme = "block" THEN "result" ELSE "constituents",
                        mode |-> scheme, src |-> normalized]
    BY <1>1 DEF Decide
  <2>2. ASSUME script'.mode = "strict_recovery" PROVE Proven(normalized)
    <3>1. /\ evidence # None /\ raw # None /\ EvaluateProof(evidence, raw)
          /\ rows # <<>> /\ StrictOk(ValidationReason(rows, TRUE))
      BY <2>1, <2>2, StrictDecision
    <3>2. normalized # None /\ rows = NormalizeHoldings(normalized)
      BY <3>1
    <3>3. Content[raw] \in published
      BY <3>1, EvidenceProves
    <3>4. QED BY <3>1, <3>2, <3>3 DEF SourceInv, Proven
  <2>3. script'.src = normalized
    BY <2>1
  <2>4. QED BY <1>0, <1>1, <2>2, <2>3 DEF Decide
<1>2. ASSUME NEW kind \in Kinds, NEW next \in Kinds \cup {"result"}, WriteStore(kind, next)
      PROVE  ProvenInv'
  <2>1. /\ Writing /\ script'.mode = script.mode /\ script'.src = script.src
    BY <1>2 DEF WriteStore, Writing, FileTypes, Scripts, Idle, Kinds
  <2>2. /\ store'[Target][kind] = [src |-> script.src, ids |-> Ids(script.src)]
        /\ \A n \in Namespaces, k \in Kinds :
             (n # Target \/ k # kind) => store'[n][k] = store[n][k]
    <3> DEFINE file == [src |-> script.src, ids |-> Ids(script.src)]
    <3>1. store = [n \in Namespaces |-> [k \in Kinds |-> store[n][k]]] BY DEF FileTypes
    <3>2. store' = [store EXCEPT ![Target][kind] = file] BY <1>2 DEF WriteStore
    <3> HIDE DEF file
    <3>3. /\ store'[Target][kind] = file
          /\ \A n \in Namespaces, k \in Kinds :
               (n # Target \/ k # kind) => store'[n][k] = store[n][k]
      BY <3>1, <3>2, StoreWrite, TargetType
    <3>4. QED BY <3>3 DEF file
  <2>3. ASSUME NEW k \in Kinds, store'["strict"][k] # None PROVE Proven(store'["strict"][k].src)
    <3>1. CASE Target = "strict" /\ k = kind
      BY <2>1, <2>2, <3>1 DEF Target
    <3>2. CASE ~(Target = "strict" /\ k = kind)
      BY <2>2, <2>3, <3>2 DEF Namespaces
    <3>3. QED BY <3>1, <3>2
  <2>4. QED BY <1>0, <2>1, <2>3
<1>3. CASE WriteResult
  BY <1>0, <1>3 DEF WriteResult, Writing, Idle, Kinds
<1>4. CASE Kill
  <2>1. ~Writing'
    BY <1>4, KillCases DEF Writing, Idle, Kinds
  <2>2. CASE UNCHANGED store
    BY <1>0, <2>1, <2>2
  <2>3. CASE /\ script.pc \in Kinds
             /\ \E n \in 0 .. Len(Holdings[script.src]) - 1 :
                  store' = [store EXCEPT ![Target][script.pc] =
                              [src |-> script.src, ids |-> IdsUpTo(script.src, n)]]
    <3>1. PICK n : store' = [store EXCEPT ![Target][script.pc] =
                               [src |-> script.src, ids |-> IdsUpTo(script.src, n)]]
      BY <2>3
    <3>2. /\ store'[Target][script.pc] = [src |-> script.src, ids |-> IdsUpTo(script.src, n)]
          /\ \A m \in Namespaces, k \in Kinds :
               (m # Target \/ k # script.pc) => store'[m][k] = store[m][k]
      <4> DEFINE file == [src |-> script.src, ids |-> IdsUpTo(script.src, n)]
                 kind == script.pc
      <4>1. store = [m \in Namespaces |-> [k \in Kinds |-> store[m][k]]] BY DEF FileTypes
      <4>2. store' = [store EXCEPT ![Target][kind] = file] /\ kind \in Kinds BY <2>3, <3>1
      <4> HIDE DEF file, kind
      <4>3. /\ store'[Target][kind] = file
            /\ \A m \in Namespaces, k \in Kinds :
                 (m # Target \/ k # kind) => store'[m][k] = store[m][k]
        BY <4>1, <4>2, StoreWrite, TargetType
      <4>4. QED BY <4>3 DEF file, kind
    <3>3. ASSUME NEW k \in Kinds, store'["strict"][k] # None
          PROVE  Proven(store'["strict"][k].src)
      <4>1. CASE Target = "strict" /\ k = script.pc
        BY <2>3, <3>2, <4>1 DEF Target, Writing
      <4>2. CASE ~(Target = "strict" /\ k = script.pc)
        BY <3>2, <3>3, <4>2 DEF Namespaces
      <4>3. QED BY <4>1, <4>2
    <3>4. QED BY <1>0, <2>1, <3>3
  <2>4. QED BY <1>4, KillCases, <2>2, <2>3
<1>5. CASE CaptureRaw
  <2>1. ~Writing'
    BY <1>5 DEF CaptureRaw, Writing, Kinds
  <2>2. QED BY <1>0, <1>5, <2>1 DEF CaptureRaw
<1>6. CASE CaptureWriteProof
  BY <1>0, <1>6 DEF CaptureWriteProof, Writing, Idle, Kinds
<1>7. CASE UNCHANGED <<script, store>>
  BY <1>0, <1>7 DEF Writing
<1>8. QED
  BY <1>1, <1>2, <1>3, <1>4, <1>5, <1>6, <1>7
  DEF Next, vars, Kinds, SourceMoves, ArchiveCrawls, CutoffPasses, ExploreEvidence, Normalize,
      ResolveMode, ResolveGate, ResolveBuild

\* No order of captures, archive snapshots, normalizations and kills brings rows
\* into the strict namespace that were not published by the cutoff or did not
\* pass the strict validation (StrictNamespaceProven), although nothing in the
\* code compares the normalized rows with the payload the evidence is about.
THEOREM StrictIsProven == Spec => []StrictNamespaceProven
<1> DEFINE Inv == FileTypes /\ SourceInv /\ EvidenceInv /\ ProvenInv
<1>1. Init => Inv
  <2>1. Init => SourceInv /\ EvidenceInv
    BY DEF Init, SourceInv, EvidenceInv, Idle
  <2>2. Init => ProvenInv
    BY DEF Init, ProvenInv, Writing, Idle, Kinds, Namespaces
  <2>3. QED BY <2>1, <2>2, TypesInit
<1>2. Inv /\ [Next]_vars => Inv'
  BY TypesStep, SourceStep, EvidenceStep, ProvenStep
<1>3. Inv => StrictNamespaceProven
  BY DEF ProvenInv, Proven, StrictNamespaceProven
<1>4. QED BY <1>1, <1>2, <1>3, PTL DEF Spec

-----------------------------------------------------------------------------
\* The two files of the running script's namespace are written by the time it
\* comes to the next, and its result is written last.
Whole(src) == [src |-> src, ids |-> Ids(src)]
WritesInv ==
    /\ script.pc = "weights" => store[Target]["constituents"] = Whole(script.src)
    /\ (script.pc = "result" /\ script.mode # "block") =>
         \A k \in Kinds : store[Target][k] = Whole(script.src)
    /\ script.pc \in Kinds => script.mode # "block"

LEMMA WritesStep == FileTypes /\ WritesInv /\ ResultBacked /\ [Next]_vars => (WritesInv /\ ResultBacked)'
<1> SUFFICES ASSUME FileTypes, WritesInv, ResultBacked, [Next]_vars
             PROVE  (WritesInv /\ ResultBacked)'
  OBVIOUS
<1> USE DEF sourceVars, captureVars, storeVars, liveVars
<1>1. CASE Decide
  <2>1. PICK scheme : script' = [pc |-> IF scheme = "block" THEN "result" ELSE "constituents",
                                 mode |-> scheme, src |-> normalized]
    BY <1>1 DEF Decide
  <2>2. script'.pc \in {"constituents", "result"}
    BY <2>1
  <2>3. script'.pc = "constituents" <=> script'.mode # "block"
    BY <2>1
  <2>4. WritesInv'
    BY <2>2, <2>3 DEF WritesInv, Kinds
  <2>5. ResultBacked'
    BY <2>2 DEF ResultBacked
  <2>6. QED BY <2>4, <2>5
<1>2. ASSUME NEW kind \in Kinds, NEW next, WriteStore(kind, next),
             \/ kind = "constituents" /\ next = "weights"
             \/ kind = "weights" /\ next = "result"
      PROVE  (WritesInv /\ ResultBacked)'
  <2>1. /\ script.pc = kind /\ script'.pc = next
        /\ script'.mode = script.mode /\ script'.src = script.src
    BY <1>2 DEF WriteStore, FileTypes, Scripts, Idle, Kinds
  <2>2. Target' = Target
    BY <2>1 DEF Target
  <2>3. /\ store'[Target][kind] = Whole(script.src)
        /\ \A n \in Namespaces, k \in Kinds :
             (n # Target \/ k # kind) => store'[n][k] = store[n][k]
    <3> DEFINE file == Whole(script.src)
    <3>1. store' = [store EXCEPT ![Target][kind] = file]
      BY <1>2 DEF WriteStore, Whole
    <3>2. store = [n \in Namespaces |-> [k \in Kinds |-> store[n][k]]]
      BY DEF FileTypes
    <3> HIDE DEF file
    <3>3. QED BY <3>1, <3>2, StoreWrite, TargetType DEF file
  <2>4. WritesInv'
    <3>1. CASE kind = "constituents" /\ next = "weights"
      BY <2>1, <2>2, <2>3, <3>1, TargetType DEF WritesInv, Kinds
    <3>2. CASE kind = "weights" /\ next = "result"
      <4>1. store'[Target]["constituents"] = Whole(script.src)
        BY <2>1, <2>3, <3>2, TargetType DEF WritesInv, Kinds
      <4>2. QED BY <2>1, <2>2, <2>3, <3>2, <4>1 DEF WritesInv, Kinds
    <3>3. QED BY <1>2, <3>1, <3>2
  <2>5. ResultBacked'
    BY <1>2, <2>1 DEF ResultBacked
  <2>6. QED BY <2>4, <2>5
<1>3. CASE WriteResult
  <2>1. /\ script.pc = "result" /\ script'.pc = "idle" /\ store' = store
        /\ result'.mode = script.mode /\ result'.src = script.src
    BY <1>3 DEF WriteResult, Idle
  <2>2. WritesInv'
    BY <2>1 DEF WritesInv, Kinds
  <2>3. ResultBacked'
    BY <2>1 DEF WritesInv, ResultBacked, Target, Whole
  <2>4. QED BY <2>2, <2>3
<1>4. CASE Kill
  <2>1. script'.pc = "idle" /\ cut' = (cut \/ script.pc # "proof")
    BY <1>4, KillCases DEF Idle
  <2>2. WritesInv'
    BY <2>1 DEF WritesInv, Kinds
  <2>3. CASE script.pc = "proof"
    <3>1. UNCHANGED <<store, result>>
      BY <1>4, <2>3, KillCases DEF Kinds
    <3>2. QED BY <2>1, <2>2, <2>3, <3>1 DEF ResultBacked
  <2>4. CASE script.pc # "proof"
    BY <2>1, <2>2, <2>4 DEF ResultBacked
  <2>5. QED BY <2>3, <2>4
<1>5. CASE CaptureRaw
  BY <1>5 DEF CaptureRaw, WritesInv, ResultBacked, Idle, Kinds
<1>6. CASE CaptureWriteProof
  BY <1>6 DEF CaptureWriteProof, WritesInv, ResultBacked, Idle, Kinds
<1>7. CASE UNCHANGED <<script, store, result, cut>>
  BY <1>7 DEF WritesInv, ResultBacked, Target
<1>8. QED
  BY <1>1, <1>2, <1>3, <1>4, <1>5, <1>6, <1>7
  DEF Next, vars, Kinds, SourceMoves, ArchiveCrawls, CutoffPasses, ExploreEvidence, Normalize,
      ResolveMode, ResolveGate, ResolveBuild

\* Between backfill runs none of which was killed the result on disk is backed
\* by both files of its namespace, whole and of the rows it was decided from
\* (ResultBacked).
THEOREM ResultsBacked == Spec => []ResultBacked
<1>1. Init => FileTypes /\ WritesInv /\ ResultBacked
  <2>1. Init => WritesInv /\ ResultBacked
    BY DEF Init, WritesInv, ResultBacked, Idle, Kinds
  <2>2. QED BY <2>1, TypesInit
<1>2. FileTypes /\ WritesInv /\ ResultBacked /\ [Next]_vars
        => (FileTypes /\ WritesInv /\ ResultBacked)'
  BY TypesStep, WritesStep
<1>3. QED BY <1>1, <1>2, PTL DEF Spec

-----------------------------------------------------------------------------
\* Once a week has a backfill result, no live run takes the legacy cache,
\* whether the result can be read or not (ControlledStaysControlled).
THEOREM ControlledForever == Spec => []ControlledStaysControlled
<1>1. Init => ControlledStaysControlled
  BY DEF Init, ControlledStaysControlled
<1>2. ASSUME ControlledStaysControlled, [Next]_vars PROVE ControlledStaysControlled'
  <2> USE <1>2 DEF ControlledStaysControlled, LegacySources
  <2>1. CASE ResolveMode
    <3>1. begun' = (result # None)
      BY <2>1 DEF ResolveMode
    <3>2. CASE result # None
      <4>1. CASE result = Torn
        BY <2>1, <3>2, <4>1 DEF ResolveMode, LoadResult
      <4>2. CASE result # Torn
        BY <2>1, <3>2, <4>2 DEF ResolveMode, LoadResult
      <4>3. QED BY <4>1, <4>2
    <3>3. QED BY <3>1, <3>2
  <2>2. CASE ResolveGate
    BY <2>2 DEF ResolveGate, Unreadable
  <2>3. CASE ResolveBuild
    <3>1. CASE Unreadable
      BY <3>1 DEF Unreadable
    <3>2. CASE ~Unreadable
      <4>1. live'.source \in {"weekly_h_t", "strict_without_contract", "strict_stores",
                             "stores_unreadable"}
        BY <2>3, <3>2 DEF ResolveBuild
      <4>2. QED BY <4>1
    <3>3. QED BY <3>1, <3>2
  <2>4. CASE UNCHANGED <<live, begun>>
    BY <2>4
  <2>5. QED
    BY <2>1, <2>2, <2>3, <2>4
    DEF Next, vars, liveVars, SourceMoves, ArchiveCrawls, CutoffPasses, CaptureRaw, CaptureWriteProof,
        ExploreEvidence, Normalize, Decide, WriteStore, WriteResult, Kill
<1>3. ControlledStaysControlled /\ [Next]_vars => ControlledStaysControlled'
  BY <1>2
<1>4. QED BY <1>1, <1>3, PTL DEF Spec
=============================================================================
