--------------------------- MODULE BackfillStores ---------------------------
(***************************************************************************)
(* The controlled backfill of one week, from the holdings page to the      *)
(* contracts of a live run, over the files that carry it:                  *)
(*                                                                         *)
(*   capture_invesco_holdings.py    raw payload, then its proof            *)
(*   capture_strict_evidence.py     candidate proof from an archive        *)
(*   normalize_invesco_holdings.py  normalized rows of the raw payload     *)
(*   run_controlled_backfill.py     decision, stores, result, revision     *)
(*   run_live_pipeline.py           resolves contracts from all of these   *)
(*                                                                         *)
(* The operator runs one of the first four at a time, any number of times  *)
(* and in any order, and each may be killed between two of its writes; the *)
(* scripts are given the same raw path. Live runs read meanwhile. The      *)
(* cutoff passes once; the source only moves to payloads it has not served *)
(* before.                                                                 *)
(***************************************************************************)
EXTENDS HoldingsEvidence

CONSTANTS
    Official,    \* payloads the official endpoint serves; an archive may serve
                 \* the same trees in other bytes
    MaxServed,   \* bounds for model checking: contents the endpoint serves,
    MaxRuns,     \* operator scripts started,
    MaxKills,    \* of them killed
    MaxLive,     \* live runs
    Torn         \* a JSON file cut short by a kill: it does not parse

ASSUME BoundsAssumption ==
    /\ Official \subseteq Payloads
    /\ MaxServed \in Nat /\ MaxRuns \in Nat /\ MaxKills \in Nat /\ MaxLive \in Nat

VARIABLES
    late,        \* the cutoff has passed
    source,      \* what the official endpoint serves
    served,      \* contents it has served (history)
    published,   \* of them, those served by the cutoff (history)
    archive,     \* snapshots the archive holds: payload, when, wrapper
    raw, proof, candidate, normalized,    \* files of the week; None is absent
    store,       \* store[namespace][kind]: None or the rows of a payload
    result,      \* controlled_backfill_result_*.json
    script,      \* the operator script that runs
    live,        \* the live run that resolves its contracts
    begun,       \* history: a result existed when that live run began
    kills, runs, lives,
    cut          \* history: a backfill run was killed after the last whole one

sourceVars == <<late, source, served, published, archive>>
captureVars == <<raw, proof, candidate, normalized>>
storeVars == <<store, result>>
liveVars == <<live, begun, lives>>
vars == <<late, source, served, published, archive, raw, proof, candidate,
          normalized, store, result, script, live, begun, kills, runs, lives, cut>>

Namespaces == {"strict", "backfill"}
Kinds == {"constituents", "weights"}

\* What a store file holds: the payload its rows come from and the instruments
\* of those of its rows that reached the file.
IdsUpTo(p, n) == {NormalizeHoldings(p)[i].id : i \in 1 .. n}
Ids(p) == IdsUpTo(p, Len(Holdings[p]))

Idle == [pc |-> "idle"]

Init ==
    /\ late = FALSE
    /\ source \in Official
    /\ served = {Content[source]}
    /\ published = {Content[source]}
    /\ archive = {}
    /\ raw = None /\ proof = None /\ candidate = None /\ normalized = None
    /\ store = [n \in Namespaces |-> [k \in Kinds |-> None]]
    /\ result = None
    /\ script = Idle
    /\ live = Idle
    /\ begun = FALSE
    /\ kills = 0 /\ runs = 0 /\ lives = 0
    /\ cut = FALSE

-----------------------------------------------------------------------------
(* The world outside: the endpoint, the archive and the clock               *)

SourceMoves ==
    /\ Cardinality(served) < MaxServed
    /\ \E p \in Official :
        /\ Content[p] \notin served
        /\ source' = p
        /\ served' = served \cup {Content[p]}
        /\ published' = IF late THEN published ELSE published \cup {Content[p]}
    /\ UNCHANGED <<late, archive, captureVars, storeVars, script, liveVars,
                   kills, runs, cut>>

\* The archive crawls: it may serialise the same tree in other bytes.
ArchiveCrawls ==
    /\ archive = {}
    /\ \E p \in Payloads, w \in Wrappers :
        /\ Content[p] = Content[source]
        /\ archive' = {[payload |-> p, late |-> late, wrapper |-> w]}
    /\ UNCHANGED <<late, source, served, published, captureVars, storeVars,
                   script, liveVars, kills, runs, cut>>

CutoffPasses ==
    /\ ~late
    /\ late' = TRUE
    /\ UNCHANGED <<source, served, published, archive, captureVars, storeVars,
                   script, liveVars, kills, runs, cut>>

-----------------------------------------------------------------------------
(* capture_invesco_holdings.py                                              *)

\* fetch_bytes, classify_payload and choose_probe_result: TRUE when some source
\* answered 200 with machine-readable holdings rows.
FetchOutcomes == BOOLEAN

\* The first half of main(): fetch, and write the raw bytes. A page without
\* holdings goes to a file of another extension, so only its proof reaches the
\* files of the week. The fetch time is taken here, after the fetch.
CaptureRaw ==
    /\ script = Idle
    /\ runs < MaxRuns
    /\ runs' = runs + 1
    /\ \E ok \in FetchOutcomes :
        /\ raw' = IF ok THEN source ELSE raw
        /\ script' = [pc |-> "proof", proof |-> CaptureProof(source, late, ok)]
    /\ UNCHANGED <<sourceVars, proof, candidate, normalized, storeVars,
                   liveVars, kills, cut>>

CaptureWriteProof ==
    /\ script.pc = "proof"
    /\ proof' = script.proof
    /\ script' = Idle
    /\ UNCHANGED <<sourceVars, raw, candidate, normalized, storeVars,
                   liveVars, kills, runs, cut>>

-----------------------------------------------------------------------------
(* capture_strict_evidence.py                                               *)

\* _archive_entry: the snapshot becomes evidence for the raw capture when it is
\* equivalent to it; a failed query or fetch, or another payload, gives none, and
\* the candidate is then the original proof.
ArchiveCandidates(original, bytes) ==
    {original} \cup
    {SnapshotProof(original, s.payload, s.late) :
        s \in {x \in archive : /\ Extractable(x.wrapper)
                               /\ SnapshotEquivalent(x.payload, bytes)}}

\* main(). A snapshot that cannot be unwrapped raises, and nothing is written.
ExploreEvidence ==
    /\ script = Idle
    /\ runs < MaxRuns
    /\ runs' = runs + 1
    /\ raw # None /\ proof # None
    /\ \/ candidate' \in ArchiveCandidates(proof, raw)
       \/ \E s \in archive : ~Extractable(s.wrapper) /\ candidate' = candidate
    /\ UNCHANGED <<sourceVars, raw, proof, normalized, storeVars, script,
                   liveVars, kills, cut>>

-----------------------------------------------------------------------------
(* normalize_invesco_holdings.py                                            *)

\* main(): a payload that cannot be parsed or whose weights have no unit is an
\* error exit, and the normalized file of an earlier payload stays.
Normalize ==
    /\ script = Idle
    /\ runs < MaxRuns
    /\ runs' = runs + 1
    /\ raw # None
    /\ normalized' = IF Normalizable(raw) THEN raw ELSE normalized
    /\ UNCHANGED <<sourceVars, raw, proof, candidate, storeVars, script,
                   liveVars, kills, cut>>

-----------------------------------------------------------------------------
(* run_controlled_backfill.py                                               *)

\* The first half of main(): proof, rows and price namespace are read, and the
\* decision taken. Without proof or raw file there is no machine evidence.
Decide ==
    /\ script = Idle
    /\ runs < MaxRuns
    /\ runs' = runs + 1
    /\ \E given \in BOOLEAN, evidence \in {proof, candidate} :
        LET proofOk == /\ evidence # None /\ raw # None
                       /\ EvaluateProof(evidence, raw)
            rows == IF normalized = None THEN <<>> ELSE NormalizeHoldings(normalized)
            reason == ValidationReason(rows, given)
            scheme == DecideScheme(proofOk, reason)
        IN script' = [pc |-> IF scheme = "block" THEN "result" ELSE "constituents",
                      mode |-> scheme, src |-> normalized]
    /\ UNCHANGED <<sourceVars, captureVars, storeVars, liveVars, kills, cut>>

Target == IF script.mode = "strict_recovery" THEN "strict" ELSE "backfill"

\* Fault: a file that exists is not written again.
WriteStoreOnce(kind, next) ==
    /\ script.pc = kind
    /\ store' = [store EXCEPT ![Target][kind] =
                    IF @ = None THEN [src |-> script.src, ids |-> Ids(script.src)]
                                ELSE @]
    /\ script' = [script EXCEPT !.pc = next]
    /\ UNCHANGED <<sourceVars, captureVars, result, liveVars, kills, runs, cut>>

\* write_backfill_stores, one to_csv at a time, into the namespace of the
\* scheme. The other namespace is left as it is.
WriteStore(kind, next) ==
    /\ script.pc = kind
    /\ store' = [store EXCEPT ![Target][kind] =
                    [src |-> script.src, ids |-> Ids(script.src)]]
    /\ script' = [script EXCEPT !.pc = next]
    /\ UNCHANGED <<sourceVars, captureVars, result, liveVars, kills, runs, cut>>

\* write_controlled_backfill_result; the revision line appended next is read by
\* no code and left out.
WriteResult ==
    /\ script.pc = "result"
    /\ result' = [mode |-> script.mode, src |-> script.src]
    /\ script' = Idle
    /\ cut' = FALSE
    /\ UNCHANGED <<sourceVars, captureVars, store, liveVars, kills, runs>>

\* A kill between two writes, or inside one: a CSV keeps a prefix of its rows.
Kill ==
    /\ script # Idle
    /\ kills < MaxKills
    /\ kills' = kills + 1
    /\ script' = Idle
    /\ cut' = (cut \/ script.pc # "proof")
    /\ \/ UNCHANGED storeVars
       \/ /\ script.pc \in Kinds
          /\ \E n \in 0 .. Len(Holdings[script.src]) - 1 :
                store' = [store EXCEPT ![Target][script.pc] =
                            [src |-> script.src, ids |-> IdsUpTo(script.src, n)]]
          /\ UNCHANGED result
       \/ /\ script.pc = "result"
          /\ result' = Torn
          /\ UNCHANGED store
    /\ UNCHANGED <<sourceVars, captureVars, liveVars, runs>>

-----------------------------------------------------------------------------
(* run_live_pipeline.py and controlled_backfill_contracts.py                *)

\* evaluate_strict_store_gate. Both files have the columns it asks for.
StrictGate ==
    LET c == store["strict"]["constituents"]
        w == store["strict"]["weights"]
    IN /\ c # None /\ w # None
       /\ c.ids # {} /\ w.ids # {}
       /\ w.ids \subseteq c.ids
       /\ WeightOf(NormalizeHoldings(w.src),
                   {i \in DOMAIN Holdings[w.src] :
                        NormalizeHoldings(w.src)[i].id \in w.ids}) \in 9900 .. 10100

\* Columns write_backfill_stores writes, and those CsvConstituentStore and
\* CsvWeightStore read.
StoreColumns ==
    [constituents |-> {"instrument_id", "canonical_symbol", "asset_class",
                       "normalization_status"},
     weights |-> {"instrument_id", "normalized_weight"}]
ReaderColumns ==
    [constituents |-> {"trade_date", "ticker", "asof_timestamp"},
     weights |-> {"trade_date", "ticker", "asof_timestamp", "weight"}]

\* The stores that answer for the week: a row is visible by its trade date and
\* its as-of time, which are NaT in a file without these columns, and a NaT
\* compares FALSE (get_snapshot, get_weights).
Answering == {k \in Kinds : ReaderColumns[k] \subseteq StoreColumns[k]}

\* Fault: a result that does not parse counts as no result.
LoadResultLenient == IF result = Torn THEN None ELSE result

\* load_controlled_backfill_result.
LoadResult == result

\* _build_legacy_cache_micro_contracts: built when the cache is there.
LegacySources == {"legacy_cache_micro", "none"}

\* The head of resolve_live_contracts_for_week. json.loads raises on a file cut
\* short, and the run ends there.
ResolveMode ==
    /\ live.pc \in {"idle", "done"}
    /\ lives < MaxLive
    /\ lives' = lives + 1
    /\ begun' = (result # None)
    /\ LET read == LoadResult IN
       CASE read = None ->
                \E src \in LegacySources :
                    live' = [pc |-> "done", source |-> src]
         [] read = Torn -> live' = [pc |-> "done", source |-> "result_unreadable"]
         [] OTHER ->
                live' = CASE read.mode = "strict_recovery" -> [pc |-> "gate"]
                          [] read.mode = "degraded_backfill" ->
                                [pc |-> "done", source |-> "stores_backfill"]
                          [] OTHER -> [pc |-> "done", source |-> "controlled_block"]
    /\ UNCHANGED <<sourceVars, captureVars, storeVars, script, kills, runs, cut>>

\* A file that a kill left without even its header makes read_csv raise.
Unreadable ==
    /\ \E k \in Kinds : store["strict"][k] # None /\ store["strict"][k].ids = {}
    /\ live' = [pc |-> "done", source |-> "stores_unreadable"]

\* The strict branch, up to the gate's verdict.
ResolveGate ==
    /\ live.pc = "gate"
    /\ \/ live' = IF StrictGate THEN [pc |-> "build"]
                  ELSE [pc |-> "done", source |-> "controlled_block"]
       \/ Unreadable
    /\ UNCHANGED <<sourceVars, captureVars, storeVars, script, begun, kills,
                   runs, lives, cut>>

\* _build_store_strict_contracts: a weekly_h_t file of the week, else prices and
\* the constituents and weights files of all weeks, concatenated. No code of the
\* repository writes weekly_h_t files, prices, or (others) files of other weeks
\* with the columns the readers need, 273 of which it ships; without any such
\* file the stores raise.
ResolveBuild ==
    /\ live.pc = "build"
    /\ \/ Unreadable
       \/ \E artifact \in {"absent", "bad_columns", "good"}, prices, others \in BOOLEAN :
            live' = CASE artifact = "good" -> [pc |-> "done", source |-> "weekly_h_t"]
                      [] artifact = "bad_columns" \/ (artifact = "absent" /\ ~prices) ->
                            [pc |-> "done", source |-> "strict_without_contract"]
                      [] OTHER ->
                            IF others \/ Answering = Kinds
                            THEN [pc |-> "done", source |-> "strict_stores",
                                  answering |-> Answering]
                            ELSE [pc |-> "done", source |-> "stores_unreadable"]
    /\ UNCHANGED <<sourceVars, captureVars, storeVars, script, begun, kills,
                   runs, lives, cut>>

Next ==
    \/ SourceMoves \/ ArchiveCrawls \/ CutoffPasses
    \/ CaptureRaw \/ CaptureWriteProof \/ ExploreEvidence \/ Normalize
    \/ Decide
    \/ WriteStore("constituents", "weights")
    \/ WriteStore("weights", "result")
    \/ WriteResult
    \/ Kill
    \/ ResolveMode \/ ResolveGate \/ ResolveBuild

Spec == Init /\ [][Next]_vars

-----------------------------------------------------------------------------
(* Properties                                                               *)

\* Whatever the order of captures, evidence, normalizations and kills, a strict
\* file holds rows of a payload that was published by the cutoff and passed the
\* strict validation. Nothing in the code compares the normalized rows with the
\* payload the proof is about (run_controlled_backfill.py 46-80).
StrictNamespaceProven ==
    \A k \in Kinds :
        LET f == store["strict"][k] IN
        f # None => /\ Content[f.src] \in published
                    /\ StrictOk(ValidationReason(NormalizeHoldings(f.src), TRUE))

\* Between backfill runs none of which was killed, the result on disk is backed
\* by the store files it announces, both whole and of the rows it was decided
\* from (write_backfill_stores before write_controlled_backfill_result).
ResultBacked ==
    script.pc \in {"idle", "proof"} /\ ~cut /\ result \notin {None, Torn} =>
        \A k \in Kinds :
            LET whole == [src |-> result.src, ids |-> Ids(result.src)] IN
            /\ result.mode = "strict_recovery" => store["strict"][k] = whole
            /\ result.mode = "degraded_backfill" => store["backfill"][k] = whole

\* A live run that began after a backfill result existed never falls back to
\* the legacy cache, even if the result is being rewritten or was cut short
\* (controlled_backfill_contracts.py 11: never consulted for controlled weeks).
ControlledStaysControlled ==
    begun /\ live.pc = "done" => live.source \notin LegacySources

\* README.md 74: the store of a strict_recovery week is stores/strict, and it may
\* produce orders. So the stores a live run is given answer for that week with
\* the rows that passed the gate; a week without an answer is blocked
\* (freshness.py 121-192). Does not hold (see README).
StrictRecoveryAnswers ==
    live.pc = "done" /\ live.source = "strict_stores" => live.answering = Kinds
=============================================================================
