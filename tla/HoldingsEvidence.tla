-------------------------- MODULE HoldingsEvidence --------------------------
(***************************************************************************)
(* The decisions of the controlled backfill: what proves that captured     *)
(* holdings were published by the cutoff, how raw rows get canonical       *)
(* instruments, which gates the result passes, and the scheme that follows. *)
(* All of it is pure; BackfillStores runs it over files.                   *)
(*                                                                         *)
(* Weights are basis points, so 10000 is the whole fund. Matching a row    *)
(* against the instrument master by cleaned identifiers is data: a row     *)
(* carries the master rows each lookup finds.                              *)
(***************************************************************************)
EXTENDS Integers, Sequences, FiniteSets, Functions

CONSTANTS
    Payloads,    \* byte strings the source, or an archive of it, may serve
    Content,     \* [Payloads -> contents]: the same JSON tree, the same content
    Holdings,    \* [Payloads -> Seq of raw rows]; <<>> when not holdings JSON
    PriceIds,    \* instruments the price matrix has
    Week,        \* the week_end the rows are resolved for
    None         \* no file, no match, no proof

-----------------------------------------------------------------------------
(* publication_proof.py, strict_evidence.py, canonical_payload.py           *)

\* canonicalize_json_payload: key order, spacing and the spelling of numbers
\* go, the tree stays, so the hash of the canonical text stands for the content.
CanonicalHash(p) == Content[p]

\* How a snapshot is served: bare or in an envelope the code can open, or in
\* something else that does not start like JSON ("opaque").
Wrappers == {"removable", "opaque"}

\* extract_original_payload raises for a wrapper it cannot remove.
Extractable(wrapper) == wrapper = "removable"

Proof ==
    [hash : Payloads, canonical : {Content[p] : p \in Payloads} \cup {None},
     class : {"direct_http_capture", "third_party_snapshot"},
     late : BOOLEAN, httpOk : BOOLEAN, wrapperLeft : BOOLEAN]

ASSUME EvidenceAssumption ==
    /\ None \notin Payloads \cup Proof
    /\ DOMAIN Content = Payloads
    /\ DOMAIN Holdings = Payloads
    /\ \A p \in Payloads : Content[p] # None

\* The proof main() of capture_invesco_holdings.py writes beside the raw bytes.
CaptureProof(p, late, ok) ==
    [hash |-> p, canonical |-> None, class |-> "direct_http_capture",
     late |-> late, httpOk |-> ok, wrapperLeft |-> FALSE]

\* compute_payload_equivalence and the proof fields _archive_entry derives
\* from it: nothing unless the bytes or their canonical form are equal.
SnapshotEquivalent(snapshot, raw) ==
    \/ snapshot = raw
    \/ CanonicalHash(snapshot) = CanonicalHash(raw)

\* The candidate mapping: the original proof with the snapshot's fields over it.
SnapshotProof(original, snapshot, late) ==
    [original EXCEPT !.hash = snapshot, !.canonical = CanonicalHash(snapshot),
                     !.class = "third_party_snapshot", !.late = late,
                     !.wrapperLeft = FALSE]

HashMatches(proof, raw) ==
    \/ proof.hash = raw
    \/ proof.canonical # None /\ proof.canonical = CanonicalHash(raw)

\* Fault: evidence is accepted whenever it was fetched.
EvaluateProofAnyTime(proof, raw) ==
    /\ HashMatches(proof, raw)
    /\ proof.class = "direct_http_capture" => proof.httpOk
    /\ proof.class = "third_party_snapshot" => ~proof.wrapperLeft

\* evaluate_publication_proof(proof, cutoff, raw_payload=raw).strict_eligible.
\* The host is an allowed one (the capture refuses any other), the cutoff is
\* given, and no field name is a forbidden one (from_mapping keeps only known
\* fields), so those rejections cannot occur between these scripts.
EvaluateProof(proof, raw) ==
    /\ HashMatches(proof, raw)
    /\ ~proof.late
    /\ proof.class = "direct_http_capture" => proof.httpOk
    /\ proof.class = "third_party_snapshot" => ~proof.wrapperLeft

-----------------------------------------------------------------------------
(* invesco_holdings_parser.py, instrument_namespace.py                      *)

WeightOf(rows, idx) == SumFunctionOnSet([i \in DOMAIN rows |-> rows[i].weight], idx)
SumWeights(rows) == WeightOf(rows, DOMAIN rows)

\* normalize_weight_units: a sum near 1, or near 100 and then divided.
UnitOf(rows) ==
    CASE SumWeights(rows) \in 9900 .. 10100 -> 1
      [] SumWeights(rows) \in 990000 .. 1010000 -> 100
      [] OTHER -> 0

\* The parser and normalize_holdings_namespace raise for anything else, and
\* normalize_invesco_holdings.py then exits without writing.
Normalizable(p) == Holdings[p] # <<>> /\ UnitOf(Holdings[p]) # 0

Active(m) == m.from <= Week /\ Week <= m.to

\* The five lookups in the order the code tries them.
LookupStatus == <<"primary_id", "primary_id", "exact_symbol_map",
                  "share_class_map", "override_ledger">>

\* One row: the first lookup with a master row active in the week resolves it.
\* A row nothing resolves keeps an empty instrument_id and must be joined.
ResolveRow(row, unit) ==
    LET hits == {i \in DOMAIN row.match : \E m \in row.match[i] : Active(m)}
        first == CHOOSE i \in hits : \A j \in hits : i <= j
        m == CHOOSE x \in row.match[first] : Active(x)
    IN IF hits = {}
       THEN [id |-> None, status |-> "unresolved", join |-> TRUE,
             weight |-> row.weight \div unit]
       ELSE [id |-> m.id, status |-> LookupStatus[first], join |-> m.join,
             weight |-> row.weight \div unit]

\* normalize_holdings_namespace: one normalized row per raw row, in order.
NormalizeHoldings(p) ==
    [i \in DOMAIN Holdings[p] |-> ResolveRow(Holdings[p][i], UnitOf(Holdings[p]))]

-----------------------------------------------------------------------------
(* backfill_validation.py                                                   *)

Those(rows, Test(_)) == {i \in DOMAIN rows : Test(rows[i])}

\* _metrics: coverage is over the rows that must be joined; none of them, all
\* covered. The two limits on unresolved weight are both 1 %.
JoinAtLeast(rows, percent) ==
    LET required == Those(rows, LAMBDA r : r.join)
        joined == Those(rows, LAMBDA r : r.join /\ r.id \in PriceIds)
    IN WeightOf(rows, joined) * 100 >= WeightOf(rows, required) * percent

UnresolvedOk(rows) ==
    WeightOf(rows, Those(rows, LAMBDA r : r.status = "unresolved")) <= 100

\* Rows carry no aggregation_allowed column, so one repeated instrument fails.
Duplicated(rows) ==
    \E i, j \in Those(rows, LAMBDA r : r.join /\ r.status # "unresolved") :
        i # j /\ rows[i].id = rows[j].id

\* validate_normalized_holdings: the reason, from which both verdicts follow.
\* rows = <<>> is a missing normalized file.
ValidationReason(rows, namespaceGiven) ==
    CASE rows = <<>> -> "empty_holdings"
      [] rows # <<>> /\ ~namespaceGiven -> "price_namespace_missing"
      [] rows # <<>> /\ namespaceGiven /\ Duplicated(rows) -> "duplicate_instrument_id"
      [] OTHER ->
            IF SumWeights(rows) \notin 9800 .. 10200 THEN "weight_sum_violation"
            ELSE IF ~UnresolvedOk(rows) THEN "unresolved_weight_violation"
            ELSE IF ~JoinAtLeast(rows, 95) THEN "insufficient_join_coverage"
            ELSE IF SumWeights(rows) \in 9900 .. 10100 /\ JoinAtLeast(rows, 99)
                 THEN "validation_passed_strict"
                 ELSE "validation_passed_degraded_only"

StrictOk(reason) == reason = "validation_passed_strict"
DegradedOk(reason) ==
    reason \in {"validation_passed_strict", "validation_passed_degraded_only"}

-----------------------------------------------------------------------------
(* backfill_ingest.py                                                       *)

Schemes == {"strict_recovery", "degraded_backfill", "block"}

\* decide_backfill_scheme.
DecideScheme(proofOk, reason) ==
    CASE proofOk /\ StrictOk(reason) -> "strict_recovery"
      [] DegradedOk(reason) /\ ~(proofOk /\ StrictOk(reason)) -> "degraded_backfill"
      [] OTHER -> "block"
=============================================================================
