-------------------------- MODULE MCBackfillStores --------------------------
(***************************************************************************)
(* Payloads for model checking BackfillStores. Two are the same tree in    *)
(* other bytes, good for the strict scheme; one has an instrument the      *)
(* price matrix lacks and an override that starts after the week, and is   *)
(* good for the degraded scheme only; one has weights without a unit.      *)
(***************************************************************************)
EXTENDS BackfillStores, TLC

CONSTANTS p1, p1b, p2, p3

Master(id, from, to) == {[id |-> id, from |-> from, to |-> to, join |-> TRUE]}

\* A row found by its primary identifier.
Plain(id, w) == [weight |-> w, match |-> <<Master(id, 0, 9), {}, {}, {}, {}>>]

\* A renamed row: the old identifier ended before the week, the share class map
\* has the new one.
Renamed(id, w) ==
    [weight |-> w, match |-> <<Master("old", 0, 4), {}, {}, Master(id, 5, 9), {}>>]

\* An override that is not in force yet.
Early(id, w) == [weight |-> w, match |-> <<{}, {}, {}, {}, Master(id, 6, 9)>>]

MCPayloads == {p1, p1b, p2, p3}
MCOfficial == {p1, p2, p3}

MCContent == (p1 :> "A") @@ (p1b :> "A") @@ (p2 :> "B") @@ (p3 :> "C")

MCHoldings ==
    LET a == <<Plain("a", 600000), Renamed("b", 400000)>>
    IN (p1 :> a) @@ (p1b :> a)
       @@ (p2 :> <<Plain("a", 5700), Plain("b", 3950), Plain("x", 300), Early("c", 50)>>)
       @@ (p3 :> <<Plain("a", 40000)>>)

MCPriceIds == {"a", "b"}
MCWeek == 5
=============================================================================
