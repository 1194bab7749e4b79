--------------------------- MODULE DigestDelivery ---------------------------
(***************************************************************************)
(* What the weekly orchestrator promises about one kind of message (the    *)
(* weekly insight, or the notice that the interpretation failed) for one   *)
(* week: a marker file records that the message went out, and once it      *)
(* exists only an explicitly forced run (--resend) posts the message       *)
(* again, and no run posts it twice, whatever its retries.  Several runs   *)
(* may post before the marker exists: it follows the post, so a post whose *)
(* run is lost is not recorded.                                            *)
(***************************************************************************)
CONSTANT Runs      \* invocations of scripts/run_weekly_orchestration.sh

VARIABLES
    marker,        \* the marker file exists
    posted,        \* how many messages of each run reached the channel
    forced         \* runs entitled to post in spite of the marker

vars == <<marker, posted, forced>>

Init ==
    /\ marker = FALSE
    /\ posted = [r \in Runs |-> 0]
    /\ forced \subseteq Runs

Post(r) ==
    /\ posted[r] = 0
    /\ marker => r \in forced
    /\ posted' = [posted EXCEPT ![r] = 1]
    /\ UNCHANGED <<marker, forced>>

Record(r) ==
    /\ posted[r] = 1
    /\ marker' = TRUE
    /\ UNCHANGED <<posted, forced>>

Next == \E r \in Runs : Post(r) \/ Record(r)

Spec == Init /\ [][Next]_vars
=============================================================================
