---------------------------- MODULE MCLiveReplay -----------------------------
(* Instances of LiveReplay: two prototypes; levels are tenths of [0, 1], the  *)
(* decay is the factor 0.9 rounded down to a tenth of the unit's half.        *)
EXTENDS LiveReplay

CONSTANTS c1, c2

MCClusters   == {c1, c2}
MCDecay      == [n \in 0 .. 10 |-> (9 * n) \div 10]
MCThetas     == [kind : {"finite"}, k : MCClusters, s : {TRUE}]
                  \cup [kind : {"missing", "singular"}, k : {c1}, s : {TRUE}]
Score(h)     == [gate |-> "open", h |-> h]
Held         == [gate |-> "held", h |-> 11]
MCMicros     == {Score(1), Score(10), Score(11), Held}
Closed       == [gate |-> "closed", h |-> 11]
MCLive       == MCMicros \cup {Closed}
=============================================================================
