------------------------------ MODULE DailyMicro ------------------------------
(***************************************************************************)
(* The daily micro layer: _compute_daily_micro_frame and                   *)
(* _compute_weekly_h_t_from_stores (qqq_cycle/pipeline.py) over the state  *)
(* of qqq_cycle/core/micro_layer.py.  Every business day either lacks a    *)
(* constituent snapshot or weights, or brings its members with their       *)
(* weights; some members' price windows may be beyond rebuilding.          *)
(*                                                                         *)
(* Breadth and concentration are left out as numbers: a value is the day   *)
(* it was computed on and the members it is of, NaN if nothing was.  A     *)
(* weekly median is the set of the week's values, a robust z-score the     *)
(* current median with the medians and weights of its baseline, and a      *)
(* score the pair of the two, so that two scores are equal when they are   *)
(* computed from the same.  Weights are whole numbers, rounded down.       *)
(***************************************************************************)
EXTENDS Integers, FiniteSets, Sequences, Functions, FiniteSetsExt

CONSTANTS
    Tickers,
    Disclosed,      \* the weight each ticker has in a holdings file
    Mature20,       \* days of membership for breadth (20)
    Mature60,       \* days of membership for concentration (60)
    GraceDays,      \* days a member may be missing (3)
    Rank,           \* the giant guard's rank (5)
    KeepNum,        \* rho_w is KeepNum / KeepDen (2^(-1/5))
    KeepDen,
    WeekLength,     \* business days of a week (5)
    Baseline,       \* weeks of the robust baseline (156)
    NaN,            \* no value
    None,           \* no previous day
    MaxDays         \* bound: business days

ASSUME MicroAssumption ==
    /\ Disclosed \in [Tickers -> Nat \ {0}]
    /\ Mature20 \in Nat /\ Mature60 \in Nat /\ GraceDays \in Nat
    /\ Rank \in Nat \ {0} /\ WeekLength \in Nat \ {0} /\ Baseline \in Nat \ {0}
    /\ KeepNum \in Nat \ {0} /\ KeepDen \in Nat /\ KeepNum < KeepDen
    /\ MaxDays \in Nat

VARIABLES
    day,        \* business days scanned
    ages,       \* member_ages: of the tracked tickers
    absent,     \* grace_missing_days: of the tickers in grace
    smoothed,   \* previous_smoothed
    before,     \* previous_day_weights, with previous_members its domain; or None
    lastB,      \* last finite breadth
    lastC,      \* last finite concentration
    frame,      \* the daily records
    failed,     \* MicroLayerUnavailableError was raised
    seen        \* history: the members of each day that had a snapshot and weights

members   == <<ages, absent>>
carried   == <<lastB, lastC>>
microVars == <<day, members, smoothed, before, carried, frame, failed, seen>>

EmptyMap == [t \in {} |-> 0]
At(map, t) == IF t \in DOMAIN map THEN map[t] ELSE 0

MicroInit ==
    /\ day = 0
    /\ ages = EmptyMap /\ absent = EmptyMap
    /\ smoothed = EmptyMap /\ before = None
    /\ lastB = NaN /\ lastC = NaN
    /\ frame = <<>> /\ failed = FALSE
    /\ seen = <<>>

-----------------------------------------------------------------------------
(* MicroDailyState                                                          *)

\* update_micro_daily_state: tracked members that are missing today stay for
\* GraceDays days, their age frozen; then they are forgotten.
InGrace(present) ==
    {t \in DOMAIN ages \ present : At(absent, t) + 1 <= GraceDays}

AbsentAfter(present) == [t \in InGrace(present) |-> At(absent, t) + 1]

\* Fault: a member in grace grows older.
AgesAfterGrowing(present) ==
    [t \in present \cup InGrace(present) |-> At(ages, t) + 1]

AgesAfter(present) ==
    [t \in present \cup InGrace(present) |->
        IF t \in present THEN At(ages, t) + 1 ELSE ages[t]]

\* matured_member_sets: those in grace are not present.
Mature(present, n) == {t \in present : AgesAfter(present)[t] >= n}

\* compute_smoothed_weights: of the previous day's weights, unless the members
\* changed since then.
SmoothedWeights(present) ==
    IF present # DOMAIN before THEN smoothed
    ELSE [t \in DOMAIN smoothed \cup DOMAIN before |->
            (KeepNum * At(smoothed, t) + (KeepDen - KeepNum) * At(before, t)) \div KeepDen]

\* should_hold_for_giant_missing_weight: the members in grace weigh more than
\* half the Rank-th largest weight, if there are that many.
RankedWeight(w) ==
    CHOOSE x \in Range(w) :
        /\ Cardinality({t \in DOMAIN w : w[t] > x}) < Rank
        /\ Cardinality({t \in DOMAIN w : w[t] >= x}) >= Rank

GiantMissing(present, w) ==
    /\ Cardinality(DOMAIN w) >= Rank
    /\ 2 * MapThenSumSet(LAMBDA t : At(w, t), InGrace(present)) > RankedWeight(w)

-----------------------------------------------------------------------------
(* The daily loop                                                           *)

\* compute_breadth and compute_correlation_concentration over the members that
\* weigh something; a single one has no correlations.
Weighing(group, w) == {t \in group : At(w, t) > 0}
Value(group, least) ==
    IF Cardinality(group) < least THEN NaN ELSE [on |-> day + 1, of |-> group]
Breadth(present, w)       == Value(Weighing(Mature(present, Mature20), w), 1)
Concentration(present, w) == Value(Weighing(Mature(present, Mature60), w), 2)

\* The members whose price windows the day needs.
Needed(present, w) ==
    Weighing(Mature(present, Mature20) \cup Mature(present, Mature60), w)

Or(value, other) == IF value = NaN THEN other ELSE value

More == day < MaxDays /\ ~failed

\* No snapshot or no weights: the day leaves no record, and the next one has
\* no previous day.
SkipDay ==
    /\ More
    /\ day' = day + 1
    /\ before' = None
    /\ UNCHANGED <<members, smoothed, carried, frame, failed, seen>>

Observe(present) ==
    /\ day' = day + 1
    /\ ages' = AgesAfter(present) /\ absent' = AbsentAfter(present)
    /\ before' = [t \in present |-> Disclosed[t]]
    /\ seen' = Append(seen, present)

\* The first day and the one after a gap only take the weights.
PrimingDay(present) ==
    /\ More /\ before = None
    /\ Observe(present)
    /\ frame' = Append(frame, [day |-> day + 1, b |-> NaN, c |-> NaN, low |-> FALSE])
    /\ UNCHANGED <<smoothed, carried, failed>>

\* Any other day, with every window it needs; if a giant is missing, both
\* values are those of the last day that had them.
MicroDay(present, lacking) ==
    LET w == SmoothedWeights(present)
        held == GiantMissing(present, w)
        b == IF held THEN lastB ELSE Breadth(present, w)
        c == IF held THEN lastC ELSE Concentration(present, w)
    IN
    /\ More /\ before # None
    /\ held \/ Needed(present, w) \cap lacking = {}
    /\ Observe(present)
    /\ smoothed' = w
    /\ lastB' = Or(b, lastB) /\ lastC' = Or(c, lastC)
    /\ frame' = Append(frame, [day |-> day + 1, b |-> b, c |-> c,
                    low |-> InGrace(present) # {} \/ present # DOMAIN before])
    /\ UNCHANGED failed

\* One member's missing window ends the computation of all weeks.
WindowMissing(present, lacking) ==
    LET w == SmoothedWeights(present) IN
    /\ More /\ before # None
    /\ ~GiantMissing(present, w) /\ Needed(present, w) \cap lacking # {}
    /\ day' = day + 1
    /\ failed' = TRUE
    /\ UNCHANGED <<members, smoothed, before, carried, frame, seen>>

MicroNext ==
    \/ SkipDay
    \/ \E present \in SUBSET Tickers \ {{}} :
        \/ PrimingDay(present)
        \/ \E lacking \in {{}} \cup {{t} : t \in Tickers} :
            MicroDay(present, lacking) \/ WindowMissing(present, lacking)

MicroSpec == MicroInit /\ [][MicroNext]_microVars

-----------------------------------------------------------------------------
(* The weekly score                                                         *)

Week(d) == (d + WeekLength - 1) \div WeekLength
Of(w) == {r \in Range(frame) : Week(r.day) = w}

\* weekly_median_micro: NaN days do not count.
Weeks   == 1 .. Week(MaxDays)
MedianB == [w \in Weeks |-> {r.b : r \in Of(w)} \ {NaN}]
MedianC == [w \in Weeks |-> {r.c : r \in Of(w)} \ {NaN}]

\* The week's weight: the lowest of its days; a week without records has the
\* full one.
LowWeight(w) == \E r \in Of(w) : r.low

\* Fault: the baseline is the whole sample.
RobustBaselineWhole(median, w) ==
    {<<v, median[v], LowWeight(v)>> : v \in {v \in Weeks : median[v] # {}}}

\* z_wrob_156: the weeks before w that have a value.
RobustBaseline(median, w) ==
    {<<v, median[v], LowWeight(v)>> :
        v \in {v \in Weeks : w - Baseline <= v /\ v < w /\ median[v] # {}}}

\* Without a value or a baseline there is no score.
RobustZ(median, w) ==
    LET base == RobustBaseline(median, w) IN
    IF median[w] = {} \/ base = {} THEN NaN ELSE <<median[w], base>>

\* compute_micro_score, for a week both z-scores of which exist.
Score(w) ==
    LET b == RobustZ(MedianB, w)
        c == RobustZ(MedianC, w)
    IN IF failed \/ b = NaN \/ c = NaN THEN NaN ELSE <<b, c>>

-----------------------------------------------------------------------------
(* Properties                                                               *)

\* What the ages are by history: of the days with data, those on which the
\* ticker was a member, since it was last missing for longer than GraceDays of
\* them.
AgeByHistory(t) ==
    LET n == Len(seen)
        Gone(i) == /\ i + GraceDays <= n
                   /\ \A j \in i .. i + GraceDays : t \notin seen[j]
    IN Cardinality({i \in 1 .. n : t \in seen[i] /\ \A j \in i .. n : ~Gone(j)})

\* The streamed ages, frozen in grace and forgotten after it, are the ones the
\* membership history defines, and exactly the tickers within their grace are
\* tracked, so nobody matures by being absent (micro_layer.py 144-216).
AgesMatchHistory ==
    /\ \A t \in Tickers : At(ages, t) = AgeByHistory(t)
    /\ \A t \in DOMAIN absent :
         /\ t \notin seen[Len(seen)]
         /\ Cardinality({i \in 1 .. Len(seen) :
                \A j \in i .. Len(seen) : t \notin seen[j]}) = absent[t]

\* A week that is over keeps its score, whatever data the following days bring,
\* unless a price window is missing: then every week loses it
\* (pipeline.py 467-470).
WeeksStand ==
    [][~failed' => \A w \in Weeks :
            w * WeekLength <= day => Score(w)' = Score(w)]_microVars
=============================================================================
