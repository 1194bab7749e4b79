--------------------------- MODULE DailyMicroProofs ---------------------------
(***************************************************************************)
(* Proofs about DailyMicro: the streamed ages are those of the membership  *)
(* history, and a week that is over keeps its score.                       *)
(***************************************************************************)
EXTENDS DailyMicro, FiniteSetTheorems, TLAPS

-----------------------------------------------------------------------------
(* Ages by history                                                          *)

\* Ticker t is forgotten after the days i .. i + GraceDays of history s.
GoneIn(s, t, i) == i + GraceDays <= Len(s) /\ \A j \in i .. i + GraceDays : t \notin s[j]

\* The days that count for its age.
Counted(s, t) == {i \in 1 .. Len(s) : t \in s[i] /\ \A j \in i .. Len(s) : ~GoneIn(s, t, j)}

LEMMA AgeIsCounted ==
    ASSUME NEW t \in Tickers
    PROVE  AgeByHistory(t) = Cardinality(Counted(seen, t))
  BY DEF AgeByHistory, Counted, GoneIn

LEMMA CountedIsFinite ==
    ASSUME NEW s \in Seq(SUBSET Tickers), NEW t
    PROVE  IsFiniteSet(Counted(s, t)) /\ Cardinality(Counted(s, t)) \in Nat
<1>1. IsFiniteSet(1 .. Len(s)) /\ Counted(s, t) \in SUBSET (1 .. Len(s))
  BY FS_Interval DEF Counted
<1>2. QED BY <1>1, FS_Subset, FS_CardinalityType

LEMMA AppendDay ==
    ASSUME NEW s \in Seq(SUBSET Tickers), NEW present \in SUBSET Tickers
    PROVE  /\ Append(s, present) \in Seq(SUBSET Tickers)
           /\ Len(s) \in Nat /\ Len(Append(s, present)) = Len(s) + 1
           /\ Append(s, present)[Len(s) + 1] = present
           /\ \A i \in 1 .. Len(s) : Append(s, present)[i] = s[i]
  OBVIOUS

\* A day as a member counts.
LEMMA PresentCounts ==
    ASSUME NEW s \in Seq(SUBSET Tickers), NEW present \in SUBSET Tickers, NEW t \in present
    PROVE  Cardinality(Counted(Append(s, present), t)) = Cardinality(Counted(s, t)) + 1
<1> DEFINE n == Len(s)
           r == Append(s, present)
<1>1. /\ n \in Nat /\ Len(r) = n + 1 /\ r[n + 1] = present
      /\ \A i \in 1 .. n : r[i] = s[i]
  BY AppendDay
<1> HIDE DEF n, r
<1>2. GraceDays \in Nat
  BY MicroAssumption
<1>3. \A j \in 1 .. n : GoneIn(r, t, j) <=> GoneIn(s, t, j)
  BY <1>1, <1>2 DEF GoneIn, n
<1>4. ~GoneIn(r, t, n + 1)
  BY <1>1, <1>2 DEF GoneIn
<1>5. Counted(r, t) = Counted(s, t) \cup {n + 1}
  BY <1>1, <1>3, <1>4 DEF Counted, n
<1>6. n + 1 \notin Counted(s, t)
  BY <1>1 DEF Counted, n
<1>7. QED BY <1>5, <1>6, FS_AddElement, CountedIsFinite DEF r

\* A day missed within the grace changes nothing.
LEMMA GraceKeeps ==
    ASSUME NEW s \in Seq(SUBSET Tickers), NEW present \in SUBSET Tickers, NEW t \in Tickers \ present,
           NEW k \in 0 .. GraceDays - 1, k < Len(s), t \in s[Len(s) - k]
    PROVE  Counted(Append(s, present), t) = Counted(s, t)
<1> DEFINE n == Len(s)
           r == Append(s, present)
<1>1. /\ n \in Nat /\ Len(r) = n + 1 /\ r[n + 1] = present
      /\ \A i \in 1 .. n : r[i] = s[i]
  BY AppendDay
<1>2. k < n /\ t \in s[n - k]
  OBVIOUS
<1> HIDE DEF n, r
<1>3. GraceDays \in Nat
  BY MicroAssumption
<1>4. \A j \in 1 .. n : GoneIn(r, t, j) <=> GoneIn(s, t, j)
  <2> SUFFICES ASSUME NEW j \in 1 .. n PROVE GoneIn(r, t, j) <=> GoneIn(s, t, j)
    OBVIOUS
  <2>1. CASE j + GraceDays <= n
    BY <2>1, <1>1, <1>3 DEF GoneIn, n
  <2>2. CASE j + GraceDays = n + 1
    <3>1. n - k \in j .. j + GraceDays /\ n - k \in 1 .. n
      BY <2>2, <1>1, <1>2, <1>3
    <3>2. t \in r[n - k]
      BY <3>1, <1>1, <1>2
    <3>3. ~GoneIn(r, t, j)
      BY <3>1, <3>2 DEF GoneIn
    <3>4. ~GoneIn(s, t, j)
      BY <2>2, <1>1, <1>3 DEF GoneIn, n
    <3>5. QED BY <3>3, <3>4
  <2>3. CASE j + GraceDays > n + 1
    BY <2>3, <1>1, <1>3 DEF GoneIn, n
  <2>4. QED BY <1>1, <1>3, <2>1, <2>2, <2>3
<1>5. ~GoneIn(r, t, n + 1)
  BY <1>1, <1>3 DEF GoneIn
<1>6. QED BY <1>1, <1>4, <1>5 DEF Counted, n, r

\* A day missed after the grace, or by a ticker that was forgotten, leaves
\* nothing that counts.
LEMMA ForgottenStays ==
    ASSUME NEW s \in Seq(SUBSET Tickers), NEW present \in SUBSET Tickers, NEW t \in Tickers \ present,
           \/ Counted(s, t) = {}
           \/ /\ GraceDays < Len(s)
              /\ \A j \in Len(s) - GraceDays + 1 .. Len(s) : t \notin s[j]
    PROVE  Counted(Append(s, present), t) = {}
<1> DEFINE n == Len(s)
           r == Append(s, present)
<1>1. /\ n \in Nat /\ Len(r) = n + 1 /\ r[n + 1] = present
      /\ \A i \in 1 .. n : r[i] = s[i]
  BY AppendDay
<1>2. GraceDays \in Nat
  BY MicroAssumption
<1> SUFFICES ASSUME NEW i \in 1 .. n + 1, t \in r[i]
             PROVE  \E j \in i .. n + 1 : GoneIn(r, t, j)
  BY <1>1 DEF Counted
<1>3. i \in 1 .. n /\ t \in s[i]
  BY <1>1
<1>4. CASE Counted(s, t) = {}
  <2>1. PICK j \in i .. n : GoneIn(s, t, j)
    BY <1>3, <1>4 DEF Counted
  <2>2. GoneIn(r, t, j)
    BY <2>1, <1>1, <1>2, <1>3 DEF GoneIn
  <2>3. QED BY <2>1, <2>2, <1>1, <1>3
<1>5. CASE /\ GraceDays < n
           /\ \A j \in n - GraceDays + 1 .. n : t \notin s[j]
  <2> DEFINE g == n + 1 - GraceDays
  <2> HIDE DEF n, r
  <2>1. g \in Int /\ i < g /\ g <= n + 1
    BY <1>1, <1>2, <1>3, <1>5
  <2>2. \A j \in g .. g + GraceDays : t \notin r[j]
    BY <1>1, <1>2, <1>3, <1>5, <2>1
  <2>3. GoneIn(r, t, g)
    BY <2>2, <1>1, <1>2 DEF GoneIn
  <2>4. QED BY <2>1, <2>3, <1>1, <1>3
<1>6. QED BY <1>4, <1>5

-----------------------------------------------------------------------------
\* A tracked ticker was last a member as many days ago as it is in grace, and
\* is as old as its history says; nothing counts for any other.
TrackedRight(t) ==
    LET n == Len(seen)
        away == At(absent, t)
    IN /\ away \in 0 .. GraceDays /\ away < n
       /\ t \in seen[n - away]
       /\ \A j \in n - away + 1 .. n : t \notin seen[j]
       /\ ages[t] = Cardinality(Counted(seen, t))

AgesInv ==
    /\ seen \in Seq(SUBSET Tickers)
    /\ DOMAIN ages \subseteq Tickers /\ DOMAIN absent \subseteq DOMAIN ages
    /\ \A t \in DOMAIN absent : absent[t] >= 1
    /\ \A t \in DOMAIN ages : TrackedRight(t)
    /\ \A t \in Tickers \ DOMAIN ages : Counted(seen, t) = {}

LEMMA AgesInit == MicroInit => AgesInv
<1> SUFFICES ASSUME MicroInit PROVE AgesInv
  OBVIOUS
<1>1. seen = <<>> /\ DOMAIN ages = {} /\ DOMAIN absent = {}
  BY DEF MicroInit, EmptyMap
<1>2. \A t : Counted(seen, t) = {}
  BY <1>1 DEF Counted
<1>3. seen \in Seq(SUBSET Tickers)
  BY <1>1
<1>4. QED BY <1>1, <1>2, <1>3 DEF AgesInv

LEMMA AgesObserve ==
    ASSUME AgesInv, NEW present \in SUBSET Tickers, Observe(present)
    PROVE  AgesInv'
<1>1. seen \in Seq(SUBSET Tickers) /\ GraceDays \in Nat /\ DOMAIN ages \subseteq Tickers
  BY MicroAssumption DEF AgesInv
<1>2. seen' = Append(seen, present)
  BY DEF Observe
<1>3. /\ DOMAIN ages' = present \cup InGrace(present)
      /\ DOMAIN absent' = InGrace(present)
      /\ InGrace(present) \subseteq DOMAIN ages \ present
      /\ \A t \in InGrace(present) :
            /\ absent'[t] = At(absent, t) + 1 /\ At(absent, t) + 1 <= GraceDays
            /\ ages'[t] = ages[t]
      /\ \A t \in present : ages'[t] = At(ages, t) + 1
  BY DEF Observe, AgesAfter, AbsentAfter, InGrace
<1>4. /\ seen' \in Seq(SUBSET Tickers)
      /\ Len(seen) \in Nat /\ Len(seen') = Len(seen) + 1
      /\ seen'[Len(seen) + 1] = present
      /\ \A i \in 1 .. Len(seen) : seen'[i] = seen[i]
  BY <1>1, <1>2, AppendDay
<1>5. ASSUME NEW t \in present PROVE TrackedRight(t)'
  <2>1. t \notin DOMAIN absent' /\ t \in DOMAIN ages'
    BY <1>3
  <2>2. At(absent, t)' = 0
    BY <2>1 DEF At
  <2>3. Cardinality(Counted(seen', t)) = Cardinality(Counted(seen, t)) + 1
    BY <1>1, <1>2, PresentCounts
  <2>4. At(ages, t) = Cardinality(Counted(seen, t))
    <3>1. CASE t \in DOMAIN ages
      BY <3>1 DEF AgesInv, TrackedRight, At
    <3>2. CASE t \notin DOMAIN ages
      BY <3>2, FS_EmptySet DEF AgesInv, At
    <3>3. QED BY <3>1, <3>2
  <2>5. ages'[t] = Cardinality(Counted(seen', t))
    BY <1>3, <2>3, <2>4
  <2>6. QED BY <1>1, <1>4, <2>2, <2>5 DEF TrackedRight
<1>6. ASSUME NEW t \in InGrace(present) PROVE TrackedRight(t)'
  <2> DEFINE k == At(absent, t)
             n == Len(seen)
  <2>1. t \in Tickers \ present /\ t \in DOMAIN ages
    BY <1>1, <1>3
  <2>2. /\ k \in 0 .. GraceDays /\ k < n /\ t \in seen[n - k]
        /\ \A j \in n - k + 1 .. n : t \notin seen[j]
        /\ ages[t] = Cardinality(Counted(seen, t))
    BY <2>1 DEF AgesInv, TrackedRight
  <2>3. At(absent, t)' = k + 1 /\ k + 1 <= GraceDays /\ ages'[t] = ages[t]
    BY <1>3 DEF At
  <2>4. Counted(seen', t) = Counted(seen, t)
    <3> HIDE DEF k
    <3>1. k \in 0 .. GraceDays - 1
      BY <1>1, <2>2, <2>3
    <3>2. QED BY <1>1, <1>2, <2>1, <2>2, <3>1, GraceKeeps
  <2> HIDE DEF k, n
  <2>5. n \in Nat /\ Len(seen') = n + 1 /\ seen'[n + 1] = present /\ \A i \in 1 .. n : seen'[i] = seen[i]
    BY <1>4 DEF n
  <2>6. k + 1 \in 0 .. GraceDays /\ k + 1 < n + 1 /\ t \in seen'[n + 1 - (k + 1)]
    BY <1>1, <2>2, <2>3, <2>5
  <2>7. \A j \in n + 1 - (k + 1) + 1 .. n + 1 : t \notin seen'[j]
    <3> SUFFICES ASSUME NEW j \in n + 1 - (k + 1) + 1 .. n + 1 PROVE t \notin seen'[j]
      OBVIOUS
    <3>1. CASE j = n + 1
      BY <3>1, <2>1, <2>5
    <3>2. CASE j # n + 1
      <4>1. j \in n - k + 1 .. n /\ j \in 1 .. n
        BY <3>2, <1>1, <2>2, <2>5
      <4>2. QED BY <4>1, <2>2, <2>5
    <3>3. QED BY <3>1, <3>2
  <2>8. QED BY <2>2, <2>3, <2>4, <2>5, <2>6, <2>7 DEF TrackedRight
<1>7. ASSUME NEW t \in Tickers \ DOMAIN ages' PROVE Counted(seen', t) = {}
  <2>1. t \in Tickers \ present /\ t \notin InGrace(present)
    BY <1>3
  <2>2. CASE t \notin DOMAIN ages
    BY <2>1, <2>2, <1>1, <1>2, ForgottenStays DEF AgesInv
  <2>3. CASE t \in DOMAIN ages
    <3>1. TrackedRight(t) /\ ~(At(absent, t) + 1 <= GraceDays)
      BY <2>1, <2>3 DEF AgesInv, InGrace
    <3>2. At(absent, t) = GraceDays
      BY <1>1, <3>1 DEF TrackedRight
    <3>3. GraceDays < Len(seen) /\ \A j \in Len(seen) - GraceDays + 1 .. Len(seen) : t \notin seen[j]
      BY <3>1, <3>2 DEF TrackedRight
    <3>4. QED BY <1>1, <1>2, <2>1, <3>3, ForgottenStays
  <2>4. QED BY <2>2, <2>3
<1>8. \A t \in DOMAIN absent' : absent'[t] >= 1
  <2> SUFFICES ASSUME NEW t \in InGrace(present) PROVE absent'[t] >= 1
    BY <1>3
  <2>1. At(absent, t) \in 0 .. GraceDays
    BY <1>3 DEF AgesInv, TrackedRight
  <2>2. QED BY <1>1, <1>3, <2>1
<1>9. DOMAIN ages' \subseteq Tickers /\ DOMAIN absent' \subseteq DOMAIN ages'
  BY <1>1, <1>3
<1>10. \A t \in DOMAIN ages' : TrackedRight(t)'
  BY <1>3, <1>5, <1>6
<1>11. QED BY <1>4, <1>7, <1>8, <1>9, <1>10 DEF AgesInv

LEMMA AgesStep == AgesInv /\ [MicroNext]_microVars => AgesInv'
<1> SUFFICES ASSUME AgesInv, [MicroNext]_microVars PROVE AgesInv'
  OBVIOUS
<1>1. CASE UNCHANGED <<members, seen>>
  BY <1>1 DEF AgesInv, TrackedRight, members
<1>2. CASE \E present \in SUBSET Tickers : Observe(present)
  BY <1>2, AgesObserve
<1>3. QED
  BY <1>1, <1>2
  DEF MicroNext, SkipDay, PrimingDay, MicroDay, WindowMissing, microVars

\* The streamed ages are those of the membership history, and the days in grace
\* the days since (AgesMatchHistory).
THEOREM AgesFollowHistory == MicroSpec => []AgesMatchHistory
<1>1. AgesInv => AgesMatchHistory
  <2> SUFFICES ASSUME AgesInv PROVE AgesMatchHistory
    OBVIOUS
  <2>1. ASSUME NEW t \in Tickers PROVE At(ages, t) = AgeByHistory(t)
    <3>1. CASE t \in DOMAIN ages
      BY <3>1, AgeIsCounted DEF AgesInv, TrackedRight, At
    <3>2. CASE t \notin DOMAIN ages
      BY <3>2, AgeIsCounted, FS_EmptySet DEF AgesInv, At
    <3>3. QED BY <3>1, <3>2
  <2>2. ASSUME NEW t \in DOMAIN absent
        PROVE  /\ t \notin seen[Len(seen)]
               /\ Cardinality({i \in 1 .. Len(seen) :
                      \A j \in i .. Len(seen) : t \notin seen[j]}) = absent[t]
    <3> DEFINE n == Len(seen)
               k == absent[t]
               away == {i \in 1 .. n : \A j \in i .. n : t \notin seen[j]}
    <3>1. /\ k \in 0 .. GraceDays /\ k < n /\ t \in seen[n - k] /\ k >= 1
          /\ \A j \in n - k + 1 .. n : t \notin seen[j]
      BY <2>2 DEF AgesInv, TrackedRight, At
    <3>2. n \in Nat /\ k \in Nat
      BY <3>1, MicroAssumption DEF AgesInv
    <3> HIDE DEF n, k
    <3>3. t \notin seen[n]
      BY <3>1, <3>2
    <3>4. away = n - k + 1 .. n
      BY <3>1, <3>2
    <3>5. Cardinality(n - k + 1 .. n) = k
      BY <3>1, <3>2, FS_Interval
    <3>6. QED BY <3>3, <3>4, <3>5 DEF n, k
  <2>3. QED BY <2>1, <2>2 DEF AgesMatchHistory
<1>2. QED BY AgesInit, AgesStep, <1>1, PTL DEF MicroSpec

-----------------------------------------------------------------------------
(* Weeks that are over                                                      *)

\* The week of a day is over at the earliest WeekLength days after the one before.
LEMMA NextDayIsLater ==
    ASSUME NEW d \in Nat, NEW w \in Nat, w * WeekLength <= d
    PROVE  Week(d + 1) > w
<1> DEFINE q == (d + WeekLength) \div WeekLength
           base == w * WeekLength
<1>1. WeekLength \in Nat /\ WeekLength > 0 /\ base \in Nat /\ (w + 1) * WeekLength = base + WeekLength
  BY MicroAssumption
<1>2. q \in Int /\ d + WeekLength < (q + 1) * WeekLength
  BY <1>1
<1>3. q >= w + 1
  <2> SUFFICES ASSUME q + 1 <= w + 1 PROVE FALSE
    BY <1>1, <1>2
  <2>1. (q + 1) * WeekLength <= (w + 1) * WeekLength
    BY <1>1, <1>2
  <2>2. QED BY <1>1, <1>2, <2>1
<1>4. Week(d + 1) = q
  BY <1>1 DEF Week
<1>5. QED BY <1>1, <1>2, <1>3, <1>4

LEMMA AppendRange ==
    ASSUME NEW f, f \in Seq(Range(f)), NEW r
    PROVE  /\ Range(Append(f, r)) = Range(f) \cup {r}
           /\ Append(f, r) \in Seq(Range(Append(f, r)))
<1>1. /\ f \in Seq(Range(f) \cup {r}) /\ Append(f, r) \in Seq(Range(f) \cup {r})
      /\ Len(f) \in Nat /\ DOMAIN f = 1 .. Len(f)
      /\ DOMAIN Append(f, r) = 1 .. Len(f) + 1
      /\ Append(f, r)[Len(f) + 1] = r
      /\ \A i \in 1 .. Len(f) : Append(f, r)[i] = f[i]
  OBVIOUS
<1>2. Range(Append(f, r)) = Range(f) \cup {r}
  BY <1>1 DEF Range
<1>3. QED BY <1>1, <1>2

FrameInv == frame \in Seq(Range(frame)) /\ day \in Nat

\* A day leaves at most one record, which is of that day.
LEMMA FrameStep ==
    ASSUME FrameInv, [MicroNext]_microVars
    PROVE  /\ FrameInv'
           /\ \/ UNCHANGED frame
              \/ \E r : r.day = day + 1 /\ Range(frame') = Range(frame) \cup {r}
<1>1. CASE \E present \in SUBSET Tickers : PrimingDay(present)
  <2>1. frame' = Append(frame, [day |-> day + 1, b |-> NaN, c |-> NaN, low |-> FALSE])
    BY <1>1 DEF PrimingDay
  <2>2. day' = day + 1
    BY <1>1 DEF PrimingDay, Observe
  <2>3. QED BY <2>1, <2>2, AppendRange DEF FrameInv
<1>2. CASE \E present \in SUBSET Tickers : \E lacking : MicroDay(present, lacking)
  <2>1. PICK b, c, low :
            frame' = Append(frame, [day |-> day + 1, b |-> b, c |-> c, low |-> low])
    BY <1>2 DEF MicroDay
  <2>2. day' = day + 1
    BY <1>2 DEF MicroDay, Observe
  <2>3. QED BY <2>1, <2>2, AppendRange DEF FrameInv
<1>3. CASE UNCHANGED frame /\ day' \in {day, day + 1}
  BY <1>3 DEF FrameInv
<1>4. QED
  BY <1>1, <1>2, <1>3
  DEF MicroNext, SkipDay, WindowMissing, microVars

\* What the score of a week w is computed from: the weeks up to w.
LEMMA ScoreStands ==
    ASSUME FrameInv, [MicroNext]_microVars, ~failed',
           NEW w \in Weeks, w * WeekLength <= day
    PROVE  Score(w)' = Score(w)
<1>1. ~failed
  BY DEF MicroNext, SkipDay, PrimingDay, MicroDay, WindowMissing, microVars
<1>2. w \in Nat /\ w >= 1 /\ WeekLength \in Nat /\ Baseline \in Nat
  BY MicroAssumption DEF Weeks
<1>3. ASSUME NEW v \in Weeks, v <= w
      PROVE  Of(v)' = Of(v)
  <2>1. v \in Nat /\ day \in Nat
    BY <1>3 DEF Weeks, FrameInv
  <2>2. v * WeekLength <= day
    <3>1. v * WeekLength <= w * WeekLength /\ v * WeekLength \in Nat /\ w * WeekLength \in Nat
      BY <1>2, <1>3, <2>1
    <3>2. QED BY <2>1, <3>1
  <2>3. Week(day + 1) # v
    <3>1. Week(day + 1) > v
      BY <2>1, <2>2, NextDayIsLater
    <3>2. QED BY <2>1, <3>1
  <2>4. CASE UNCHANGED frame
    BY <2>4 DEF Of
  <2>5. ASSUME NEW r, r.day = day + 1, Range(frame') = Range(frame) \cup {r}
        PROVE  Of(v)' = Of(v)
    BY <2>3, <2>5 DEF Of
  <2>6. QED BY <2>4, <2>5, FrameStep
<1>4. ASSUME NEW v \in Weeks, v <= w
      PROVE  MedianB'[v] = MedianB[v] /\ MedianC'[v] = MedianC[v] /\ LowWeight(v)' = LowWeight(v)
  <2>1. MedianB'[v] = MedianB[v] /\ MedianC'[v] = MedianC[v]
    BY <1>3, <1>4 DEF MedianB, MedianC
  <2>2. LowWeight(v)' = LowWeight(v)
    BY <1>3, <1>4 DEF LowWeight
  <2>3. QED BY <2>1, <2>2
<1>5. RobustBaseline(MedianB, w)' = RobustBaseline(MedianB, w)
  <2> DEFINE Base == {v \in Weeks : w - Baseline <= v /\ v < w /\ MedianB[v] # {}}
             After == {v \in Weeks : w - Baseline <= v /\ v < w /\ MedianB'[v] # {}}
  <2>1. After = Base /\ \A v \in Base : v \in Weeks /\ v <= w
    BY <1>2, <1>4 DEF Weeks
  <2>2. \A v \in Base : <<v, MedianB'[v], LowWeight(v)'>> = <<v, MedianB[v], LowWeight(v)>>
    BY <1>4, <2>1
  <2>3. {<<v, MedianB'[v], LowWeight(v)'>> : v \in Base} = {<<v, MedianB[v], LowWeight(v)>> : v \in Base}
    BY <2>2
  <2>4. QED BY <2>1, <2>3 DEF RobustBaseline
<1>6. RobustBaseline(MedianC, w)' = RobustBaseline(MedianC, w)
  <2> DEFINE Base == {v \in Weeks : w - Baseline <= v /\ v < w /\ MedianC[v] # {}}
             After == {v \in Weeks : w - Baseline <= v /\ v < w /\ MedianC'[v] # {}}
  <2>1. After = Base /\ \A v \in Base : v \in Weeks /\ v <= w
    BY <1>2, <1>4 DEF Weeks
  <2>2. \A v \in Base : <<v, MedianC'[v], LowWeight(v)'>> = <<v, MedianC[v], LowWeight(v)>>
    BY <1>4, <2>1
  <2>3. {<<v, MedianC'[v], LowWeight(v)'>> : v \in Base} = {<<v, MedianC[v], LowWeight(v)>> : v \in Base}
    BY <2>2
  <2>4. QED BY <2>1, <2>3 DEF RobustBaseline
<1>7. QED BY <1>1, <1>2, <1>4, <1>5, <1>6 DEF Score, RobustZ

\* A week that is over keeps its score (WeeksStand).
THEOREM ScoresStand == MicroSpec => WeeksStand
<1>1. MicroInit => FrameInv
  BY DEF MicroInit, FrameInv, Range
<1>2. FrameInv /\ [MicroNext]_microVars => FrameInv'
  BY FrameStep
<1>3. FrameInv /\ [MicroNext]_microVars =>
        [~failed' => \A w \in Weeks : w * WeekLength <= day => Score(w)' = Score(w)]_microVars
  BY ScoreStands
<1>4. QED BY <1>1, <1>2, <1>3, PTL DEF MicroSpec, WeeksStand
=============================================================================
