------------------------ MODULE Phase11BacktestProofs ------------------------
(***************************************************************************)
(* What TLAPS proves of the live portfolio and of the Phase 11 backtest    *)
(* beside it, for every scale of weights, every threshold and release, and *)
(* every sequence of weekly signals before and after the bootstrap.        *)
(***************************************************************************)
EXTENDS Phase11Backtest, TLAPS

PositionType ==
    /\ omega \in Weights /\ breaker \in BOOLEAN /\ outside \in Nat
    /\ seen \in Seq(Signals)
    /\ live \in BOOLEAN /\ (~live => seen = <<>>)
    /\ filed \in Weights
    /\ backtest \in [breaker : BOOLEAN, outside : Nat, omega : Weights]

\* A target is a weight.
LEMMA TargetType ==
    ASSUME NEW s \in Signals, s.rho # NoRho
    PROVE  Target(s) \in Weights /\ s.strict
BY PortfolioAssumption DEF Target, Weights, NoRho, SignalType

\* One row of the backtest keeps its state in range.
LEMMA BacktestType ==
    ASSUME NEW p \in [breaker : BOOLEAN, outside : Nat, omega : Weights], NEW s \in Signals
    PROVE  BuildWeeklyWeights(p, s) \in [breaker : BOOLEAN, outside : Nat, omega : Weights]
<1> DEFINE next == IF s.k = "other" THEN p.outside + 1 ELSE 0
           on   == Triggers(s) \/ (p.breaker /\ next < ReleaseWeeks)
           far  == s.rho # NoRho /\ Distance(Target(s), p.omega) >= Threshold
           n    == IF p.breaker /\ ~Triggers(s) THEN next ELSE 0
           w    == IF on THEN 0 ELSE IF far THEN Target(s) ELSE p.omega
<1>1. n \in Nat
  OBVIOUS
<1>2. w \in Weights
  BY TargetType, PortfolioAssumption DEF Weights
<1>3. on \in BOOLEAN
  BY DEF Triggers
<1>4. BacktestWeek(p, s) = [breaker |-> on, outside |-> n, omega |-> w]
  BY DEF BacktestWeek
<1> HIDE DEF on, n, w
<1>5. QED BY <1>1, <1>2, <1>3, <1>4 DEF BuildWeeklyWeights

\* The three outcomes of a week for the breaker, and of each what is carried.
LEMMA WeekCases ==
    ASSUME PositionType, NEW s \in Signals, Week(s)
    PROVE  /\ omega' = FinalWeight(s) /\ seen' = Append(seen, s) /\ breaker' \in BOOLEAN
           /\ \/ ~BreakerEnabled /\ ~breaker' /\ outside' = 0
              \/ BreakerEnabled /\ Triggers(s) /\ breaker' /\ outside' = 0
              \/ BreakerEnabled /\ ~Triggers(s) /\ ~breaker /\ ~breaker' /\ outside' = 0
              \/ /\ BreakerEnabled /\ ~Triggers(s) /\ breaker
                 /\ outside' = IF s.k = "other" THEN outside + 1 ELSE 0
                 /\ breaker' = (outside' < ReleaseWeeks)
<1> DEFINE next == IF s.k = "other" THEN outside + 1 ELSE 0
<1>1. ApplyCircuitBreaker(s) /\ omega' = FinalWeight(s) /\ seen' = Append(seen, s)
  BY DEF Week
<1>2. CASE ~BreakerEnabled
  <2>1. breaker' = FALSE /\ outside' = 0 BY <1>1, <1>2 DEF ApplyCircuitBreaker
  <2>2. QED BY <1>1, <1>2, <2>1
<1>3. CASE BreakerEnabled /\ Triggers(s)
  <2>1. breaker' = TRUE /\ outside' = 0 BY <1>1, <1>3 DEF ApplyCircuitBreaker
  <2>2. QED BY <1>1, <1>3, <2>1
<1>4. CASE BreakerEnabled /\ ~Triggers(s) /\ ~breaker
  <2>1. breaker' = FALSE /\ outside' = 0 BY <1>1, <1>4 DEF ApplyCircuitBreaker
  <2>2. QED BY <1>1, <1>4, <2>1
<1>5. CASE BreakerEnabled /\ ~Triggers(s) /\ breaker
  <2>1. breaker' = (next < ReleaseWeeks) /\ outside' = next BY <1>1, <1>5 DEF ApplyCircuitBreaker
  <2>2. breaker' \in BOOLEAN BY <2>1
  <2>3. QED BY <1>1, <1>5, <2>1, <2>2
<1>6. QED BY <1>2, <1>3, <1>4, <1>5

LEMMA TypeWeek ==
    ASSUME PositionType, NEW s \in Signals, Week(s)
    PROVE  omega' \in Weights /\ breaker' \in BOOLEAN /\ outside' \in Nat /\ seen' \in Seq(Signals)
<1>1. outside' \in Nat /\ breaker' \in BOOLEAN /\ seen' \in Seq(Signals)
  BY WeekCases DEF PositionType
<1>2. omega' \in {0, omega} \/ (s.rho # NoRho /\ omega' = Target(s))
  BY WeekCases DEF FinalWeight, Rebalances
<1>3. 0 \in Weights /\ omega \in Weights
  BY PortfolioAssumption DEF Weights, PositionType
<1>4. QED BY <1>1, <1>2, <1>3, TargetType

LEMMA TypeInit == Phase11Init => PositionType
<1>1. Full \div 2 \in Weights
  BY PortfolioAssumption DEF Weights
<1>2. <<>> \in Seq(Signals)
  OBVIOUS
<1> DEFINE start == [breaker |-> FALSE, outside |-> 0, omega |-> Full \div 2]
<1>3. start \in [breaker : BOOLEAN, outside : Nat, omega : Weights] /\ start.omega = Full \div 2
  BY <1>1
<1>4. Start = start
  BY DEF Start
<1> HIDE DEF start
<1>5. ASSUME Phase11Init PROVE PositionType
  BY <1>1, <1>2, <1>3, <1>4, <1>5 DEF Phase11Init, PositionType
<1>6. QED BY <1>5

\* What a step is to the live portfolio: a live week, the bootstrap, which makes
\* it the file's weight with the breaker off, or nothing.
LEMMA StepCases ==
    ASSUME [Phase11Next]_<<vars, record>>
    PROVE  \/ live /\ \E s \in Signals : LiveWeek(s)
           \/ Bootstrap
           \/ /\ UNCHANGED <<vars, live, clean, noticed>>
              /\ \/ ~live /\ UNCHANGED filed
                          /\ \E s \in Signals : backtest' = BuildWeeklyWeights(backtest, s)
                 \/ ~live /\ filed' = backtest.omega /\ UNCHANGED backtest
                 \/ UNCHANGED <<filed, backtest>>
BY PastAssumption DEF Phase11Next, PastWeek, RunPhase11, LiveWeek, record

\* Every value the portfolio and the backtest carry stays in its range.
LEMMA TypeStep == PositionType /\ [Phase11Next]_<<vars, record>> => PositionType'
<1> SUFFICES ASSUME PositionType, [Phase11Next]_<<vars, record>> PROVE PositionType'
  OBVIOUS
<1>1. ASSUME live, NEW s \in Signals, LiveWeek(s) PROVE PositionType'
  BY <1>1, TypeWeek, BacktestType DEF LiveWeek, PositionType
<1>2. CASE Bootstrap
  BY <1>2 DEF Bootstrap, LoadPrevOmega, PositionType
<1>3. CASE UNCHANGED <<vars, live>> /\ UNCHANGED filed
           /\ \E s \in Signals : backtest' = BuildWeeklyWeights(backtest, s)
  BY <1>3, BacktestType DEF vars, PositionType
<1>4. CASE UNCHANGED <<vars, live>> /\ filed' = backtest.omega /\ UNCHANGED backtest
  BY <1>4 DEF vars, PositionType
<1>5. CASE UNCHANGED <<vars, live, filed, backtest>>
  BY <1>5 DEF vars, PositionType
<1>6. QED BY StepCases, <1>1, <1>2, <1>3, <1>4, <1>5

\* What is in a history extended by a week.
LEMMA AppendSeen ==
    ASSUME NEW q \in Seq(Signals), NEW s \in Signals
    PROVE  /\ Len(Append(q, s)) = Len(q) + 1 /\ Len(q) \in Nat
           /\ Append(q, s)[Len(q) + 1] = s
           /\ \A i \in 1 .. Len(q) : Append(q, s)[i] = q[i]
OBVIOUS

-----------------------------------------------------------------------------
\* With the breaker off the position never lags its target by the threshold
\* (TracksTarget).
THEOREM PositionTracks == Phase11Spec => []TracksTarget
<1>1. Phase11Init => TracksTarget
  BY DEF Phase11Init, TracksTarget
<1>2. ASSUME PositionType, TracksTarget, [Phase11Next]_<<vars, record>> PROVE TracksTarget'
  <2> USE <1>2
  <2>1. ASSUME live, NEW s \in Signals, LiveWeek(s) PROVE TracksTarget'
    <3>1. seen'[Len(seen')] = s
      BY <2>1, WeekCases, AppendSeen DEF LiveWeek, PositionType
    <3>2. ASSUME ~breaker', s.rho # NoRho
          PROVE  Distance(omega', Target(s)) < Threshold \/ omega' = Target(s)
      <4>1. omega' = IF Rebalances(s) THEN Target(s) ELSE omega
        BY <2>1, <3>2, WeekCases DEF LiveWeek, FinalWeight
      <4>2. omega \in Nat /\ Target(s) \in Nat /\ Threshold \in Nat
        BY <3>2, TargetType, PortfolioAssumption DEF PositionType, Weights
      <4>3. QED BY <3>2, <4>1, <4>2 DEF Rebalances, Distance
    <3>3. QED BY <3>1, <3>2 DEF TracksTarget
  <2>2. CASE Bootstrap
    BY <2>2 DEF Bootstrap, TracksTarget
  <2>3. CASE UNCHANGED vars
    BY <2>3 DEF vars, TracksTarget
  <2>4. QED BY StepCases, <2>1, <2>2, <2>3
<1>3. PositionType /\ TracksTarget /\ [Phase11Next]_<<vars, record>> => (PositionType /\ TracksTarget)'
  BY <1>2, TypeStep
<1>4. QED BY <1>1, <1>3, TypeInit, PTL DEF Phase11Spec

-----------------------------------------------------------------------------
\* A tripped breaker closes the position, and only a week with rho_t reopens it
\* (TrippedStaysOut), whether or not the breaker was released before that.
THEOREM StaysOut == Phase11Spec => []TrippedStaysOut
<1>1. Phase11Init => TrippedStaysOut
  BY DEF Phase11Init, TrippedStaysOut
<1>2. ASSUME PositionType, TrippedStaysOut, [Phase11Next]_<<vars, record>> PROVE TrippedStaysOut'
  <2> USE <1>2
  <2>1. ASSUME live, NEW s \in Signals, LiveWeek(s) PROVE TrippedStaysOut'
    <3> DEFINE n == Len(seen)
    <3>1. /\ n \in Nat /\ Len(seen') = n + 1 /\ seen'[n + 1] = s
          /\ \A i \in 1 .. n : seen'[i] = seen[i]
      BY <2>1, WeekCases, AppendSeen DEF LiveWeek, PositionType
    <3>2. ASSUME NEW i \in 1 .. n + 1, BreakerEnabled, Triggers(seen'[i]),
                 \A j \in i + 1 .. n + 1 : seen'[j].rho = NoRho
          PROVE  omega' = 0
      <4>1. CASE i = n + 1
        BY <2>1, <3>1, <3>2, <4>1, WeekCases DEF LiveWeek, FinalWeight
      <4>2. CASE i # n + 1
        <5>1. i \in 1 .. n
          BY <3>1, <4>2
        <5>2. Triggers(seen[i]) /\ \A j \in i + 1 .. n : seen[j].rho = NoRho
          BY <3>1, <3>2, <5>1
        <5>3. omega = 0
          BY <3>2, <5>1, <5>2 DEF TrippedStaysOut
        <5>4. s.rho = NoRho
          BY <3>1, <3>2, <5>1
        <5>5. QED BY <2>1, <5>3, <5>4, WeekCases DEF LiveWeek, FinalWeight, Rebalances
      <4>3. QED BY <4>1, <4>2
    <3> HIDE DEF n
    <3>3. QED BY <3>1, <3>2 DEF TrippedStaysOut
  <2>2. CASE Bootstrap
    BY <2>2 DEF Bootstrap, TrippedStaysOut
  <2>3. CASE UNCHANGED vars
    BY <2>3 DEF vars, TrippedStaysOut
  <2>4. QED BY StepCases, <2>1, <2>2, <2>3
<1>3. PositionType /\ TrippedStaysOut /\ [Phase11Next]_<<vars, record>>
        => (PositionType /\ TrippedStaysOut)'
  BY <1>2, TypeStep
<1>4. QED BY <1>1, <1>3, TypeInit, PTL DEF Phase11Spec

-----------------------------------------------------------------------------
\* A tripped breaker was set by a week whose release has not come, and its
\* counter is the number of weeks with another cluster since the last one
\* without; an untripped one had every trigger of its history released.
OtherTail ==
    /\ outside < ReleaseWeeks /\ outside < Len(seen)
    /\ seen[Len(seen) - outside].k # "other"
    /\ \A w \in Len(seen) - outside + 1 .. Len(seen) : seen[w].k = "other"
BreakerInv ==
    /\ breaker => /\ BreakerEnabled /\ OtherTail
                  /\ \E i \in 1 .. Len(seen) : Triggers(seen[i]) /\ ~Released(i)
    /\ (~breaker /\ BreakerEnabled) => \A i \in 1 .. Len(seen) : Triggers(seen[i]) => Released(i)

\* A week after a trigger releases it if it did before, or if the release's
\* weeks in a row end with this week and all come after the trigger.
LEMMA ReleasedAfter ==
    ASSUME PositionType, NEW s \in Signals, seen' = Append(seen, s), NEW i \in 1 .. Len(seen)
    PROVE  Released(i)' <=>
             \/ Released(i)
             \/ /\ i + ReleaseWeeks <= Len(seen) + 1
                /\ \A w \in Len(seen) + 2 - ReleaseWeeks .. Len(seen) + 1 : seen'[w].k = "other"
<1> DEFINE n == Len(seen)
           r == ReleaseWeeks
<1>1. /\ n \in Nat /\ Len(seen') = n + 1 /\ r \in Nat \ {0} /\ i \in Nat
      /\ \A j \in 1 .. n : seen'[j] = seen[j]
  BY AppendSeen, PortfolioAssumption DEF PositionType
<1>2. Released(i)' <=> \E j \in i + 1 .. n + 2 - r : \A w \in j .. j + r - 1 : seen'[w].k = "other"
  <2>1. (n + 1) - r + 1 = n + 2 - r
    BY <1>1
  <2>2. QED BY <1>1, <2>1 DEF Released
<1>3. Released(i) <=> \E j \in i + 1 .. n + 1 - r : \A w \in j .. j + r - 1 : seen[w].k = "other"
  <2>1. n - r + 1 = n + 1 - r
    BY <1>1
  <2>2. QED BY <2>1 DEF Released
<1>4. ASSUME NEW j \in i + 1 .. n + 1 - r
      PROVE  (\A w \in j .. j + r - 1 : seen'[w].k = "other")
               <=> (\A w \in j .. j + r - 1 : seen[w].k = "other")
  <2>1. j .. j + r - 1 \subseteq 1 .. n
    BY <1>1, <1>4
  <2>2. QED BY <1>1, <2>1
<1>5. i + 1 .. n + 2 - r = (i + 1 .. n + 1 - r) \cup {j \in {n + 2 - r} : i + r <= n + 1}
  BY <1>1
<1>6. (n + 2 - r) + r - 1 = n + 1
  BY <1>1
<1> HIDE DEF n, r
<1>7. Released(i)' <=>
        \/ \E j \in i + 1 .. n + 1 - r : \A w \in j .. j + r - 1 : seen'[w].k = "other"
        \/ i + r <= n + 1 /\ \A w \in n + 2 - r .. n + 1 : seen'[w].k = "other"
  BY <1>2, <1>5, <1>6
<1>8. QED BY <1>3, <1>4, <1>7 DEF n, r

\* A trigger of the last week is not released by it.
LEMMA NotReleasedAtOnce ==
    ASSUME PositionType, NEW s \in Signals, seen' = Append(seen, s), NEW i, i = Len(seen) + 1
    PROVE  ~Released(i)'
<1>1. Len(seen') = Len(seen) + 1 /\ Len(seen) \in Nat /\ ReleaseWeeks \in Nat \ {0}
  BY AppendSeen, PortfolioAssumption DEF PositionType
<1>2. i \in Int /\ Len(seen') - ReleaseWeeks + 1 < i + 1
  BY <1>1
<1>3. i + 1 .. Len(seen') - ReleaseWeeks + 1 = {}
  BY <1>1, <1>2
<1>4. QED BY <1>3 DEF Released

LEMMA BreakerWeek ==
    ASSUME PositionType, BreakerInv, NEW s \in Signals, Week(s)
    PROVE  BreakerInv'
<1> DEFINE n == Len(seen)
           r == ReleaseWeeks
<1>1. /\ n \in Nat /\ Len(seen') = n + 1 /\ seen'[n + 1] = s /\ r \in Nat \ {0}
      /\ \A j \in 1 .. n : seen'[j] = seen[j]
      /\ seen' = Append(seen, s) /\ outside \in Nat
  BY WeekCases, AppendSeen, PortfolioAssumption DEF PositionType
<1>n. n \in Nat /\ r \in Nat /\ r > 0 /\ outside \in Nat
  BY <1>1
<1>2. CASE ~BreakerEnabled /\ ~breaker'
  BY <1>2 DEF BreakerInv
<1>3. CASE BreakerEnabled /\ Triggers(s) /\ breaker' /\ outside' = 0
  <2>1. OtherTail'
    BY <1>1, <1>3 DEF OtherTail, Triggers
  <2>2. ASSUME NEW i, i = n + 1 PROVE Triggers(seen'[i]) /\ ~Released(i)'
    BY <1>1, <1>3, <2>2, NotReleasedAtOnce
  <2>3. n + 1 \in 1 .. Len(seen')
    BY <1>1
  <2>4. \E i \in 1 .. Len(seen') : Triggers(seen'[i]) /\ ~Released(i)'
    BY <2>2, <2>3
  <2>5. QED BY <1>3, <2>1, <2>4, Zenon DEF BreakerInv
<1>4. CASE BreakerEnabled /\ ~Triggers(s) /\ ~breaker /\ ~breaker'
  <2>1. ASSUME NEW i \in 1 .. n + 1, Triggers(seen'[i]) PROVE Released(i)'
    <3>1. i \in 1 .. n
      BY <1>1, <1>4, <2>1
    <3>2. Released(i)
      BY <1>1, <1>4, <2>1, <3>1 DEF BreakerInv
    <3>3. QED BY <1>1, <3>1, <3>2, ReleasedAfter
  <2>2. QED BY <1>1, <1>4, <2>1 DEF BreakerInv
<1>5. CASE /\ BreakerEnabled /\ ~Triggers(s) /\ breaker
           /\ outside' = IF s.k = "other" THEN outside + 1 ELSE 0
           /\ breaker' = (outside' < ReleaseWeeks)
  <2>1. PICK t \in 1 .. n : Triggers(seen[t]) /\ ~Released(t)
    BY <1>5 DEF BreakerInv
  <2>2. t \in 1 .. n + 1 /\ Triggers(seen'[t])
    BY <1>1, <2>1
  <2>3. /\ outside < r /\ outside < n /\ seen[n - outside].k # "other"
        /\ \A w \in n - outside + 1 .. n : seen[w].k = "other"
    BY <1>5 DEF BreakerInv, OtherTail
  <2>4. CASE s.k # "other"
    <3>1. outside' = 0 /\ breaker'
      <4>1. outside' = 0 BY <1>5, <2>4
      <4>2. outside' < ReleaseWeeks BY <4>1, <1>n
      <4>3. QED BY <4>1, <4>2, <1>5, Zenon
    <3>2. OtherTail'
      BY <1>1, <2>4, <3>1 DEF OtherTail
    <3>3. n + 1 \in n + 2 - r .. n + 1
      BY <1>1
    <3>4. ~Released(t)'
      BY <1>1, <2>1, <2>4, <3>3, ReleasedAfter
    <3>5. QED BY <1>1, <1>5, <2>2, <3>1, <3>2, <3>4 DEF BreakerInv
  <2>5. CASE s.k = "other" /\ outside + 1 < r
    <3>1. outside' = outside + 1 /\ breaker'
      <4>1. outside' = outside + 1 BY <1>5, <2>5
      <4>2. outside' < ReleaseWeeks BY <4>1, <2>5
      <4>3. QED BY <4>1, <4>2, <1>5, Zenon
    <3>2. /\ n - outside \in 1 .. n /\ (n + 1) - (outside + 1) = n - outside
          /\ n - outside \in n + 2 - r .. n + 1
      <4>1. outside < n BY <2>3
      <4> HIDE DEF n, r
      <4>2. n - outside \in 1 .. n BY <4>1, <1>n
      <4>3. (n + 1) - (outside + 1) = n - outside BY <1>n
      <4>4. n - outside \in n + 2 - r .. n + 1 BY <1>n, <2>5 DEF r
      <4>5. QED BY <4>2, <4>3, <4>4
    <3>3. seen'[n - outside].k # "other"
      BY <1>1, <2>3, <3>2
    <3>4. \A w \in n - outside + 1 .. n + 1 : seen'[w].k = "other"
      <4>1. ASSUME NEW w \in n - outside + 1 .. n + 1, w # n + 1
            PROVE  w \in n - outside + 1 .. n /\ w \in 1 .. n
        <5>1. outside < n BY <2>3
        <5> HIDE DEF n, r
        <5>2. QED BY <1>n, <4>1, <5>1
      <4>2. QED BY <1>1, <2>3, <2>5, <4>1
    <3>5. OtherTail'
      <4>1. Len(seen') = n + 1 BY <1>1
      <4>2. outside' < ReleaseWeeks BY <2>5, <3>1
      <4>3. outside' < Len(seen') BY <1>n, <2>3, <3>1, <4>1
      <4>4. Len(seen') - outside' = n - outside
        <5> HIDE DEF n
        <5>1. QED BY <1>n, <3>1, <4>1
      <4>5. seen'[Len(seen') - outside'].k # "other" BY <3>3, <4>4
      <4>6. Len(seen') - outside' + 1 = n - outside + 1 BY <4>4
      <4>7. \A w \in Len(seen') - outside' + 1 .. Len(seen') : seen'[w].k = "other"
        BY <3>4, <4>1, <4>6
      <4>8. QED BY <4>2, <4>3, <4>5, <4>7, Zenon DEF OtherTail
    <3>6. ~Released(t)'
      BY <1>1, <2>1, <3>2, <3>3, ReleasedAfter
    <3>7. QED BY <1>1, <1>5, <2>2, <3>1, <3>5, <3>6 DEF BreakerInv
  <2>6. CASE s.k = "other" /\ outside + 1 >= r
    <3>1. ~breaker' /\ outside = r - 1
      <4>1. outside' = outside + 1 BY <1>5, <2>6
      <4>2. ~(outside' < ReleaseWeeks) BY <4>1, <2>6, <1>n
      <4>3. ~breaker' BY <4>2, <1>5, Zenon
      <4>4. outside = r - 1 BY <1>n, <2>3, <2>6
      <4>5. QED BY <4>3, <4>4
    \* The weeks that release are the counted ones and this one.
    <3>2. \A w \in n + 2 - r .. n + 1 : seen'[w].k = "other"
      <4>1. ASSUME NEW w \in n + 2 - r .. n + 1, w # n + 1
            PROVE  w \in n - outside + 1 .. n /\ w \in 1 .. n
        <5>1. outside < n /\ outside = r - 1 BY <2>3, <3>1
        <5> HIDE DEF n, r
        <5>2. QED BY <1>n, <4>1, <5>1
      <4>2. QED BY <1>1, <2>3, <2>6, <4>1
    <3>3. ASSUME NEW i \in 1 .. n + 1, Triggers(seen'[i]) PROVE Released(i)'
      <4>1. i \in 1 .. n /\ Triggers(seen[i])
        BY <1>1, <1>5, <3>3
      \* No trigger is among the counted weeks: its cluster is S1.
      <4>2. i \notin n - outside + 1 .. n
        BY <2>3, <4>1 DEF Triggers
      <4>3. i + r <= n + 1
        BY <1>1, <3>1, <4>1, <4>2
      <4>4. QED BY <1>1, <3>2, <4>1, <4>3, ReleasedAfter
    <3>4. QED BY <1>1, <3>1, <3>3 DEF BreakerInv
  <2>7. QED BY <1>1, <2>4, <2>5, <2>6
<1>6. QED BY WeekCases, <1>2, <1>3, <1>4, <1>5

\* The breaker is on exactly when some week tripped it and no release came
\* since (BreakerMatchesHistory): the counter that is carried from week to week
\* stands for the whole history.
THEOREM BreakerFollowsHistory == Phase11Spec => []BreakerMatchesHistory
<1>1. Phase11Init => BreakerInv
  BY DEF Phase11Init, BreakerInv
<1>2. ASSUME PositionType, BreakerInv, [Phase11Next]_<<vars, record>> PROVE BreakerInv'
  <2>1. ASSUME live, NEW s \in Signals, LiveWeek(s) PROVE BreakerInv'
    BY <1>2, <2>1, BreakerWeek DEF LiveWeek
  <2>2. CASE Bootstrap
    BY <2>2 DEF Bootstrap, BreakerInv
  <2>3. CASE UNCHANGED vars
    BY <1>2, <2>3 DEF vars, BreakerInv, OtherTail, Released
  <2>4. QED BY <1>2, StepCases, <2>1, <2>2, <2>3
<1>3. PositionType /\ BreakerInv /\ [Phase11Next]_<<vars, record>> => (PositionType /\ BreakerInv)'
  BY <1>2, TypeStep
<1>4. PositionType /\ BreakerInv => BreakerMatchesHistory
  BY DEF PositionType, BreakerInv, BreakerMatchesHistory
<1>5. QED BY <1>1, <1>3, <1>4, TypeInit, PTL DEF Phase11Spec

-----------------------------------------------------------------------------
\* After a clean hand-over the live portfolio and the backtest of the same weeks
\* carry the same weight and breaker, and the same counter while it is on.
SameInv ==
    (live /\ BreakerEnabled /\ clean /\ ~noticed) =>
        /\ omega = backtest.omega /\ breaker = backtest.breaker
        /\ breaker => outside = backtest.outside

\* One live week and one row of the backtest, from the same weight and breaker.
LEMMA SameWeek ==
    ASSUME PositionType, BreakerEnabled, NEW s \in Signals, Week(s), s.strict,
           omega = backtest.omega, breaker = backtest.breaker,
           breaker => outside = backtest.outside
    PROVE  LET b == BuildWeeklyWeights(backtest, s) IN
           /\ omega' = b.omega /\ breaker' = b.breaker
           /\ breaker' => outside' = b.outside
<1> DEFINE next == IF s.k = "other" THEN backtest.outside + 1 ELSE 0
           on   == Triggers(s) \/ (backtest.breaker /\ next < ReleaseWeeks)
           b    == BuildWeeklyWeights(backtest, s)
<1>1. /\ b.breaker = on
      /\ b.outside = IF backtest.breaker /\ ~Triggers(s) THEN next ELSE 0
      /\ b.omega = IF on THEN 0 ELSE IF Rebalances(s) THEN Target(s) ELSE omega
  BY DEF BuildWeeklyWeights, BacktestWeek, Rebalances
<1>2. breaker' = on /\ (breaker' => outside' = b.outside)
  BY <1>1, WeekCases DEF Triggers, PositionType
<1>3. omega' = b.omega
  BY <1>1, <1>2, WeekCases DEF FinalWeight
<1>4. QED BY <1>1, <1>2, <1>3

\* A degraded week that finds the breaker off and does not trip it changes
\* nothing the backtest has: there is no rho_t to move the position.
LEMMA DegradedWeek ==
    ASSUME PositionType, BreakerEnabled, NEW s \in Signals, Week(s), ~s.strict,
           ~Triggers(s), ~breaker
    PROVE  omega' = omega /\ ~breaker'
<1>1. s.rho = NoRho
  BY PortfolioAssumption
<1>2. ~breaker'
  BY WeekCases
<1>3. QED BY <1>1, <1>2, WeekCases DEF FinalWeight, Rebalances

\* Live and backtest agree for as long as nothing got lost between them
\* (LiveMatchesBacktest), however many weeks the two run.
THEOREM LiveFollowsBacktest == Phase11Spec => []LiveMatchesBacktest
<1>1. Phase11Init => SameInv
  BY DEF Phase11Init, SameInv
<1>2. ASSUME PositionType, SameInv, [Phase11Next]_<<vars, record>> PROVE SameInv'
  <2> USE <1>2
  <2>1. ASSUME live, NEW s \in Signals, LiveWeek(s) PROVE SameInv'
    <3> SUFFICES ASSUME BreakerEnabled, clean', ~noticed'
                 PROVE  /\ omega' = backtest'.omega /\ breaker' = backtest'.breaker
                        /\ breaker' => outside' = backtest'.outside
      BY DEF SameInv
    <3>1. /\ Week(s) /\ backtest' = BuildWeeklyWeights(backtest, s)
          /\ ~noticed /\ clean /\ (s.strict \/ (~Triggers(s) /\ ~backtest.breaker))
      BY <2>1 DEF LiveWeek
    <3>2. /\ omega = backtest.omega /\ breaker = backtest.breaker
          /\ breaker => outside = backtest.outside
      BY <2>1, <3>1 DEF SameInv
    <3>3. CASE s.strict
      BY <3>1, <3>2, <3>3, SameWeek
    <3>4. CASE ~s.strict
      <4>1. ~breaker /\ ~Triggers(s) BY <3>1, <3>2, <3>4
      <4>2. omega' = omega /\ ~breaker' BY <1>2, <3>1, <3>4, <4>1, DegradedWeek
      <4>3. backtest' = backtest BY <3>1, <3>4 DEF BuildWeeklyWeights
      <4>4. breaker \in BOOLEAN /\ breaker' \in BOOLEAN BY <3>1, WeekCases DEF PositionType
      <4>5. breaker' = breaker BY <4>1, <4>2, <4>4
      <4>6. QED BY <3>2, <4>2, <4>3, <4>5
    <3>5. QED BY <3>3, <3>4
  <2>2. CASE Bootstrap
    BY <2>2 DEF Bootstrap, LoadPrevOmega, SameInv, PositionType
  <2>3. CASE UNCHANGED <<vars, live, clean, noticed, backtest>>
    BY <2>3 DEF vars, SameInv
  <2>4. CASE ~live /\ UNCHANGED <<vars, live, clean, noticed>>
    BY <2>4 DEF SameInv
  <2>5. QED BY StepCases, <2>1, <2>2, <2>3, <2>4
<1>3. PositionType /\ SameInv /\ [Phase11Next]_<<vars, record>> => (PositionType /\ SameInv)'
  BY <1>2, TypeStep
<1>4. SameInv => LiveMatchesBacktest
  BY DEF SameInv, LiveMatchesBacktest
<1>5. QED BY <1>1, <1>3, <1>4, TypeInit, PTL DEF Phase11Spec
=============================================================================
