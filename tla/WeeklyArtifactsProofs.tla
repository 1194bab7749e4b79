------------------------ MODULE WeeklyArtifactsProofs ------------------------
(***************************************************************************)
(* Proofs about Phase14Publishing and WeeklyArtifacts: the history is      *)
(* immutable, the latest files are of its newest publication, the audit,   *)
(* the regime files and an OK status are of what was published, the digest *)
(* shows its week, and the orders of the sandbox have a signal and are     *)
(* paid for.                                                               *)
(*                                                                         *)
(* What a fold or a sum computes for every input is proved by induction.   *)
(* The library's induction theorems take the predicate as an operator,     *)
(* which the provers cannot instantiate; a set in its place does, and the  *)
(* induction over it follows from the least element of a set of numbers.   *)
(***************************************************************************)
EXTENDS WeeklyArtifacts, FiniteSetTheorems, WellFoundedInduction, TLAPS

\* SummaryAssumption and FrozenAssumption ask of a summary only what every summary
\* a live run writes has.
LEMMA SummariesFit ==
    ASSUME NEW w \in Nat, NEW in, in.stale \subseteq {"warn", "degrade", "block"}
    PROVE  LET s == RunSummary(w, in) IN
           /\ {"week", "mode", "stale", "execution", "backfill_mode", "frozen"} \subseteq DOMAIN s
           /\ s.week \in Nat
           /\ s.stale \subseteq {"warn", "degrade", "block"}
           /\ s.execution = DeriveExecutionState(s.stale, s.mode)
           /\ s.frozen => s.backfill_mode \in {"degraded_backfill", "block"}
<1> DEFINE pr == PipelineResult(in)
           s == RunSummary(w, in)
<1>1. /\ {"mode", "backfill_mode", "frozen"} \subseteq DOMAIN pr
      /\ {"week", "stale", "execution"} \cap DOMAIN pr = {}
      /\ pr.frozen => pr.backfill_mode \in {"degraded_backfill", "block"}
  BY DEF PipelineResult
<1> HIDE DEF pr
<1>2. /\ {"week", "mode", "stale", "execution", "backfill_mode", "frozen"} \subseteq DOMAIN s
      /\ s.week = w /\ s.stale = in.stale
      /\ s.execution = DeriveExecutionState(in.stale, pr.mode)
      /\ s.mode = pr.mode /\ s.backfill_mode = pr.backfill_mode /\ s.frozen = pr.frozen
  BY <1>1 DEF RunSummary, pr
<1> HIDE DEF s
<1>3. QED BY <1>1, <1>2 DEF s

\* What the assumption on the summaries says of the snapshots made from them.
LEMMA SnapshotFacts ==
    ASSUME NEW x \in Snapshots
    PROVE  /\ x.week \in Nat
           /\ x.at \in 0 .. MaxClock
           /\ x # Torn /\ x # None
           /\ x.stale \subseteq {"warn", "degrade", "block"}
           /\ x.execution = DeriveExecutionState(x.stale, x.mode)
<1>1. PICK s \in Summaries, at \in 0 .. MaxClock : x = BuildCycleSnapshot(s, at)
  BY DEF Snapshots
<1>2. /\ x.at = at
      /\ \A f \in DOMAIN s \ {"at"} : x[f] = s[f]
  BY <1>1 DEF BuildCycleSnapshot, Write
<1>3. x.week = s.week /\ x.stale = s.stale /\ x.mode = s.mode /\ x.execution = s.execution
  BY <1>2, SummaryAssumption
<1>4. QED BY <1>2, <1>3, SummaryAssumption

LEMMA SnapshotMade ==
    ASSUME NEW s \in Summaries, NEW at \in 0 .. MaxClock
    PROVE  BuildCycleSnapshot(s, at) \in Snapshots /\ BuildCycleSnapshot(s, at).at = at
  BY DEF Snapshots, BuildCycleSnapshot, Write

\* An append keeps what is there and ends in the new element.
LEMMA AppendFacts ==
    ASSUME NEW S, NEW q \in Seq(S), NEW x \in S
    PROVE  /\ Append(q, x) \in Seq(S)
           /\ Len(Append(q, x)) = Len(q) + 1
           /\ DOMAIN Append(q, x) = 1 .. Len(q) + 1
           /\ DOMAIN q = 1 .. Len(q)
           /\ Append(q, x)[Len(q) + 1] = x
           /\ \A i \in 1 .. Len(q) : Append(q, x)[i] = q[i]
           /\ Append(q, x) # <<>>
           /\ Last(Append(q, x)) = x
  BY DEF Last

-----------------------------------------------------------------------------
(* Induction and sums                                                       *)

\* The numbers in their order.
Below == {ss \in Nat \X Nat : ss[1] < ss[2]}
\* A set of numbers that is not empty has a least one.
LEMMA Least ==
    ASSUME NEW S \in SUBSET Nat, S # {}
    PROVE  \E m \in S : \A k \in S : m <= k
<1>1. IsWellFoundedOn(Below, Nat)
  BY NatLessThanWellFounded, Zenon DEF OpToRel, Below
<1>2. PICK m \in S : \A k \in S : ~ (<<k, m>> \in Below)
  BY <1>1, WFMin, Zenon
<1>3. ASSUME NEW k \in S PROVE m <= k
  <2>1. <<k, m>> \in Nat \X Nat
    OBVIOUS
  <2>2. ~(<<k, m>>[1] < <<k, m>>[2])
    BY <1>2, <2>1, Zenon DEF Below
  <2>3. QED BY <2>2
<1>4. QED BY <1>3

\* Induction over the numbers, a set in the place of the predicate.
LEMMA NatSetInduction ==
    ASSUME NEW S, 0 \in S, \A n \in S \cap Nat : n + 1 \in S
    PROVE  Nat \subseteq S
<1>1. SUFFICES ASSUME Nat \ S # {} PROVE FALSE
  OBVIOUS
<1>2. PICK m \in Nat \ S : \A k \in Nat \ S : m <= k
  BY <1>1, Least
<1>3. m - 1 \in S \cap Nat
  BY <1>2
<1>4. QED BY <1>2, <1>3

\* ch chooses an element of every subset of D that has one.
Chooses(ch, D) == \A s \in SUBSET D : s # {} => ch[s] \in s

\* st keeps V, and g is made with it, an element after the other.
Keeps(st, D, V) == \A s \in SUBSET D, v \in V : st[s][v] \in V
Recurs(g, D, ch, b, st) ==
    \A s \in SUBSET D : g[s] = IF s = {} THEN b ELSE st[s][g[s \ {ch[s]}]]

\* P has the empty set, and a set of which it has the rest.
Inductive(P, D, ch) ==
    /\ {} \in P
    /\ \A s \in SUBSET D : s # {} /\ s \ {ch[s]} \in P => s \in P

\* Induction over the subsets of a finite set, an element taken away at a time.
LEMMA SubsetInduction ==
    ASSUME NEW D, IsFiniteSet(D), NEW ch, Chooses(ch, D),
           NEW P, Inductive(P, D, ch)
    PROVE  SUBSET D \subseteq P
<1> USE DEF Chooses, Inductive
<1> DEFINE Q == {n \in Nat : \A s \in SUBSET D : Cardinality(s) = n => s \in P}
<1>1. \A s \in SUBSET D : IsFiniteSet(s) /\ Cardinality(s) \in Nat
  BY FS_Subset, FS_CardinalityType
<1>2. 0 \in Q
  BY <1>1, FS_EmptySet
<1>3. ASSUME NEW n \in Q \cap Nat PROVE n + 1 \in Q
  <2>1. SUFFICES ASSUME NEW s \in SUBSET D, Cardinality(s) = n + 1 PROVE s \in P
    OBVIOUS
  <2>2. s # {}
    BY <2>1, FS_EmptySet
  <2>3. Cardinality(s \ {ch[s]}) = n
    <3>1. IsFiniteSet(s) /\ ch[s] \in s
      BY <1>1, <2>2
    <3>2. Cardinality(s \ {ch[s]}) = Cardinality(s) - 1
      BY <3>1, FS_RemoveElement
    <3>3. QED BY <2>1, <3>2
  <2>4. s \ {ch[s]} \in P
    BY <1>3, <2>3
  <2>5. QED BY <2>2, <2>4
<1>4. Nat \subseteq Q
  <2> HIDE DEF Q
  <2>1. QED BY <1>2, <1>3, NatSetInduction
<1>5. QED BY <1>1, <1>4

\* Recursion over the subsets of a finite set: st[s] makes of the value without
\* the chosen element the value with it.
LEMMA SubsetRecursion ==
    ASSUME NEW D, IsFiniteSet(D), NEW ch, Chooses(ch, D),
           NEW V, NEW b \in V, NEW st, Keeps(st, D, V)
    PROVE  \E g \in [SUBSET D -> V] : Recurs(g, D, ch, b, st)
<1> USE DEF Chooses, Keeps
<1> DEFINE F(n) == {s \in SUBSET D : Cardinality(s) <= n}
           Good(g, n) == \A s \in F(n) : g[s] = IF s = {} THEN b ELSE st[s][g[s \ {ch[s]}]]
           Q == {n \in Nat : \E g \in [F(n) -> V] : Good(g, n)}
<1>1. \A s \in SUBSET D : IsFiniteSet(s) /\ Cardinality(s) \in Nat
  BY FS_Subset, FS_CardinalityType
<1>2. 0 \in Q
  <2>1. \A s \in F(0) : s = {}
    BY <1>1, FS_EmptySet
  <2>2. [s \in F(0) |-> b] \in [F(0) -> V] /\ Good([s \in F(0) |-> b], 0)
    BY <2>1
  <2>3. QED BY <2>2
<1>3. ASSUME NEW n \in Q \cap Nat PROVE n + 1 \in Q
  <2>1. PICK g \in [F(n) -> V] : Good(g, n)
    BY <1>3
  <2> DEFINE h == [s \in F(n + 1) |-> IF s = {} THEN b ELSE st[s][g[s \ {ch[s]}]]]
  <2>2. ASSUME NEW s \in F(n + 1), s # {} PROVE s \ {ch[s]} \in F(n)
    <3>1. Cardinality(s \ {ch[s]}) = Cardinality(s) - 1
      BY <1>1, <2>2, FS_RemoveElement
    <3>2. QED BY <1>1, <3>1
  <2>3. h \in [F(n + 1) -> V]
    BY <2>2
  <2>4. \A s \in F(n) : s \in F(n + 1) /\ h[s] = g[s]
    BY <1>1, <2>1
  <2>5. Good(h, n + 1)
    BY <2>2, <2>4
  <2> HIDE DEF F, Good, h
  <2>6. QED BY <2>3, <2>5
<1>4. Nat \subseteq Q
  <2> HIDE DEF Q
  <2>1. QED BY <1>2, <1>3, NatSetInduction
<1>5. F(Cardinality(D)) = SUBSET D
  BY <1>1, FS_Subset, FS_CardinalityType
<1>6. PICK g \in [SUBSET D -> V] : Good(g, Cardinality(D))
  <2>1. Cardinality(D) \in Q
    <3> HIDE DEF Q
    <3>1. QED BY <1>1, <1>4
  <2> HIDE DEF F, Good
  <2>2. QED BY <1>5, <2>1
<1>7. Recurs(g, D, ch, b, st)
  BY <1>5, <1>6 DEF Recurs
<1>8. QED BY <1>7

\* SumFunctionOnSet as it unfolds: an element that CHOOSE takes, and the sum of
\* the others.
ElementOf(s) == CHOOSE x \in s : TRUE
Adding(g, f, D) ==
    [s \in SUBSET D |-> IF s = {} THEN 0 ELSE f[ElementOf(s)] + g[s \ {ElementOf(s)}]]
Added(f, D) == CHOOSE g : g = Adding(g, f, D)

\* SumFunctionOnSet is that function at the whole set.
LEMMA SumUnfolds ==
    ASSUME NEW f, NEW D
    PROVE  SumFunctionOnSet(f, D) = Added(f, D)[D]
  BY Zenon DEF SumFunctionOnSet, FoldFunctionOnSet, MapThenFoldSet, Adding, ElementOf, Added

\* Finitely many numbers, and a function that gives the sum of each part of them.
IsSummable(f, D) == IsFiniteSet(D) /\ \A x \in D : f[x] \in Int

SumsUp(a, f, D) ==
    /\ a \in [SUBSET D -> Int] /\ a[{}] = 0
    /\ \A s \in SUBSET D : s # {} => a[s] = f[ElementOf(s)] + a[s \ {ElementOf(s)}]

\* The function that CHOOSE takes in SumFunctionOnSet is one.
LEMMA AddedFacts ==
    ASSUME NEW f, NEW D, IsSummable(f, D)
    PROVE  SumsUp(Added(f, D), f, D)
<1> DEFINE ch == [s \in SUBSET D |-> ElementOf(s)]
           st == [s \in SUBSET D |-> [v \in Int |-> IF s = {} THEN 0 ELSE f[ch[s]] + v]]
<1>1. \A s \in SUBSET D : s # {} => ElementOf(s) \in s
  BY DEF ElementOf
<1>2. Keeps(st, D, Int)
  BY <1>1 DEF IsSummable, Keeps
<1>3. Chooses(ch, D)
  BY <1>1 DEF Chooses
<1>4. PICK g \in [SUBSET D -> Int] : Recurs(g, D, ch, 0, st)
  <2> HIDE DEF ch, st
  <2>1. IsFiniteSet(D) /\ 0 \in Int
    BY DEF IsSummable
  <2>2. QED BY <1>2, <1>3, <2>1, SubsetRecursion
<1>5. g = Adding(g, f, D)
  <2>1. \A s \in SUBSET D : s # {} => st[s][g[s \ {ch[s]}]] = f[ElementOf(s)] + g[s \ {ElementOf(s)}]
    OBVIOUS
  <2>2. \A s \in SUBSET D : g[s] = IF s = {} THEN 0 ELSE f[ElementOf(s)] + g[s \ {ElementOf(s)}]
    <3> HIDE DEF ch, st
    <3>1. QED BY <1>4, <2>1 DEF Recurs
  <2>3. QED BY <2>2 DEF Adding
<1> DEFINE a == Added(f, D)
<1>6. a = Adding(a, f, D)
  BY <1>5 DEF Added
<1> HIDE DEF a
<1>7. DOMAIN a = SUBSET D /\ a = [s \in SUBSET D |-> a[s]]
  BY <1>6 DEF Adding
<1>8. \A s \in SUBSET D : a[s] = IF s = {} THEN 0 ELSE f[ElementOf(s)] + a[s \ {ElementOf(s)}]
  BY <1>6 DEF Adding
<1> DEFINE P == {s \in SUBSET D : a[s] \in Int}
<1>9. ASSUME NEW s \in SUBSET D, s # {}, s \ {ch[s]} \in P PROVE s \in P
  BY <1>1, <1>8, <1>9 DEF IsSummable
<1>10. SUBSET D \subseteq P
  <2>1. {} \in P
    <3>1. {} \in SUBSET D
      OBVIOUS
    <3>2. a[{}] = 0
      BY <1>8, <3>1, Zenon
    <3>3. QED BY <3>1, <3>2
  <2> HIDE DEF P, ch
  <2>2. IsFiniteSet(D)
    BY DEF IsSummable
  <2>3. Inductive(P, D, ch)
    BY <1>9, <2>1 DEF Inductive
  <2>4. QED BY <1>3, <2>2, <2>3, SubsetInduction
<1>11. a \in [SUBSET D -> Int] /\ a[{}] = 0
  BY <1>7, <1>8, <1>10
<1>12. QED BY <1>8, <1>11 DEF a, SumsUp

\* An element more.
LEMMA AddedMore ==
    ASSUME NEW f, NEW D, IsSummable(f, D)
    PROVE  \A s \in SUBSET D, x \in D : x \notin s =>
                Added(f, D)[s \cup {x}] = Added(f, D)[s] + f[x]
<1> DEFINE a == Added(f, D)
           Q == {n \in Nat : \A s \in SUBSET D : Cardinality(s) = n =>
                    \A x \in D : x \notin s => a[s \cup {x}] = a[s] + f[x]}
<1>1. \A s \in SUBSET D : IsFiniteSet(s) /\ Cardinality(s) \in Nat
  BY FS_Subset, FS_CardinalityType DEF IsSummable
<1>2. SumsUp(a, f, D) /\ a \in [SUBSET D -> Int] /\ a[{}] = 0
  <2>1. SumsUp(a, f, D)
    BY AddedFacts
  <2> HIDE DEF a
  <2>2. QED BY <2>1 DEF SumsUp
<1>9. ASSUME NEW s \in SUBSET D, s # {}
      PROVE  ElementOf(s) \in s /\ a[s] = f[ElementOf(s)] + a[s \ {ElementOf(s)}]
  <2>1. ElementOf(s) \in s
    BY <1>9 DEF ElementOf
  <2>2. a[s] = f[ElementOf(s)] + a[s \ {ElementOf(s)}]
    <3> HIDE DEF a
    <3>1. QED BY <1>2, <1>9 DEF SumsUp
  <2>3. QED BY <2>1, <2>2
<1>3. \A x \in D : f[x] \in Int
  BY DEF IsSummable
<1> HIDE DEF a
<1>4. ASSUME NEW s \in SUBSET D, NEW x \in D, x \notin s, ElementOf(s \cup {x}) = x
      PROVE  a[s \cup {x}] = a[s] + f[x]
  <2>1. s \cup {x} \in SUBSET D /\ s \cup {x} # {} /\ (s \cup {x}) \ {x} = s
    BY <1>4
  <2>3. a[s \cup {x}] = f[x] + a[s]
    BY <1>4, <1>9, <2>1, Zenon
  <2>2. a[s] \in Int /\ f[x] \in Int
    BY <1>2, <1>3
  <2>4. QED BY <2>3, <2>2
<1>5. 0 \in Q
  <2>1. ASSUME NEW s \in SUBSET D, Cardinality(s) = 0, NEW x \in D, x \notin s
        PROVE  a[s \cup {x}] = a[s] + f[x]
    <3>1. s = {}
      BY <1>1, <2>1, FS_EmptySet
    <3>2. ElementOf(s \cup {x}) = x
      BY <3>1 DEF ElementOf
    <3>3. QED BY <1>4, <2>1, <3>2
  <2>2. QED BY <2>1
<1>6. ASSUME NEW n \in Q \cap Nat PROVE n + 1 \in Q
  <2>1. ASSUME NEW s \in SUBSET D, Cardinality(s) = n + 1, NEW x \in D, x \notin s
        PROVE  a[s \cup {x}] = a[s] + f[x]
    <3> DEFINE y == ElementOf(s \cup {x})
               r == s \ {y}
    <3>1. CASE y = x
      BY <1>4, <2>1, <3>1
    <3>2. CASE y # x
      <4>1. y \in s /\ y \in D
        BY <3>2 DEF ElementOf
      <4> HIDE DEF y
      <4>2. r \in SUBSET D /\ Cardinality(r) = n /\ y \notin r /\ x \notin r
        <5>1. IsFiniteSet(s)
          BY <1>1
        <5>2. Cardinality(r) = Cardinality(s) - 1
          BY <4>1, <5>1, FS_RemoveElement
        <5>3. QED BY <2>1, <5>2
      <4>3. a[r \cup {x}] = a[r] + f[x] /\ a[r \cup {y}] = a[r] + f[y]
        <5> HIDE DEF r
        <5>1. QED BY <1>6, <2>1, <4>1, <4>2
      <4>4. r \cup {y} = s /\ (s \cup {x}) \ {y} = r \cup {x}
        BY <2>1, <4>1, <3>2
      <4>5. a[s \cup {x}] = f[y] + a[r \cup {x}]
        <5>1. s \cup {x} \in SUBSET D /\ s \cup {x} # {}
          OBVIOUS
        <5>2. QED BY <1>9, <4>4, <5>1, Zenon DEF y
      <4>6. a[r] \in Int /\ f[x] \in Int /\ f[y] \in Int
        BY <1>2, <1>3, <2>1, <4>1, <4>2
      <4> HIDE DEF r
      <4>7. a[s \cup {x}] = f[y] + (a[r] + f[x]) /\ a[s] = a[r] + f[y]
        BY <4>3, <4>4, <4>5
      <4>8. QED BY <4>6, <4>7
    <3>3. QED BY <3>1, <3>2
  <2>2. QED BY <2>1
<1>7. Nat \subseteq Q
  <2> HIDE DEF Q
  <2>1. QED BY <1>5, <1>6, NatSetInduction
<1>10. QED BY <1>1, <1>7 DEF a

\* Induction over a finite set, an element added at a time.
LEMMA FiniteInduction ==
    ASSUME NEW D, IsFiniteSet(D), NEW P, {} \in P,
           \A s \in SUBSET D, x \in D : x \notin s /\ s \in P => s \cup {x} \in P
    PROVE  D \in P
<1> DEFINE ch == [s \in SUBSET D |-> ElementOf(s)]
<1>1. Chooses(ch, D)
  BY DEF Chooses, ElementOf
<1>2. ASSUME NEW s \in SUBSET D, s # {}, s \ {ch[s]} \in P PROVE s \in P
  <2>1. ch[s] \in s
    BY <1>1, <1>2 DEF Chooses
  <2> DEFINE x == ch[s]
             r == s \ {x}
  <2>2. x \in D /\ r \in SUBSET D /\ r \cup {x} = s /\ x \notin r
    BY <2>1
  <2> HIDE DEF r, x
  <2>3. QED BY <1>2, <2>2 DEF r, x
<1> HIDE DEF ch
<1>5. Inductive(P, D, ch)
  BY <1>2 DEF Inductive
<1>3. SUBSET D \subseteq P
  BY <1>1, <1>5, SubsetInduction
<1>4. QED BY <1>3

\* The part of a sum does not depend on the set it is a part of.
LEMMA PartOfSum ==
    ASSUME NEW f, NEW D, IsSummable(f, D), NEW S \in SUBSET D
    PROVE  IsSummable(f, S) /\ SumFunctionOnSet(f, S) = Added(f, D)[S]
<1>1. IsSummable(f, S)
  BY FS_Subset DEF IsSummable
<1> DEFINE a == Added(f, D)
           b == Added(f, S)
           P == {s \in SUBSET S : a[s] = b[s]}
<1>2. a[{}] = 0 /\ b[{}] = 0
  <2>1. SumsUp(a, f, D) /\ SumsUp(b, f, S)
    BY <1>1, AddedFacts
  <2>2. QED BY <2>1 DEF SumsUp
<1>3. ASSUME NEW s \in SUBSET S, NEW x \in S, x \notin s PROVE a[s \cup {x}] = a[s] + f[x]
  BY <1>3, AddedMore
<1>4. ASSUME NEW s \in SUBSET S, NEW x \in S, x \notin s PROVE b[s \cup {x}] = b[s] + f[x]
  BY <1>1, <1>4, AddedMore
<1> HIDE DEF a, b
<1>5. S \in P
  <2>1. {} \in P
    BY <1>2
  <2>2. \A s \in SUBSET S, x \in S : x \notin s /\ s \in P => s \cup {x} \in P
    BY <1>3, <1>4
  <2> HIDE DEF P
  <2>3. IsFiniteSet(S)
    BY <1>1 DEF IsSummable
  <2>4. QED BY <2>1, <2>2, <2>3, FiniteInduction
<1>6. SumFunctionOnSet(f, S) = b[S]
  BY SumUnfolds DEF b
<1>7. QED BY <1>1, <1>5, <1>6 DEF a

\* A sum over no element, over one element more, and its type.
LEMMA SumFacts ==
    ASSUME NEW f, NEW D, IsSummable(f, D)
    PROVE  /\ SumFunctionOnSet(f, {}) = 0
           /\ SumFunctionOnSet(f, D) \in Int
           /\ \A s \in SUBSET D, x \in D : x \notin s =>
                SumFunctionOnSet(f, s \cup {x}) = SumFunctionOnSet(f, s) + f[x]
<1>1. \A s \in SUBSET D : SumFunctionOnSet(f, s) = Added(f, D)[s]
  BY PartOfSum
<1>2. Added(f, D) \in [SUBSET D -> Int] /\ Added(f, D)[{}] = 0
  BY AddedFacts DEF SumsUp
<1>3. ASSUME NEW s \in SUBSET D, NEW x \in D, x \notin s
      PROVE  SumFunctionOnSet(f, s \cup {x}) = SumFunctionOnSet(f, s) + f[x]
  <2>1. s \cup {x} \in SUBSET D
    OBVIOUS
  <2>2. Added(f, D)[s \cup {x}] = Added(f, D)[s] + f[x]
    BY <1>3, AddedMore
  <2>3. QED BY <1>1, <2>1, <2>2
<1>4. QED BY <1>1, <1>2, <1>3

\* Sums of functions that agree.
LEMMA SumsAgree ==
    ASSUME NEW f, NEW g, NEW D, IsSummable(f, D), \A x \in D : g[x] = f[x]
    PROVE  IsSummable(g, D) /\ SumFunctionOnSet(g, D) = SumFunctionOnSet(f, D)
<1>1. IsSummable(g, D)
  BY DEF IsSummable
<1> DEFINE P == {s \in SUBSET D : SumFunctionOnSet(g, s) = SumFunctionOnSet(f, s)}
<1>2. {} \in P
  BY <1>1, SumFacts
<1>3. \A s \in SUBSET D, x \in D : x \notin s /\ s \in P => s \cup {x} \in P
  BY <1>1, SumFacts
<1>4. D \in P
  <2> HIDE DEF P
  <2>1. QED BY <1>2, <1>3, FiniteInduction DEF IsSummable
<1>5. QED BY <1>1, <1>4

\* The largest of some of the numbers up to n.
LEMMA MaxFacts ==
    ASSUME NEW n \in Nat, NEW s \in SUBSET (1 .. n), s # {}
    PROVE  Max(s) \in s /\ \A y \in s : Max(s) >= y
<1> DEFINE T == {n - x : x \in s}
<1>0. \A x \in s : x \in Nat /\ n - x \in Nat
  OBVIOUS
<1>1. T \in SUBSET Nat /\ T # {}
  BY <1>0
<1>2. PICK m \in T : \A k \in T : m <= k
  <2> HIDE DEF T
  <2>1. QED BY <1>1, Least
<1>3. PICK x \in s : m = n - x
  BY <1>2
<1>4. \A y \in s : x >= y
  <2>1. ASSUME NEW y \in s PROVE x >= y
    <3>1. m <= n - y
      BY <1>2
    <3>2. x \in Nat /\ y \in Nat
      BY <1>0, Zenon
    <3>3. QED BY <1>3, <3>1, <3>2
  <2>2. QED BY <2>1
<1>5. QED BY <1>3, <1>4, Zenon DEF Max

\* A sum over 1 .. n without its last.
LEMMA SumLast ==
    ASSUME NEW f, NEW n \in Nat \ {0}, \A i \in 1 .. n : f[i] \in Int
    PROVE  /\ SumFunctionOnSet(f, 1 .. n) = SumFunctionOnSet(f, 1 .. n - 1) + f[n]
           /\ SumFunctionOnSet(f, 1 .. n - 1) \in Int
<1> DEFINE D == 1 .. n
           s == 1 .. n - 1
<1>1. IsSummable(f, D) /\ IsSummable(f, s)
  BY FS_Interval DEF IsSummable
<1>2. s \in SUBSET D /\ n \in D /\ n \notin s /\ s \cup {n} = D
  OBVIOUS
<1> HIDE DEF D, s
<1>3. SumFunctionOnSet(f, s \cup {n}) = SumFunctionOnSet(f, s) + f[n]
  BY <1>1, <1>2, SumFacts
<1>4. SumFunctionOnSet(f, s) \in Int
  BY <1>1, SumFacts
<1>5. QED BY <1>2, <1>3, <1>4 DEF D, s

\* The elements of T with the key d, and those with a key in I.
With(T, key, d) == {t \in T : key[t] = d}
WithIn(T, key, I) == {t \in T : key[t] \in I}

\* How many have each key, summed over the keys, is how many have one of them.
LEMMA SumFibers ==
    ASSUME NEW T, IsFiniteSet(T), NEW key, NEW f, NEW I, IsFiniteSet(I),
           \A d \in I : f[d] = Cardinality(With(T, key, d))
    PROVE  SumFunctionOnSet(f, I) = Cardinality(WithIn(T, key, I))
<1> DEFINE C(s) == {t \in T : key[t] \in s}
           P == {s \in SUBSET I : SumFunctionOnSet(f, s) = Cardinality(C(s))}
<1>1. \A s : IsFiniteSet(C(s)) /\ Cardinality(C(s)) \in Nat
  BY FS_Subset, FS_CardinalityType
<1>2. ASSUME NEW d \in I PROVE f[d] = Cardinality(C({d})) /\ f[d] \in Int
  <2>1. C({d}) = With(T, key, d)
    BY DEF With
  <2>2. Cardinality(C({d})) \in Int
    <3> HIDE DEF C
    <3>1. QED BY <1>1
  <2>3. QED BY <2>1, <2>2
<1>3. IsSummable(f, I)
  <2> HIDE DEF C
  <2>1. \A d \in I : f[d] \in Int
    BY <1>2
  <2>2. QED BY <2>1 DEF IsSummable
<1>4. {} \in P
  <2>1. {} \in SUBSET I /\ C({}) = {}
    OBVIOUS
  <2>2. SumFunctionOnSet(f, {}) = 0
    BY <1>3, SumFacts
  <2>3. Cardinality(C({})) = 0
    BY <2>1, FS_EmptySet, Zenon
  <2>4. QED BY <2>1, <2>2, <2>3
<1>5. ASSUME NEW s \in SUBSET I, NEW d \in I, d \notin s, s \in P PROVE s \cup {d} \in P
  <2>1. s \cup {d} \in SUBSET I
    OBVIOUS
  <2>2. SumFunctionOnSet(f, s \cup {d}) = SumFunctionOnSet(f, s) + f[d]
    BY <1>3, <1>5, SumFacts
  <2>3. C(s \cup {d}) = C(s) \cup C({d}) /\ C(s) \cap C({d}) = {}
    BY <1>5
  <2>4. Cardinality(C(s \cup {d})) = Cardinality(C(s)) + Cardinality(C({d}))
    <3> DEFINE A == C(s)
               B == C({d})
    <3>1. IsFiniteSet(A) /\ Cardinality(A) \in Nat /\ IsFiniteSet(B) /\ Cardinality(B) \in Nat
      BY <1>1
    <3>2. A \cap B = {} /\ C(s \cup {d}) = A \cup B
      BY <2>3
    <3> HIDE DEF A, B, C
    <3>3. Cardinality(A \cup B) = Cardinality(A) + Cardinality(B) - Cardinality(A \cap B)
      BY <3>1, FS_Union
    <3>4. Cardinality(A \cap B) = 0
      BY <3>2, FS_EmptySet, Zenon
    <3>5. Cardinality(A \cup B) = Cardinality(A) + Cardinality(B)
      BY <3>1, <3>3, <3>4
    <3>6. QED BY <3>2, <3>5, Zenon DEF A, B
  <2> HIDE DEF C
  <2>5. SumFunctionOnSet(f, s) = Cardinality(C(s))
    BY <1>5
  <2>6. QED BY <1>2, <2>1, <2>2, <2>4, <2>5
<1>6. I \in P
  <2> HIDE DEF P
  <2>1. \A s \in SUBSET I, d \in I : d \notin s /\ s \in P => s \cup {d} \in P
    BY <1>5
  <2>2. QED BY <1>4, <2>1, FiniteInduction
<1>7. QED BY <1>6 DEF WithIn

-----------------------------------------------------------------------------
(* The files of a publication                                               *)

Stages == {"history", "report", "latest", "latest_report"}

PublishTypes ==
    /\ clock \in 0 .. MaxClock
    /\ summary \in Summaries \cup {None, Torn}
    /\ history \in [DOMAIN history -> Snapshots \cup {Torn}]
    /\ publisher \in {Idle} \cup [pc : Stages, snap : Snapshots]
    /\ published \in Seq(Snapshots)
    /\ latest \in Snapshots \cup {None, Torn}
    /\ latestReport \in Snapshots \cup {None, Torn}
    /\ tidy \in BOOLEAN

LEMMA PublishTypesInit == PublishInit => PublishTypes
  BY PublishBounds DEF PublishInit, PublishTypes

LEMMA HistoryAdd ==
    ASSUME NEW h, NEW S, h \in [DOMAIN h -> S], NEW k, NEW v \in S
    PROVE  LET g == Write(h, k, v) IN
           /\ g \in [DOMAIN g -> S]
           /\ DOMAIN g = DOMAIN h \cup {k}
           /\ g[k] = v
           /\ \A j \in DOMAIN h \ {k} : g[j] = h[j]
  BY DEF Write

LEMMA PublishTypesStep == PublishTypes /\ [PublishNext]_publishVars => PublishTypes'
<1> SUFFICES ASSUME PublishTypes, [PublishNext]_publishVars PROVE PublishTypes'
  OBVIOUS
<1> USE PublishBounds DEF PublishTypes
<1>1. CASE Tick
  BY <1>1 DEF Tick, fileVars, readerVars
<1>2. CASE LiveRunWritesSummary \/ KillLiveRun
  BY <1>2 DEF LiveRunWritesSummary, KillLiveRun, readerVars
<1>3. CASE PublishStart
  BY <1>3, SnapshotMade DEF PublishStart, fileVars, readerVars, Stages, Idle
<1>4. CASE WriteHistorySnapshot
  <2>1. publisher.snap \in Snapshots /\ publisher.pc \in Stages
    BY <1>4 DEF WriteHistorySnapshot, Idle, Stages
  <2>2. published' \in Seq(Snapshots)
    BY <1>4, <2>1, AppendFacts DEF WriteHistorySnapshot
  <2>3. history' \in [DOMAIN history' -> Snapshots \cup {Torn}]
    BY <1>4, <2>1, HistoryAdd DEF WriteHistorySnapshot
  <2>4. publisher' \in [pc : Stages, snap : Snapshots]
    BY <1>4, <2>1 DEF WriteHistorySnapshot, Stages, Idle
  <2>5. QED BY <1>4, <2>2, <2>3, <2>4 DEF WriteHistorySnapshot
<1>5. CASE WriteHistoryReport \/ WriteLatestSnapshot \/ WriteLatestReport
  <2>1. publisher.snap \in Snapshots /\ publisher \in [pc : Stages, snap : Snapshots]
    BY <1>5 DEF WriteHistoryReport, WriteLatestSnapshot, WriteLatestReport, Idle
  <2>2. publisher' \in {Idle} \cup [pc : Stages, snap : Snapshots]
    BY <1>5, <2>1 DEF WriteHistoryReport, WriteLatestSnapshot, WriteLatestReport, Stages
  <2>3. latest' \in Snapshots \cup {None, Torn} /\ latestReport' \in Snapshots \cup {None, Torn}
    BY <1>5, <2>1 DEF WriteHistoryReport, WriteLatestSnapshot, WriteLatestReport
  <2>4. QED
    BY <1>5, <2>2, <2>3 DEF WriteHistoryReport, WriteLatestSnapshot, WriteLatestReport
<1>6. CASE KillPublisher
  <2>1. publisher.snap \in Snapshots /\ publisher.pc \in Stages
    BY <1>6 DEF KillPublisher, Stages
  <2>2. \/ history' = Write(history, Key(publisher.snap), Torn)
        \/ history' = history
    BY <1>6 DEF KillPublisher
  <2>3. history' \in [DOMAIN history' -> Snapshots \cup {Torn}]
    <3> DEFINE S == Snapshots \cup {Torn}
    <3>1. history \in [DOMAIN history -> S] /\ Torn \in S
      OBVIOUS
    <3>2. ASSUME NEW k PROVE Write(history, k, Torn) \in [DOMAIN Write(history, k, Torn) -> S]
      <4> HIDE DEF S
      <4>1. QED BY <3>1, HistoryAdd
    <3>3. CASE history' = history
      BY <3>1, <3>3
    <3>4. CASE history' = Write(history, Key(publisher.snap), Torn)
      BY <3>2, <3>4
    <3>5. QED BY <2>2, <3>3, <3>4
  <2>4. latest' \in Snapshots \cup {None, Torn} /\ latestReport' \in Snapshots \cup {None, Torn}
    BY <1>6 DEF KillPublisher
  <2>5. QED BY <1>6, <2>3, <2>4 DEF KillPublisher
<1>7. CASE RunRevisionAudit \/ RunRegimeMonitor \/ OpsLoadHistory \/ OpsWriteAlerts \/ OpsWriteStatus
  BY <1>7 DEF RunRevisionAudit, RunRegimeMonitor, OpsLoadHistory, OpsWriteAlerts, OpsWriteStatus, fileVars
<1>8. CASE UNCHANGED publishVars
  BY <1>8 DEF publishVars, fileVars
<1>9. QED BY <1>1, <1>2, <1>3, <1>4, <1>5, <1>6, <1>7, <1>8 DEF PublishNext

-----------------------------------------------------------------------------
\* A history file is written by the publisher that found its name free, once.
FreeKey == publisher # Idle /\ publisher.pc = "history" => Key(publisher.snap) \notin DOMAIN history

LEMMA FreeKeyStep == PublishTypes /\ FreeKey /\ [PublishNext]_publishVars => FreeKey'
<1> SUFFICES ASSUME PublishTypes, FreeKey, [PublishNext]_publishVars PROVE FreeKey'
  OBVIOUS
<1>1. CASE PublishStart
  BY <1>1 DEF PublishStart, FreeKey, fileVars
<1>2. CASE WriteHistorySnapshot \/ WriteHistoryReport \/ WriteLatestSnapshot \/ WriteLatestReport
  <2>1. publisher \in [pc : Stages, snap : Snapshots]
    BY <1>2 DEF WriteHistorySnapshot, WriteHistoryReport, WriteLatestSnapshot,
                WriteLatestReport, PublishTypes, Idle
  <2>2. publisher' = Idle \/ publisher'.pc # "history"
    BY <1>2, <2>1 DEF WriteHistorySnapshot, WriteHistoryReport, WriteLatestSnapshot, WriteLatestReport
  <2>3. QED BY <2>2 DEF FreeKey
<1>3. CASE KillPublisher
  BY <1>3 DEF KillPublisher, FreeKey
<1>4. CASE UNCHANGED <<publisher, history>>
  BY <1>4 DEF FreeKey
<1>5. QED
  BY <1>1, <1>2, <1>3, <1>4
  DEF PublishNext, Tick, LiveRunWritesSummary, KillLiveRun, RunRevisionAudit, RunRegimeMonitor,
      OpsLoadHistory, OpsWriteAlerts, OpsWriteStatus, publishVars, fileVars

\* A history file keeps its content, torn or whole (HistoryImmutable).
THEOREM HistoryStands == PublishSpec => HistoryImmutable
<1> DEFINE Kept == \A key \in DOMAIN history : key \in DOMAIN history' /\ history'[key] = history[key]
<1>1. PublishInit => PublishTypes /\ FreeKey
  BY PublishTypesInit DEF PublishInit, FreeKey
<1>2. PublishTypes /\ FreeKey /\ [PublishNext]_publishVars => (PublishTypes /\ FreeKey)'
  BY PublishTypesStep, FreeKeyStep
<1>3. PublishTypes /\ FreeKey /\ [PublishNext]_publishVars => [Kept]_publishVars
  <2> SUFFICES ASSUME PublishTypes, FreeKey, PublishNext PROVE Kept
    BY DEF publishVars, fileVars
  <2>1. CASE WriteHistorySnapshot \/ KillPublisher
    <3>1. history' = history \/ (publisher # Idle /\ publisher.pc = "history")
      BY <2>1 DEF WriteHistorySnapshot, KillPublisher, Idle
    <3>2. \/ history' = history
          \/ \E v : history' = Write(history, Key(publisher.snap), v)
      BY <2>1 DEF WriteHistorySnapshot, KillPublisher
    <3>3. QED BY <3>1, <3>2 DEF FreeKey, Write
  <2>2. CASE UNCHANGED history
    BY <2>2
  <2>3. QED
    BY <2>1, <2>2
    DEF PublishNext, Tick, LiveRunWritesSummary, KillLiveRun, PublishStart, WriteHistoryReport,
        WriteLatestSnapshot, WriteLatestReport, RunRevisionAudit, RunRegimeMonitor,
        OpsLoadHistory, OpsWriteAlerts, OpsWriteStatus, fileVars
<1>4. QED BY <1>1, <1>2, <1>3, PTL DEF PublishSpec, HistoryImmutable
-----------------------------------------------------------------------------
(* What the files hold of the publications                                  *)

\* The history's whole files are the publications, which are in the order of
\* their seconds and no two of one week and second.
HistoryInv ==
    /\ \A i \in DOMAIN published :
        /\ Key(published[i]) \in DOMAIN history
        /\ history[Key(published[i])] = published[i]
        /\ published[i].at <= clock
    /\ \A key \in DOMAIN history :
        history[key] # Torn =>
            \E i \in DOMAIN published : published[i] = history[key] /\ Key(published[i]) = key
    /\ \A i, j \in DOMAIN published :
        i < j => /\ published[i].at <= published[j].at
                 /\ Key(published[i]) # Key(published[j])
    /\ publisher # Idle =>
        /\ publisher.snap.at <= clock
        /\ \A i \in DOMAIN published : published[i].at <= publisher.snap.at

LEMMA HistoryInvWrite ==
    ASSUME PublishTypes, FreeKey, HistoryInv, WriteHistorySnapshot
    PROVE  HistoryInv'
<1> DEFINE x == publisher.snap
           n == Len(published)
<1>1. x \in Snapshots /\ x.at \in Int /\ clock \in Int /\ publisher \in [pc : Stages, snap : Snapshots]
  BY SnapshotFacts, PublishBounds DEF WriteHistorySnapshot, PublishTypes, Idle
<1>2. Key(x) \notin DOMAIN history /\ publisher # Idle
  BY DEF WriteHistorySnapshot, FreeKey, Idle
<1>3. /\ DOMAIN history' = DOMAIN history \cup {Key(x)}
      /\ history'[Key(x)] = x
      /\ \A k \in DOMAIN history : history'[k] = history[k]
  BY <1>2 DEF WriteHistorySnapshot, Write
<1>4. publisher'.snap = x /\ clock' = clock
  BY <1>1 DEF WriteHistorySnapshot
<1>5. /\ n \in Nat /\ DOMAIN published = 1 .. n /\ DOMAIN published' = 1 .. n + 1
      /\ published'[n + 1] = x
      /\ \A i \in 1 .. n : published'[i] = published[i] /\ published[i] \in Snapshots
  BY <1>1, AppendFacts DEF WriteHistorySnapshot, PublishTypes
<1>6. \A i \in 1 .. n : published[i].at \in Int
  BY <1>5, SnapshotFacts
<1> HIDE DEF x, n
<1>7. \A i \in 1 .. n : published[i].at <= x.at
  BY <1>2, <1>5 DEF HistoryInv, x
<1>8. x.at <= clock
  BY <1>2 DEF HistoryInv, x
<1>9. \A i \in DOMAIN published' :
        /\ Key(published'[i]) \in DOMAIN history'
        /\ history'[Key(published'[i])] = published'[i]
        /\ published'[i].at <= clock'
  <2> SUFFICES ASSUME NEW i \in 1 .. n + 1
               PROVE  /\ Key(published'[i]) \in DOMAIN history'
                      /\ history'[Key(published'[i])] = published'[i]
                      /\ published'[i].at <= clock'
    BY <1>5
  <2>1. CASE i = n + 1
    BY <2>1, <1>3, <1>4, <1>5, <1>8
  <2>2. CASE i # n + 1
    BY <2>2, <1>3, <1>4, <1>5 DEF HistoryInv
  <2>3. QED BY <2>1, <2>2
<1>10. \A key \in DOMAIN history' :
        history'[key] # Torn =>
            \E i \in DOMAIN published' : published'[i] = history'[key] /\ Key(published'[i]) = key
  <2> SUFFICES ASSUME NEW key \in DOMAIN history', history'[key] # Torn
               PROVE  \E i \in DOMAIN published' :
                        published'[i] = history'[key] /\ Key(published'[i]) = key
    OBVIOUS
  <2>1. CASE key = Key(x)
    BY <2>1, <1>3, <1>5
  <2>2. CASE key # Key(x)
    <3>1. PICK i \in 1 .. n : published[i] = history[key] /\ Key(published[i]) = key
      BY <2>2, <1>3, <1>5 DEF HistoryInv
    <3>2. QED BY <3>1, <2>2, <1>3, <1>5
  <2>3. QED BY <2>1, <2>2
<1>11. \A i, j \in DOMAIN published' :
        i < j => /\ published'[i].at <= published'[j].at
                 /\ Key(published'[i]) # Key(published'[j])
  <2> SUFFICES ASSUME NEW i \in 1 .. n + 1, NEW j \in 1 .. n + 1, i < j
               PROVE  /\ published'[i].at <= published'[j].at
                      /\ Key(published'[i]) # Key(published'[j])
    BY <1>5
  <2>1. i \in 1 .. n
    BY <1>5
  <2>2. CASE j = n + 1
    <3>1. Key(published[i]) # Key(x)
      BY <1>2, <1>5, <2>1 DEF HistoryInv
    <3>2. QED BY <2>1, <2>2, <3>1, <1>5, <1>7
  <2>3. CASE j # n + 1
    BY <2>1, <2>3, <1>5 DEF HistoryInv
  <2>4. QED BY <2>2, <2>3
<1>12. \A i \in DOMAIN published' : published'[i].at <= x.at
  BY <1>1, <1>5, <1>7
<1>13. QED BY <1>4, <1>8, <1>9, <1>10, <1>11, <1>12 DEF HistoryInv

LEMMA HistoryInvStep ==
    PublishTypes /\ FreeKey /\ HistoryInv /\ [PublishNext]_publishVars => HistoryInv'
<1> SUFFICES ASSUME PublishTypes, FreeKey, HistoryInv, [PublishNext]_publishVars PROVE HistoryInv'
  OBVIOUS
<1>0. clock \in Int /\ \A i \in DOMAIN published : published[i].at \in Int
  BY SnapshotFacts, PublishBounds DEF PublishTypes
<1>1. CASE Tick
  <2>1. clock' \in Int /\ clock' > clock
    BY <1>1, <1>0, PublishBounds DEF Tick
  <2>2. publisher # Idle => publisher.snap.at \in Int
    BY SnapshotFacts, PublishBounds DEF PublishTypes
  <2>3. QED BY <1>1, <1>0, <2>1, <2>2 DEF Tick, fileVars, HistoryInv
<1>2. CASE PublishStart
  <2>1. publisher'.snap.at = clock
    BY <1>2, SnapshotMade DEF PublishStart, PublishTypes
  <2>2. QED BY <1>2, <1>0, <2>1 DEF PublishStart, fileVars, HistoryInv
<1>3. CASE WriteHistorySnapshot
  BY <1>3, HistoryInvWrite
<1>4. CASE WriteHistoryReport \/ WriteLatestSnapshot \/ WriteLatestReport
  <2>1. publisher \in [pc : Stages, snap : Snapshots]
    BY <1>4 DEF WriteHistoryReport, WriteLatestSnapshot, WriteLatestReport, PublishTypes, Idle
  <2>2. publisher' = Idle \/ publisher'.snap = publisher.snap
    BY <1>4, <2>1 DEF WriteHistoryReport, WriteLatestSnapshot, WriteLatestReport
  <2>3. publisher # Idle
    BY <1>4 DEF WriteHistoryReport, WriteLatestSnapshot, WriteLatestReport, Idle
  <2>4. UNCHANGED <<history, published, clock>>
    BY <1>4 DEF WriteHistoryReport, WriteLatestSnapshot, WriteLatestReport
  <2>5. QED BY <2>2, <2>3, <2>4 DEF HistoryInv
<1>5. CASE KillPublisher
  <2>1. publisher' = Idle /\ UNCHANGED <<published, clock>>
    BY <1>5 DEF KillPublisher
  <2>2. \/ history' = history
        \/ /\ Key(publisher.snap) \notin DOMAIN history
           /\ history' = Write(history, Key(publisher.snap), Torn)
    BY <1>5 DEF KillPublisher, FreeKey
  <2>3. QED BY <2>1, <2>2 DEF HistoryInv, Write
<1>6. CASE UNCHANGED <<publisher, history, published, clock>>
  BY <1>6 DEF HistoryInv
<1>7. QED
  BY <1>1, <1>2, <1>3, <1>4, <1>5, <1>6
  DEF PublishNext, LiveRunWritesSummary, KillLiveRun, RunRevisionAudit, RunRegimeMonitor,
      OpsLoadHistory, OpsWriteAlerts, OpsWriteStatus, publishVars, fileVars

-----------------------------------------------------------------------------
\* The latest files follow the publisher: it untidies them with its first write
\* and has made all four of its publication when it ends.
LatestInv ==
    /\ publisher # Idle /\ publisher.pc # "history" =>
        published # <<>> /\ Last(published) = publisher.snap /\ ~tidy
    /\ publisher # Idle /\ publisher.pc = "latest_report" => latest = publisher.snap
    /\ tidy /\ published # <<>> => latest = Last(published) /\ latestReport = latest

LEMMA LatestInvStep == PublishTypes /\ LatestInv /\ [PublishNext]_publishVars => LatestInv'
<1> SUFFICES ASSUME PublishTypes, LatestInv, [PublishNext]_publishVars PROVE LatestInv'
  OBVIOUS
<1>1. CASE PublishStart
  BY <1>1 DEF PublishStart, LatestInv, fileVars
<1>2. CASE WriteHistorySnapshot
  <2>1. publisher \in [pc : Stages, snap : Snapshots]
    BY <1>2 DEF WriteHistorySnapshot, PublishTypes, Idle
  <2>2. published' # <<>> /\ Last(published') = publisher.snap /\ publisher'.snap = publisher.snap
    BY <1>2, <2>1, AppendFacts DEF WriteHistorySnapshot, PublishTypes
  <2>3. publisher'.pc = "report" /\ tidy' = FALSE
    BY <1>2, <2>1 DEF WriteHistorySnapshot
  <2>4. QED BY <2>2, <2>3 DEF LatestInv
<1>3. CASE WriteHistoryReport
  <2>1. publisher \in [pc : Stages, snap : Snapshots]
    BY <1>3 DEF WriteHistoryReport, PublishTypes, Idle
  <2>2. publisher'.snap = publisher.snap /\ publisher'.pc = "latest"
    BY <1>3, <2>1 DEF WriteHistoryReport
  <2>3. QED BY <1>3, <2>2 DEF WriteHistoryReport, LatestInv, Idle
<1>4. CASE WriteLatestSnapshot
  <2>1. publisher \in [pc : Stages, snap : Snapshots]
    BY <1>4 DEF WriteLatestSnapshot, PublishTypes, Idle
  <2>2. publisher'.snap = publisher.snap /\ publisher'.pc = "latest_report"
    BY <1>4, <2>1 DEF WriteLatestSnapshot
  <2>3. QED BY <1>4, <2>2 DEF WriteLatestSnapshot, LatestInv, Idle
<1>5. CASE WriteLatestReport
  BY <1>5 DEF WriteLatestReport, LatestInv, Idle
<1>6. CASE KillPublisher
  <2>1. publisher' = Idle /\ UNCHANGED <<published, tidy>> /\ publisher # Idle
    BY <1>6 DEF KillPublisher
  <2>2. publisher.pc = "history" => UNCHANGED <<latest, latestReport>>
    BY <1>6 DEF KillPublisher
  <2>3. QED BY <2>1, <2>2 DEF LatestInv
<1>7. CASE UNCHANGED <<publisher, published, tidy, latest, latestReport>>
  BY <1>7 DEF LatestInv
<1>8. QED
  BY <1>1, <1>2, <1>3, <1>4, <1>5, <1>6, <1>7
  DEF PublishNext, Tick, LiveRunWritesSummary, KillLiveRun, RunRevisionAudit, RunRegimeMonitor,
      OpsLoadHistory, OpsWriteAlerts, OpsWriteStatus, publishVars, fileVars

FilesInv == PublishTypes /\ FreeKey /\ HistoryInv /\ LatestInv

LEMMA FilesInit == PublishInit => FilesInv
  BY PublishTypesInit DEF PublishInit, FilesInv, FreeKey, HistoryInv, LatestInv

LEMMA FilesStep == FilesInv /\ [PublishNext]_publishVars => FilesInv'
  BY PublishTypesStep, FreeKeyStep, HistoryInvStep, LatestInvStep DEF FilesInv

\* After a publisher that ended whole both latest files are of the newest
\* publication, however often earlier ones were killed (LatestIsNewest).
THEOREM LatestFollows == PublishSpec => []LatestIsNewest
<1>1. FilesInv => LatestIsNewest
  <2> SUFFICES ASSUME FilesInv, publisher = Idle, tidy, published # <<>>
               PROVE  /\ latest = Last(published) /\ latestReport = latest
                      /\ \A i \in DOMAIN published : published[i].at <= latest.at
    BY DEF LatestIsNewest
  <2>1. latest = Last(published) /\ latestReport = latest
    BY DEF FilesInv, LatestInv
  <2>2. /\ Len(published) \in Nat /\ DOMAIN published = 1 .. Len(published)
        /\ Len(published) \in DOMAIN published
        /\ latest = published[Len(published)] /\ latest \in Snapshots
    BY <2>1 DEF FilesInv, PublishTypes, Last
  <2>3. latest.at \in Int
    BY <2>2, SnapshotFacts
  <2>4. ASSUME NEW i \in DOMAIN published PROVE published[i].at <= latest.at
    <3>1. i = Len(published) \/ i < Len(published)
      BY <2>2
    <3>2. QED BY <3>1, <2>2, <2>3 DEF FilesInv, HistoryInv
  <2>5. QED BY <2>1, <2>4
<1>2. QED BY FilesInit, FilesStep, <1>1, PTL DEF PublishSpec

-----------------------------------------------------------------------------
(* First and last publication of a week                                     *)

\* The publications of a week, if there are any, have a first and a last one.
ExtremesInv ==
    \A n \in 0 .. Len(published), w \in Nat :
        Of(w, n) # {} => \E first, last \in Of(w, n) : Of(w, n) \subseteq first .. last

LEMMA Extremes ==
    ASSUME PublishTypes, ExtremesInv, NEW n \in 0 .. Len(published), NEW w \in Nat, Of(w, n) # {}
    PROVE  /\ Min(Of(w, n)) \in Of(w, n) /\ Max(Of(w, n)) \in Of(w, n)
           /\ Of(w, n) \subseteq Min(Of(w, n)) .. Max(Of(w, n))
           /\ FirstPublished(w, n) \in Snapshots /\ FirstPublished(w, n).week = w
           /\ LastPublished(w, n) \in Snapshots /\ LastPublished(w, n).week = w
<1> DEFINE S == Of(w, n)
<1>1. PICK first, last \in S : S \subseteq first .. last
  BY DEF ExtremesInv
<1>2. S \subseteq 1 .. n /\ Len(published) \in Nat /\ \A i \in S : published[i].week = w
  BY DEF Of, PublishTypes
<1>3. \A i \in 1 .. n : published[i] \in Snapshots
  BY <1>2 DEF PublishTypes
<1> HIDE DEF S
<1>4. first \in S /\ \A y \in S : first =< y
  BY <1>1, <1>2
<1>5. last \in S /\ \A y \in S : last >= y
  BY <1>1, <1>2
<1>6. Min(S) \in S /\ \A y \in S : Min(S) =< y
  BY <1>4 DEF Min
<1>7. Max(S) \in S /\ \A y \in S : Max(S) >= y
  BY <1>5 DEF Max
<1>8. S \subseteq Min(S) .. Max(S)
  BY <1>2, <1>6, <1>7
<1>9. QED BY <1>2, <1>3, <1>6, <1>7, <1>8 DEF S, FirstPublished, LastPublished

\* Publications are only ever appended.
LEMMA PublishedGrows ==
    ASSUME PublishTypes, [PublishNext]_publishVars
    PROVE  /\ \/ published' = published
              \/ \E x \in Snapshots : published' = Append(published, x)
           /\ Len(published) \in Nat /\ Len(published') \in Nat
           /\ Len(published) <= Len(published')
           /\ \A i \in 1 .. Len(published) : published'[i] = published[i]
<1>1. CASE WriteHistorySnapshot
  <2>1. publisher.snap \in Snapshots
    BY <1>1 DEF WriteHistorySnapshot, PublishTypes, Idle
  <2>2. QED BY <1>1, <2>1, AppendFacts DEF WriteHistorySnapshot, PublishTypes
<1>2. CASE published' = published
  BY <1>2 DEF PublishTypes
<1>3. QED
  BY <1>1, <1>2
  DEF PublishNext, Tick, LiveRunWritesSummary, KillLiveRun, PublishStart, WriteHistoryReport,
      WriteLatestSnapshot, WriteLatestReport, KillPublisher, RunRevisionAudit, RunRegimeMonitor,
      OpsLoadHistory, OpsWriteAlerts, OpsWriteStatus, publishVars, fileVars

LEMMA OfStays ==
    ASSUME PublishTypes, [PublishNext]_publishVars, NEW n \in 0 .. Len(published), NEW w
    PROVE  Of(w, n)' = Of(w, n)
  BY PublishedGrows DEF Of

LEMMA ExtremesStep ==
    ASSUME PublishTypes, ExtremesInv, [PublishNext]_publishVars
    PROVE  ExtremesInv'
<1> SUFFICES ASSUME NEW n \in 0 .. Len(published'), NEW w \in Nat, Of(w, n)' # {}
             PROVE  \E first, last \in Of(w, n)' : Of(w, n)' \subseteq first .. last
  BY DEF ExtremesInv
<1>1. CASE n \in 0 .. Len(published)
  <2>1. Of(w, n)' = Of(w, n)
    BY <1>1, OfStays
  <2>2. \E first, last \in Of(w, n) : Of(w, n) \subseteq first .. last
    BY <1>1, <2>1 DEF ExtremesInv
  <2>3. QED BY <2>1, <2>2
<1>2. CASE n \notin 0 .. Len(published)
  <2> DEFINE m == Len(published)
  <2>1. PICK x \in Snapshots : published' = Append(published, x)
    BY <1>2, PublishedGrows
  <2>2. m \in Nat /\ n = m + 1 /\ published'[n] = x /\ \A i \in 1 .. m : published'[i] = published[i]
    BY <1>2, <2>1, PublishedGrows, AppendFacts DEF PublishTypes
  <2> HIDE DEF m
  <2>3. Of(w, n)' = Of(w, m) \cup (IF x.week = w THEN {n} ELSE {})
    BY <2>2 DEF Of
  <2>4. Of(w, m) \subseteq 1 .. m
    BY DEF Of
  <2>5. CASE Of(w, m) = {}
    <3>1. Of(w, n)' = {n}
      BY <2>3, <2>5
    <3>2. QED BY <3>1, <2>2
  <2>6. CASE Of(w, m) # {}
    <3>0. m \in 0 .. Len(published)
      BY <2>2 DEF m
    <3>1. PICK first, last \in Of(w, m) : Of(w, m) \subseteq first .. last
      BY <3>0, <2>6 DEF ExtremesInv
    <3>2. CASE x.week = w
      <4>1. Of(w, n)' = Of(w, m) \cup {n}
        BY <3>2, <2>3
      <4>2. first \in 1 .. m /\ last \in 1 .. m
        BY <2>4
      <4>3. Of(w, m) \cup {n} \subseteq first .. n
        BY <3>1, <4>2, <2>2, <2>4
      <4>4. QED BY <4>1, <4>3
    <3>3. CASE x.week # w
      BY <3>1, <3>3, <2>3
    <3>4. QED BY <3>2, <3>3
  <2>7. QED BY <2>5, <2>6
<1>3. QED BY <1>1, <1>2

LEMMA EndsStay ==
    ASSUME PublishTypes, ExtremesInv, [PublishNext]_publishVars,
           NEW n \in 0 .. Len(published), NEW w \in Nat, Of(w, n) # {}
    PROVE  /\ FirstPublished(w, n)' = FirstPublished(w, n)
           /\ LastPublished(w, n)' = LastPublished(w, n)
<1> DEFINE S == Of(w, n)
<1>1. S' = S
  BY OfStays
<1>2. Min(S) \in 1 .. Len(published) /\ Max(S) \in 1 .. Len(published)
  <2>1. Min(S) \in S /\ Max(S) \in S
    BY Extremes
  <2>2. S \subseteq 1 .. n
    BY DEF Of
  <2>3. 1 .. n \subseteq 1 .. Len(published)
    BY DEF PublishTypes
  <2>4. QED BY <2>1, <2>2, <2>3
<1>3. published'[Min(S)] = published[Min(S)] /\ published'[Max(S)] = published[Max(S)]
  BY <1>2, PublishedGrows
<1>4. FirstPublished(w, n)' = published'[Min(S')] /\ LastPublished(w, n)' = published'[Max(S')]
  BY DEF FirstPublished, LastPublished
<1>5. FirstPublished(w, n) = published[Min(S)] /\ LastPublished(w, n) = published[Max(S)]
  BY DEF FirstPublished, LastPublished
<1> HIDE DEF S
<1>6. QED BY <1>1, <1>3, <1>4, <1>5

-----------------------------------------------------------------------------
(* Revision detail                                                          *)

\* What a row of the detail says of a change.
RowRight(row) ==
    /\ row.material = Material(row.reasons)
    /\ (row.first.mode # row.latest.mode \/ row.first.k_hat_t # row.latest.k_hat_t) => row.material

\* A revision detail is of the first n publications.
DetailRight(detail, n) ==
    /\ n \in 0 .. Len(published)
    /\ DOMAIN detail = {published[i].week : i \in 1 .. n}
    /\ \A w \in DOMAIN detail :
        /\ detail[w].first = FirstPublished(w, n)
        /\ detail[w].latest = LastPublished(w, n)
        /\ detail[w].runs = Cardinality(Of(w, n))
        /\ RowRight(detail[w])

\* The weeks published so far, each with a publication.
LEMMA WeeksPublished ==
    ASSUME PublishTypes, NEW n \in 0 .. Len(published)
    PROVE  \A w \in {published[i].week : i \in 1 .. n} : w \in Nat /\ Of(w, n) # {}
<1>1. \A i \in 1 .. n : published[i] \in Snapshots
  BY DEF PublishTypes
<1>2. QED BY <1>1, SnapshotFacts DEF Of

LEMMA DetailStays ==
    ASSUME PublishTypes, ExtremesInv, [PublishNext]_publishVars,
           NEW detail, NEW n, DetailRight(detail, n)
    PROVE  DetailRight(detail, n)'
<1>1. n \in 0 .. Len(published) /\ n \in 0 .. Len(published')
  BY PublishedGrows DEF DetailRight
<1>2. \A i \in 1 .. n : published'[i] = published[i]
  BY <1>1, PublishedGrows
<1>3. DOMAIN detail = {published'[i].week : i \in 1 .. n}
  BY <1>2 DEF DetailRight
<1>4. ASSUME NEW w \in DOMAIN detail
      PROVE  /\ FirstPublished(w, n)' = FirstPublished(w, n)
             /\ LastPublished(w, n)' = LastPublished(w, n)
             /\ Cardinality(Of(w, n)') = Cardinality(Of(w, n))
  <2>1. w \in Nat /\ Of(w, n) # {}
    BY <1>1, WeeksPublished DEF DetailRight
  <2>2. Of(w, n)' = Of(w, n)
    BY <1>1, OfStays
  <2>3. QED BY <1>1, <2>1, <2>2, EndsStay
<1>5. QED BY <1>1, <1>3, <1>4 DEF DetailRight

\* What the readers load is what was published.
LEMMA LoadedIsPublished ==
    ASSUME FilesInv
    PROVE  Loaded = {published[i] : i \in 1 .. Len(published)}
<1>1. DOMAIN published = 1 .. Len(published) /\ \A i \in 1 .. Len(published) : published[i] \in Snapshots
  BY DEF FilesInv, PublishTypes
<1>2. \A i \in 1 .. Len(published) : published[i] # Torn
  BY <1>1, SnapshotFacts
<1>3. QED BY <1>1, <1>2 DEF FilesInv, HistoryInv, Loaded

\* Of two publications of one week the later one has the later second.
LEMMA SecondsGrow ==
    ASSUME FilesInv, NEW i \in 1 .. Len(published), NEW j \in 1 .. Len(published), i < j,
           published[i].week = published[j].week
    PROVE  published[i].at \in Int /\ published[j].at \in Int /\ published[i].at < published[j].at
<1>1. DOMAIN published = 1 .. Len(published) /\ published[i] \in Snapshots /\ published[j] \in Snapshots
  BY DEF FilesInv, PublishTypes
<1>2. published[i].at \in Int /\ published[j].at \in Int
  BY <1>1, SnapshotFacts, PublishBounds
<1>3. published[i].at <= published[j].at /\ Key(published[i]) # Key(published[j])
  BY <1>1 DEF FilesInv, HistoryInv
<1>4. QED BY <1>2, <1>3 DEF Key

LEMMA EndsOfHistory ==
    ASSUME FilesInv, ExtremesInv, NEW w \in Nat, Of(w, Len(published)) # {}
    PROVE  /\ FirstOf(Loaded, w) = FirstPublished(w, Len(published))
           /\ LatestOf(Loaded, w) = LastPublished(w, Len(published))
<1> DEFINE n == Len(published)
           S == Of(w, n)
           a == Min(S)
           b == Max(S)
           L == Loaded
<1>1. n \in 0 .. Len(published) /\ n \in Nat
  BY DEF FilesInv, PublishTypes
<1>2. a \in S /\ b \in S /\ S \subseteq a .. b
  BY <1>1, Extremes DEF FilesInv
<1>3. S = {i \in 1 .. n : published[i].week = w}
  BY DEF Of
<1>4. L = {published[i] : i \in 1 .. n}
  BY LoadedIsPublished
<1>5. \A i, j \in S : i < j => /\ published[i].at \in Int /\ published[j].at \in Int
                               /\ published[i].at < published[j].at
  BY <1>3, SecondsGrow
<1>6. \A i \in S : published[i].at \in Int
  <2>1. \A i \in S : published[i] \in Snapshots
    BY <1>3 DEF FilesInv, PublishTypes
  <2>2. QED BY <2>1, SnapshotFacts, PublishBounds
<1>7. FirstPublished(w, n) = published[a] /\ LastPublished(w, n) = published[b]
  BY DEF FirstPublished, LastPublished
<1> HIDE DEF n, S, a, b, L
<1>8. S \subseteq Int
  BY <1>1, <1>3
<1>9. \A i \in S : a <= i /\ i <= b
  BY <1>2, <1>8
<1>10. \A i \in S : /\ i # a => published[a].at < published[i].at
                    /\ i # b => published[i].at < published[b].at
  BY <1>2, <1>5, <1>8, <1>9
<1>11. \A y \in L : y.week = w => \E i \in S : y = published[i]
  BY <1>3, <1>4
<1>12. published[a] \in L /\ published[a].week = w /\ published[b] \in L /\ published[b].week = w
  BY <1>2, <1>3, <1>4
<1>13. \A y \in L : y.week = w => published[a].at <= y.at /\ y.at <= published[b].at
  BY <1>2, <1>6, <1>10, <1>11
<1>14. FirstOf(L, w) = published[a]
  <2>1. \A x \in L : x.week = w /\ (\A y \in L : y.week = w => x.at <= y.at) => x = published[a]
    BY <1>2, <1>6, <1>10, <1>11, <1>12
  <2>2. QED BY <1>12, <1>13, <2>1 DEF FirstOf
<1>15. LatestOf(L, w) = published[b]
  <2>0. \A y \in L : y.week = w => published[b].at >= y.at
    BY <1>2, <1>6, <1>11, <1>13
  <2>1. \A x \in L : x.week = w /\ (\A y \in L : y.week = w => x.at >= y.at) => x = published[b]
    BY <1>2, <1>6, <1>10, <1>11, <1>12
  <2>2. QED BY <1>12, <2>0, <2>1 DEF LatestOf
<1>16. QED BY <1>7, <1>14, <1>15 DEF L, n

RunsIn(hist, w) == Cardinality({x \in hist : x.week = w})

LEMMA RunsOfHistory ==
    ASSUME FilesInv, NEW w
    PROVE  RunsIn(Loaded, w) = Cardinality(Of(w, Len(published)))
<1> DEFINE n == Len(published)
           S == Of(w, n)
           T == {x \in Loaded : x.week = w}
           f == [i \in S |-> published[i]]
<1>1. n \in Nat /\ S = {i \in 1 .. n : published[i].week = w}
  BY DEF FilesInv, PublishTypes, Of
<1>2. IsFiniteSet(S)
  <2>1. IsFiniteSet(1 .. n)
    BY <1>1, FS_Interval
  <2>2. QED BY <1>1, <2>1, FS_Subset
<1>3. T = {published[i] : i \in S}
  BY <1>1, LoadedIsPublished
<1>4. \A i, j \in S : i < j => published[i] # published[j]
  BY <1>1, SecondsGrow
<1> HIDE DEF n, S, T
<1>5. \A i, j \in S : published[i] = published[j] => i = j
  <2>1. S \subseteq Int
    BY <1>1
  <2>2. QED BY <1>4, <2>1
<1>6. f \in [S -> T] /\ \A y \in T : \E i \in S : f[i] = y
  BY <1>3
<1>7. \A i, j \in S : f[i] = f[j] => i = j
  BY <1>5
<1> HIDE DEF f
<1>8. f \in Bijection(S, T)
  <2>1. f \in Injection(S, T)
    BY <1>6, <1>7 DEF Injection, IsInjective
  <2>2. f \in Surjection(S, T)
    BY <1>6 DEF Surjection
  <2>3. QED BY <2>1, <2>2 DEF Bijection
<1>9. QED BY <1>2, <1>8, FS_Bijection DEF ExistsBijection, RunsIn, S, T, n

\* A change of mode or cluster is material.
LEMMA MaterialWhenModeChanges ==
    ASSUME NEW hist, NEW first, NEW last, first.mode # last.mode \/ first.k_hat_t # last.k_hat_t
    PROVE  Material(RevisionReasons(hist, first, last))
<1>1. CASE first.mode # last.mode
  <2>1. "mode" \in {f \in {"mode", "p_t", "drift_flag"} : first[f] # last[f]}
    BY <1>1
  <2>2. "mode" \in RevisionReasons(hist, first, last)
    BY <2>1 DEF RevisionReasons
  <2>3. QED BY <2>2 DEF Material
<1>2. CASE first.k_hat_t # last.k_hat_t
  <2>1. "k_hat_t" \in {f \in {"k_hat_t"} : ClusterChanged(hist, first, last)}
    BY <1>2 DEF ClusterChanged
  <2>2. "k_hat_t" \in RevisionReasons(hist, first, last)
    BY <2>1 DEF RevisionReasons
  <2>3. QED BY <2>2 DEF Material
<1>3. QED BY <1>1, <1>2

LEMMA RowFacts ==
    ASSUME NEW hist, NEW w
    PROVE  LET row == RevisionRow(hist, w) IN
           /\ row.first = FirstOf(hist, w)
           /\ row.latest = LatestOf(hist, w)
           /\ row.runs = RunsIn(hist, w)
           /\ RowRight(row)
<1> DEFINE first == FirstOf(hist, w)
           latestOne == LatestOf(hist, w)
           runs == RunsIn(hist, w)
           reasons == RevisionReasons(hist, first, latestOne)
           material == Material(reasons)
<1>1. RevisionRow(hist, w) = [runs |-> runs, first |-> first, latest |-> latestOne,
                              reasons |-> reasons, material |-> material]
  BY DEF RevisionRow, RunsIn
<1>2. /\ material = Material(reasons)
      /\ (first.mode # latestOne.mode \/ first.k_hat_t # latestOne.k_hat_t) => material
  BY MaterialWhenModeChanges
<1>3. runs = RunsIn(hist, w)
  OBVIOUS
<1> HIDE DEF runs, reasons, material
<1>4. QED BY <1>1, <1>2, <1>3 DEF RowRight

LEMMA DetailOfHistory ==
    ASSUME FilesInv, ExtremesInv
    PROVE  DetailRight(RevisionDetail(Loaded), Len(published))
<1> DEFINE n == Len(published)
           detail == RevisionDetail(Loaded)
           weeks == {published[i].week : i \in 1 .. n}
<1>1. n \in 0 .. Len(published)
  BY DEF FilesInv, PublishTypes
<1>2. WeeksOf(Loaded) = weeks
  BY LoadedIsPublished DEF WeeksOf
<1>3. DOMAIN detail = weeks /\ \A w \in weeks : detail[w] = RevisionRow(Loaded, w)
  BY <1>2 DEF RevisionDetail
<1>4. ASSUME NEW w \in weeks
      PROVE  /\ detail[w].first = FirstPublished(w, n)
             /\ detail[w].latest = LastPublished(w, n)
             /\ detail[w].runs = Cardinality(Of(w, n))
             /\ RowRight(detail[w])
  <2>1. w \in Nat /\ Of(w, n) # {}
    BY <1>1, WeeksPublished DEF FilesInv
  <2>2. /\ detail[w].first = FirstOf(Loaded, w)
        /\ detail[w].latest = LatestOf(Loaded, w)
        /\ detail[w].runs = RunsIn(Loaded, w)
        /\ RowRight(detail[w])
    <3>1. detail[w] = RevisionRow(Loaded, w)
      BY <1>3
    <3> HIDE DEF detail
    <3>2. QED BY <3>1, RowFacts
  <2>3. QED BY <2>1, <2>2, EndsOfHistory, RunsOfHistory
<1> HIDE DEF detail, n
<1>5. DetailRight(detail, n)
  BY <1>1, <1>3, <1>4 DEF DetailRight, n
<1>6. QED BY <1>5 DEF detail, n

-----------------------------------------------------------------------------
(* The revision audit                                                       *)

AuditInv ==
    audit # None =>
        /\ DetailRight(audit.detail, audit.of)
        /\ audit.summary = RevisionSummary(audit.detail)
        /\ audit.tests = RevisionTests(audit.detail)

LEMMA AuditStep ==
    ASSUME FilesInv, ExtremesInv, AuditInv, [PublishNext]_publishVars
    PROVE  AuditInv'
<1>1. CASE RunRevisionAudit
  <2> DEFINE d == RevisionDetail(Loaded)
             n == Len(published)
  <2>1. audit' = [detail |-> d, summary |-> RevisionSummary(d), tests |-> RevisionTests(d), of |-> n]
    BY <1>1 DEF RunRevisionAudit
  <2>2. PICK dd, m : dd = d /\ m = n
    OBVIOUS
  <2>3. DetailRight(dd, m)
    BY <2>2, DetailOfHistory
  <2>4. DetailRight(dd, m)'
    BY <2>3, DetailStays DEF FilesInv
  <2> HIDE DEF d, n
  <2>5. QED BY <2>1, <2>2, <2>4 DEF AuditInv
<1>2. CASE audit' = audit
  <2>1. PICK dd, m : dd = audit.detail /\ m = audit.of
    OBVIOUS
  <2>2. CASE audit # None
    <3>1. DetailRight(dd, m)'
      BY <2>1, <2>2, DetailStays DEF AuditInv, FilesInv
    <3>2. audit'.detail = dd /\ audit'.of = m /\ audit'.summary = audit.summary /\ audit'.tests = audit.tests
      BY <1>2, <2>1
    <3>3. QED BY <2>1, <2>2, <3>1, <3>2 DEF AuditInv
  <2>3. CASE audit = None
    BY <1>2, <2>3 DEF AuditInv
  <2>4. QED BY <2>2, <2>3
<1>3. QED
  BY <1>1, <1>2
  DEF PublishNext, Tick, LiveRunWritesSummary, KillLiveRun, PublishStart, WriteHistorySnapshot,
      WriteHistoryReport, WriteLatestSnapshot, WriteLatestReport, KillPublisher, RunRegimeMonitor,
      OpsLoadHistory, OpsWriteAlerts, OpsWriteStatus, publishVars, fileVars, readerVars

LEMMA AuditFollows == FilesInv /\ ExtremesInv /\ AuditInv => AuditMatchesPublications
<1> SUFFICES ASSUME FilesInv, ExtremesInv, AuditInv, audit # None
             PROVE  AuditMatchesPublications
  BY DEF AuditMatchesPublications
<1> DEFINE d == audit.detail
           n == audit.of
<1>1. /\ n \in 0 .. Len(published) /\ Len(published) \in Nat
      /\ DOMAIN d = {published[i].week : i \in 1 .. n}
      /\ audit.summary = RevisionSummary(d) /\ audit.tests = RevisionTests(d)
  BY DEF AuditInv, DetailRight, FilesInv, PublishTypes
<1>2. \A w \in DOMAIN d :
        /\ d[w].first = FirstPublished(w, n)
        /\ d[w].latest = LastPublished(w, n)
        /\ d[w].runs = Cardinality(Of(w, n))
        /\ RowRight(d[w])
  BY DEF AuditInv, DetailRight
<1>3. \A w \in DOMAIN d : w \in Nat /\ Of(w, n) # {}
  BY <1>1, WeeksPublished DEF FilesInv
<1>4. ASSUME NEW w \in DOMAIN d PROVE d[w].first.at <= d[w].latest.at
  <2> DEFINE S == Of(w, n)
             a == Min(S)
             b == Max(S)
  <2>1. a \in S /\ b \in S /\ S \subseteq a .. b
    BY <1>1, <1>3, Extremes DEF FilesInv
  <2>2. S \subseteq 1 .. Len(published) /\ \A i \in S : published[i].week = w
    BY <1>1 DEF Of
  <2>3. FirstPublished(w, n) = published[a] /\ LastPublished(w, n) = published[b]
    BY DEF FirstPublished, LastPublished
  <2>4. published[b] \in Snapshots
    BY <2>1, <2>2 DEF FilesInv, PublishTypes
  <2> HIDE DEF S, a, b
  <2>5. a \in 1 .. Len(published) /\ b \in 1 .. Len(published) /\ a <= b
    BY <1>1, <2>1, <2>2
  <2>6. published[b].at \in Int
    BY <2>4, SnapshotFacts
  <2>7. CASE a = b
    BY <1>2, <2>3, <2>6, <2>7
  <2>8. CASE a < b
    BY <1>2, <2>1, <2>2, <2>3, <2>5, <2>8, SecondsGrow
  <2>9. QED BY <1>1, <2>5, <2>7, <2>8
<1>5. audit.tests.ordered /\ audit.tests.thresholds
  BY <1>1, <1>2, <1>4 DEF RevisionTests, RowRight
<1>6. ASSUME NEW w \in DOMAIN d, d[w].material PROVE audit.summary.material > 0
  <2> DEFINE M == {v \in DOMAIN d : d[v].material}
  <2>1. IsFiniteSet(DOMAIN d)
    <3> DEFINE f == [i \in 1 .. n |-> published[i].week]
    <3>1. f \in Surjection(1 .. n, DOMAIN d)
      BY <1>1 DEF Surjection
    <3>2. IsFiniteSet(1 .. n)
      BY <1>1, FS_Interval
    <3> HIDE DEF f
    <3>3. QED BY <3>1, <3>2, FS_Surjection
  <2>2. IsFiniteSet(M) /\ w \in M
    BY <1>6, <2>1, FS_Subset
  <2>3. audit.summary.material = Cardinality(M)
    BY <1>1 DEF RevisionSummary
  <2> HIDE DEF M
  <2>4. Cardinality(M) \in Nat /\ Cardinality(M) # 0
    BY <2>2, FS_CardinalityType, FS_EmptySet
  <2>5. QED BY <2>3, <2>4
<1>7. ASSUME NEW w \in DOMAIN d,
             \/ FirstPublished(w, n).mode # LastPublished(w, n).mode
             \/ FirstPublished(w, n).k_hat_t # LastPublished(w, n).k_hat_t
      PROVE  d[w].material
  BY <1>2, <1>7 DEF RowRight
<1> HIDE DEF d, n
<1>8. \A w \in DOMAIN d :
        LET first == FirstPublished(w, n)
            last == LastPublished(w, n)
            row == d[w]
        IN /\ row.first = first /\ row.latest = last
           /\ row.runs = Cardinality(Of(w, n))
           /\ (first.mode # last.mode \/ first.k_hat_t # last.k_hat_t)
                => row.material /\ audit.summary.material > 0
  BY <1>2, <1>6, <1>7
<1>9. QED BY <1>1, <1>5, <1>8 DEF AuditMatchesPublications, d, n

LEMMA ExtremesInit == PublishInit => ExtremesInv
  BY DEF PublishInit, ExtremesInv, Of

\* The audit compares the first publication of a week with the last and misses
\* no change of mode or cluster (AuditMatchesPublications), whatever was killed
\* while it was published.
THEOREM AuditIsOfPublications == PublishSpec => []AuditMatchesPublications
<1>1. PublishInit => FilesInv /\ ExtremesInv /\ AuditInv
  <2>1. PublishInit => AuditInv
    BY DEF PublishInit, AuditInv
  <2>2. QED BY <2>1, FilesInit, ExtremesInit
<1>2. FilesInv /\ ExtremesInv /\ AuditInv /\ [PublishNext]_publishVars
        => (FilesInv /\ ExtremesInv /\ AuditInv)'
  BY FilesStep, ExtremesStep, AuditStep DEF FilesInv
<1>3. QED BY <1>1, <1>2, AuditFollows, PTL DEF PublishSpec

-----------------------------------------------------------------------------
(* The regime files                                                         *)

\* Views whose weeks go up.
Ordered(view) ==
    /\ DOMAIN view = 1 .. Len(view) /\ Len(view) \in Nat \ {0}
    /\ \A i \in DOMAIN view : view[i].week \in Nat
    /\ \A i, j \in DOMAIN view : i < j => view[i].week < view[j].week

\* The weeks among the first k - 1 of the view that the next one differs from.
Changes(view, k) == {i \in 1 .. k - 1 : RegimeLabel(view[i]) # RegimeLabel(view[i + 1])}

\* Runs of the labels of a view.
RunsOf(view) ==
    [label : {RegimeLabel(view[i]) : i \in DOMAIN view}, mode : {view[i].mode : i \in DOMAIN view},
     start : Nat, end : Nat, weeks : Nat]

RunWeeks(runs) == [i \in DOMAIN runs |-> runs[i].weeks]

\* What the runs made of the first k weeks of a view are: as many as the changes of
\* label and one more, k weeks in all, one after the other.
RunsCover(runs, view, k) ==
    /\ runs \in Seq(RunsOf(view)) /\ Len(runs) = Cardinality(Changes(view, k)) + 1
    /\ Last(runs).label = RegimeLabel(view[k]) /\ Last(runs).end = view[k].week
    /\ SumFunctionOnSet(RunWeeks(runs), DOMAIN runs) = k
    /\ {runs[i].start : i \in DOMAIN runs \ {1}} = {view[i + 1].week : i \in Changes(view, k)}
    /\ \A i \in DOMAIN runs : runs[i].start <= runs[i].end
    /\ \A i \in DOMAIN runs \ {1} : runs[i - 1].end < runs[i].start

\* The steps of RegimeRuns: a week begins a run or makes the last one longer.
NewRun(x) ==
    [label |-> RegimeLabel(x), mode |-> x.mode, start |-> x.week, end |-> x.week, weeks |-> 1]
Longer(runs, x) == [runs EXCEPT ![Len(runs)].end = x.week, ![Len(runs)].weeks = @ + 1]
Extended(runs, x) ==
    IF runs # <<>> /\ Last(runs).label = RegimeLabel(x)
    THEN Longer(runs, x)
    ELSE Append(runs, NewRun(x))

LEMMA ChangesFinite ==
    ASSUME NEW view, NEW k \in Nat \ {0}
    PROVE  IsFiniteSet(Changes(view, k)) /\ Cardinality(Changes(view, k)) \in Nat
<1>1. IsFiniteSet(1 .. k - 1) /\ Changes(view, k) \in SUBSET (1 .. k - 1)
  BY FS_Interval DEF Changes
<1>2. QED BY <1>1, FS_Subset, FS_CardinalityType

\* A change more, or none.
LEMMA ChangesMore ==
    ASSUME NEW view, NEW k \in Nat \ {0}
    PROVE  /\ RegimeLabel(view[k]) = RegimeLabel(view[k + 1])
                => Changes(view, k + 1) = Changes(view, k)
           /\ RegimeLabel(view[k]) # RegimeLabel(view[k + 1]) =>
                /\ Changes(view, k + 1) = Changes(view, k) \cup {k}
                /\ Cardinality(Changes(view, k + 1)) = Cardinality(Changes(view, k)) + 1
<1>1. 1 .. (k + 1) - 1 = (1 .. k - 1) \cup {k} /\ k \notin 1 .. k - 1
  OBVIOUS
<1>2. k \notin Changes(view, k)
  BY <1>1 DEF Changes
<1>3. RegimeLabel(view[k]) = RegimeLabel(view[k + 1]) => Changes(view, k + 1) = Changes(view, k)
  BY <1>1, Zenon DEF Changes
<1>4. RegimeLabel(view[k]) # RegimeLabel(view[k + 1])
        => Changes(view, k + 1) = Changes(view, k) \cup {k}
  BY <1>1, Zenon DEF Changes
<1>5. Cardinality(Changes(view, k) \cup {k}) = Cardinality(Changes(view, k)) + 1
  BY <1>2, ChangesFinite, FS_AddElement
<1>6. QED BY <1>3, <1>4, <1>5

\* The last run is a week longer, until week; the others stay.
Prolongs(new, runs, R, week) ==
    LET n == Len(runs) IN
    /\ new \in Seq(R) /\ n \in Nat \ {0} /\ Len(new) = n
    /\ DOMAIN runs = 1 .. n /\ DOMAIN new = 1 .. n
    /\ \A i \in 1 .. n - 1 : new[i] = runs[i]
    /\ new[n].label = runs[n].label /\ new[n].start = runs[n].start
    /\ new[n].end = week /\ new[n].weeks = runs[n].weeks + 1

\* Longer does that.
LEMMA LongerFacts ==
    ASSUME NEW view, Ordered(view), NEW runs \in Seq(RunsOf(view)), runs # <<>>, NEW j \in DOMAIN view
    PROVE  Prolongs(Longer(runs, view[j]), runs, RunsOf(view), view[j].week)
<1> DEFINE x == view[j] 
           n == Len(runs)
           new == Longer(runs, x)
           R == RunsOf(view)
<1>1. n \in Nat \ {0} /\ DOMAIN runs = 1 .. n /\ \A i \in 1 .. n : runs[i] \in R
  OBVIOUS
<1>2. x.week \in Nat
  BY DEF Ordered
<1>3. /\ runs[n].weeks \in Nat
      /\ DOMAIN runs[n] = {"label", "mode", "start", "end", "weeks"}
  BY <1>1 DEF RunsOf
<1> HIDE DEF x, n
<1>4. new = [runs EXCEPT ![n] = [runs[n] EXCEPT !.end = x.week, !.weeks = runs[n].weeks + 1]]
  BY <1>1, <1>3 DEF Longer, n
<1> DEFINE r == [runs[n] EXCEPT !.end = x.week, !.weeks = runs[n].weeks + 1]
<1>5. /\ r \in R /\ r.label = runs[n].label /\ r.start = runs[n].start
      /\ r.end = x.week /\ r.weeks = runs[n].weeks + 1
  <2>1. runs[n] \in R /\ runs[n].weeks + 1 \in Nat
    BY <1>1, <1>3
  <2>2. /\ runs[n].label \in {RegimeLabel(view[i]) : i \in DOMAIN view}
        /\ runs[n].mode \in {view[i].mode : i \in DOMAIN view} /\ runs[n].start \in Nat
        /\ runs[n] = [label |-> runs[n].label, mode |-> runs[n].mode, start |-> runs[n].start,
                      end |-> runs[n].end, weeks |-> runs[n].weeks]
    BY <2>1 DEF RunsOf
  <2>3. r = [label |-> runs[n].label, mode |-> runs[n].mode, start |-> runs[n].start,
             end |-> x.week, weeks |-> runs[n].weeks + 1]
    <3>1. DOMAIN r = {"label", "mode", "start", "end", "weeks"} /\ r = [f \in DOMAIN r |-> r[f]]
      BY <1>3
    <3>2. r.label = runs[n].label /\ r.mode = runs[n].mode /\ r.start = runs[n].start
          /\ r.end = x.week /\ r.weeks = runs[n].weeks + 1
      BY <1>3
    <3> HIDE DEF r
    <3>3. QED BY <3>1, <3>2
  <2> HIDE DEF r
  <2>4. r \in R
    BY <1>2, <2>1, <2>2, <2>3 DEF RunsOf
  <2>5. QED BY <2>3, <2>4
<1> HIDE DEF new, r, R
<1>6. new = [runs EXCEPT ![n] = r]
  BY <1>4 DEF r
<1>7. /\ new \in Seq(R) /\ Len(new) = n /\ DOMAIN new = 1 .. n
      /\ new[n] = r /\ \A i \in 1 .. n - 1 : new[i] = runs[i]
  <2>1. runs \in Seq(R)
    BY DEF R
  <2>2. n = Len(runs)
    BY DEF n
  <2>3. runs \in [1 .. n -> R]
    BY <1>1, <2>1
  <2>4. new \in [1 .. n -> R]
    BY <1>5, <1>6, <2>3
  <2>5. new \in Seq(R) /\ Len(new) = n
    BY <1>1, <2>4
  <2>6. QED BY <1>1, <1>6, <2>3, <2>4, <2>5
<1>8. Prolongs(new, runs, R, x.week)
  BY <1>1, <1>5, <1>7 DEF n, Prolongs
<1>9. QED BY <1>8 DEF x, new, R

\* A week with the label of the week before keeps RunsCover.
LEMMA CoverLonger ==
    ASSUME NEW view, Ordered(view), NEW k \in DOMAIN view, k + 1 \in DOMAIN view,
           NEW runs, RunsCover(runs, view, k), RegimeLabel(view[k]) = RegimeLabel(view[k + 1])
    PROVE  RunsCover(Longer(runs, view[k + 1]), view, k + 1)
<1> DEFINE x == view[k + 1]
           n == Len(runs)
           new == Longer(runs, x)
           f == RunWeeks(runs)
           g == RunWeeks(new)
<1>0. k \in Nat \ {0} /\ runs \in Seq(RunsOf(view)) /\ view[k].week \in Nat /\ x.week \in Nat
      /\ view[k].week < x.week
  BY DEF Ordered, RunsCover
<1>1. n \in Nat \ {0} /\ n = Cardinality(Changes(view, k)) + 1 /\ runs # <<>>
  <2>1. n = Cardinality(Changes(view, k)) + 1
    BY DEF RunsCover
  <2>2. QED BY <1>0, <2>1, ChangesFinite
<1>2. /\ new \in Seq(RunsOf(view)) /\ Len(new) = n
      /\ DOMAIN runs = 1 .. n /\ DOMAIN new = 1 .. n
      /\ \A i \in 1 .. n - 1 : new[i] = runs[i]
      /\ new[n].label = runs[n].label /\ new[n].start = runs[n].start
      /\ new[n].end = x.week /\ new[n].weeks = runs[n].weeks + 1
  <2>1. Prolongs(Longer(runs, view[k + 1]), runs, RunsOf(view), view[k + 1].week)
    BY <1>0, <1>1, LongerFacts
  <2>2. QED BY <2>1, Zenon DEF Prolongs
<1>3. /\ \A i \in 1 .. n : runs[i].weeks \in Nat /\ runs[i].start \in Nat /\ runs[i].end \in Nat
      /\ \A i \in 1 .. n : new[i].weeks \in Nat /\ new[i].start \in Nat /\ new[i].end \in Nat
  <2> DEFINE R == RunsOf(view)
  <2>1. \A r \in R : r.weeks \in Nat /\ r.start \in Nat /\ r.end \in Nat
    BY DEF RunsOf
  <2>2. runs \in Seq(R) /\ new \in Seq(R)
    BY <1>0, <1>2
  <2> HIDE DEF R, new, n
  <2>3. \A i \in 1 .. n : runs[i] \in R /\ new[i] \in R
    BY <1>2, <2>2
  <2>4. QED BY <2>1, <2>3
<1> HIDE DEF new, n, x
<1>4. /\ Last(runs).label = RegimeLabel(view[k]) /\ Last(runs).end = view[k].week
      /\ SumFunctionOnSet(f, 1 .. n) = k
      /\ {runs[i].start : i \in 1 .. n \ {1}} = {view[i + 1].week : i \in Changes(view, k)}
      /\ \A i \in 1 .. n : runs[i].start <= runs[i].end
      /\ \A i \in 1 .. n \ {1} : runs[i - 1].end < runs[i].start
  BY <1>2, Zenon DEF RunsCover
<1>5. Changes(view, k + 1) = Changes(view, k)
  BY <1>0, ChangesMore
<1>6. Last(new).label = RegimeLabel(x) /\ Last(new).end = x.week
  BY <1>2, <1>4 DEF Last, n, x
<1>7. SumFunctionOnSet(g, 1 .. n) = k + 1
  <2>1. \A i \in 1 .. n : f[i] \in Int /\ g[i] \in Int
    BY <1>2, <1>3 DEF RunWeeks
  <2>2. /\ g[n] = f[n] + 1 
        /\ \A i \in 1 .. n - 1 : g[i] = f[i]
    BY <1>1, <1>2 DEF RunWeeks
  <2> HIDE DEF f, g
  <2>3. SumFunctionOnSet(g, 1 .. n) = SumFunctionOnSet(g, 1 .. n - 1) + g[n]
        /\ SumFunctionOnSet(f, 1 .. n) = SumFunctionOnSet(f, 1 .. n - 1) + f[n]
        /\ SumFunctionOnSet(f, 1 .. n - 1) \in Int
    BY <1>1, <2>1, SumLast
  <2>4. SumFunctionOnSet(g, 1 .. n - 1) = SumFunctionOnSet(f, 1 .. n - 1)
    <3>1. IsFiniteSet(1 .. n - 1) /\ \A i \in 1 .. n - 1 : f[i] \in Int
      <4>1. n - 1 \in Int /\ 1 \in Int /\ \A i \in 1 .. n - 1 : i \in 1 .. n
        BY <1>1
      <4>2. IsFiniteSet(1 .. n - 1)
        BY <4>1, FS_Interval
      <4>3. QED BY <2>1, <4>1, <4>2
    <3>2. IsSummable(f, 1 .. n - 1)
      BY <3>1 DEF IsSummable
    <3>3. QED BY <2>2, <3>2, SumsAgree
  <2>5. f[n] \in Int
    BY <1>1, <2>1
  <2>6. QED BY <1>0, <1>4, <2>2, <2>3, <2>4, <2>5
<1>8. {new[i].start : i \in 1 .. n \ {1}} = {runs[i].start : i \in 1 .. n \ {1}}
  <2>1. \A i \in 1 .. n : new[i].start = runs[i].start
    BY <1>2, <1>1
  <2>2. QED BY <2>1
<1>9. /\ \A i \in 1 .. n : new[i].start <= new[i].end
      /\ \A i \in 1 .. n \ {1} : new[i - 1].end < new[i].start
  <2>1. \A i \in 1 .. n : i = n \/ i \in 1 .. n - 1
    BY <1>1
  <2>2. new[n].start <= new[n].end
    <3>1. runs[n].start <= view[k].week
      BY <1>1, <1>4 DEF Last, n
    <3>2. QED BY <1>0, <1>1, <1>2, <1>3, <3>1
  <2>3. ASSUME NEW i \in 1 .. n \ {1} PROVE new[i - 1].end < new[i].start
    <3>1. i - 1 \in 1 .. n - 1
      BY <1>1
    <3>2. new[i - 1].end = runs[i - 1].end /\ new[i].start = runs[i].start
      BY <1>2, <2>1, <3>1
    <3>3. QED BY <1>4, <3>2
  <2>4. QED BY <1>2, <1>4, <2>1, <2>2, <2>3
<1>10. Len(new) = Cardinality(Changes(view, k + 1)) + 1
  BY <1>1, <1>2, <1>5
<1>11. QED BY <1>2, <1>4, <1>5, <1>6, <1>7, <1>8, <1>9, <1>10, Zenon DEF RunsCover, new, x

\* An element after the others.
Appends(new, q, R, x) ==
    /\ new \in Seq(R) /\ Len(new) = Len(q) + 1 /\ Len(q) \in Nat
    /\ DOMAIN new = 1 .. Len(q) + 1 /\ DOMAIN q = 1 .. Len(q)
    /\ new[Len(q) + 1] = x /\ Last(new) = x
    /\ \A i \in 1 .. Len(q) : new[i] = q[i]

LEMMA AppendRun ==
    ASSUME NEW R, NEW q \in Seq(R), NEW x \in R
    PROVE  Appends(Append(q, x), q, R, x)
  BY DEF Last, Appends

\* The run of one week.
LEMMA NewRunFacts ==
    ASSUME NEW view, Ordered(view), NEW j \in DOMAIN view
    PROVE  LET x == view[j] IN
           /\ NewRun(x) \in RunsOf(view) /\ NewRun(x).label = RegimeLabel(x)
           /\ NewRun(x).start = x.week /\ NewRun(x).end = x.week /\ NewRun(x).weeks = 1
<1>1. view[j].week \in Nat
  BY DEF Ordered
<1>2. /\ RegimeLabel(view[j]) \in {RegimeLabel(view[i]) : i \in DOMAIN view}
      /\ view[j].mode \in {view[i].mode : i \in DOMAIN view}
  OBVIOUS
<1>3. QED BY <1>1, <1>2 DEF NewRun, RunsOf

\* The run of the first week of a view.
LEMMA CoverStart ==
    ASSUME NEW view, Ordered(view)
    PROVE  RunsCover(Append(<<>>, NewRun(view[1])), view, 1)
<1> DEFINE R == RunsOf(view)
           r == NewRun(view[1])
           new == Append(<<>>, r)
<1>1. 1 \in DOMAIN view
  BY DEF Ordered
<1>2. /\ r \in R /\ r.label = RegimeLabel(view[1])
      /\ r.start = view[1].week /\ r.end = view[1].week /\ r.weeks = 1
      /\ view[1].week \in Nat
  BY <1>1, NewRunFacts DEF Ordered
<1> HIDE DEF r, R
<1>3. new \in Seq(R) /\ Len(new) = 1 /\ DOMAIN new = {1} /\ new[1] = r /\ Last(new) = r
  <2>1. <<>> \in Seq(R) /\ Len(<<>>) = 0
    OBVIOUS
  <2>2. Appends(new, <<>>, R, r)
    BY <1>2, <2>1, AppendRun
  <2> HIDE DEF new
  <2>3. Len(<<>>) + 1 = 1 /\ 1 .. 1 = {1}
    OBVIOUS
  <2>4. QED BY <2>2, <2>3 DEF Appends
<1> HIDE DEF new
<1>4. Changes(view, 1) = {} /\ Cardinality({}) = 0
  BY FS_EmptySet DEF Changes
<1>5. SumFunctionOnSet(RunWeeks(new), {1}) = 1
  <2> DEFINE f == RunWeeks(new)
  <2>1. f[1] = 1
    BY <1>2, <1>3 DEF RunWeeks
  <2> HIDE DEF f
  <2>2. IsSummable(f, {1}) /\ IsSummable(f, {})
    <3>1. IsFiniteSet({1}) /\ IsFiniteSet({})
      BY FS_Singleton, FS_EmptySet, Zenon
    <3>2. QED BY <2>1, <3>1 DEF IsSummable
  <2>3. SumFunctionOnSet(f, {}) = 0
    BY <2>2, SumFacts
  <2>4. {} \in SUBSET {1} /\ 1 \in {1} /\ 1 \notin {} /\ {} \cup {1} = {1}
    OBVIOUS
  <2>5. SumFunctionOnSet(f, {} \cup {1}) = SumFunctionOnSet(f, {}) + f[1]
    BY <2>2, <2>4, SumFacts
  <2>6. QED BY <2>1, <2>3, <2>4, <2>5 DEF f
<1>6. {new[i].start : i \in DOMAIN new \ {1}} = {view[i + 1].week : i \in Changes(view, 1)}
  <2>1. DOMAIN new \ {1} = {}
    BY <1>3
  <2>2. {new[i].start : i \in {}} = {} /\ {view[i + 1].week : i \in {}} = {}
    OBVIOUS
  <2>3. QED BY <1>4, <2>1, <2>2, Zenon
<1>7. /\ \A i \in DOMAIN new : new[i].start <= new[i].end
      /\ \A i \in DOMAIN new \ {1} : new[i - 1].end < new[i].start
  BY <1>2, <1>3
<1>8. Len(new) = Cardinality(Changes(view, 1)) + 1
  <2>1. Cardinality(Changes(view, 1)) = 0
    BY <1>4, Zenon
  <2>2. QED BY <1>3, <2>1
<1>9. RunsCover(new, view, 1)
  BY <1>2, <1>3, <1>5, <1>6, <1>7, <1>8, Zenon DEF RunsCover, R
<1>10. QED BY <1>9 DEF new, r

\* A week with another label than the week before keeps RunsCover.
LEMMA CoverAppend ==
    ASSUME NEW view, Ordered(view), NEW k \in DOMAIN view, k + 1 \in DOMAIN view,
           NEW runs, RunsCover(runs, view, k), RegimeLabel(view[k]) # RegimeLabel(view[k + 1])
    PROVE  RunsCover(Append(runs, NewRun(view[k + 1])), view, k + 1)
<1> DEFINE x == view[k + 1]
           n == Len(runs)
           r == NewRun(x)
           new == Append(runs, r)
           f == RunWeeks(runs)
           g == RunWeeks(new)
<1>0. k \in Nat \ {0} /\ runs \in Seq(RunsOf(view)) /\ view[k].week \in Nat /\ x.week \in Nat
      /\ view[k].week < x.week
  BY DEF Ordered, RunsCover
<1>1. n \in Nat \ {0} /\ n = Cardinality(Changes(view, k)) + 1
  <2>1. n = Cardinality(Changes(view, k)) + 1
    BY DEF RunsCover
  <2>2. QED BY <1>0, <2>1, ChangesFinite
<1>2. /\ r \in RunsOf(view) /\ r.label = RegimeLabel(x)
      /\ r.start = x.week /\ r.end = x.week /\ r.weeks = 1
  BY NewRunFacts
<1> HIDE DEF r
<1>3. /\ new \in Seq(RunsOf(view)) /\ Len(new) = n + 1
      /\ DOMAIN runs = 1 .. n /\ DOMAIN new = 1 .. n + 1
      /\ new[n + 1] = r /\ Last(new) = r
      /\ \A i \in 1 .. n : new[i] = runs[i]
  <2> DEFINE R == RunsOf(view)
  <2>1. runs \in Seq(R) /\ r \in R
    BY <1>0, <1>2
  <2> HIDE DEF R
  <2>2. Appends(new, runs, R, r)
    BY <2>1, AppendRun
  <2> HIDE DEF new
  <2>3. QED BY <2>2, Zenon DEF Appends, R
<1>4. /\ \A i \in 1 .. n : runs[i].weeks \in Nat /\ runs[i].start \in Nat /\ runs[i].end \in Nat
  <2> DEFINE R == RunsOf(view)
  <2>1. \A y \in R : y.weeks \in Nat /\ y.start \in Nat /\ y.end \in Nat
    BY DEF RunsOf
  <2>2. runs \in Seq(R)
    BY <1>0
  <2>3. \A i \in 1 .. n : runs[i] \in R
    <3> HIDE DEF R
    <3>1. QED BY <2>2
  <2>4. QED BY <2>1, <2>3
<1> HIDE DEF new, n, x
<1>5. /\ Last(runs).label = RegimeLabel(view[k]) /\ Last(runs).end = view[k].week
      /\ SumFunctionOnSet(f, 1 .. n) = k
      /\ {runs[i].start : i \in 1 .. n \ {1}} = {view[i + 1].week : i \in Changes(view, k)}
      /\ \A i \in 1 .. n : runs[i].start <= runs[i].end
      /\ \A i \in 1 .. n \ {1} : runs[i - 1].end < runs[i].start
  BY <1>3, Zenon DEF RunsCover
<1>6. Changes(view, k + 1) = Changes(view, k) \cup {k}
      /\ Cardinality(Changes(view, k + 1)) = Cardinality(Changes(view, k)) + 1
  BY <1>0, ChangesMore
<1>7. SumFunctionOnSet(g, 1 .. n + 1) = k + 1
  <2>1. g[n + 1] = 1 /\ \A i \in 1 .. n : g[i] = f[i] /\ f[i] \in Int
    BY <1>1, <1>2, <1>3, <1>4 DEF RunWeeks
  <2> HIDE DEF f, g
  <2>2. n + 1 \in Nat \ {0} /\ (n + 1) - 1 = n /\ \A i \in 1 .. n + 1 : g[i] \in Int
    <3>1. \A i \in 1 .. n + 1 : i = n + 1 \/ i \in 1 .. n
      BY <1>1
    <3>2. QED BY <1>1, <2>1, <3>1
  <2>3. SumFunctionOnSet(g, 1 .. n + 1) = SumFunctionOnSet(g, 1 .. (n + 1) - 1) + g[n + 1]
    BY <2>2, SumLast
  <2>4. SumFunctionOnSet(g, 1 .. n) = SumFunctionOnSet(f, 1 .. n)
    <3>1. IsFiniteSet(1 .. n)
      BY <1>1, FS_Interval
    <3>2. IsSummable(f, 1 .. n)
      BY <2>1, <3>1 DEF IsSummable
    <3>3. QED BY <2>1, <3>2, SumsAgree
  <2>5. QED BY <1>5, <2>1, <2>2, <2>3, <2>4
<1>8. {new[i].start : i \in 1 .. n + 1 \ {1}} = {view[i + 1].week : i \in Changes(view, k + 1)}
  <2>1. 1 .. n + 1 \ {1} = (1 .. n \ {1}) \cup {n + 1}
    BY <1>1
  <2>2. \A i \in 1 .. n \ {1} : new[i].start = runs[i].start
    BY <1>3
  <2>3. {new[i].start : i \in 1 .. n + 1 \ {1}} = {runs[i].start : i \in 1 .. n \ {1}} \cup {x.week}
    BY <1>2, <1>3, <2>1, <2>2
  <2>4. {view[i + 1].week : i \in Changes(view, k + 1)}
            = {view[i + 1].week : i \in Changes(view, k)} \cup {x.week}
    BY <1>6 DEF x
  <2>5. QED BY <1>5, <2>3, <2>4
<1>9. /\ \A i \in 1 .. n + 1 : new[i].start <= new[i].end
      /\ \A i \in 1 .. n + 1 \ {1} : new[i - 1].end < new[i].start
  <2>1. \A i \in 1 .. n + 1 : i = n + 1 \/ i \in 1 .. n
    BY <1>1
  <2>2. \A i \in 1 .. n + 1 : new[i].start <= new[i].end
    BY <1>0, <1>2, <1>3, <1>5, <2>1
  <2>3. ASSUME NEW i \in 1 .. n + 1 \ {1} PROVE new[i - 1].end < new[i].start
    <3>1. i - 1 \in 1 .. n
      BY <1>1
    <3>2. new[i - 1].end = runs[i - 1].end
      BY <1>3, <3>1
    <3>3. CASE i = n + 1
      <4>1. new[i - 1].end = view[k].week
        BY <1>1, <1>5, <3>2, <3>3 DEF Last, n
      <4>2. QED BY <1>0, <1>2, <1>3, <3>3, <4>1
    <3>4. CASE i # n + 1
      <4>1. i \in 1 .. n \ {1}
        BY <2>1, <3>4
      <4>2. new[i].start = runs[i].start
        BY <1>3, <4>1
      <4>3. QED BY <1>5, <3>2, <4>1, <4>2
    <3>5. QED BY <3>3, <3>4
  <2>4. QED BY <2>2, <2>3
<1>10. Len(new) = Cardinality(Changes(view, k + 1)) + 1
  BY <1>1, <1>3, <1>6
<1>11. Last(new).label = RegimeLabel(x) /\ Last(new).end = x.week
  BY <1>2, <1>3
<1>12. RunsCover(new, view, k + 1)
  BY <1>3, <1>7, <1>8, <1>9, <1>10, <1>11, Zenon DEF RunsCover, x
<1>13. QED BY <1>12 DEF new, r, x

\* RegimeRuns as it unfolds: g gives the runs of each part of the view.
Folded(g, view) ==
    [s \in SUBSET DOMAIN view |->
        IF s = {} THEN <<>> ELSE Extended(g[s \ {Max(s)}], view[Max(s)])]

\* RegimeRuns is that at the whole view.
LEMMA RunsUnfold ==
    ASSUME NEW view
    PROVE  RegimeRuns(view) = (CHOOSE g : g = Folded(g, view))[DOMAIN view]
  BY Zenon DEF RegimeRuns, FoldLeft, MapThenFoldSet, Folded, Extended, Longer, NewRun

\* The runs of a view (_build_regime_runs) cover its weeks, by induction over them.
LEMMA RunsOfView ==
    ASSUME NEW view, Ordered(view)
    PROVE  RunsCover(RegimeRuns(view), view, Len(view))
<1> DEFINE D == DOMAIN view
           V == Seq(RunsOf(view))
           ch == [s \in SUBSET D |-> Max(s)]
           st == [s \in SUBSET D |-> [v \in V |-> IF s = {} THEN v ELSE Extended(v, view[Max(s)])]]
           n == Len(view)
<1>1. n \in Nat \ {0} /\ D = 1 .. n
  BY DEF Ordered
<1> HIDE DEF n
<1>2. IsFiniteSet(D)
  BY <1>1, FS_Interval
<1>3. ASSUME NEW s \in SUBSET D, s # {} PROVE Max(s) \in s /\ \A y \in s : Max(s) >= y
  BY <1>1, <1>3, MaxFacts
<1>4. Chooses(ch, D)
  BY <1>3 DEF Chooses
<1>5. ASSUME NEW v \in V, NEW j \in D PROVE Extended(v, view[j]) \in V
  <2>1. CASE v # <<>> /\ Last(v).label = RegimeLabel(view[j])
    <3>1. Prolongs(Longer(v, view[j]), v, RunsOf(view), view[j].week)
      BY <2>1, LongerFacts
    <3>2. Longer(v, view[j]) \in V
      BY <3>1 DEF Prolongs
    <3>3. QED BY <2>1, <3>2 DEF Extended
  <2>2. CASE ~(v # <<>> /\ Last(v).label = RegimeLabel(view[j]))
    <3>1. NewRun(view[j]) \in RunsOf(view)
      BY NewRunFacts
    <3>2. Append(v, NewRun(view[j])) \in V
      BY <3>1, AppendRun DEF Appends
    <3>3. QED BY <2>2, <3>2 DEF Extended
  <2>3. QED BY <2>1, <2>2
<1> HIDE DEF V
<1>6. Keeps(st, D, V)
  BY <1>1, <1>3, <1>5 DEF Keeps
<1>7. PICK h \in [SUBSET D -> V] : Recurs(h, D, ch, <<>>, st)
  <2>1. <<>> \in V
    BY DEF V
  <2> HIDE DEF D, ch, st
  <2>2. QED BY <1>2, <1>4, <1>6, <2>1, SubsetRecursion
<1>8. h = Folded(h, view)
  <2>1. ASSUME NEW s \in SUBSET D, s # {}
        PROVE  h[s] = Extended(h[s \ {Max(s)}], view[Max(s)])
    <3>1. s \ {Max(s)} \in SUBSET D
      OBVIOUS
    <3>2. h[s] = st[s][h[s \ {ch[s]}]]
      BY <1>7, <2>1 DEF Recurs
    <3>3. h[s \ {Max(s)}] \in V
      BY <1>7, <3>1
    <3>4. QED BY <2>1, <3>2, <3>3
  <2>2. {} \in SUBSET D
    OBVIOUS
  <2>3. h[{}] = <<>>
    BY <1>7, <2>2 DEF Recurs
  <2>4. QED BY <1>7, <2>1, <2>3 DEF Folded
<1> DEFINE g == CHOOSE f : f = Folded(f, view)
<1>9. g = Folded(g, view)
  BY <1>8
<1> HIDE DEF g
<1>10. \A s \in SUBSET D :
        g[s] = IF s = {} THEN <<>> ELSE Extended(g[s \ {Max(s)}], view[Max(s)])
  BY <1>9 DEF Folded
<1>11. ASSUME NEW k \in 1 .. n
       PROVE  g[1 .. k] = Extended(g[1 .. k - 1], view[k])
  <2>1. 1 .. k \in SUBSET D /\ 1 .. k # {} /\ k \in 1 .. k /\ \A y \in 1 .. k : y <= k
    <3>1. k \in Nat \ {0} /\ k <= n
      BY <1>1
    <3>2. k \in 1 .. k /\ \A y \in 1 .. k : y <= k /\ y \in 1 .. n
      BY <1>1, <3>1
    <3> HIDE DEF D
    <3>3. QED BY <1>1, <3>2
  <2>2. Max(1 .. k) = k
    <3>1. Max(1 .. k) \in 1 .. k /\ Max(1 .. k) >= k
      BY <1>3, <2>1
    <3>2. QED BY <2>1, <3>1
  <2>3. (1 .. k) \ {k} = 1 .. k - 1
    OBVIOUS
  <2>4. g[1 .. k] = Extended(g[(1 .. k) \ {Max(1 .. k)}], view[Max(1 .. k)])
    BY <1>10, <2>1, Zenon
  <2>5. QED BY <2>2, <2>3, <2>4
<1> DEFINE Q == {k \in Nat : k + 1 \in 1 .. n => RunsCover(g[1 .. k + 1], view, k + 1)}
<1>12. 0 \in Q
  <2>1. {} \in SUBSET D
    OBVIOUS
  <2>2. g[{}] = <<>>
    BY <1>10, <2>1, Zenon
  <2>3. 1 \in 1 .. n /\ 1 .. 1 - 1 = {}
    <3>1. 1 .. 0 = {} /\ 1 - 1 = 0
      OBVIOUS
    <3>2. 1 \in 1 .. n
      BY <1>1
    <3>3. QED BY <3>1, <3>2
  <2>4. g[1 .. 1] = Append(<<>>, NewRun(view[1]))
    BY <1>11, <2>2, <2>3 DEF Extended
  <2>5. RunsCover(g[1 .. 1], view, 1)
    BY <2>4, CoverStart
  <2>6. 0 + 1 = 1
    OBVIOUS
  <2>7. QED BY <2>5, <2>6
<1>13. ASSUME NEW k \in Q \cap Nat PROVE k + 1 \in Q
  <2> DEFINE j == k + 1
  <2>1. SUFFICES ASSUME j + 1 \in 1 .. n PROVE RunsCover(g[1 .. j + 1], view, j + 1)
    OBVIOUS
  <2>2. j \in D /\ j + 1 \in D /\ j \in Nat \ {0} /\ (j + 1) - 1 = j
    BY <1>1, <2>1
  <2>3. RunsCover(g[1 .. j], view, j)
    BY <1>1, <1>13, <2>2
  <2>4. g[1 .. j + 1] = Extended(g[1 .. (j + 1) - 1], view[j + 1])
    BY <1>11, <2>1
  <2> HIDE DEF j
  <2>5. g[1 .. j + 1] = Extended(g[1 .. j], view[j + 1])
    BY <2>2, <2>4
  <2>6. g[1 .. j] # <<>> /\ Last(g[1 .. j]).label = RegimeLabel(view[j])
    <3>1. /\ Len(g[1 .. j]) = Cardinality(Changes(view, j)) + 1
          /\ Last(g[1 .. j]).label = RegimeLabel(view[j])
      BY <2>3 DEF RunsCover
    <3>2. Cardinality(Changes(view, j)) \in Nat
      BY <2>2, ChangesFinite
    <3>3. Len(<<>>) = 0
      OBVIOUS
    <3>4. QED BY <3>1, <3>2, <3>3
  <2>7. CASE RegimeLabel(view[j]) = RegimeLabel(view[j + 1])
    <3>1. g[1 .. j + 1] = Longer(g[1 .. j], view[j + 1])
      BY <2>5, <2>6, <2>7, Zenon DEF Extended
    <3>2. RunsCover(Longer(g[1 .. j], view[j + 1]), view, j + 1)
      BY <2>2, <2>3, <2>7, CoverLonger
    <3>3. QED BY <3>1, <3>2
  <2>8. CASE RegimeLabel(view[j]) # RegimeLabel(view[j + 1])
    <3>1. g[1 .. j + 1] = Append(g[1 .. j], NewRun(view[j + 1]))
      BY <2>5, <2>6, <2>8, Zenon DEF Extended
    <3>2. RunsCover(Append(g[1 .. j], NewRun(view[j + 1])), view, j + 1)
      BY <2>2, <2>3, <2>8, CoverAppend
    <3>3. QED BY <3>1, <3>2
  <2>9. QED BY <2>7, <2>8
<1>14. Nat \subseteq Q
  <2> HIDE DEF Q
  <2>1. QED BY <1>12, <1>13, NatSetInduction
<1>15. RunsCover(g[1 .. n], view, n)
  <2>1. n - 1 \in Nat /\ (n - 1) + 1 = n /\ n \in 1 .. n
    BY <1>1
  <2>2. n - 1 \in Q
    BY <1>14, <2>1
  <2>3. QED BY <2>1, <2>2
<1>16. RegimeRuns(view) = g[D]
  BY RunsUnfold DEF g
<1>17. QED BY <1>1, <1>15, <1>16 DEF n

LEMMA LabelsFinite ==
    ASSUME NEW view, Ordered(view)
    PROVE  IsFiniteSet({RegimeLabel(view[i]) : i \in DOMAIN view})
<1> DEFINE L == {RegimeLabel(view[i]) : i \in DOMAIN view}
           f == [i \in DOMAIN view |-> RegimeLabel(view[i])]
<1>1. IsFiniteSet(DOMAIN view)
  <2>1. DOMAIN view = 1 .. Len(view) /\ 1 \in Int /\ Len(view) \in Int
    BY DEF Ordered
  <2>2. IsFiniteSet(1 .. Len(view))
    BY <2>1, FS_Interval
  <2>3. QED BY <2>1, <2>2, Zenon
<1>2. f \in Surjection(DOMAIN view, L)
  BY DEF Surjection
<1> HIDE DEF f, L
<1>3. QED BY <1>1, <1>2, FS_Surjection DEF L

\* One event per change of label, at the week it changes to
\* (build_event_response_summary).
LEMMA EventsCounted ==
    ASSUME NEW view, Ordered(view)
    PROVE  /\ Cardinality(EventResponses(view)) = Cardinality(Changes(view, Len(view)))
           /\ {e.week : e \in EventResponses(view)} = {view[i + 1].week : i \in Changes(view, Len(view))}
<1> DEFINE n == Len(view)
           C == Changes(view, n)
           event(i) == [week |-> view[i + 1].week, from |-> RegimeLabel(view[i]),
                        to |-> RegimeLabel(view[i + 1]),
                        delta |-> [f \in Signals |-> Delta(view[i][f], view[i + 1][f])]]
           E == EventResponses(view)
           h == [i \in C |-> event(i)]
<1>1. Steps(view) = 1 .. n - 1 /\ \A i \in Steps(view) : i \in DOMAIN view /\ i + 1 \in DOMAIN view
  BY DEF Ordered, Steps
<1>2. C = {j \in Steps(view) : RegimeLabel(view[j]) # RegimeLabel(view[j + 1])}
  BY <1>1 DEF Changes
<1>3. E = {event(i) : i \in C}
  BY <1>2 DEF EventResponses
<1>4. \A i \in C : event(i).week = view[i + 1].week
  OBVIOUS
<1>5. \A i, j \in C : event(i) = event(j) => i = j
  <2>1. ASSUME NEW i \in C, NEW j \in C, event(i) = event(j) PROVE i = j
    <3>1. view[i + 1].week = view[j + 1].week
      BY <1>4, <2>1
    <3>2. i \in Int /\ j \in Int /\ i + 1 \in DOMAIN view /\ j + 1 \in DOMAIN view
      BY <1>1, <1>2 DEF Ordered
    <3>3. view[i + 1].week \in Nat
      BY <3>2 DEF Ordered
    <3>4. ~(i + 1 < j + 1) /\ ~(j + 1 < i + 1)
      BY <3>1, <3>2, <3>3 DEF Ordered
    <3>5. QED BY <3>2, <3>4
  <2>2. QED BY <2>1
<1> HIDE DEF event, C, E
<1>6. h \in Bijection(C, E)
  BY <1>3, <1>5 DEF Bijection, Injection, Surjection, IsInjective
<1>7. ExistsBijection(C, E)
  <2> HIDE DEF h
  <2>1. QED BY <1>6 DEF ExistsBijection
<1>8. IsFiniteSet(C)
  BY ChangesFinite DEF C, Ordered
<1>9. Cardinality(E) = Cardinality(C)
  BY <1>7, <1>8, FS_Bijection
<1>10. {e.week : e \in E} = {view[i + 1].week : i \in C}
  BY <1>3, <1>4
<1>11. QED BY <1>9, <1>10 DEF E, C

\* What MonitorConsistent says of the three regime files.
Story(m, events, runs) ==
    LET off == {d \in DOMAIN m : d[1] # d[2]}
        weeks == [i \in DOMAIN runs |-> runs[i].weeks]
    IN /\ SumFunctionOnSet(m, off) = Cardinality(events)
       /\ SumFunctionOnSet(m, off) = Len(runs) - 1
       /\ SumFunctionOnSet(m, DOMAIN m) = SumFunctionOnSet(weeks, DOMAIN weeks) - 1
       /\ {e.week : e \in events} = {runs[i].start : i \in DOMAIN weeks \ {1}}
       /\ \A i \in DOMAIN weeks : runs[i].start <= runs[i].end
       /\ \A i \in DOMAIN weeks \ {1} : runs[i - 1].end < runs[i].start

\* The regime files made from one view tell one story.
LEMMA StoryOfView ==
    ASSUME NEW view, Ordered(view)
    PROVE  Story(TransitionMatrix(view), EventResponses(view), RegimeRuns(view))
<1> DEFINE n == Len(view)
           m == TransitionMatrix(view)
           L == {RegimeLabel(view[i]) : i \in DOMAIN view}
           T == Steps(view)
           key == [i \in T |-> <<RegimeLabel(view[i]), RegimeLabel(view[i + 1])>>]
           off == {d \in L \X L : d[1] # d[2]}
           runs == RegimeRuns(view)
           C == Changes(view, n)
           weeks == [i \in DOMAIN runs |-> runs[i].weeks]
<1>1. n \in Nat \ {0} /\ T = 1 .. n - 1 /\ \A i \in T : i \in DOMAIN view /\ i + 1 \in DOMAIN view
  BY DEF Ordered, Steps
<1>2. IsFiniteSet(T) /\ Cardinality(T) = n - 1
  <2>1. n - 1 \in Int /\ 1 \in Int
    BY <1>1
  <2>2. IsFiniteSet(1 .. n - 1) /\ Cardinality(1 .. n - 1) = IF 1 > n - 1 THEN 0 ELSE (n - 1) - 1 + 1
    BY <2>1, FS_Interval
  <2>3. QED BY <1>1, <2>2
<1>3. IsFiniteSet(L \X L) /\ IsFiniteSet(off)
  <2>1. IsFiniteSet(L \X L)
    <3>1. IsFiniteSet(L)
      BY LabelsFinite
    <3> HIDE DEF L
    <3>2. QED BY <3>1, FS_Product
  <2>2. QED BY <2>1, FS_Subset
<1>4. DOMAIN m = L \X L /\ \A d \in L \X L : m[d] = Cardinality(With(T, key, d))
  <2>1. m = [d \in L \X L |->
                Cardinality({i \in T : <<RegimeLabel(view[i]), RegimeLabel(view[i + 1])>> = d})]
    BY Zenon DEF TransitionMatrix
  <2>2. \A d : With(T, key, d) = {i \in T : <<RegimeLabel(view[i]), RegimeLabel(view[i + 1])>> = d}
    BY DEF With
  <2> HIDE DEF m, key, T, L
  <2>3. QED BY <2>1, <2>2
<1>5. \A i \in T : key[i] \in L \X L
  BY <1>1
<1>6. C = WithIn(T, key, off)
  <2>1. \A i \in T : key[i] \in off <=> RegimeLabel(view[i]) # RegimeLabel(view[i + 1])
    BY <1>5
  <2> HIDE DEF key, off
  <2>2. C = {i \in T : RegimeLabel(view[i]) # RegimeLabel(view[i + 1])}
    BY <1>1, Zenon DEF Changes
  <2>3. QED BY <2>1, <2>2 DEF WithIn
<1> HIDE DEF m, T, key, off, L
<1>7. SumFunctionOnSet(m, off) = Cardinality(C)
  <2>1. \A d \in off : m[d] = Cardinality(With(T, key, d))
    BY <1>4 DEF off
  <2>2. SumFunctionOnSet(m, off) = Cardinality(WithIn(T, key, off))
    BY <1>2, <1>3, <2>1, SumFibers
  <2>3. QED BY <1>6, <2>2
<1>8. SumFunctionOnSet(m, DOMAIN m) = n - 1
  <2>1. SumFunctionOnSet(m, L \X L) = Cardinality(WithIn(T, key, L \X L))
    <3> DEFINE I == L \X L
    <3>1. IsFiniteSet(I) /\ \A d \in I : m[d] = Cardinality(With(T, key, d))
      BY <1>3, <1>4
    <3> HIDE DEF I
    <3>2. SumFunctionOnSet(m, I) = Cardinality(WithIn(T, key, I))
      BY <1>2, <3>1, SumFibers
    <3>3. QED BY <3>2 DEF I
  <2>2. WithIn(T, key, L \X L) = T
    BY <1>5 DEF WithIn
  <2>3. QED BY <1>2, <1>4, <2>1, <2>2
<1>9. RunsCover(runs, view, n)
  BY RunsOfView
<1>10. DOMAIN weeks = DOMAIN runs /\ weeks = RunWeeks(runs)
  BY DEF RunWeeks
<1>11. Cardinality(C) \in Nat
  BY <1>1, ChangesFinite
<1>12. off = {d \in DOMAIN m : d[1] # d[2]}
  BY <1>4 DEF off
<1> HIDE DEF C, runs, n
<1>13. /\ Len(runs) = Cardinality(C) + 1
       /\ SumFunctionOnSet(RunWeeks(runs), DOMAIN runs) = n
       /\ {runs[i].start : i \in DOMAIN runs \ {1}} = {view[i + 1].week : i \in C}
       /\ \A i \in DOMAIN runs : runs[i].start <= runs[i].end
       /\ \A i \in DOMAIN runs \ {1} : runs[i - 1].end < runs[i].start
  BY <1>9, Zenon DEF RunsCover, C
<1>14. /\ Cardinality(EventResponses(view)) = Cardinality(C)
       /\ {e.week : e \in EventResponses(view)} = {view[i + 1].week : i \in C}
  BY EventsCounted DEF C, n
<1> HIDE DEF weeks
<1>15. SumFunctionOnSet(m, off) = Len(runs) - 1 /\ SumFunctionOnSet(weeks, DOMAIN weeks) = n
  BY <1>7, <1>10, <1>11, <1>13
<1>16. Story(m, EventResponses(view), runs)
  BY <1>7, <1>8, <1>10, <1>12, <1>13, <1>14, <1>15, Zenon DEF Story, weeks
<1>17. QED BY <1>16 DEF m, runs

\* How many of the weeks W are not after w.
Rank(W, w) == Cardinality({v \in W : v <= w})

\* Each number up to the number of weeks is the rank of one of them, and of later
\* weeks the ranks are larger.
LEMMA RankFacts ==
    ASSUME NEW W, IsFiniteSet(W), W \subseteq Nat
    PROVE  /\ \A w \in W : Rank(W, w) \in 1 .. Cardinality(W)
           /\ \A v, w \in W : v < w => Rank(W, v) < Rank(W, w)
           /\ \A i \in 1 .. Cardinality(W) : \E w \in W : Rank(W, w) = i
<1> DEFINE n == Cardinality(W)
           upto(w) == {v \in W : v <= w}
           r == [w \in W |-> Rank(W, w)]
<1>1. n \in Nat
  BY FS_CardinalityType
<1>2. ASSUME NEW w \in W
      PROVE  /\ IsFiniteSet(upto(w)) /\ Cardinality(upto(w)) \in 1 .. n
             /\ Rank(W, w) = Cardinality(upto(w))
  <2>1. upto(w) \in SUBSET W /\ w \in upto(w)
    OBVIOUS
  <2>2. Rank(W, w) = Cardinality(upto(w))
    BY DEF Rank
  <2> DEFINE U == upto(w)
  <2> HIDE DEF U
  <2>3. U \in SUBSET W /\ U # {}
    BY <2>1 DEF U
  <2>4. IsFiniteSet(U) /\ Cardinality(U) <= n
    BY <2>3, FS_Subset
  <2>5. Cardinality(U) \in Nat
    BY <2>4, FS_CardinalityType
  <2>6. Cardinality(U) # 0
    BY <2>3, <2>4, FS_EmptySet
  <2>7. Cardinality(U) \in 1 .. n
    BY <1>1, <2>4, <2>5, <2>6
  <2>8. QED BY <2>2, <2>4, <2>7 DEF U
<1>3. ASSUME NEW v \in W, NEW w \in W, v < w PROVE Rank(W, v) < Rank(W, w)
  <2> DEFINE A == upto(v)
             B == upto(w)
  <2>1. A \in SUBSET B /\ A # B
    <3>1. w \in B /\ w \notin A
      BY <1>3
    <3>2. \A x \in A : x \in B
      BY <1>3
    <3> HIDE DEF A, B
    <3>3. QED BY <3>1, <3>2
  <2>2. /\ IsFiniteSet(B) /\ Cardinality(A) \in Int /\ Cardinality(B) \in Int
        /\ Rank(W, v) = Cardinality(A) /\ Rank(W, w) = Cardinality(B)
    BY <1>2
  <2> HIDE DEF A, B
  <2>3. Cardinality(A) <= Cardinality(B) /\ Cardinality(A) # Cardinality(B)
    BY <2>1, <2>2, FS_Subset
  <2>4. QED BY <2>2, <2>3
<1> HIDE DEF n
<1>4. r \in Injection(W, 1 .. n)
  <2>1. r \in [W -> 1 .. n]
    BY <1>2
  <2>2. ASSUME NEW v \in W, NEW w \in W, r[v] = r[w] PROVE v = w
    <3>1. Rank(W, v) = Rank(W, w) /\ Rank(W, v) \in Int
      <4>1. Rank(W, v) \in 1 .. n
        BY <1>2
      <4>2. Rank(W, v) = Rank(W, w)
        BY <2>2
      <4>3. QED BY <4>1, <4>2
    <3>2. ~(v < w) /\ ~(w < v)
      BY <1>3, <3>1
    <3>3. v \in Int /\ w \in Int
      OBVIOUS
    <3>4. QED BY <3>2, <3>3
  <2> HIDE DEF r
  <2>3. QED BY <2>1, <2>2 DEF Injection, IsInjective
<1>5. r \in Surjection(W, 1 .. n)
  <2> HIDE DEF r
  <2>1. IsFiniteSet(1 .. n) /\ Cardinality(1 .. n) = IF 1 > n THEN 0 ELSE n - 1 + 1
    BY <1>1, FS_Interval
  <2>2. Cardinality(1 .. n) = n
    BY <1>1, <2>1
  <2>3. QED BY <1>4, <2>1, <2>2, FS_Injection DEF n
<1>6. \A i \in 1 .. n : \E w \in W : Rank(W, w) = i
  <2>1. \A i \in 1 .. n : \E w \in W : r[w] = i
    <3> HIDE DEF r
    <3>1. QED BY <1>5 DEF Surjection
  <2>2. QED BY <2>1
<1>7. \A w \in W : Rank(W, w) \in 1 .. n
  BY <1>2
<1>8. QED BY <1>3, <1>6, <1>7 DEF n

\* The latest view lists the weeks of a history upwards.
LEMMA ViewOrdered ==
    ASSUME NEW hist, IsFiniteSet(WeeksOf(hist)), WeeksOf(hist) \subseteq Nat, WeeksOf(hist) # {},
           \A w \in WeeksOf(hist) : LatestOf(hist, w).week = w
    PROVE  Ordered(LatestView(hist))
<1> DEFINE W == WeeksOf(hist)
           n == Cardinality(W)
           Nth(i) == CHOOSE w \in W : Rank(W, w) = i
           view == LatestView(hist)
<1>1. n \in Nat \ {0}
  BY FS_CardinalityType, FS_EmptySet
<1>2. view = [i \in 1 .. n |-> LatestPerWeek(hist)[Nth(i)]]
  BY Zenon DEF LatestView, Rank
<1> HIDE DEF W
<1>3. ASSUME NEW i \in 1 .. n PROVE Nth(i) \in W /\ Rank(W, Nth(i)) = i
  <2>1. \E w \in W : Rank(W, w) = i
    BY RankFacts DEF W
  <2>2. QED BY <2>1
<1>4. \A v, w \in W : v < w => Rank(W, v) < Rank(W, w)
  BY RankFacts DEF W
<1> HIDE DEF Nth, n
<1>5. DOMAIN view = 1 .. n /\ Len(view) = n
  <2> HIDE DEF view
  <2>1. DOMAIN view = 1 .. n
    BY <1>2
  <2>2. view \in Seq({view[i] : i \in 1 .. n})
    BY <1>1, <1>2
  <2>3. QED BY <1>1, <1>2
<1>6. ASSUME NEW i \in 1 .. n PROVE view[i].week = Nth(i) /\ Nth(i) \in Nat
  <2>1. view[i] = LatestPerWeek(hist)[Nth(i)]
    BY <1>2
  <2>2. LatestPerWeek(hist)[Nth(i)] = LatestOf(hist, Nth(i))
    BY <1>3 DEF LatestPerWeek, W
  <2>3. QED BY <1>3, <2>1, <2>2 DEF W
<1>7. ASSUME NEW i \in 1 .. n, NEW j \in 1 .. n, i < j PROVE Nth(i) < Nth(j)
  <2>1. Nth(i) \in Nat /\ Nth(j) \in Nat /\ Rank(W, Nth(i)) = i /\ Rank(W, Nth(j)) = j
    BY <1>3, <1>6
  <2>2. ~(Nth(j) < Nth(i))
    <3>1. SUFFICES ASSUME Nth(j) < Nth(i) PROVE FALSE
      OBVIOUS
    <3>2. Rank(W, Nth(j)) < Rank(W, Nth(i))
      BY <1>3, <1>4, <3>1
    <3>3. QED BY <1>1, <1>7, <2>1, <3>2
  <2>3. Nth(i) # Nth(j)
    <3>1. i # j
      BY <1>1, <1>7
    <3>2. QED BY <2>1, <3>1
  <2>4. QED BY <2>1, <2>2, <2>3
<1>8. QED BY <1>1, <1>5, <1>6, <1>7 DEF Ordered

\* What the monitor loads of the published snapshots is such a history.
LEMMA ViewOfHistory ==
    ASSUME FilesInv, ExtremesInv, Loadable
    PROVE  Ordered(LatestView(Loaded))
<1> DEFINE n == Len(published)
           W == WeeksOf(Loaded)
           h == [i \in 1 .. n |-> published[i].week]
<1>1. n \in Nat /\ n \in 0 .. Len(published)
  BY DEF FilesInv, PublishTypes
<1>2. W = {published[i].week : i \in 1 .. n}
  <2>1. Loaded = {published[i] : i \in 1 .. n}
    BY LoadedIsPublished
  <2>2. QED BY <2>1 DEF WeeksOf
<1>3. Loaded # {}
  BY DEF Loadable, Loaded
<1>4. W # {}
  BY <1>3 DEF WeeksOf
<1>5. \A w \in W : w \in Nat /\ Of(w, n) # {}
  BY <1>1, <1>2, WeeksPublished DEF FilesInv
<1>6. IsFiniteSet(W)
  <2>1. h \in Surjection(1 .. n, W)
    BY <1>2 DEF Surjection
  <2> HIDE DEF h, W, n
  <2>2. IsFiniteSet(1 .. n)
    BY <1>1, FS_Interval
  <2>3. QED BY <2>1, <2>2, FS_Surjection
<1>7. ASSUME NEW w \in W PROVE LatestOf(Loaded, w).week = w
  <2>1. w \in Nat /\ Of(w, n) # {}
    BY <1>5
  <2>2. LatestOf(Loaded, w) = published[Max(Of(w, n))]
    BY <2>1, EndsOfHistory DEF LastPublished
  <2>3. Max(Of(w, n)) \in Of(w, n)
    BY <1>1, <2>1, Extremes DEF FilesInv
  <2>4. QED BY <2>2, <2>3 DEF Of
<1>8. QED BY <1>4, <1>5, <1>6, <1>7, ViewOrdered

\* A monitor run writes files that agree, and no other step writes them.
LEMMA MonitorStep ==
    FilesInv /\ ExtremesInv /\ MonitorConsistent /\ [PublishNext]_publishVars => MonitorConsistent'
<1> SUFFICES ASSUME FilesInv, ExtremesInv, MonitorConsistent, [PublishNext]_publishVars
             PROVE  MonitorConsistent'
  OBVIOUS
<1>1. CASE RunRegimeMonitor
  <2> DEFINE view == LatestView(Loaded)
  <2>1. /\ Loadable
        /\ monitor' = [matrix |-> TransitionMatrix(view), runs |-> RegimeRuns(view),
                       durations |-> DurationSummary(view), events |-> EventResponses(view)]
    BY <1>1 DEF RunRegimeMonitor
  <2>2. Story(TransitionMatrix(view), EventResponses(view), RegimeRuns(view))
    BY <2>1, ViewOfHistory, StoryOfView
  <2> HIDE DEF view
  <2>3. Story(monitor'.matrix, monitor'.events, monitor'.runs)
    <3>1. monitor'.matrix = TransitionMatrix(view) /\ monitor'.runs = RegimeRuns(view)
          /\ monitor'.events = EventResponses(view)
      BY <2>1
    <3>2. QED BY <2>2, <3>1
  <2>4. QED BY <2>3, Zenon DEF MonitorConsistent, Story
<1>2. CASE ~RunRegimeMonitor
  <2>1. monitor' = monitor
    BY <1>2 DEF PublishNext, publishVars, readerVars, Tick, LiveRunWritesSummary, KillLiveRun,
        PublishStart, WriteHistorySnapshot, WriteHistoryReport, WriteLatestSnapshot,
        WriteLatestReport, KillPublisher, RunRevisionAudit, OpsLoadHistory, OpsWriteAlerts,
        OpsWriteStatus
  <2>2. QED BY <2>1 DEF MonitorConsistent
<1>3. QED BY <1>1, <1>2

\* The three regime files tell one story about the weeks published
\* (MonitorConsistent): as many events, off-diagonal transitions and runs but one, the
\* runs one after the other and together as long as the weeks.
THEOREM MonitorTellsOneStory == PublishSpec => []MonitorConsistent
<1>1. PublishInit => FilesInv /\ ExtremesInv /\ MonitorConsistent
  BY FilesInit, ExtremesInit DEF PublishInit, MonitorConsistent
<1>2. FilesInv /\ ExtremesInv /\ MonitorConsistent /\ [PublishNext]_publishVars
        => (FilesInv /\ ExtremesInv /\ MonitorConsistent)'
  BY FilesStep, ExtremesStep, MonitorStep DEF FilesInv
<1>3. QED BY <1>1, <1>2, PTL DEF PublishSpec

-----------------------------------------------------------------------------
(* Alerts and status                                                        *)

Categories == {"signal_validity", "execution_readiness", "data_health"}

\* Week w, its cutoff past, was published in time and in strict mode, as far as
\* the first upto publications go, and unrevised, as far as the first of go.
Good(w, of, upto) ==
    /\ Of(w, upto) # {}
    /\ LastPublished(w, upto).at <= Cutoff(w) /\ LastPublished(w, upto).mode = "strict"
    /\ Of(w, of) # {} => /\ FirstPublished(w, of).mode = LastPublished(w, of).mode
                         /\ FirstPublished(w, of).k_hat_t = LastPublished(w, of).k_hat_t

\* An alert log raises something unless the week required is good.
LogRight(log, of, upto, now) ==
    /\ of \in 0 .. Len(published) /\ upto \in 0 .. Len(published)
    /\ now \in Nat
    /\ \A a \in log : a.category \in Categories /\ a.level \in {"warn", "degrade", "block"}
    /\ log = {} => RequiredWeek(now) \in Nat /\ Good(RequiredWeek(now), of, upto)

LEMMA GoodStays ==
    ASSUME PublishTypes, ExtremesInv, [PublishNext]_publishVars,
           NEW w \in Nat, NEW of \in 0 .. Len(published), NEW upto \in 0 .. Len(published),
           Good(w, of, upto)
    PROVE  Good(w, of, upto)'
<1>1. Of(w, of)' = Of(w, of) /\ Of(w, upto)' = Of(w, upto)
  BY OfStays
<1>2. LastPublished(w, upto)' = LastPublished(w, upto)
  BY EndsStay DEF Good
<1>3. Of(w, of) # {} => /\ FirstPublished(w, of)' = FirstPublished(w, of)
                        /\ LastPublished(w, of)' = LastPublished(w, of)
  BY EndsStay
<1>4. QED BY <1>1, <1>2, <1>3 DEF Good

LEMMA LogStays ==
    ASSUME PublishTypes, ExtremesInv, [PublishNext]_publishVars,
           NEW log, NEW of, NEW upto, NEW now, LogRight(log, of, upto, now)
    PROVE  LogRight(log, of, upto, now)'
<1>1. of \in 0 .. Len(published') /\ upto \in 0 .. Len(published')
  BY PublishedGrows DEF LogRight
<1>2. log = {} => Good(RequiredWeek(now), of, upto)'
  BY GoodStays DEF LogRight
<1>3. QED BY <1>1, <1>2 DEF LogRight

LEMMA SnapshotAlertsFacts ==
    ASSUME NEW x \in Snapshots, NEW revised \in BOOLEAN
    PROVE  /\ \A a \in SnapshotAlerts(x, revised) :
                a.category \in Categories /\ a.level \in {"warn", "degrade", "block"}
           /\ SnapshotAlerts(x, revised) = {} =>
                /\ ~(x.at > Cutoff(x.week))
                /\ x.mode = "strict"
                /\ ~revised
<1>1. x.stale \subseteq {"warn", "degrade", "block"} /\ x.execution = DeriveExecutionState(x.stale, x.mode)
  BY SnapshotFacts
<1>2. \A a \in SnapshotAlerts(x, revised) :
        a.category \in Categories /\ a.level \in {"warn", "degrade", "block"}
  BY <1>1 DEF SnapshotAlerts, Alert, Categories
<1>3. ASSUME SnapshotAlerts(x, revised) = {}
      PROVE  ~(x.at > Cutoff(x.week)) /\ x.execution # "degrade" /\ x.execution # "block" /\ ~revised
  BY <1>3 DEF SnapshotAlerts
<1>4. ASSUME x.execution # "degrade", x.execution # "block" PROVE x.mode = "strict"
  BY <1>1, <1>4 DEF DeriveExecutionState
<1>5. QED BY <1>2, <1>3, <1>4

LEMMA UnrevisedIsSame ==
    ASSUME PublishTypes, NEW detail, NEW of, DetailRight(detail, of), NEW w,
           Of(w, of) # {}, ~(w \in DOMAIN detail /\ detail[w].material)
    PROVE  /\ FirstPublished(w, of).mode = LastPublished(w, of).mode
           /\ FirstPublished(w, of).k_hat_t = LastPublished(w, of).k_hat_t
<1>1. w \in DOMAIN detail
  BY DEF DetailRight, Of
<1>2. /\ RowRight(detail[w])
      /\ detail[w].first = FirstPublished(w, of)
      /\ detail[w].latest = LastPublished(w, of)
  BY <1>1 DEF DetailRight
<1>3. QED BY <1>1, <1>2 DEF RowRight

LEMMA AlertsRight ==
    ASSUME FilesInv, ExtremesInv, NEW detail, NEW of, DetailRight(detail, of)
    PROVE  LogRight(AlertLog(LatestPerWeek(Loaded), detail, clock), of, Len(published), clock)
<1> DEFINE n == Len(published)
           w == RequiredWeek(clock)
           log == AlertLog(LatestPerWeek(Loaded), detail, clock)
           weeks == {published[i].week : i \in 1 .. n}
           revised == w \in DOMAIN detail /\ detail[w].material
           x == LastPublished(w, n)
<1>1. n \in 0 .. Len(published) /\ of \in 0 .. Len(published) /\ clock \in Nat
  BY PublishBounds DEF DetailRight, FilesInv, PublishTypes
<1>2. DOMAIN LatestPerWeek(Loaded) = weeks /\ \A v \in weeks : LatestPerWeek(Loaded)[v] = LatestOf(Loaded, v)
  BY LoadedIsPublished DEF LatestPerWeek, WeeksOf
<1>3. CASE w \notin weeks
  <2>1. log = {Alert("data_health", "block", "missing_required_snapshot")}
    BY <1>2, <1>3 DEF AlertLog
  <2>2. \A a \in log : a.category \in Categories /\ a.level \in {"warn", "degrade", "block"}
    BY <2>1 DEF Alert, Categories
  <2> HIDE DEF log
  <2>3. LogRight(log, of, n, clock)
    BY <1>1, <2>1, <2>2 DEF LogRight
  <2>4. QED BY <2>3 DEF log
<1>4. CASE w \in weeks
  <2>1. w \in Nat /\ Of(w, n) # {}
    BY <1>1, <1>4, WeeksPublished DEF FilesInv
  <2>2. LatestOf(Loaded, w) = x
    BY <2>1, EndsOfHistory
  <2>3. x \in Snapshots /\ x.week = w
    BY <1>1, <2>1, Extremes DEF FilesInv
  <2>4. log = SnapshotAlerts(x, revised)
    BY <1>2, <1>4, <2>2 DEF AlertLog
  <2>5. revised \in BOOLEAN
    OBVIOUS
  <2>6. x.at \in Int /\ Cutoff(w) \in Int
    BY <2>1, <2>3, SnapshotFacts, CalendarAssumption DEF Cutoff
  <2>7. ~revised /\ Of(w, of) # {} =>
            /\ FirstPublished(w, of).mode = LastPublished(w, of).mode
            /\ FirstPublished(w, of).k_hat_t = LastPublished(w, of).k_hat_t
    BY UnrevisedIsSame DEF FilesInv
  <2> HIDE DEF log, x, revised, w
  <2>8. \A a \in log : a.category \in Categories /\ a.level \in {"warn", "degrade", "block"}
    BY <2>3, <2>4, <2>5, SnapshotAlertsFacts
  <2>9. log = {} => x.at <= Cutoff(w) /\ x.mode = "strict" /\ ~revised
    <3>1. log = {} => ~(x.at > Cutoff(x.week)) /\ x.mode = "strict" /\ ~revised
      BY <2>3, <2>4, <2>5, SnapshotAlertsFacts
    <3>2. ~(x.at > Cutoff(x.week)) => x.at <= Cutoff(w)
      BY <2>3, <2>6
    <3>3. QED BY <3>1, <3>2
  <2>10. log = {} => Good(w, of, n)
    BY <2>1, <2>7, <2>9 DEF Good, x
  <2>11. LogRight(log, of, n, clock)
    BY <1>1, <2>1, <2>8, <2>10 DEF LogRight, w
  <2>12. QED BY <2>11 DEF log
<1>5. QED BY <1>3, <1>4

OpsInv ==
    /\ ops # Idle =>
        \/ ops.pc = "alerts" /\ DetailRight(ops.detail, ops.of)
        \/ ops.pc = "status" /\ LogRight(ops.log, ops.of, ops.upto, ops.now)
    /\ status # None =>
        /\ LogRight(status.log, status.of, status.upto, status.now)
        /\ status.level = CurrentStatus(status.log)

LEMMA OpsStep ==
    ASSUME FilesInv, ExtremesInv, OpsInv, [PublishNext]_publishVars
    PROVE  OpsInv'
<1> DEFINE StatusRight ==
        status # None =>
            /\ LogRight(status.log, status.of, status.upto, status.now)
            /\ status.level = CurrentStatus(status.log)
           OpsRight ==
        ops # Idle =>
            \/ ops.pc = "alerts" /\ DetailRight(ops.detail, ops.of)
            \/ ops.pc = "status" /\ LogRight(ops.log, ops.of, ops.upto, ops.now)
<1>1. OpsInv = (OpsRight /\ StatusRight)
  BY DEF OpsInv
<1>2. OpsInv' = (OpsRight' /\ StatusRight')
  BY DEF OpsInv
<1>3. UNCHANGED status => StatusRight'
  <2> SUFFICES ASSUME UNCHANGED status, status # None
               PROVE  StatusRight'
    OBVIOUS
  <2>1. PICK log, of, upto, now :
            log = status.log /\ of = status.of /\ upto = status.upto /\ now = status.now
    OBVIOUS
  <2>2. LogRight(log, of, upto, now)'
    BY <2>1, <1>1, LogStays DEF FilesInv
  <2>3. status'.level = CurrentStatus(status'.log)
    BY <1>1
  <2>4. QED BY <2>1, <2>2, <2>3
<1>4. UNCHANGED ops => OpsRight'
  <2> SUFFICES ASSUME UNCHANGED ops, ops # Idle
               PROVE  OpsRight'
    OBVIOUS
  <2>1. CASE ops.pc = "alerts" /\ DetailRight(ops.detail, ops.of)
    <3>1. PICK d, of : d = ops.detail /\ of = ops.of
      OBVIOUS
    <3>2. DetailRight(d, of)'
      BY <2>1, <3>1, DetailStays DEF FilesInv
    <3>3. QED BY <2>1, <3>1, <3>2
  <2>2. CASE ops.pc = "status" /\ LogRight(ops.log, ops.of, ops.upto, ops.now)
    <3>1. PICK log, of, upto, now :
            log = ops.log /\ of = ops.of /\ upto = ops.upto /\ now = ops.now
      OBVIOUS
    <3>2. LogRight(log, of, upto, now)'
      BY <2>2, <3>1, LogStays DEF FilesInv
    <3>3. QED BY <2>2, <3>1, <3>2
  <2>3. QED BY <1>1, <2>1, <2>2
<1>5. CASE OpsLoadHistory
  <2> DEFINE d == RevisionDetail(Loaded)
             n == Len(published)
  <2>1. ops' = [pc |-> "alerts", detail |-> d, of |-> n] /\ UNCHANGED status
    BY <1>5 DEF OpsLoadHistory
  <2>2. PICK dd, m : dd = d /\ m = n
    OBVIOUS
  <2>3. DetailRight(dd, m)
    BY <2>2, DetailOfHistory
  <2>4. DetailRight(dd, m)'
    BY <2>3, DetailStays DEF FilesInv
  <2> HIDE DEF d, n
  <2>5. ops'.pc = "alerts" /\ ops'.detail = dd /\ ops'.of = m
    BY <2>1, <2>2
  <2>6. OpsRight'
    BY <2>4, <2>5
  <2>7. QED BY <1>2, <1>3, <2>1, <2>6
<1>6. CASE OpsWriteAlerts
  <2>1. UNCHANGED status
    BY <1>6 DEF OpsWriteAlerts
  <2>2. CASE ops' = Idle
    BY <1>2, <1>3, <2>1, <2>2
  <2>3. CASE Loadable
    <3> DEFINE log == AlertLog(LatestPerWeek(Loaded), ops.detail, clock)
               n == Len(published)
    <3>1. ops' = [pc |-> "status", of |-> ops.of, upto |-> n, now |-> clock, log |-> log]
      BY <1>6, <2>3 DEF OpsWriteAlerts
    <3>2. ops.pc = "alerts" /\ DetailRight(ops.detail, ops.of)
      <4>1. ops.pc = "alerts" /\ ops # Idle
        BY <1>6 DEF OpsWriteAlerts, Idle
      <4>2. QED BY <4>1 DEF OpsInv
    <3>3. LogRight(log, ops.of, n, clock)
      BY <3>2, AlertsRight
    <3>4. PICK l, of, upto, now : l = log /\ of = ops.of /\ upto = n /\ now = clock
      OBVIOUS
    <3>5. LogRight(l, of, upto, now)
      BY <3>3, <3>4
    <3>6. LogRight(l, of, upto, now)'
      BY <3>5, LogStays DEF FilesInv
    <3> HIDE DEF log, n
    <3>7. ops'.pc = "status" /\ ops'.log = l /\ ops'.of = of /\ ops'.upto = upto /\ ops'.now = now
      BY <3>1, <3>4
    <3>8. OpsRight'
      BY <3>6, <3>7
    <3>9. QED BY <1>2, <1>3, <2>1, <3>8
  <2>4. QED BY <1>6, <2>2, <2>3 DEF OpsWriteAlerts
<1>7. CASE OpsWriteStatus
  <2> DEFINE level == CurrentStatus(ops.log)
             required == RequiredWeek(clock)
  <2>1. /\ status' = [level |-> level, required |-> required,
                      log |-> ops.log, now |-> ops.now, of |-> ops.of, upto |-> ops.upto]
        /\ ops' = Idle
    BY <1>7 DEF OpsWriteStatus
  <2>2. LogRight(ops.log, ops.of, ops.upto, ops.now)
    <3>1. ops.pc = "status" /\ ops # Idle
      BY <1>7 DEF OpsWriteStatus, Idle
    <3>2. QED BY <3>1 DEF OpsInv
  <2>3. PICK log, of, upto, now, lev :
            log = ops.log /\ of = ops.of /\ upto = ops.upto /\ now = ops.now /\ lev = level
    OBVIOUS
  <2>4. LogRight(log, of, upto, now)'
    BY <2>2, <2>3, LogStays DEF FilesInv
  <2>5. lev = CurrentStatus(log)
    BY <2>3
  <2> HIDE DEF level, required
  <2>6. /\ status'.log = log /\ status'.of = of /\ status'.upto = upto /\ status'.now = now
        /\ status'.level = lev
    BY <2>1, <2>3
  <2>7. StatusRight'
    BY <2>4, <2>5, <2>6
  <2>8. OpsRight'
    BY <2>1
  <2>9. QED BY <1>2, <2>7, <2>8
<1>8. CASE UNCHANGED <<ops, status>>
  BY <1>2, <1>3, <1>4, <1>8
<1>9. QED
  BY <1>5, <1>6, <1>7, <1>8
  DEF PublishNext, Tick, LiveRunWritesSummary, KillLiveRun, PublishStart, WriteHistorySnapshot,
      WriteHistoryReport, WriteLatestSnapshot, WriteLatestReport, KillPublisher,
      RunRevisionAudit, RunRegimeMonitor, publishVars, fileVars, readerVars

\* The worst of some levels is one of them and none is worse.
LEMMA WorstFacts ==
    ASSUME NEW levels \in SUBSET {"ok", "warn", "degrade", "block"}, levels # {}
    PROVE  /\ Worst(levels) \in levels
           /\ \A m \in levels : Severity[m] <= Severity[Worst(levels)]
<1>1. ASSUME NEW l \in levels, \A m \in levels : Severity[m] <= Severity[l]
      PROVE  /\ Worst(levels) \in levels
             /\ \A m \in levels : Severity[m] <= Severity[Worst(levels)]
  BY <1>1 DEF Worst
<1>2. CASE "block" \in levels
  BY <1>1, <1>2 DEF Severity
<1>3. CASE "block" \notin levels /\ "degrade" \in levels
  BY <1>1, <1>3 DEF Severity
<1>4. CASE "block" \notin levels /\ "degrade" \notin levels /\ "warn" \in levels
  BY <1>1, <1>4 DEF Severity
<1>5. CASE levels = {"ok"}
  BY <1>1, <1>5 DEF Severity
<1>6. QED BY <1>2, <1>3, <1>4, <1>5

\* An OK status is one without alerts.
LEMMA OkIsSilent ==
    ASSUME NEW log, CurrentStatus(log) = "ok",
           \A a \in log : a.category \in Categories /\ a.level \in {"warn", "degrade", "block"}
    PROVE  log = {}
<1> DEFINE Levels(c) == {a.level : a \in {b \in log : b.category = c}}
           all == {CategoryStatus(log, c) : c \in Categories}
<1>1. ASSUME NEW c
      PROVE  /\ CategoryStatus(log, c) \in {"ok", "warn", "degrade", "block"}
             /\ \A m \in Levels(c) : Severity[m] <= Severity[CategoryStatus(log, c)]
  <2>1. Levels(c) \in SUBSET {"ok", "warn", "degrade", "block"}
    OBVIOUS
  <2>2. CategoryStatus(log, c) = Worst(Levels(c))
    BY DEF CategoryStatus
  <2>3. CASE Levels(c) = {}
    BY <2>2, <2>3 DEF Worst
  <2>4. CASE Levels(c) # {}
    <3> HIDE DEF Levels
    <3>1. Worst(Levels(c)) \in Levels(c) /\ \A m \in Levels(c) : Severity[m] <= Severity[Worst(Levels(c))]
      BY <2>1, <2>4, WorstFacts
    <3>2. QED BY <2>1, <2>2, <3>1
  <2>5. QED BY <2>3, <2>4
<1>2. Worst(all) = "ok"
  BY DEF CurrentStatus, Categories
<1>3. all \in SUBSET {"ok", "warn", "degrade", "block"} /\ all # {}
  BY <1>1 DEF Categories
<1> HIDE DEF all
<1>4. \A m \in all : Severity[m] <= 0
  BY <1>2, <1>3, WorstFacts DEF Severity
<1>5. ASSUME NEW a \in log PROVE FALSE
  <2>1. CategoryStatus(log, a.category) \in all
    BY DEF all
  <2>2. CategoryStatus(log, a.category) = "ok"
    BY <1>1, <1>4, <2>1 DEF Severity
  <2>3. a.level \in Levels(a.category)
    OBVIOUS
  <2> HIDE DEF Levels
  <2>4. Severity[a.level] <= 0
    BY <1>1, <2>2, <2>3 DEF Severity
  <2>5. QED BY <2>4 DEF Severity
<1>6. QED BY <1>5

\* Between its own cutoff and the next week's a week is the one required.
LEMMA RequiredBetweenCutoffs ==
    ASSUME NEW w \in Nat, NEW now \in Nat, Cutoff(w) <= now, now < Cutoff(w + 1)
    PROVE  RequiredWeek(now) = w
<1> DEFINE q == now \div WeekLength
           base == w * WeekLength
<1>1. base \in Nat /\ (w + 1) * WeekLength = base + WeekLength /\ (w + 2) * WeekLength = base + 2 * WeekLength
  BY CalendarAssumption
<1>2. base + SlaDelay <= now /\ now < base + WeekLength + SlaDelay
  BY <1>1 DEF Cutoff
<1>3. q \in Int /\ WeekLength \in Nat /\ WeekLength > 0 /\ SlaDelay \in 0 .. WeekLength - 1
  BY CalendarAssumption
<1>4. q * WeekLength <= now /\ now < (q + 1) * WeekLength
  BY <1>3
<1>5. q >= w
  BY <1>1, <1>2, <1>3, <1>4
<1>6. q <= w + 1
  BY <1>1, <1>2, <1>3, <1>4
<1>7. CASE q = w
  BY <1>7 DEF RequiredWeek
<1>8. CASE q = w + 1
  <2>1. Cutoff(q) \in Int /\ ~(now >= Cutoff(q))
    BY <1>1, <1>2, <1>3, <1>8 DEF Cutoff
  <2>2. QED BY <1>3, <1>8, <2>1 DEF RequiredWeek
<1>9. QED BY <1>3, <1>5, <1>6, <1>7, <1>8

\* When the status is OK, the week that was required as the alerts were taken was
\* published in time, strict and, as far as the audit saw, unrevised
\* (GreenMeansGood), although history is loaded twice and publishers go on.
THEOREM OkStatusIsEarned == PublishSpec => []GreenMeansGood
<1>1. PublishInit => FilesInv /\ ExtremesInv /\ OpsInv
  <2>1. PublishInit => OpsInv
    BY DEF PublishInit, OpsInv
  <2>2. QED BY <2>1, FilesInit, ExtremesInit
<1>2. FilesInv /\ ExtremesInv /\ OpsInv /\ [PublishNext]_publishVars
        => (FilesInv /\ ExtremesInv /\ OpsInv)'
  BY FilesStep, ExtremesStep, OpsStep DEF FilesInv
<1>3. OpsInv => GreenMeansGood
  <2> SUFFICES ASSUME OpsInv, status # None, status.level = "ok",
                      NEW w \in {s.week : s \in Summaries},
                      Cutoff(w) <= status.now, status.now < Cutoff(w + 1)
               PROVE  Good(w, status.of, status.upto)
    BY DEF GreenMeansGood, Good
  <2>1. w \in Nat
    BY SummaryAssumption
  <2>2. LogRight(status.log, status.of, status.upto, status.now) /\ CurrentStatus(status.log) = "ok"
    BY DEF OpsInv
  <2>3. status.log = {}
    BY <2>2, OkIsSilent DEF LogRight
  <2>4. RequiredWeek(status.now) = w
    BY <2>1, <2>2, RequiredBetweenCutoffs DEF LogRight
  <2>5. QED BY <2>2, <2>3, <2>4 DEF LogRight
<1>4. QED BY <1>1, <1>2, <1>3, PTL DEF PublishSpec

-----------------------------------------------------------------------------
(* The digest and the sandbox over the files                                *)

storeVars == <<clock, fileVars, publisher, published, tidy>>

\* The operator's scripts publish or leave the publisher's files alone.
LEMMA ArtifactStepPublishes ==
    [ArtifactsNext]_artifactVars => [PublishNext]_publishVars \/ UNCHANGED storeVars
<1> SUFFICES ASSUME [ArtifactsNext]_artifactVars
             PROVE  [PublishNext]_publishVars \/ UNCHANGED storeVars
  OBVIOUS
<1>1. CASE OperatorStep
  BY <1>1 DEF OperatorStep, PublishNext
<1>2. CASE KillSandbox
  BY <1>2 DEF KillSandbox, storeVars
<1>3. CASE UNCHANGED publishVars
  BY <1>3
<1>4. QED
  BY <1>1, <1>2, <1>3
  DEF ArtifactsNext, SandboxStart, DigestResolve, WriteArtifact, WriteRunSummary, DigestLoad, artifactVars

LEMMA FilesUnchanged == FilesInv /\ UNCHANGED storeVars => FilesInv'
  BY DEF FilesInv, PublishTypes, FreeKey, HistoryInv, LatestInv, storeVars, fileVars

\* A week in the history has a newest file.
NewestInv ==
    \A w \in Nat : HistoryOf(w) # {} =>
        \E key \in HistoryOf(w) : \A k \in HistoryOf(w) : k[2] <= key[2]

\* The names of history files are weeks and seconds.
LEMMA KeyFacts ==
    ASSUME NEW x \in Snapshots
    PROVE  Key(x)[1] = x.week /\ Key(x)[2] = x.at /\ Key(x)[1] \in Nat /\ Key(x)[2] \in Nat
  BY SnapshotFacts, PublishBounds DEF Key

NamesInv == \A key \in DOMAIN history : key[1] \in Nat /\ key[2] \in Nat /\ key # LatestPath

\* A step leaves the history alone or writes the publisher's file.
LEMMA HistoryStep ==
    ASSUME PublishTypes, [PublishNext]_publishVars \/ UNCHANGED storeVars
    PROVE  \/ UNCHANGED history
           \/ /\ publisher.snap \in Snapshots
              /\ \E v : history' = Write(history, Key(publisher.snap), v)
<1>1. CASE WriteHistorySnapshot \/ KillPublisher
  BY <1>1 DEF WriteHistorySnapshot, KillPublisher, PublishTypes, Idle
<1>2. CASE UNCHANGED history
  BY <1>2
<1>3. QED
  BY <1>1, <1>2
  DEF PublishNext, Tick, LiveRunWritesSummary, KillLiveRun, PublishStart, WriteHistoryReport,
      WriteLatestSnapshot, WriteLatestReport, RunRevisionAudit, RunRegimeMonitor,
      OpsLoadHistory, OpsWriteAlerts, OpsWriteStatus, publishVars, fileVars, storeVars

LEMMA NewestStep ==
    ASSUME PublishTypes, NamesInv, NewestInv, [PublishNext]_publishVars \/ UNCHANGED storeVars
    PROVE  NamesInv' /\ NewestInv'
<1>1. CASE UNCHANGED history
  BY <1>1 DEF NamesInv, NewestInv, HistoryOf
<1>2. CASE publisher.snap \in Snapshots /\ \E v : history' = Write(history, Key(publisher.snap), v)
  <2> DEFINE new == Key(publisher.snap)
  <2>1. new[1] \in Nat /\ new[2] \in Nat
    BY <1>2, KeyFacts
  <2>2. DOMAIN history' = DOMAIN history \cup {new}
    BY <1>2 DEF Write
  <2>3. new # LatestPath
    BY DEF Key, LatestPath
  <2> HIDE DEF new
  <2>4. NamesInv'
    BY <2>1, <2>2, <2>3 DEF NamesInv
  <2>5. ASSUME NEW w \in Nat, HistoryOf(w)' # {}
        PROVE  \E key \in HistoryOf(w)' : \A k \in HistoryOf(w)' : k[2] <= key[2]
    <3>1. HistoryOf(w)' = HistoryOf(w) \cup (IF new[1] = w THEN {new} ELSE {})
      BY <2>2 DEF HistoryOf
    <3>2. \A k \in HistoryOf(w) : k[2] \in Nat
      BY DEF HistoryOf, NamesInv
    <3>3. CASE HistoryOf(w) = {}
      BY <2>1, <2>5, <3>1, <3>3
    <3>4. CASE HistoryOf(w) # {}
      <4>1. PICK key \in HistoryOf(w) : \A k \in HistoryOf(w) : k[2] <= key[2]
        BY <3>4 DEF NewestInv
      <4>2. CASE new[1] = w /\ key[2] <= new[2]
        <5>1. new \in HistoryOf(w)'
          BY <3>1, <4>2
        <5>2. \A k \in HistoryOf(w)' : k[2] <= new[2]
          BY <2>1, <3>1, <3>2, <4>1, <4>2
        <5>3. QED BY <5>1, <5>2
      <4>3. CASE ~(new[1] = w /\ key[2] <= new[2])
        <5>1. key \in HistoryOf(w)'
          BY <3>1
        <5>2. \A k \in HistoryOf(w)' : k[2] <= key[2]
          BY <2>1, <3>1, <3>2, <4>1, <4>3
        <5>3. QED BY <5>1, <5>2
      <4>4. QED BY <4>2, <4>3
    <3>5. QED BY <3>3, <3>4
  <2>6. QED BY <2>4, <2>5 DEF NewestInv
<1>3. QED BY <1>1, <1>2, HistoryStep

LEMMA NewestFacts ==
    ASSUME NamesInv, NewestInv, NEW w \in Nat, HistoryOf(w) # {}
    PROVE  NewestKey(w) \in DOMAIN history /\ NewestKey(w)[1] = w /\ NewestKey(w) # LatestPath
<1>1. NewestKey(w) \in HistoryOf(w)
  BY DEF NewestInv, NewestKey
<1>2. QED BY <1>1 DEF HistoryOf, NamesInv

\* A history file that is not torn is of the week in its name.
LEMMA FileIsItsWeek ==
    ASSUME FilesInv, NEW key \in DOMAIN history, history[key] # Torn
    PROVE  history[key] \in Snapshots /\ history[key].week = key[1]
<1>1. history[key] \in Snapshots
  BY DEF FilesInv, PublishTypes
<1>2. Key(history[key]) = key
  BY DEF FilesInv, HistoryInv
<1>3. QED BY <1>1, <1>2, KeyFacts

\* What a digest that is under way has seen: the latest file, of its week unless
\* nothing of that week was published, or a history file of its week.
DigesterInv ==
    digester # Idle =>
        /\ digester.of \in 0 .. Len(published)
        /\ \/ /\ digester.path = LatestPath
              /\ digester.saw.week = digester.week \/ Of(digester.week, digester.of) = {}
           \/ /\ digester.path # LatestPath
              /\ digester.path \in DOMAIN history /\ digester.path[1] = digester.week

StoreInv == FilesInv /\ NamesInv /\ NewestInv

LEMMA StoreInit == ArtifactsInit => StoreInv
  BY FilesInit DEF ArtifactsInit, PublishInit, StoreInv, NamesInv, NewestInv, HistoryOf

LEMMA StoreStep == StoreInv /\ [ArtifactsNext]_artifactVars => StoreInv'
  BY ArtifactStepPublishes, FilesStep, FilesUnchanged, NewestStep DEF StoreInv, FilesInv

\* A step of the files keeps their names and the publications of a week.
LEMMA StoreGrows ==
    ASSUME StoreInv, [ArtifactsNext]_artifactVars
    PROVE  /\ DOMAIN history \subseteq DOMAIN history'
           /\ Len(published) \in Nat /\ Len(published') \in Nat /\ Len(published) <= Len(published')
           /\ \A n \in 0 .. Len(published), w \in Weeks : Of(w, n)' = Of(w, n)
<1>0. PublishTypes
  BY DEF StoreInv, FilesInv
<1>1. CASE UNCHANGED storeVars
  BY <1>0, <1>1 DEF storeVars, fileVars, PublishTypes, Of
<1>2. CASE [PublishNext]_publishVars
  <2>1. DOMAIN history \subseteq DOMAIN history'
    BY <1>0, <1>2, HistoryStep DEF Write
  <2>2. QED BY <1>0, <1>2, <2>1, PublishedGrows, OfStays
<1>3. QED BY <1>1, <1>2, ArtifactStepPublishes

\* Without a file of a week nothing of it was published.
LEMMA UnfiledIsUnpublished ==
    ASSUME FilesInv, NEW w, HistoryOf(w) = {}
    PROVE  Of(w, Len(published)) = {}
<1> SUFFICES ASSUME NEW i \in Of(w, Len(published)) PROVE FALSE
  OBVIOUS
<1>1. i \in DOMAIN published /\ published[i].week = w
  BY DEF Of, FilesInv, PublishTypes
<1>2. Key(published[i]) \in HistoryOf(w)
  BY <1>1 DEF HistoryOf, Key, FilesInv, HistoryInv
<1>3. QED BY <1>2

LEMMA DigesterStep ==
    ASSUME StoreInv, DigesterInv, [ArtifactsNext]_artifactVars,
           digester # Idle => digester.week \in Weeks
    PROVE  DigesterInv'
<1>1. ASSUME NEW w \in Weeks, DigestResolve(w) PROVE DigesterInv'
  <2> DEFINE n == Len(published)
  <2>1. /\ digester' = [pc |-> "load", week |-> w, path |-> DigestPath(w), saw |-> latest, of |-> n]
        /\ history' = history /\ published' = published /\ DigestPath(w) # None
    BY <1>1 DEF DigestResolve, publishVars, fileVars
  <2>2. w \in Nat /\ n \in Nat
    BY ArtifactBounds DEF StoreInv, FilesInv, PublishTypes
  <2>3. Of(w, n)' = Of(w, n)
    BY <2>1 DEF Of
  <2>4. CASE latest # None /\ latest.week = w
    <3>1. DigestPath(w) = LatestPath
      BY <2>4 DEF DigestPath
    <3> HIDE DEF n
    <3>2. digester'.path = LatestPath /\ digester'.saw.week = digester'.week /\ digester'.of = n
      BY <2>1, <2>4, <3>1
    <3>3. QED BY <2>1, <2>2, <3>2 DEF DigesterInv, n
  <2>5. CASE ~(latest # None /\ latest.week = w) /\ HistoryOf(w) # {}
    <3>1. DigestPath(w) = NewestKey(w)
      BY <2>5 DEF DigestPath
    <3>2. NewestKey(w) \in DOMAIN history /\ NewestKey(w)[1] = w /\ NewestKey(w) # LatestPath
      BY <2>2, <2>5, NewestFacts DEF StoreInv
    <3> HIDE DEF n
    <3>3. digester'.path = NewestKey(w) /\ digester'.week = w /\ digester'.of = n
      BY <2>1, <3>1
    <3>4. QED BY <2>1, <2>2, <3>2, <3>3 DEF DigesterInv, n
  <2>6. CASE ~(latest # None /\ latest.week = w) /\ HistoryOf(w) = {}
    <3>1. DigestPath(w) = LatestPath
      BY <2>1, <2>6 DEF DigestPath
    <3>2. Of(w, n) = {}
      BY <2>6, UnfiledIsUnpublished DEF StoreInv
    <3> HIDE DEF n
    <3>3. digester'.path = LatestPath /\ digester'.week = w /\ digester'.of = n
      BY <2>1, <3>1
    <3>4. QED BY <2>1, <2>2, <2>3, <3>2, <3>3 DEF DigesterInv, n
  <2>7. QED BY <2>4, <2>5, <2>6
<1>2. CASE DigestLoad
  BY <1>2 DEF DigestLoad, DigesterInv
<1>3. CASE UNCHANGED digester
  <2> SUFFICES ASSUME digester # Idle PROVE DigesterInv'
    BY <1>3 DEF DigesterInv
  <2>1. PICK w, n, path : w = digester.week /\ n = digester.of /\ path = digester.path
    OBVIOUS
  <2>2. n \in 0 .. Len(published) /\ w \in Weeks
    BY <2>1 DEF DigesterInv
  <2>3. n \in 0 .. Len(published') /\ Of(w, n)' = Of(w, n)
    BY <2>2, StoreGrows
  <2>4. path \in DOMAIN history => path \in DOMAIN history'
    BY StoreGrows
  <2>5. QED BY <1>3, <2>1, <2>2, <2>3, <2>4 DEF DigesterInv
<1>4. QED
  BY <1>1, <1>2, <1>3
  DEF ArtifactsNext, OperatorStep, SandboxStart, WriteArtifact, WriteRunSummary, KillSandbox,
      artifactVars, sandboxVars

DigestInv ==
    /\ digester # Idle => digester.week \in Weeks
    /\ DigesterInv
    /\ digest # None => digest.week \in Weeks /\ digest.of \in 0 .. Len(published)
    /\ DigestShowsItsWeek

LEMMA DigestStep ==
    ASSUME StoreInv, DigestInv, [ArtifactsNext]_artifactVars
    PROVE  DigestInv'
<1>1. DigesterInv'
  BY DigesterStep DEF DigestInv
<1>2. (digester # Idle => digester.week \in Weeks)'
  BY DEF DigestInv, ArtifactsNext, OperatorStep, SandboxStart, WriteArtifact, WriteRunSummary, KillSandbox,
      DigestResolve, DigestLoad, artifactVars, sandboxVars
<1>3. CASE DigestLoad /\ ~UNCHANGED digest
  <2> DEFINE x == IF digester.path = LatestPath THEN latest ELSE history[digester.path]
             delta == IF <<"delta", digester.week>> \in DOMAIN artifacts
                      THEN artifacts[<<"delta", digester.week>>] ELSE None
  <2>1. /\ x # Torn
        /\ digest' = [week |-> digester.week, snap |-> x, run |-> runSummary, delta |-> delta,
                      path |-> digester.path, saw |-> digester.saw, of |-> digester.of]
        /\ digester # Idle
    BY <1>3 DEF DigestLoad
  <2>2. published' = published
    BY <1>3 DEF DigestLoad, publishVars
  <2>3. PICK w, n, path, saw, snap :
            /\ w = digester.week /\ n = digester.of /\ path = digester.path /\ saw = digester.saw
            /\ snap = x
    OBVIOUS
  <2>4. w \in Weeks /\ n \in 0 .. Len(published) /\ Of(w, n)' = Of(w, n)
    BY <2>1, <2>2, <2>3 DEF DigestInv, DigesterInv, Of
  <2>5. snap.week # w => Of(w, n) = {} \/ (path = LatestPath /\ saw # snap)
    <3>1. CASE path = LatestPath
      BY <2>1, <2>3, <3>1 DEF DigestInv, DigesterInv
    <3>2. CASE path # LatestPath
      BY <2>1, <2>3, <3>2, FileIsItsWeek DEF DigestInv, DigesterInv, StoreInv
    <3>3. QED BY <3>1, <3>2
  <2> HIDE DEF x, delta
  <2>6. /\ digest'.week = w /\ digest'.of = n /\ digest'.path = path /\ digest'.saw = saw
        /\ digest'.snap = snap
    BY <2>1, <2>3
  <2>7. DigestShowsItsWeek'
    BY <2>4, <2>5, <2>6 DEF DigestShowsItsWeek
  <2>8. QED BY <1>1, <1>2, <2>2, <2>4, <2>6, <2>7 DEF DigestInv
<1>4. CASE UNCHANGED digest
  <2> SUFFICES ASSUME digest # None PROVE DigestInv'
    BY <1>1, <1>2, <1>4 DEF DigestInv, DigestShowsItsWeek
  <2>1. PICK w, n : w = digest.week /\ n = digest.of
    OBVIOUS
  <2>2. w \in Weeks /\ n \in 0 .. Len(published)
    BY <2>1 DEF DigestInv
  <2>3. n \in 0 .. Len(published') /\ Of(w, n)' = Of(w, n)
    BY <2>2, StoreGrows
  <2>4. DigestShowsItsWeek'
    BY <1>4, <2>1, <2>3 DEF DigestInv, DigestShowsItsWeek
  <2>5. QED BY <1>1, <1>2, <1>4, <2>1, <2>2, <2>3, <2>4 DEF DigestInv
<1>5. QED
  BY <1>3, <1>4
  DEF ArtifactsNext, OperatorStep, SandboxStart, WriteArtifact, WriteRunSummary, KillSandbox,
      DigestResolve, artifactVars, sandboxVars

\* A digest shows another week's snapshot only when nothing of its own week was
\* published as it looked, or the latest file was replaced meanwhile
\* (DigestShowsItsWeek).
THEOREM DigestIsItsWeeks == ArtifactsSpec => []DigestShowsItsWeek
<1>1. ArtifactsInit => StoreInv /\ DigestInv
  <2>1. ArtifactsInit => DigestInv
    BY DEF ArtifactsInit, DigestInv, DigesterInv, DigestShowsItsWeek
  <2>2. QED BY <2>1, StoreInit
<1>2. StoreInv /\ DigestInv /\ [ArtifactsNext]_artifactVars => (StoreInv /\ DigestInv)'
  BY StoreStep, DigestStep
<1>3. DigestInv => DigestShowsItsWeek
  BY DEF DigestInv
<1>4. QED BY <1>1, <1>2, <1>3, PTL DEF ArtifactsSpec

-----------------------------------------------------------------------------
(* Sandbox runs                                                             *)

\* What a run of the sandbox says of its week w: its orders need a strict,
\* executable, unfrozen snapshot of w with all its signals.
RunRight(run, w) ==
    /\ run.summary.week = w
    /\ run.orders # <<>> =>
        LET x == run.summary.snapshot IN
        /\ x.week = w /\ x.mode = "strict" /\ ~x.frozen
        /\ x.execution = "execute" /\ x.stale \cap {"block", "degrade"} = {}
        /\ \A f \in Signals : ~IsMissing(x[f])

LEMMA FrozenFacts ==
    ASSUME NEW x \in Snapshots, x.frozen
    PROVE  x.backfill_mode \in {"degraded_backfill", "block"}
<1>1. PICK s \in Summaries, at \in 0 .. MaxClock : x = BuildCycleSnapshot(s, at)
  BY DEF Snapshots
<1>2. x.frozen = s.frozen /\ x.backfill_mode = s.backfill_mode
  BY <1>1, FrozenAssumption DEF BuildCycleSnapshot, Write
<1>3. QED BY <1>2, FrozenAssumption

\* An eligible signal is strict, executable, unfrozen and complete.
LEMMA EligibleFacts ==
    ASSUME NEW x \in Snapshots, SignalGate(x) = Eligible
    PROVE  /\ x.mode = "strict" /\ ~x.frozen
           /\ x.execution = "execute" /\ x.stale \cap {"block", "degrade"} = {}
           /\ \A f \in Signals : ~IsMissing(x[f])
<1>1. x.backfill_mode # "degraded_backfill" /\ x.backfill_mode # "block"
  BY DEF SignalGate, Eligible
<1>2. x.mode = "strict" /\ x.execution = "execute"
  BY <1>1 DEF SignalGate, Eligible
<1>3. x.h_t # None /\ x.rho_t # None /\ x.s_t # None
  BY <1>1 DEF SignalGate, Eligible
<1>4. ~x.frozen
  BY <1>1, FrozenFacts
<1>5. x.stale \cap {"block", "degrade"} = {}
  BY <1>2, SnapshotFacts DEF DeriveExecutionState
<1>6. QED BY <1>2, <1>3, <1>4, <1>5 DEF Signals, IsMissing

LEMMA SandboxFacts ==
    ASSUME NEW x, NEW pf, Sandbox(x, pf) # None
    PROVE  /\ "summary" \in DOMAIN Sandbox(x, pf) /\ "orders" \in DOMAIN Sandbox(x, pf)
           /\ Sandbox(x, pf).summary.week = x.week
           /\ Sandbox(x, pf).summary.snapshot = x
           /\ Sandbox(x, pf).orders # <<>> => SignalGate(x) = Eligible
<1> DEFINE target == TargetWeights(x, pf)
           rebalance == target # None /\ RebalanceRequired(x, pf, target)
           sim == IF rebalance THEN SimulateOrders(pf, target)
                  ELSE [cash |-> pf.cash, orders |-> <<>>]
           change == DeltaWeights(pf, target)
           gate == SignalGate(x)
           summaryOf == [week |-> x.week, snapshot |-> x, reason |-> gate,
                         rebalance |-> rebalance, orders |-> Len(sim.orders),
                         before |-> pf.cash, after |-> sim.cash]
<1>1. Sandbox(x, pf) = [target |-> target, delta |-> change, orders |-> sim.orders,
                        summary |-> summaryOf]
  BY DEF Sandbox
<1>2. summaryOf.week = x.week /\ summaryOf.snapshot = x
  OBVIOUS
<1>3. sim.orders # <<>> => rebalance
  OBVIOUS
<1>4. rebalance => SignalGate(x) = Eligible
  BY DEF RebalanceRequired
<1> HIDE DEF target, rebalance, sim, change, gate, summaryOf
<1>5. QED BY <1>1, <1>2, <1>3, <1>4

\* What a started sandbox run holds.
LEMMA StartFacts ==
    ASSUME FilesInv, NamesInv, NewestInv, NEW w \in Weeks, SandboxStart(w)
    PROVE  /\ sandbox'.pc = 1 /\ sandbox'.week = w
           /\ RunRight(sandbox'.run, w)
           /\ sandbox'.run.id = used.sandbox
           /\ sandbox' = [pc |-> sandbox'.pc, week |-> sandbox'.week, run |-> sandbox'.run]
<1> DEFINE x == SandboxSnapshot(w)
           base == Sandbox(x, positions[w])
           run == Write(base, "id", used.sandbox)
<1>1. x # None /\ x # Torn /\ base # None /\ sandbox' = [pc |-> 1, week |-> w, run |-> run]
  BY DEF SandboxStart
<1>2. x \in Snapshots /\ x.week = w
  <2>1. CASE latest = Torn
    BY <1>1, <2>1 DEF SandboxSnapshot
  <2>2. CASE latest \notin {None, Torn} /\ latest.week = w
    BY <2>2 DEF SandboxSnapshot, FilesInv, PublishTypes
  <2>3. CASE latest # Torn /\ ~(latest \notin {None, Torn} /\ latest.week = w)
    <3>1. x = IF HistoryOf(w) = {} THEN None ELSE history[NewestKey(w)]
      BY <2>3 DEF SandboxSnapshot
    <3>2. HistoryOf(w) # {} /\ x = history[NewestKey(w)]
      BY <1>1, <3>1
    <3>3. NewestKey(w) \in DOMAIN history /\ NewestKey(w)[1] = w
      BY <3>2, NewestFacts, ArtifactBounds
    <3> HIDE DEF x
    <3>4. QED BY <1>1, <3>2, <3>3, FileIsItsWeek
  <2>4. QED BY <2>1, <2>2, <2>3
<1>3. /\ "summary" \in DOMAIN base /\ "orders" \in DOMAIN base
      /\ base.summary.week = x.week /\ base.summary.snapshot = x
      /\ base.orders # <<>> => SignalGate(x) = Eligible
  BY <1>1, SandboxFacts
<1> HIDE DEF x, base
<1>4. run.summary = base.summary /\ run.orders = base.orders /\ run.id = used.sandbox
  BY <1>3 DEF Write
<1> HIDE DEF run
<1>5. RunRight(run, w)
  BY <1>2, <1>3, <1>4, EligibleFacts DEF RunRight
<1>6. sandbox'.pc = 1 /\ sandbox'.week = w /\ sandbox'.run = run
  BY <1>1
<1>7. QED BY <1>1, <1>4, <1>5, <1>6

\* Whole files are of runs about the week in their name. The run under way has
\* written its first files, and comes after the run of the latest summary.
RunsInv ==
    /\ used.sandbox \in Nat /\ DOMAIN used = {"sandbox", "digests"}
    /\ sandbox # Idle =>
        /\ sandbox = [pc |-> sandbox.pc, week |-> sandbox.week, run |-> sandbox.run]
        /\ sandbox.pc \in 1 .. 5 /\ sandbox.week \in Weeks
        /\ RunRight(sandbox.run, sandbox.week)
        /\ sandbox.run.id \in Nat /\ sandbox.run.id < used.sandbox
        /\ \A i \in 1 .. 4 : i < sandbox.pc =>
            /\ <<Kinds[i], sandbox.week>> \in DOMAIN artifacts
            /\ artifacts[<<Kinds[i], sandbox.week>>] = sandbox.run
    /\ \A key \in DOMAIN artifacts : artifacts[key] # Torn => RunRight(artifacts[key], key[2])
    /\ runSummary \notin {None, Torn} =>
        /\ runSummary.summary.week \in Weeks
        /\ runSummary.id \in Nat /\ runSummary.id < used.sandbox
        /\ sandbox # Idle => runSummary.id < sandbox.run.id

LEMMA KindFacts ==
    /\ DOMAIN Kinds = 1 .. 4 /\ Len(Kinds) = 4
    /\ \A v, w : \A i, j \in 1 .. 4 : <<Kinds[i], v>> = <<Kinds[j], w>> => i = j /\ v = w
  BY DEF Kinds

LEMMA RunsStep ==
    ASSUME StoreInv, RunsInv, [ArtifactsNext]_artifactVars
    PROVE  RunsInv'
<1>1. ASSUME NEW w \in Weeks, SandboxStart(w) PROVE RunsInv'
  <2>1. /\ sandbox'.pc = 1 /\ sandbox'.week = w
        /\ RunRight(sandbox'.run, w)
        /\ sandbox'.run.id = used.sandbox
        /\ sandbox' = [pc |-> sandbox'.pc, week |-> sandbox'.week, run |-> sandbox'.run]
    BY <1>1, StartFacts DEF StoreInv
  <2>2. used'.sandbox = used.sandbox + 1 /\ DOMAIN used' = DOMAIN used
    BY <1>1 DEF SandboxStart, UseOne, RunsInv
  <2>3. UNCHANGED <<artifacts, runSummary>>
    BY <1>1 DEF SandboxStart
  <2>4. QED BY <2>1, <2>2, <2>3 DEF RunsInv
<1>2. CASE WriteArtifact
  <2> DEFINE key == <<Kinds[sandbox.pc], sandbox.week>>
  <2>1. /\ sandbox # Idle /\ sandbox.pc \in 1 .. 4
        /\ artifacts' = Write(artifacts, key, sandbox.run)
        /\ sandbox' = [sandbox EXCEPT !.pc = @ + 1]
        /\ UNCHANGED <<runSummary, used>>
    BY <1>2, KindFacts DEF WriteArtifact
  <2>2. /\ DOMAIN artifacts' = DOMAIN artifacts \cup {key}
        /\ artifacts'[key] = sandbox.run
        /\ \A k \in DOMAIN artifacts \ {key} : artifacts'[k] = artifacts[k]
    BY <2>1 DEF Write
  <2>3. /\ sandbox'.pc = sandbox.pc + 1 /\ sandbox'.week = sandbox.week /\ sandbox'.run = sandbox.run
        /\ sandbox' = [pc |-> sandbox'.pc, week |-> sandbox'.week, run |-> sandbox'.run]
    BY <2>1 DEF RunsInv
  <2>4. key[2] = sandbox.week
    OBVIOUS
  <2>5. \A i \in 1 .. 4 : <<Kinds[i], sandbox.week>> = key => i = sandbox.pc
    BY <2>1, KindFacts
  <2> HIDE DEF key
  <2>6. \A k \in DOMAIN artifacts' : artifacts'[k] # Torn => RunRight(artifacts'[k], k[2])
    BY <2>1, <2>2, <2>4 DEF RunsInv
  <2>7. \A i \in 1 .. 4 : i < sandbox'.pc =>
            /\ <<Kinds[i], sandbox'.week>> \in DOMAIN artifacts'
            /\ artifacts'[<<Kinds[i], sandbox'.week>>] = sandbox'.run
    <3> SUFFICES ASSUME NEW i \in 1 .. 4, i < sandbox.pc + 1
                 PROVE  /\ <<Kinds[i], sandbox.week>> \in DOMAIN artifacts'
                        /\ artifacts'[<<Kinds[i], sandbox.week>>] = sandbox.run
      BY <2>3
    <3>1. CASE i = sandbox.pc
      BY <2>2, <3>1 DEF key
    <3>2. CASE i < sandbox.pc
      BY <2>1, <2>2, <2>5, <3>2 DEF RunsInv
    <3>3. QED BY <2>1, <3>1, <3>2
  <2>8. QED BY <2>1, <2>3, <2>6, <2>7 DEF RunsInv
<1>3. CASE WriteRunSummary
  BY <1>3 DEF WriteRunSummary, RunsInv, RunRight
<1>4. CASE KillSandbox
  <2>1. sandbox' = Idle /\ used' = used /\ runSummary' \in {runSummary, Torn}
    BY <1>4 DEF KillSandbox
  <2>2. artifacts' = artifacts \/ \E k : artifacts' = Write(artifacts, k, Torn)
    BY <1>4 DEF KillSandbox
  <2>3. \A k \in DOMAIN artifacts' : artifacts'[k] # Torn => RunRight(artifacts'[k], k[2])
    BY <2>2 DEF RunsInv, Write
  <2>4. QED BY <2>1, <2>3 DEF RunsInv
<1>5. ASSUME NEW w \in Weeks, DigestResolve(w) PROVE RunsInv'
  <2>1. used'.sandbox = used.sandbox /\ DOMAIN used' = DOMAIN used
    BY <1>5 DEF DigestResolve, UseOne, RunsInv
  <2>2. UNCHANGED <<sandbox, artifacts, runSummary>>
    BY <1>5 DEF DigestResolve
  <2>3. QED BY <2>1, <2>2 DEF RunsInv
<1>6. CASE UNCHANGED <<sandbox, artifacts, runSummary, used>>
  BY <1>6 DEF RunsInv
<1>7. QED
  BY <1>1, <1>2, <1>3, <1>4, <1>5, <1>6
  DEF ArtifactsNext, OperatorStep, DigestLoad, artifactVars, sandboxVars

LEMMA RunsInit == ArtifactsInit => RunsInv
  BY DEF ArtifactsInit, RunsInv

\* Orders on disk come from a strict, executable, unfrozen snapshot of their own
\* week with all its signals (OrdersNeedSignal), whatever was killed.
THEOREM OrdersHaveSignals == ArtifactsSpec => []OrdersNeedSignal
<1>1. StoreInv /\ RunsInv /\ [ArtifactsNext]_artifactVars => (StoreInv /\ RunsInv)'
  BY StoreStep, RunsStep
<1>2. RunsInv => OrdersNeedSignal
  <2> SUFFICES ASSUME RunsInv, NEW w \in Weeks,
                      <<"orders", w>> \in DOMAIN artifacts, artifacts[<<"orders", w>>] # Torn
               PROVE  RunRight(artifacts[<<"orders", w>>], w)
    BY DEF OrdersNeedSignal, RunRight
  <2>1. <<"orders", w>>[2] = w
    OBVIOUS
  <2>2. QED BY <2>1 DEF RunsInv
<1>3. QED BY StoreInit, RunsInit, <1>1, <1>2, PTL DEF ArtifactsSpec

-----------------------------------------------------------------------------
(* The files of the latest summary                                          *)

\* Nothing forgets a kill.
KillsInv == counts \in [{"live", "publish", "kills", "reads"} -> Nat]

LEMMA KillsStep ==
    ASSUME KillsInv, [ArtifactsNext]_artifactVars
    PROVE  KillsInv' /\ counts'.kills >= counts.kills /\ (KillSandbox => counts'.kills > 0)
<1>1. ASSUME NEW c \in {"live", "publish", "kills", "reads"}, NEW bound, Count(c, bound)
      PROVE  KillsInv' /\ counts'.kills >= counts.kills /\ (c = "kills" => counts'.kills > 0)
  BY <1>1 DEF Count, KillsInv
<1>2. UNCHANGED counts => KillsInv' /\ counts'.kills >= counts.kills
  BY DEF KillsInv
<1>3. CASE OperatorStep
  <2>1. Count("live", MaxLive) \/ Count("kills", MaxKills) \/ Count("publish", MaxPublish)
            \/ UNCHANGED counts
    BY <1>3
    DEF OperatorStep, Tick, LiveRunWritesSummary, KillLiveRun, PublishStart, WriteHistorySnapshot,
        WriteHistoryReport, WriteLatestSnapshot, WriteLatestReport, KillPublisher
  <2>2. sandbox = Idle
    BY <1>3 DEF OperatorStep
  <2>3. QED BY <1>1, <1>2, <2>1, <2>2 DEF KillSandbox
<1>4. CASE KillSandbox
  BY <1>1, <1>4 DEF KillSandbox
<1>5. CASE UNCHANGED counts
  <2>1. KillSandbox => Count("kills", MaxKills)
    BY DEF KillSandbox
  <2>2. QED BY <1>1, <1>2, <1>5, <2>1
<1>6. QED
  BY <1>3, <1>4, <1>5
  DEF ArtifactsNext, SandboxStart, WriteArtifact, WriteRunSummary, DigestResolve, DigestLoad,
      artifactVars, publishVars

\* File i of the week of run s is of s, or of a later one under way or killed.
FileMatches(i, s) ==
    LET key == <<Kinds[i], s.summary.week>> IN
    /\ key \in DOMAIN artifacts
    /\ \/ artifacts[key] = s
       \/ /\ sandbox # Idle \/ counts.kills > 0
          /\ artifacts[key] = Torn \/ artifacts[key].id > s.id

LEMMA SummaryStep ==
    ASSUME StoreInv, RunsInv, KillsInv, SummaryMatchesFiles, [ArtifactsNext]_artifactVars
    PROVE  SummaryMatchesFiles'
<1>1. SummaryMatchesFiles <=> (runSummary \notin {None, Torn} =>
                                 \A i \in DOMAIN Kinds : FileMatches(i, runSummary))
  BY DEF SummaryMatchesFiles, FileMatches
<1>2. SummaryMatchesFiles' <=> (runSummary' \notin {None, Torn} =>
                                  \A i \in DOMAIN Kinds : FileMatches(i, runSummary)')
  BY DEF SummaryMatchesFiles, FileMatches, Kinds
<1>3. DOMAIN Kinds = 1 .. 4 /\ counts.kills \in Nat /\ counts'.kills \in Nat
      /\ counts'.kills >= counts.kills /\ (KillSandbox => counts'.kills > 0)
  BY KindFacts, KillsStep DEF KillsInv
<1>4. CASE WriteRunSummary
  <2>1. /\ sandbox # Idle /\ sandbox.pc = 5 /\ runSummary' = sandbox.run /\ artifacts' = artifacts
    BY <1>4, KindFacts DEF WriteRunSummary
  <2>2. runSummary'.summary.week = sandbox.week
    BY <2>1 DEF RunsInv, RunRight
  <2>3. \A i \in 1 .. 4 : /\ <<Kinds[i], sandbox.week>> \in DOMAIN artifacts
                           /\ artifacts[<<Kinds[i], sandbox.week>>] = sandbox.run
    BY <2>1 DEF RunsInv
  <2>4. \A i \in DOMAIN Kinds : FileMatches(i, runSummary)'
    BY <1>3, <2>1, <2>2, <2>3 DEF FileMatches
  <2>5. QED BY <1>2, <2>4
<1>5. ASSUME ~WriteRunSummary, runSummary' \notin {None, Torn}
      PROVE  runSummary' = runSummary
  BY <1>5
  DEF ArtifactsNext, OperatorStep, SandboxStart, WriteArtifact, KillSandbox, DigestResolve,
      DigestLoad, artifactVars, sandboxVars
<1>6. CASE WriteArtifact
  <2> SUFFICES ASSUME runSummary' \notin {None, Torn}, NEW i \in DOMAIN Kinds
               PROVE  FileMatches(i, runSummary)'
    BY <1>2
  <2>1. /\ sandbox # Idle
        /\ artifacts' = Write(artifacts, <<Kinds[sandbox.pc], sandbox.week>>, sandbox.run)
        /\ sandbox' = [sandbox EXCEPT !.pc = @ + 1]
        /\ UNCHANGED <<runSummary, counts>>
    BY <1>6 DEF WriteArtifact, publishVars
  <2>2. sandbox.run.id > runSummary.id
    BY <2>1 DEF RunsInv
  <2>3. sandbox' # Idle
    <3>1. "week" \in DOMAIN sandbox'
      BY <2>1 DEF RunsInv
    <3>2. "week" \notin DOMAIN Idle
      BY DEF Idle
    <3>3. QED BY <3>1, <3>2
  <2>4. FileMatches(i, runSummary)
    BY <1>1, <2>1
  <2> DEFINE key == <<Kinds[i], runSummary.summary.week>>
             new == <<Kinds[sandbox.pc], sandbox.week>>
  <2>5. /\ key \in DOMAIN artifacts'
        /\ artifacts'[key] = IF key = new THEN sandbox.run ELSE artifacts[key]
    BY <2>1, <2>4 DEF FileMatches, Write
  <2>6. artifacts'[key] = runSummary \/ artifacts'[key] = Torn \/ artifacts'[key].id > runSummary.id
    BY <2>2, <2>4, <2>5 DEF FileMatches
  <2>7. QED BY <2>1, <2>3, <2>5, <2>6 DEF FileMatches
<1>7. CASE KillSandbox
  <2> SUFFICES ASSUME runSummary' \notin {None, Torn}, NEW i \in DOMAIN Kinds
               PROVE  FileMatches(i, runSummary)'
    BY <1>2
  <2>1. runSummary' = runSummary
    BY <1>7 DEF KillSandbox
  <2>2. FileMatches(i, runSummary)
    BY <1>1, <2>1
  <2>3. artifacts' = artifacts \/ \E k : artifacts' = Write(artifacts, k, Torn)
    BY <1>7 DEF KillSandbox
  <2> DEFINE key == <<Kinds[i], runSummary.summary.week>>
  <2>4. key \in DOMAIN artifacts' /\ artifacts'[key] \in {artifacts[key], Torn}
    BY <2>2, <2>3 DEF FileMatches, Write
  <2>5. QED BY <1>3, <1>7, <2>1, <2>2, <2>4 DEF FileMatches
<1>8. CASE UNCHANGED artifacts /\ ~WriteRunSummary /\ (sandbox # Idle => sandbox' # Idle)
  <2> SUFFICES ASSUME runSummary' \notin {None, Torn}, NEW i \in DOMAIN Kinds
               PROVE  FileMatches(i, runSummary)'
    BY <1>2
  <2>1. runSummary' = runSummary
    BY <1>5, <1>8
  <2>2. FileMatches(i, runSummary)
    BY <1>1, <2>1
  <2>3. QED BY <1>3, <1>8, <2>1, <2>2 DEF FileMatches
<1>9. QED
  BY <1>4, <1>6, <1>7, <1>8
  DEF ArtifactsNext, OperatorStep, SandboxStart, DigestResolve, DigestLoad, artifactVars, sandboxVars

\* The files of the week of the latest summary are of its run, or of a later one
\* that is under way or was killed (SummaryMatchesFiles).
THEOREM SummaryHasItsFiles == ArtifactsSpec => []SummaryMatchesFiles
<1>1. ArtifactsInit => StoreInv /\ RunsInv /\ KillsInv /\ SummaryMatchesFiles
  <2>1. ArtifactsInit => KillsInv
    BY DEF ArtifactsInit, PublishInit, KillsInv
  <2>2. ArtifactsInit => SummaryMatchesFiles
    BY DEF ArtifactsInit, SummaryMatchesFiles
  <2>3. QED BY <2>1, <2>2, StoreInit, RunsInit
<1>2. StoreInv /\ RunsInv /\ KillsInv /\ SummaryMatchesFiles /\ [ArtifactsNext]_artifactVars
        => (StoreInv /\ RunsInv /\ KillsInv /\ SummaryMatchesFiles)'
  BY StoreStep, RunsStep, KillsStep, SummaryStep
<1>3. QED BY <1>1, <1>2, PTL DEF ArtifactsSpec

-----------------------------------------------------------------------------
(* Sandbox orders                                                           *)

\* The orders Order makes.
Orders == [symbol : SymbolSet, side : {"SELL", "BUY"}, notional : Nat, cost : Nat]

\* What the orders bring and take: amount is a function of an order.
Total(orders, amount) == SumFunction([i \in DOMAIN orders |-> amount[orders[i]]])

\* An order more.
LEMMA TotalFacts ==
    ASSUME NEW amount \in [Orders -> Int]
    PROVE  /\ Total(<<>>, amount) = 0
           /\ \A orders \in Seq(Orders) : Total(orders, amount) \in Int
           /\ \A orders \in Seq(Orders), o \in Orders :
                Total(Append(orders, o), amount) = Total(orders, amount) + amount[o]
<1>1. \A orders : Total(orders, amount)
            = SumFunctionOnSet([i \in DOMAIN orders |-> amount[orders[i]]], DOMAIN orders)
  BY DEF Total, SumFunction
<1>2. ASSUME NEW orders \in Seq(Orders)
      PROVE  IsSummable([i \in DOMAIN orders |-> amount[orders[i]]], DOMAIN orders)
  <2>1. DOMAIN orders = 1 .. Len(orders) /\ Len(orders) \in Nat
    OBVIOUS
  <2>2. IsFiniteSet(DOMAIN orders)
    BY <2>1, FS_Interval
  <2>3. QED BY <2>1, <2>2 DEF IsSummable
<1>3. Total(<<>>, amount) = 0
  <2>1. <<>> \in Seq(Orders) /\ DOMAIN <<>> = {}
    OBVIOUS
  <2>2. QED BY <1>1, <1>2, <2>1, SumFacts
<1>4. ASSUME NEW orders \in Seq(Orders) PROVE Total(orders, amount) \in Int
  <2> DEFINE f == [i \in DOMAIN orders |-> amount[orders[i]]]
             D == DOMAIN orders
  <2>1. IsSummable(f, D) /\ Total(orders, amount) = SumFunctionOnSet(f, D)
    BY <1>1, <1>2
  <2> HIDE DEF f, D
  <2>2. QED BY <2>1, SumFacts
<1>5. ASSUME NEW orders \in Seq(Orders), NEW o \in Orders
      PROVE  Total(Append(orders, o), amount) = Total(orders, amount) + amount[o]
  <2> DEFINE more == Append(orders, o)
             n == Len(orders)
             f == [i \in DOMAIN orders |-> amount[orders[i]]]
             g == [i \in DOMAIN more |-> amount[more[i]]]
  <2>1. /\ n \in Nat /\ more \in Seq(Orders) /\ DOMAIN orders = 1 .. n /\ DOMAIN more = 1 .. (n + 1)
        /\ more[n + 1] = o /\ \A i \in 1 .. n : more[i] = orders[i]
    OBVIOUS
  <2> HIDE DEF more, n
  <2>2. DOMAIN more = (1 .. n) \cup {n + 1} /\ n + 1 \notin 1 .. n /\ n + 1 \in DOMAIN more
    BY <2>1
  <2>3. IsSummable(f, 1 .. n) /\ IsSummable(g, DOMAIN more)
    BY <1>2, <2>1
  <2>4. \A i \in 1 .. n : g[i] = f[i]
    BY <2>1, <2>2
  <2>5. g[n + 1] = amount[o]
    BY <2>1, <2>2
  <2> HIDE DEF f, g
  <2>6. SumFunctionOnSet(g, 1 .. n) = SumFunctionOnSet(f, 1 .. n)
    BY <2>3, <2>4, SumsAgree
  <2>7. SumFunctionOnSet(g, DOMAIN more) = SumFunctionOnSet(g, 1 .. n) + g[n + 1]
    <3> DEFINE D == DOMAIN more
               s == 1 .. n
               x == n + 1
    <3>1. s \in SUBSET D /\ x \in D /\ x \notin s /\ s \cup {x} = D /\ IsSummable(g, D)
      BY <2>2, <2>3
    <3> HIDE DEF D, s, x
    <3>2. SumFunctionOnSet(g, s \cup {x}) = SumFunctionOnSet(g, s) + g[x]
      BY <3>1, SumFacts
    <3>3. QED BY <3>1, <3>2 DEF D, s, x
  <2>8. /\ Total(orders, amount) = SumFunctionOnSet(f, 1 .. n)
        /\ Total(more, amount) = SumFunctionOnSet(g, DOMAIN more)
    BY <1>1, <2>1 DEF f, g
  <2>9. Total(more, amount) = Total(orders, amount) + amount[o]
    BY <2>5, <2>6, <2>7, <2>8
  <2>10. QED BY <2>9 DEF more
<1>6. QED BY <1>3, <1>4, <1>5

\* What an order adds to one side, and what it costs.
SideOf(side) == [o \in Orders |-> IF o.side = side THEN o.notional ELSE 0]
CostOf == [o \in Orders |-> o.cost]

\* The cash and the orders simulated so far: the orders are paid, and the cash
\* is what they leave of before.
Paid(before) ==
    {acc \in [cash : Nat, orders : Seq(Orders)] :
        acc.cash = before + Total(acc.orders, SideOf("SELL"))
                    - Total(acc.orders, SideOf("BUY")) - Total(acc.orders, CostOf)}

\* Nothing ordered, nothing spent.
LEMMA PaidStart ==
    ASSUME NEW cash \in Nat
    PROVE  [cash |-> cash, orders |-> <<>>] \in Paid(cash)
<1>1. /\ SideOf("SELL") \in [Orders -> Int] /\ SideOf("BUY") \in [Orders -> Int]
      /\ CostOf \in [Orders -> Int]
  BY DEF SideOf, CostOf, Orders
<1>2. Total(<<>>, SideOf("SELL")) = 0 /\ Total(<<>>, SideOf("BUY")) = 0 /\ Total(<<>>, CostOf) = 0
  BY <1>1, TotalFacts
<1>3. QED BY <1>2 DEF Paid

\* An order that the cash pays for.
LEMMA PaidMore ==
    ASSUME NEW before \in Nat, NEW acc \in Paid(before), NEW o \in Orders, NEW left \in Nat,
           left = acc.cash + (IF o.side = "SELL" THEN o.notional ELSE -o.notional) - o.cost
    PROVE  [cash |-> left, orders |-> Append(acc.orders, o)] \in Paid(before)
<1>1. /\ SideOf("SELL") \in [Orders -> Int] /\ SideOf("BUY") \in [Orders -> Int]
      /\ CostOf \in [Orders -> Int]
  BY DEF SideOf, CostOf, Orders
<1>2. /\ acc.cash \in Nat /\ acc.orders \in Seq(Orders)
      /\ acc.cash = before + Total(acc.orders, SideOf("SELL"))
                    - Total(acc.orders, SideOf("BUY")) - Total(acc.orders, CostOf)
  BY DEF Paid
<1> DEFINE more == Append(acc.orders, o)
<1>3. /\ Total(more, SideOf("SELL")) = Total(acc.orders, SideOf("SELL")) + SideOf("SELL")[o]
      /\ Total(more, SideOf("BUY")) = Total(acc.orders, SideOf("BUY")) + SideOf("BUY")[o]
      /\ Total(more, CostOf) = Total(acc.orders, CostOf) + CostOf[o]
  BY <1>1, <1>2, TotalFacts
<1>4. /\ SideOf("SELL")[o] = (IF o.side = "SELL" THEN o.notional ELSE 0)
      /\ SideOf("BUY")[o] = (IF o.side = "BUY" THEN o.notional ELSE 0)
      /\ CostOf[o] = o.cost
      /\ o.notional \in Nat /\ o.cost \in Nat /\ o.side \in {"SELL", "BUY"}
  BY DEF SideOf, CostOf, Orders
<1>5. /\ Total(acc.orders, SideOf("SELL")) \in Int /\ Total(acc.orders, SideOf("BUY")) \in Int
      /\ Total(acc.orders, CostOf) \in Int
  BY <1>1, <1>2, TotalFacts
<1>6. more \in Seq(Orders)
  BY <1>2
<1> HIDE DEF more
<1>7. left = before + Total(more, SideOf("SELL")) - Total(more, SideOf("BUY")) - Total(more, CostOf)
  <2>1. CASE o.side = "SELL"
    <3>1. left = acc.cash + o.notional - o.cost
      BY <2>1, <1>2, <1>4
    <3>2. SideOf("SELL")[o] = o.notional /\ SideOf("BUY")[o] = 0
      BY <2>1, <1>4
    <3> DEFINE sold == Total(acc.orders, SideOf("SELL"))
               bought == Total(acc.orders, SideOf("BUY"))
               cost == Total(acc.orders, CostOf)
    <3>3. /\ Total(more, SideOf("SELL")) = sold + o.notional /\ Total(more, SideOf("BUY")) = bought + 0
          /\ Total(more, CostOf) = cost + o.cost
      BY <3>2, <1>3, <1>4
    <3>4. sold \in Int /\ bought \in Int /\ cost \in Int /\ acc.cash = before + sold - bought - cost
      BY <1>2, <1>5
    <3>5. o.notional \in Int /\ o.cost \in Int /\ before \in Int
      BY <1>4
    <3> HIDE DEF sold, bought, cost
    <3>6. QED BY <3>1, <3>3, <3>4, <3>5
  <2>2. CASE o.side = "BUY"
    <3>1. left = acc.cash - o.notional - o.cost
      BY <2>2, <1>2, <1>4
    <3>2. SideOf("SELL")[o] = 0 /\ SideOf("BUY")[o] = o.notional
      BY <2>2, <1>4
    <3> DEFINE sold == Total(acc.orders, SideOf("SELL"))
               bought == Total(acc.orders, SideOf("BUY"))
               cost == Total(acc.orders, CostOf)
    <3>3. /\ Total(more, SideOf("SELL")) = sold + 0 /\ Total(more, SideOf("BUY")) = bought + o.notional
          /\ Total(more, CostOf) = cost + o.cost
      BY <3>2, <1>3, <1>4
    <3>4. sold \in Int /\ bought \in Int /\ cost \in Int /\ acc.cash = before + sold - bought - cost
      BY <1>2, <1>5
    <3>5. o.notional \in Int /\ o.cost \in Int /\ before \in Int
      BY <1>4
    <3> HIDE DEF sold, bought, cost
    <3>6. QED BY <3>1, <3>3, <3>4, <3>5
  <2>3. QED BY <1>4, <2>1, <2>2
<1>8. [cash |-> left, orders |-> more] \in Paid(before)
  BY <1>6, <1>7 DEF Paid
<1>9. QED BY <1>8 DEF more

\* A product grows with its factor.
LEMMA TimesLarger ==
    ASSUME NEW a \in Nat, NEW b \in Int, NEW c \in Int, b <= c
    PROVE  a * b \in Int /\ a * c \in Int /\ a * b <= a * c
<1>1. a * (c - b) \in Nat
  <2>1. c - b \in Nat
    OBVIOUS
  <2>2. QED BY <2>1
<1>2. a * (c - b) = a * c - a * b /\ a * b \in Int /\ a * c \in Int
  OBVIOUS
<1>3. QED BY <1>1, <1>2

\* Division rounds down.
LEMMA DivFacts ==
    ASSUME NEW a \in Int, NEW d \in Nat \ {0}
    PROVE  a \div d \in Int /\ (a \div d) * d \in Int /\ (a \div d) * d <= a /\ (a >= 0 => a \div d >= 0)
  OBVIOUS

\* A quotient of what q whole ones hold is at most q.
LEMMA DivAtMost ==
    ASSUME NEW a \in Int, NEW q \in Int, a <= q * Full
    PROVE  a \div Full \in Int /\ a \div Full <= q
  BY DEF Full

\* estimate_slippage_cost: at most the notional from the smallest order on
\* (FrictionAssumption), and at most what is left for it.
LEMMA CostFacts ==
    ASSUME NEW n \in Nat
    PROVE  /\ SlippageCost(n) \in Nat
           /\ n >= Policy.minNotional => SlippageCost(n) <= n
           /\ \A q \in Int : n * Policy.slippageBps <= q * Full
                => SlippageCost(n) <= q + Policy.commission
<1> DEFINE slip == Policy.slippageBps
           com == Policy.commission
           least == Policy.minNotional
<1>1. /\ slip \in Nat /\ com \in Nat /\ least \in Nat /\ slip <= Full /\ Full \in Nat \ {0}
      /\ com * Full <= (Full - slip) * least
  <2>1. Full \in Nat \ {0}
    BY DEF Full
  <2>2. slip \in Nat /\ com \in Nat /\ least \in Nat /\ slip <= Full
    BY FrictionAssumption, <2>1
  <2>3. com * Full <= (Full - slip) * least
    BY FrictionAssumption, Zenon
  <2>4. QED BY <2>1, <2>2, <2>3
<1>2. SlippageCost(n) = (n * slip) \div Full + com
  BY DEF SlippageCost
<1> HIDE DEF slip, com, least
<1>3. n * slip \in Nat
  BY <1>1
<1>4. (n * slip) \div Full \in Nat
  BY <1>1, <1>3, DivFacts
<1>5. ASSUME n >= least PROVE n * slip <= (n - com) * Full
  <2>1. (Full - slip) * least <= (Full - slip) * n
    BY <1>1, <1>5, TimesLarger
  <2>2. (Full - slip) * n = Full * n - n * slip /\ (n - com) * Full = Full * n - com * Full
    BY <1>1
  <2>3. com * Full \in Int /\ (Full - slip) * least \in Int /\ Full * n \in Int
    BY <1>1
  <2>4. QED BY <1>1, <1>3, <2>1, <2>2, <2>3
<1>6. ASSUME NEW q \in Int, n * slip <= q * Full
      PROVE  (n * slip) \div Full <= q
  BY <1>3, <1>6, DivAtMost
<1>7. n >= least => (n * slip) \div Full <= n - com
  BY <1>1, <1>5, <1>6
<1>8. QED
  <2>1. SlippageCost(n) \in Nat
    BY <1>1, <1>2, <1>4
  <2>2. n >= least => SlippageCost(n) <= n
    BY <1>1, <1>2, <1>4, <1>7
  <2>3. \A q \in Int : n * slip <= q * Full => SlippageCost(n) <= q + com
    BY <1>1, <1>2, <1>4, <1>6
  <2>4. QED BY <2>1, <2>2, <2>3 DEF slip, com, least

\* A sale brings more than it costs.
LEMMA SellPaid ==
    ASSUME NEW before \in Nat, NEW acc \in Paid(before), NEW s \in SymbolSet, NEW wanted \in Nat
    PROVE  SimulateSell(s, wanted, acc) \in Paid(before)
<1>1. CASE wanted < Policy.minNotional
  BY <1>1 DEF SimulateSell
<1>2. CASE ~(wanted < Policy.minNotional)
  <2> DEFINE o == Order(s, "SELL", wanted)
             left == acc.cash + o.notional - o.cost
  <2>1. o = [symbol |-> s, side |-> "SELL", notional |-> wanted, cost |-> SlippageCost(wanted)]
    BY DEF Order
  <2>2. SlippageCost(wanted) \in Nat /\ SlippageCost(wanted) <= wanted
    BY <1>2, CostFacts, FrictionAssumption
  <2>3. o \in Orders /\ o.side = "SELL" /\ o.notional = wanted /\ o.cost = SlippageCost(wanted)
    BY <2>1, <2>2 DEF Orders
  <2>4. acc.cash \in Nat
    BY DEF Paid
  <2>5. SimulateSell(s, wanted, acc) = [cash |-> left, orders |-> Append(acc.orders, o)]
    BY <1>2 DEF SimulateSell
  <2> HIDE DEF o
  <2>6. left \in Nat
    BY <2>2, <2>3, <2>4
  <2>7. left = acc.cash + (IF o.side = "SELL" THEN o.notional ELSE -o.notional) - o.cost
    BY <2>3
  <2> HIDE DEF left
  <2>8. QED BY <2>3, <2>5, <2>6, <2>7, PaidMore
<1>3. QED BY <1>1, <1>2

\* A purchase is cut to what the cash pays, friction included, so the
\* max(0, cash) after it never bites.
LEMMA BuyPaid ==
    ASSUME NEW before \in Nat, NEW acc \in Paid(before), NEW s \in SymbolSet, NEW wanted \in Nat
    PROVE  SimulateBuy(s, wanted, acc) \in Paid(before)
<1> DEFINE slip == Policy.slippageBps
           com == Policy.commission
           least == Policy.minNotional
           F == Full + slip + Policy.frictionBufferBps
           room == ((acc.cash - com) * Full) \div F
           affordable == IF room < 0 THEN 0 ELSE room
           actual == IF wanted < affordable THEN wanted ELSE affordable
           o == Order(s, "BUY", actual)
           left == acc.cash - o.notional - o.cost
<1>1. SimulateBuy(s, wanted, acc) =
        IF actual < least THEN acc
        ELSE [cash |-> IF left < 0 THEN 0 ELSE left, orders |-> Append(acc.orders, o)]
  BY DEF SimulateBuy
<1>2. CASE actual < least
  BY <1>1, <1>2
<1>3. CASE ~(actual < least)
  <2>1. /\ slip \in Nat /\ com \in Nat /\ least \in Nat /\ slip <= Full /\ Full \in Nat \ {0}
        /\ Policy.frictionBufferBps \in Nat
        /\ com * Full <= (Full - slip) * least
    <3>1. Full \in Nat \ {0}
      BY DEF Full
    <3>2. slip \in Nat /\ com \in Nat /\ least \in Nat /\ slip <= Full /\ Policy.frictionBufferBps \in Nat
      BY FrictionAssumption, <3>1
    <3>3. com * Full <= (Full - slip) * least
      BY FrictionAssumption, Zenon
    <3>4. QED BY <3>1, <3>2, <3>3
  <2>2. acc.cash \in Nat
    BY DEF Paid
  <2>3. F \in Nat \ {0} /\ F >= Full + slip
    BY <2>1
  <2>4. (acc.cash - com) * Full \in Int
    BY <2>1, <2>2
  <2> HIDE DEF F
  <2>5. room \in Int /\ room * F \in Int /\ room * F <= (acc.cash - com) * Full
    BY <2>3, <2>4, DivFacts
  <2>6. acc.cash - com >= 0 => room >= 0
    <3>1. acc.cash - com >= 0 => (acc.cash - com) * Full >= 0
      BY <2>1, <2>2
    <3>2. QED BY <2>3, <2>4, <3>1, DivFacts
  <2> HIDE DEF room
  <2>7. actual \in Nat /\ actual <= affordable /\ affordable \in Nat
    BY <2>5
  <2>8. room >= 0 /\ actual <= room
    <3>1. CASE room >= 0
      BY <2>5, <2>7, <3>1
    <3>2. CASE room < 0
      <4>1. actual = 0 /\ least = 0
        BY <1>3, <2>1, <2>5, <3>2
      <4>2. com * Full <= 0
        BY <2>1, <4>1
      <4>3. com = 0
        BY <2>1, <4>2 DEF Full
      <4>4. QED BY <2>2, <2>5, <2>6, <3>2, <4>3
    <3>3. QED BY <2>5, <3>1, <3>2
  <2> HIDE DEF actual
  <2>9. actual * slip <= (acc.cash - com - actual) * Full
    <3>1. F * actual <= F * room
      BY <2>3, <2>5, <2>7, <2>8, TimesLarger
    <3>2. actual * (Full + slip) <= actual * F
      BY <2>1, <2>3, <2>7, TimesLarger
    <3>3. F * actual = actual * F /\ F * room = room * F /\ actual * F \in Int
      BY <2>3, <2>5, <2>7
    <3>4. actual * (Full + slip) = actual * Full + actual * slip
      BY <2>1, <2>7
    <3>5. (acc.cash - com - actual) * Full = (acc.cash - com) * Full - actual * Full
      BY <2>1, <2>2, <2>7
    <3>6. actual * Full \in Int /\ actual * slip \in Int
      BY <2>1, <2>7
    <3>7. QED BY <2>4, <2>5, <3>1, <3>2, <3>3, <3>4, <3>5, <3>6
  <2>10. SlippageCost(actual) \in Nat /\ SlippageCost(actual) <= acc.cash - actual
    <3>1. acc.cash - com - actual \in Int
      BY <2>1, <2>2, <2>7
    <3>2. SlippageCost(actual) \in Nat /\ SlippageCost(actual) <= (acc.cash - com - actual) + com
      BY <2>7, <2>9, <3>1, CostFacts
    <3>3. QED BY <2>1, <2>2, <2>7, <3>2
  <2>11. o = [symbol |-> s, side |-> "BUY", notional |-> actual, cost |-> SlippageCost(actual)]
    BY DEF Order
  <2>12. o \in Orders /\ o.side = "BUY" /\ o.notional = actual /\ o.cost = SlippageCost(actual)
    BY <2>7, <2>10, <2>11 DEF Orders
  <2> HIDE DEF o
  <2>13. left \in Nat
    BY <2>2, <2>7, <2>10, <2>12
  <2>14. left = acc.cash + (IF o.side = "SELL" THEN o.notional ELSE -o.notional) - o.cost
    BY <2>2, <2>7, <2>10, <2>12
  <2> HIDE DEF left
  <2>15. SimulateBuy(s, wanted, acc) = [cash |-> left, orders |-> Append(acc.orders, o)]
    <3>1. (IF left < 0 THEN 0 ELSE left) = left
      BY <2>13
    <3>2. QED BY <1>1, <1>3, <3>1, Zenon
  <2>16. QED BY <2>12, <2>13, <2>14, <2>15, PaidMore
<1>4. QED BY <1>2, <1>3

\* SimulateSide as it unfolds: what is made of one asset, and of each part of them.
StepOf(side, pf, target, acc, s) ==
    CASE side = "SELL" /\ DeltaWeights(pf, target)[s] < 0 ->
            SimulateSell(s, DesiredNotional(pf, target, s), acc)
      [] side = "BUY" /\ DeltaWeights(pf, target)[s] > 0 ->
            SimulateBuy(s, DesiredNotional(pf, target, s), acc)
      [] OTHER -> acc

Simulated(g, side, pf, target, start) ==
    [s \in SUBSET DOMAIN Policy.symbols |->
        IF s = {} THEN start
        ELSE StepOf(side, pf, target, g[s \ {Max(s)}], Policy.symbols[Max(s)])]

\* SimulateSide is that at all assets.
LEMMA SideUnfolds ==
    ASSUME NEW side, NEW pf, NEW target, NEW start
    PROVE  SimulateSide(side, pf, target, start)
            = (CHOOSE g : g = Simulated(g, side, pf, target, start))[DOMAIN Policy.symbols]
  BY Zenon DEF SimulateSide, FoldLeft, MapThenFoldSet, Simulated, StepOf

\* One side of the orders (simulate_orders) is paid for, by induction over the
\* assets.
LEMMA SidePaid ==
    ASSUME NEW side, NEW pf, NEW target, NEW before \in Nat, NEW start \in Paid(before),
           \A s \in SymbolSet : DesiredNotional(pf, target, s) \in Nat
    PROVE  SimulateSide(side, pf, target, start) \in Paid(before)
<1> DEFINE D == DOMAIN Policy.symbols
           V == Paid(before)
           ch == [s \in SUBSET D |-> Max(s)]
           st == [s \in SUBSET D |-> [v \in V |->
                    IF s = {} THEN v ELSE StepOf(side, pf, target, v, Policy.symbols[Max(s)])]]
           n == Len(Policy.symbols)
<1>1. n \in Nat /\ D = 1 .. n /\ \A i \in D : Policy.symbols[i] \in SymbolSet
  <2>1. Policy.symbols \in Seq(STRING)
    BY PolicyAssumption DEF PolicyAccepted
  <2>2. n \in Nat /\ D = 1 .. n
    BY <2>1
  <2>3. \A i \in D : Policy.symbols[i] \in SymbolSet
    BY DEF SymbolSet, Range
  <2>4. QED BY <2>2, <2>3
<1> HIDE DEF n
<1>2. IsFiniteSet(D)
  BY <1>1, FS_Interval
<1>3. ASSUME NEW s \in SUBSET D, s # {} PROVE Max(s) \in s
  BY <1>1, <1>3, MaxFacts
<1>4. Chooses(ch, D)
  BY <1>3 DEF Chooses
<1>5. ASSUME NEW v \in V, NEW s \in SymbolSet PROVE StepOf(side, pf, target, v, s) \in V
  <2>1. CASE side = "SELL" /\ DeltaWeights(pf, target)[s] < 0
    BY <2>1, SellPaid DEF StepOf
  <2>2. CASE side = "BUY" /\ DeltaWeights(pf, target)[s] > 0
    BY <2>2, BuyPaid DEF StepOf
  <2>3. CASE ~(side = "SELL" /\ DeltaWeights(pf, target)[s] < 0)
                /\ ~(side = "BUY" /\ DeltaWeights(pf, target)[s] > 0)
    BY <2>3, Zenon DEF StepOf
  <2>4. QED BY <2>1, <2>2, <2>3
<1> HIDE DEF V
<1>6. Keeps(st, D, V)
  BY <1>1, <1>3, <1>5 DEF Keeps
<1>7. PICK h \in [SUBSET D -> V] : Recurs(h, D, ch, start, st)
  <2> HIDE DEF D, ch, st
  <2>1. start \in V
    BY DEF V
  <2>2. QED BY <1>2, <1>4, <1>6, <2>1, SubsetRecursion
<1>8. h = Simulated(h, side, pf, target, start)
  <2>1. ASSUME NEW s \in SUBSET D, s # {}
        PROVE  h[s] = StepOf(side, pf, target, h[s \ {Max(s)}], Policy.symbols[Max(s)])
    <3>1. s \ {Max(s)} \in SUBSET D
      OBVIOUS
    <3>2. h[s] = st[s][h[s \ {ch[s]}]]
      BY <1>7, <2>1 DEF Recurs
    <3>3. h[s \ {Max(s)}] \in V
      BY <1>7, <3>1
    <3>4. QED BY <2>1, <3>2, <3>3
  <2>2. {} \in SUBSET D
    OBVIOUS
  <2>3. h[{}] = start
    BY <1>7, <2>2 DEF Recurs
  <2>4. QED BY <1>7, <2>1, <2>3 DEF Simulated
<1> DEFINE g == CHOOSE f : f = Simulated(f, side, pf, target, start)
<1>9. g = Simulated(g, side, pf, target, start)
  BY <1>8
<1> HIDE DEF g
<1>10. \A s \in SUBSET D :
        g[s] = IF s = {} THEN start
               ELSE StepOf(side, pf, target, g[s \ {Max(s)}], Policy.symbols[Max(s)])
  BY <1>9 DEF Simulated
<1> DEFINE P == {s \in SUBSET D : g[s] \in V}
<1>11. Inductive(P, D, ch)
  <2>1. {} \in SUBSET D
    OBVIOUS
  <2>2. g[{}] = start
    BY <1>10, <2>1, Zenon
  <2>3. {} \in P
    BY <2>1, <2>2 DEF V
  <2>4. ASSUME NEW s \in SUBSET D, s # {}, s \ {ch[s]} \in P PROVE s \in P
    <3>1. g[s \ {Max(s)}] \in V /\ Max(s) \in D
      BY <1>3, <2>4
    <3>2. g[s] = StepOf(side, pf, target, g[s \ {Max(s)}], Policy.symbols[Max(s)])
      BY <1>10, <2>4, Zenon
    <3>3. QED BY <1>1, <1>5, <3>1, <3>2
  <2>5. QED BY <2>3, <2>4 DEF Inductive
<1>12. SUBSET D \subseteq P
  <2> HIDE DEF D, ch, P
  <2>1. QED BY <1>2, <1>4, <1>11, SubsetInduction
<1>13. g[D] \in V
  BY <1>12
<1>14. SimulateSide(side, pf, target, start) = g[D]
  BY SideUnfolds DEF g
<1>15. QED BY <1>13, <1>14 DEF V

LEMMA SymbolsFinite == IsFiniteSet(SymbolSet)
<1>1. Policy.symbols \in Seq(STRING)
  BY PolicyAssumption DEF PolicyAccepted
<1> DEFINE n == Len(Policy.symbols)
<1>2. n \in Nat /\ DOMAIN Policy.symbols = 1 .. n
  BY <1>1
<1>3. Policy.symbols \in Surjection(1 .. n, SymbolSet)
  BY <1>1, <1>2 DEF Surjection, SymbolSet, Range
<1>4. IsFiniteSet(1 .. n)
  BY <1>2, FS_Interval
<1>5. QED BY <1>3, <1>4, FS_Surjection

LEMMA ProductNat == ASSUME NEW a \in Nat, NEW b \in Nat PROVE a * b \in Nat
  OBVIOUS

\* _desired_notional is a number that is not negative.
LEMMA NotionalFacts ==
    ASSUME NEW pf, PortfolioAccepted(pf), NEW target,
           \A s \in SymbolSet : target[s] \in Int
    PROVE  \A s \in SymbolSet : DesiredNotional(pf, target, s) \in Nat
<1>1. Nav(pf) \in Nat
  <2> DEFINE f == [s \in DOMAIN pf.rows |-> pf.rows[s].value]
             D == DOMAIN pf.rows
  <2>1. IsFiniteSet(D)
    BY SymbolsFinite, FS_Subset DEF PortfolioAccepted
  <2>2. IsSummable(f, D)
    BY <2>1 DEF IsSummable, PortfolioAccepted
  <2>3. Nav(pf) = SumFunctionOnSet(f, D) + pf.cash
    BY DEF Nav, SumFunction
  <2> HIDE DEF f, D
  <2>4. SumFunctionOnSet(f, D) \in Int
    BY <2>2, SumFacts
  <2>5. QED BY <2>3, <2>4 DEF PortfolioAccepted
<1>2. ASSUME NEW s \in SymbolSet PROVE DesiredNotional(pf, target, s) \in Nat
  <2> DEFINE d == DeltaWeights(pf, target)[s]
             a == Abs(d)
  <2>1. WeightIn(pf, s) \in Int
    BY DEF WeightIn, PortfolioAccepted
  <2>2. d \in Int
    BY <2>1 DEF DeltaWeights
  <2> HIDE DEF d
  <2>3. a \in Nat
    BY <2>2 DEF Abs
  <2> HIDE DEF a
  <2>4. a * Nav(pf) \in Nat /\ Full \in Nat \ {0}
    BY <1>1, <2>3, ProductNat DEF Full
  <2>5. (a * Nav(pf)) \div Full \in Nat
    BY <2>4, DivFacts
  <2>6. QED BY <2>5 DEF DesiredNotional, a, d
<1>3. QED BY <1>2

\* The target weights of a run that has some.
LEMMA TargetFacts ==
    ASSUME NEW x, NEW pf, PortfolioAccepted(pf), TargetWeights(x, pf) # None
    PROVE  \A s \in SymbolSet : TargetWeights(x, pf)[s] \in Int
<1> DEFINE bucket == LocateRhoBucket(x.rho_t)
           hit == {i \in DOMAIN Policy.buckets : InBucket(Policy.buckets[i], x.rho_t)}
           first == CHOOSE i \in hit : \A j \in hit : i <= j
<1>1. CASE SignalGate(x) = Eligible
  <2>1. bucket # None /\ TargetWeights(x, pf) = Policy.weights[bucket]
    BY <1>1 DEF TargetWeights
  <2>2. hit # {} /\ bucket = Policy.buckets[first].name
    BY <2>1 DEF LocateRhoBucket
  <2>3. hit \in SUBSET Nat
    <3>1. Policy.buckets \in Seq(Range(Policy.buckets))
      BY PolicyAssumption DEF PolicyAccepted, BucketsAccepted
    <3>2. DOMAIN Policy.buckets = 1 .. Len(Policy.buckets) /\ Len(Policy.buckets) \in Nat
      BY <3>1
    <3>3. QED BY <3>2
  <2>4. first \in DOMAIN Policy.buckets
    <3>1. \E i \in hit : \A j \in hit : i <= j
      <4> HIDE DEF hit
      <4>1. QED BY <2>2, <2>3, Least
    <3>2. first \in hit
      <4> HIDE DEF hit
      <4>1. QED BY <3>1
    <3>3. QED BY <3>2
  <2> HIDE DEF first, bucket
  <2>5. Policy.weights[Policy.buckets[first].name] \in [SymbolSet -> 0 .. Policy.singleMax]
    BY <2>4, PolicyAssumption DEF PolicyAccepted, SymbolSet
  <2>6. QED BY <2>1, <2>2, <2>5
<1>2. CASE SignalGate(x) # Eligible
  <2>1. TargetWeights(x, pf) = [s \in SymbolSet |-> WeightIn(pf, s)]
    BY <1>2 DEF TargetWeights
  <2>2. \A s \in SymbolSet : WeightIn(pf, s) \in Int
    BY DEF WeightIn, PortfolioAccepted
  <2>3. QED BY <2>1, <2>2
<1>3. QED BY <1>1, <1>2

\* The cash a run reports is what its orders leave of the cash before them.
RunPaid(run) ==
    /\ run.summary.after = run.summary.before + Notional(run, "SELL") - Notional(run, "BUY")
                            - Costs(run)
    /\ run.summary.after >= 0

\* A sandbox run leaves the cash its orders leave.
LEMMA SandboxPaid ==
    ASSUME NEW x, NEW pf, Sandbox(x, pf) # None
    PROVE  RunPaid(Sandbox(x, pf))
<1> DEFINE target == TargetWeights(x, pf)
           rebalance == target # None /\ RebalanceRequired(x, pf, target)
           start == [cash |-> pf.cash, orders |-> <<>>]
           sim == IF rebalance THEN SimulateOrders(pf, target) ELSE start
           change == DeltaWeights(pf, target)
           gate == SignalGate(x)
           summaryOf == [week |-> x.week, snapshot |-> x, reason |-> gate,
                         rebalance |-> rebalance, orders |-> Len(sim.orders),
                         before |-> pf.cash, after |-> sim.cash]
           run == Sandbox(x, pf)
<1>1. run = [target |-> target, delta |-> change, orders |-> sim.orders, summary |-> summaryOf]
  BY DEF Sandbox
<1>2. PortfolioAccepted(pf) /\ target # None
  BY DEF Sandbox
<1>3. pf.cash \in Nat
  BY <1>2 DEF PortfolioAccepted
<1>4. \A s \in SymbolSet : target[s] \in Int
  BY <1>2, TargetFacts
<1> HIDE DEF target
<1>5. \A s \in SymbolSet : DesiredNotional(pf, target, s) \in Nat
  BY <1>2, <1>4, NotionalFacts
<1>6. start \in Paid(pf.cash)
  BY <1>3, PaidStart
<1>7. sim \in Paid(pf.cash)
  <2>1. SimulateOrders(pf, target)
            = SimulateSide("BUY", pf, target, SimulateSide("SELL", pf, target, start))
    BY DEF SimulateOrders
  <2> HIDE DEF start
  <2> DEFINE sold == SimulateSide("SELL", pf, target, start)
  <2>2. sold \in Paid(pf.cash)
    BY <1>3, <1>5, <1>6, SidePaid
  <2> HIDE DEF sold
  <2>3. SimulateSide("BUY", pf, target, sold) \in Paid(pf.cash)
    BY <1>3, <1>5, <2>2, SidePaid
  <2>4. QED BY <1>6, <2>1, <2>3 DEF sold
<1>8. summaryOf.before = pf.cash /\ summaryOf.after = sim.cash
  OBVIOUS
<1> HIDE DEF sim, change, gate, summaryOf, rebalance
<1>9. run.orders = sim.orders /\ run.summary.before = pf.cash /\ run.summary.after = sim.cash
  BY <1>1, <1>8
<1> HIDE DEF run
<1>10. sim.orders \in Seq(Orders) /\ sim.cash \in Nat
       /\ sim.cash = pf.cash + Total(sim.orders, SideOf("SELL"))
                    - Total(sim.orders, SideOf("BUY")) - Total(sim.orders, CostOf)
  BY <1>7 DEF Paid
<1>11. ASSUME NEW i \in DOMAIN run.orders PROVE run.orders[i] \in Orders
  BY <1>9, <1>10, <1>11
<1>12. ASSUME NEW side PROVE Notional(run, side) = Total(run.orders, SideOf(side))
  <2>1. [i \in DOMAIN run.orders |-> IF run.orders[i].side = side THEN run.orders[i].notional ELSE 0]
            = [i \in DOMAIN run.orders |-> SideOf(side)[run.orders[i]]]
    BY <1>11 DEF SideOf
  <2>2. QED BY <2>1, Zenon DEF Notional, Total
<1>13. Costs(run) = Total(run.orders, CostOf)
  <2>1. [i \in DOMAIN run.orders |-> run.orders[i].cost]
            = [i \in DOMAIN run.orders |-> CostOf[run.orders[i]]]
    BY <1>11 DEF CostOf
  <2>2. QED BY <2>1, Zenon DEF Costs, Total
<1>14. RunPaid(run)
  BY <1>9, <1>10, <1>12, <1>13 DEF RunPaid
<1>15. QED BY <1>14 DEF run

\* The run of the sandbox and the last summary written are such.
PaidInv ==
    /\ sandbox # Idle => RunPaid(sandbox.run)
    /\ runSummary \notin {None, Torn} => RunPaid(runSummary)

\* A step starts a run, or copies one to the files.
LEMMA PaidStep ==
    ASSUME RunsInv, PaidInv, [ArtifactsNext]_artifactVars
    PROVE  PaidInv'
<1>1. ASSUME NEW w \in Weeks, SandboxStart(w) PROVE PaidInv'
  <2> DEFINE base == Sandbox(SandboxSnapshot(w), positions[w])
             run == Write(base, "id", used.sandbox)
  <2>1. base # None /\ sandbox' = [pc |-> 1, week |-> w, run |-> run] /\ UNCHANGED runSummary
    BY <1>1 DEF SandboxStart
  <2>2. RunPaid(base) /\ "summary" \in DOMAIN base /\ "orders" \in DOMAIN base
    BY <2>1, SandboxPaid, SandboxFacts
  <2> HIDE DEF base
  <2>3. run.summary = base.summary /\ run.orders = base.orders
    BY <2>2 DEF Write
  <2> HIDE DEF run
  <2>4. RunPaid(run)
    BY <2>2, <2>3 DEF RunPaid, Notional, Costs
  <2>5. sandbox'.run = run
    BY <2>1
  <2>6. QED BY <2>1, <2>4, <2>5 DEF PaidInv, RunPaid, Notional, Costs
<1>2. CASE WriteArtifact
  <2>1. sandbox # Idle /\ sandbox'.run = sandbox.run /\ UNCHANGED runSummary
    BY <1>2 DEF WriteArtifact, RunsInv
  <2>2. QED BY <2>1 DEF PaidInv, RunPaid, Notional, Costs
<1>3. CASE WriteRunSummary
  BY <1>3 DEF WriteRunSummary, PaidInv, RunPaid, Notional, Costs
<1>4. CASE KillSandbox
  BY <1>4 DEF KillSandbox, PaidInv, RunPaid, Notional, Costs
<1>5. CASE UNCHANGED <<sandbox, runSummary>>
  BY <1>5 DEF PaidInv, RunPaid, Notional, Costs
<1>6. QED
  BY <1>1, <1>2, <1>3, <1>4, <1>5
  DEF ArtifactsNext, OperatorStep, DigestResolve, DigestLoad, artifactVars, sandboxVars

\* The orders of the latest summary can all be paid, and the cash it reports is
\* what they leave (OrdersAffordable), whatever the policy's assets and rates.
THEOREM OrdersArePaid == ArtifactsSpec => []OrdersAffordable
<1>1. ArtifactsInit => PaidInv
  BY DEF ArtifactsInit, PaidInv
<1>2. PaidInv => OrdersAffordable
  BY DEF PaidInv, OrdersAffordable, RunPaid
<1>3. StoreInv /\ RunsInv /\ PaidInv /\ [ArtifactsNext]_artifactVars
        => (StoreInv /\ RunsInv /\ PaidInv)'
  BY StoreStep, RunsStep, PaidStep
<1>4. QED BY StoreInit, RunsInit, <1>1, <1>2, <1>3, PTL DEF ArtifactsSpec
=============================================================================
