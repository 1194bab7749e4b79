--------------------------- MODULE PitStoresProofs ---------------------------
(***************************************************************************)
(* What TLAPS proves of PitStores, for every calendar, every set of        *)
(* windows and any number of rows recorded in any order.                   *)
(***************************************************************************)
EXTENDS PitStores, FiniteSetTheorems, TLAPS

-----------------------------------------------------------------------------
(* The rows                                                                 *)

RenameRows  == [from : {Old}, to : {New}, date : Days, kind : {"pure_rename", "merger"}, asof : Days]
HoldingRows == [ticker : Symbols, asof : Days]

PitType ==
    /\ today \in Days
    /\ switch \in 2 .. LastDay + 1
    /\ prices \subseteq PriceRows
    /\ actions \subseteq ActionRows
    /\ renames \subseteq RenameRows
    /\ holdings \in Seq(HoldingRows)
    /\ \E S : answers \in Seq(S)
    /\ Len(answers) = today - 1

\* Nothing is known before it is recorded.
KnownByToday ==
    /\ \A r \in prices : r.asof <= today
    /\ \A r \in actions : r.asof <= today
    /\ \A r \in renames : r.asof <= today
    /\ \A i \in DOMAIN holdings : holdings[i].asof <= today

\* Of the rows of a close one was appended last, and of a ticker's visible
\* rows one stands last in the file: the CHOOSEs of the stores have a value.
HasNewest(rows) == \E r \in rows : \A s \in rows : s.asof <= r.asof
Rows(ticker, a) == {i \in DOMAIN holdings : holdings[i].ticker = ticker /\ holdings[i].asof <= a}
HasLast(rows)   == \E i \in rows : \A j \in rows : j <= i

ChoicesExist ==
    /\ \A s \in Symbols, d \in Days : Closes(s, d) # {} => HasNewest(Closes(s, d))
    /\ \A t \in Symbols, a \in Days : Rows(t, a) # {} => HasLast(Rows(t, a))

LedgerInv == PitType /\ KnownByToday /\ ChoicesExist

LEMMA LedgerInit == PitInit => LedgerInv
<1> SUFFICES ASSUME PitInit PROVE LedgerInv
  OBVIOUS
<1>0. LastDay \in Nat \ {0} BY PitAssumption
<1>1. PitType
  <2>1. answers \in Seq({}) BY DEF PitInit
  <2>2. QED BY <1>0, <2>1 DEF PitInit, PitType, Days
<1>2. KnownByToday BY DEF PitInit, KnownByToday
<1>3. ChoicesExist BY DEF PitInit, ChoicesExist, Closes, Rows
<1>4. QED BY <1>1, <1>2, <1>3 DEF LedgerInv

\* What a step may do to the ledgers: one row of today joins one of them, or
\* the day ends.
Recorded ==
    \/ \E d \in Days : RecordClose(d)
    \/ \E kind \in {"pure_rename", "merger"} : RecordRename(kind)
    \/ \E d \in Days, status \in {"normalized", "pending"} : RecordAction(d, status)
    \/ \E ticker \in Symbols : RecordHolding(ticker)

LEMMA TypeStep == LedgerInv /\ [PitNext]_pitVars => PitType'
<1> SUFFICES ASSUME LedgerInv, [PitNext]_pitVars PROVE PitType'
  OBVIOUS
<1>0. LastDay \in Nat \ {0} BY PitAssumption
<1>t. PitType BY DEF LedgerInv
<1>1. ASSUME NEW d \in Days, RecordClose(d) PROVE PitType'
  <2>1. [symbol |-> SymbolOn(d), date |-> d, asof |-> today] \in PriceRows
    BY <1>t DEF PriceRows, SymbolOn, Symbols, PitType
  <2>2. QED BY <1>1, <1>t, <2>1 DEF RecordClose, PitType
<1>2. ASSUME NEW kind \in {"pure_rename", "merger"}, RecordRename(kind) PROVE PitType'
  <2>1. switch \in Days BY <1>0, <1>2, <1>t DEF RecordRename, PitType, Days
  <2>2. [from |-> Old, to |-> New, date |-> switch, kind |-> kind, asof |-> today] \in RenameRows
    BY <2>1, <1>t DEF RenameRows, PitType
  <2>3. QED BY <1>2, <1>t, <2>2 DEF RecordRename, PitType
<1>3. ASSUME NEW d \in Days, NEW status \in {"normalized", "pending"}, RecordAction(d, status)
      PROVE PitType'
  <2>1. [symbol |-> SymbolOn(d), date |-> d, status |-> status, asof |-> today] \in ActionRows
    BY <1>t DEF ActionRows, SymbolOn, Symbols, PitType
  <2>2. QED BY <1>3, <1>t, <2>1 DEF RecordAction, PitType
<1>4. ASSUME NEW ticker \in Symbols, RecordHolding(ticker) PROVE PitType'
  <2>1. [ticker |-> ticker, asof |-> today] \in HoldingRows
    BY <1>t DEF HoldingRows, PitType
  <2>2. QED BY <1>4, <1>t, <2>1 DEF RecordHolding, PitType
<1>5. CASE EndDay
  <2>1. PICK S : answers \in Seq(S) BY <1>t DEF PitType
  <2> DEFINE x == AnswersAt(today)
  <2>2. answers \in Seq(S \cup {x}) BY <2>1
  <2>3. answers' = Append(answers, x) BY <1>5 DEF EndDay
  <2> HIDE DEF x
  <2>4. answers' \in Seq(S \cup {x}) /\ Len(answers') = Len(answers) + 1
    BY <2>2, <2>3
  <2>5. today' = today + 1 /\ today' \in Days
    BY <1>0, <1>5, <1>t DEF EndDay, PitType, Days
  <2>6. UNCHANGED <<switch, prices, actions, renames, holdings>> BY <1>5 DEF EndDay, ledgers
  <2>7. (\E T : answers \in Seq(T))' BY <2>4
  <2>8. Len(answers') = today' - 1 BY <1>t, <2>4, <2>5 DEF PitType, Days
  <2>9. QED BY <1>t, <2>5, <2>6, <2>7, <2>8 DEF PitType
<1>6. CASE UNCHANGED pitVars
  BY <1>6, <1>t DEF pitVars, ledgers, PitType
<1>7. QED BY <1>1, <1>2, <1>3, <1>4, <1>5, <1>6 DEF PitNext

LEMMA KnownStep == LedgerInv /\ [PitNext]_pitVars => KnownByToday'
<1> SUFFICES ASSUME LedgerInv, [PitNext]_pitVars PROVE KnownByToday'
  OBVIOUS
<1>0. LastDay \in Nat \ {0} BY PitAssumption
<1>t. PitType /\ KnownByToday BY DEF LedgerInv
<1>1. ASSUME NEW d \in Days, RecordClose(d) PROVE KnownByToday'
  BY <1>1, <1>t, <1>0 DEF RecordClose, PitType, KnownByToday, Days
<1>2. ASSUME NEW kind \in {"pure_rename", "merger"}, RecordRename(kind) PROVE KnownByToday'
  BY <1>2, <1>t, <1>0 DEF RecordRename, PitType, KnownByToday, Days
<1>3. ASSUME NEW d \in Days, NEW status \in {"normalized", "pending"}, RecordAction(d, status)
      PROVE KnownByToday'
  BY <1>3, <1>t, <1>0 DEF RecordAction, PitType, KnownByToday, Days
<1>4. ASSUME NEW ticker \in Symbols, RecordHolding(ticker) PROVE KnownByToday'
  BY <1>4, <1>t, <1>0 DEF RecordHolding, PitType, KnownByToday, Days
<1>5. CASE EndDay
  <2>1. today' = today + 1 /\ UNCHANGED <<prices, actions, renames, holdings>>
    BY <1>5 DEF EndDay, ledgers
  <2>2. \A r \in prices : r.asof \in Int BY <1>t, <1>0 DEF PitType, PriceRows, Days
  <2>3. \A r \in actions : r.asof \in Int BY <1>t, <1>0 DEF PitType, ActionRows, Days
  <2>4. \A r \in renames : r.asof \in Int BY <1>t, <1>0 DEF PitType, RenameRows, Days
  <2>5. \A i \in DOMAIN holdings : holdings[i].asof \in Int
    <3>1. \A i \in DOMAIN holdings : holdings[i] \in HoldingRows BY <1>t DEF PitType
    <3>2. \A x \in HoldingRows : x.asof \in Int BY <1>0 DEF HoldingRows, Days
    <3>3. QED BY <3>1, <3>2
  <2>6. today \in Int BY <1>t, <1>0 DEF PitType, Days
  <2>7. QED BY <2>1, <2>2, <2>3, <2>4, <2>5, <2>6, <1>t DEF KnownByToday
<1>6. CASE UNCHANGED pitVars
  BY <1>6, <1>t DEF pitVars, ledgers, KnownByToday
<1>7. QED BY <1>1, <1>2, <1>3, <1>4, <1>5, <1>6 DEF PitNext

LEMMA ChoicesStep == LedgerInv /\ [PitNext]_pitVars => ChoicesExist'
<1> SUFFICES ASSUME LedgerInv, [PitNext]_pitVars PROVE ChoicesExist'
  OBVIOUS
<1>0. LastDay \in Nat \ {0} BY PitAssumption
<1>t. PitType /\ KnownByToday /\ ChoicesExist BY DEF LedgerInv
<1>a. ASSUME UNCHANGED prices
      PROVE  \A s \in Symbols, d \in Days : Closes(s, d)' # {} => HasNewest(Closes(s, d)')
  BY <1>a, <1>t DEF ChoicesExist, Closes
<1>b. ASSUME UNCHANGED holdings
      PROVE  \A t \in Symbols, a \in Days : Rows(t, a)' # {} => HasLast(Rows(t, a)')
  BY <1>b, <1>t DEF ChoicesExist, Rows
<1>1. ASSUME NEW d \in Days, RecordClose(d) PROVE ChoicesExist'
  <2> DEFINE new == [symbol |-> SymbolOn(d), date |-> d, asof |-> today]
  <2>1. prices' = prices \cup {new} /\ UNCHANGED holdings
    BY <1>1 DEF RecordClose
  <2>2. ASSUME NEW s \in Symbols, NEW e \in Days, Closes(s, e)' # {}
        PROVE  HasNewest(Closes(s, e)')
    <3>1. CASE s = SymbolOn(d) /\ e = d
      <4>1. new \in Closes(s, e)' BY <2>1, <3>1 DEF Closes
      <4>2. \A r \in Closes(s, e)' : r.asof <= new.asof
        BY <2>1, <1>t, <1>0 DEF Closes, KnownByToday, PitType, Days
      <4>3. QED BY <4>1, <4>2 DEF HasNewest
    <3>2. CASE ~(s = SymbolOn(d) /\ e = d)
      <4>1. Closes(s, e)' = Closes(s, e) BY <2>1, <3>2 DEF Closes
      <4>2. QED BY <4>1, <2>2, <1>t DEF ChoicesExist
    <3>3. QED BY <3>1, <3>2
  <2>3. QED BY <2>1, <2>2, <1>b DEF ChoicesExist
<1>2. ASSUME NEW ticker \in Symbols, RecordHolding(ticker) PROVE ChoicesExist'
  <2> DEFINE new == [ticker |-> ticker, asof |-> today]
  <2>0. holdings \in Seq(HoldingRows) /\ new \in HoldingRows
    BY <1>t DEF PitType, HoldingRows
  <2>1. holdings' = Append(holdings, new) /\ UNCHANGED prices
    BY <1>2 DEF RecordHolding
  <2>2. /\ DOMAIN holdings = 1 .. Len(holdings) /\ Len(holdings) \in Nat
        /\ DOMAIN holdings' = 1 .. Len(holdings) + 1
        /\ \A i \in DOMAIN holdings : holdings'[i] = holdings[i]
        /\ holdings'[Len(holdings) + 1] = new
    BY <2>0, <2>1
  <2>3. ASSUME NEW t \in Symbols, NEW a \in Days, Rows(t, a)' # {}
        PROVE  HasLast(Rows(t, a)')
    <3>1. CASE t = ticker /\ today <= a
      <4>1. Len(holdings) + 1 \in Rows(t, a)' BY <2>2, <3>1 DEF Rows
      <4>2. \A j \in Rows(t, a)' : j <= Len(holdings) + 1 BY <2>2 DEF Rows
      <4>3. QED BY <4>1, <4>2 DEF HasLast
    <3>2. CASE ~(t = ticker /\ today <= a)
      <4>1. Rows(t, a)' = Rows(t, a) BY <2>2, <3>2 DEF Rows
      <4>2. QED BY <4>1, <2>3, <1>t DEF ChoicesExist
    <3>3. QED BY <3>1, <3>2
  <2>4. QED BY <2>1, <2>3, <1>a DEF ChoicesExist
<1>3. CASE UNCHANGED <<prices, holdings>>
  BY <1>3, <1>a, <1>b DEF ChoicesExist
<1>4. QED
  BY <1>1, <1>2, <1>3 DEF PitNext, RecordRename, RecordAction, EndDay, ledgers, pitVars

LEMMA LedgerStep == LedgerInv /\ [PitNext]_pitVars => LedgerInv'
BY TypeStep, KnownStep, ChoicesStep DEF LedgerInv

-----------------------------------------------------------------------------
(* What a row recorded after a can change of the answers at a               *)

\* What the answers at a are computed from. Of a symbol's succession only this
\* much counts: that there is an earlier symbol, and which.
Succession(ticker, d, a) ==
    IF ResolveSymbol(ticker, d, a) \in {ticker, Unavailable}
    THEN Unavailable ELSE ResolveSymbol(ticker, d, a)

\* Newest of a set that has one is in the set and above all of it.
LEMMA NewestChosen ==
    ASSUME NEW rows, HasNewest(rows)
    PROVE  Newest(rows) \in rows /\ \A s \in rows : s.asof <= Newest(rows).asof
BY DEF HasNewest, Newest

\* What a step adds to a ledger is recorded today.
LEMMA StepAdds ==
    ASSUME [PitNext]_pitVars
    PROVE  /\ prices' = prices \/ \E x : prices' = prices \cup {x} /\ x.asof = today
           /\ actions' = actions \/ \E x : actions' = actions \cup {x} /\ x.asof = today
           /\ renames' = renames \/ \E x : renames' = renames \cup {x} /\ x.asof = today
<1>1. ASSUME NEW d \in Days, RecordClose(d)
      PROVE  /\ \E x : prices' = prices \cup {x} /\ x.asof = today
             /\ UNCHANGED <<actions, renames>>
  <2> DEFINE new == [symbol |-> SymbolOn(d), date |-> d, asof |-> today]
  <2>1. prices' = prices \cup {new} /\ UNCHANGED <<actions, renames>> BY <1>1 DEF RecordClose
  <2>2. new.asof = today OBVIOUS
  <2> HIDE DEF new
  <2>3. QED BY <2>1, <2>2
<1>2. ASSUME NEW kind \in {"pure_rename", "merger"}, RecordRename(kind)
      PROVE  /\ \E x : renames' = renames \cup {x} /\ x.asof = today
             /\ UNCHANGED <<prices, actions>>
  <2> DEFINE new == [from |-> Old, to |-> New, date |-> switch, kind |-> kind, asof |-> today]
  <2>1. renames' = renames \cup {new} /\ UNCHANGED <<prices, actions>> BY <1>2 DEF RecordRename
  <2>2. new.asof = today OBVIOUS
  <2> HIDE DEF new
  <2>3. QED BY <2>1, <2>2
<1>3. ASSUME NEW d \in Days, NEW status \in {"normalized", "pending"}, RecordAction(d, status)
      PROVE  /\ \E x : actions' = actions \cup {x} /\ x.asof = today
             /\ UNCHANGED <<prices, renames>>
  <2> DEFINE new == [symbol |-> SymbolOn(d), date |-> d, status |-> status, asof |-> today]
  <2>1. actions' = actions \cup {new} /\ UNCHANGED <<prices, renames>> BY <1>3 DEF RecordAction
  <2>2. new.asof = today OBVIOUS
  <2> HIDE DEF new
  <2>3. QED BY <2>1, <2>2
<1>4. CASE UNCHANGED <<prices, actions, renames>>
  BY <1>4
<1>5. QED
  BY <1>1, <1>2, <1>3, <1>4 DEF PitNext, RecordHolding, EndDay, ledgers, pitVars

\* A close that has a row known at a is either answered alike after the step, or
\* the step corrects it; one that has none stays unavailable at a.
LEMMA RawCloseStands ==
    ASSUME LedgerInv, LedgerInv', [PitNext]_pitVars, NEW a \in Days, a < today,
           ~CorrectedSince(a)', NEW s, NEW e
    PROVE  GetRawClose(s, e, a)' = GetRawClose(s, e, a)
<1>0. LastDay \in Nat \ {0} BY PitAssumption
<1>t. PitType /\ KnownByToday /\ ChoicesExist /\ PitType' /\ ChoicesExist' BY DEF LedgerInv
<1>1. CASE Closes(s, e)' = Closes(s, e)
  BY <1>1 DEF GetRawClose
<1>2. CASE Closes(s, e)' # Closes(s, e)
  <2>1. PICK d \in Days : RecordClose(d)
    BY <1>2 DEF PitNext, RecordRename, RecordAction, RecordHolding, EndDay, ledgers, pitVars, Closes
  <2> DEFINE new == [symbol |-> SymbolOn(d), date |-> d, asof |-> today]
  <2>2. prices' = prices \cup {new} BY <2>1 DEF RecordClose
  <2>3. s = SymbolOn(d) /\ e = d BY <1>2, <2>2 DEF Closes
  <2>4. s \in Symbols /\ e \in Days BY <2>3 DEF SymbolOn, Symbols
  <2>5. new \in Closes(s, e)' /\ new \in prices' /\ new.asof = today
    BY <2>2, <2>3 DEF Closes
  <2>6. ASSUME NEW r \in Closes(s, e) PROVE a < r.asof
    <3>1. r \in prices' /\ r.symbol = new.symbol /\ r.date = new.date /\ r.asof \in Int
      BY <2>2, <2>3, <1>t, <1>0 DEF Closes, PitType, PriceRows, Days
    <3>2. SUFFICES ASSUME r.asof <= a PROVE FALSE
      BY <3>1, <1>0 DEF Days
    <3>3. CorrectedSince(a)' BY <3>1, <3>2, <2>5 DEF CorrectedSince
    <3>4. QED BY <3>3
  <2>7. \A r \in Closes(s, e)' : a < r.asof
    <3>1. Closes(s, e)' = Closes(s, e) \cup {new} BY <2>2, <2>3 DEF Closes
    <3>2. QED BY <3>1, <2>5, <2>6
  <2>8. GetRawClose(s, e, a)' = Unavailable
    <3>1. HasNewest(Closes(s, e)') BY <2>4, <2>5, <1>t DEF ChoicesExist
    <3>2. Newest(Closes(s, e)') \in Closes(s, e)' BY <3>1, NewestChosen
    <3>3. a < Newest(Closes(s, e)').asof BY <3>2, <2>7
    <3>4. Newest(Closes(s, e)').asof \in Int
      BY <3>2, <1>t, <1>0 DEF Closes, PitType, PriceRows, Days
    <3>5. Newest(Closes(s, e)').asof > a BY <3>3, <3>4, <1>0 DEF Days
    <3>6. QED BY <3>5 DEF GetRawClose
  <2>9. GetRawClose(s, e, a) = Unavailable
    <3>0. CASE Closes(s, e) = {} BY <3>0 DEF GetRawClose
    <3>1. CASE Closes(s, e) # {}
      <4>1. HasNewest(Closes(s, e)) BY <2>4, <3>1, <1>t DEF ChoicesExist
      <4>2. Newest(Closes(s, e)) \in Closes(s, e) BY <4>1, NewestChosen
      <4>3. a < Newest(Closes(s, e)).asof BY <4>2, <2>6
      <4>4. Newest(Closes(s, e)).asof \in Int
        BY <4>2, <1>t, <1>0 DEF Closes, PitType, PriceRows, Days
      <4>5. Newest(Closes(s, e)).asof > a BY <4>3, <4>4, <1>0 DEF Days
      <4>6. QED BY <4>5 DEF GetRawClose
    <3>2. QED BY <3>0, <3>1
  <2>10. QED BY <2>8, <2>9
<1>3. QED BY <1>1, <1>2

\* The actions, renames and holdings known at a are the same after the step.
LEMMA VisibleStands ==
    ASSUME LedgerInv, [PitNext]_pitVars, NEW a \in Days, a < today
    PROVE  /\ Visible(actions, a)' = Visible(actions, a)
           /\ Visible(renames, a)' = Visible(renames, a)
           /\ \A t : Rows(t, a)' = Rows(t, a)
           /\ {i \in DOMAIN holdings : holdings[i].asof <= a}'
                = {i \in DOMAIN holdings : holdings[i].asof <= a}
           /\ \A i \in DOMAIN holdings : i \in DOMAIN holdings' /\ holdings'[i] = holdings[i]
<1>0. LastDay \in Nat \ {0} BY PitAssumption
<1>t. PitType BY DEF LedgerInv
<1>d. a \in Int /\ today \in Int /\ ~(today <= a) BY <1>0, <1>t DEF Days, PitType
<1>1. Visible(actions, a)' = Visible(actions, a)
  <2>1. actions' = actions \/ \E x : actions' = actions \cup {x} /\ x.asof = today
    BY StepAdds
  <2>2. QED BY <2>1, <1>d DEF Visible
<1>2. Visible(renames, a)' = Visible(renames, a)
  <2>1. renames' = renames \/ \E x : renames' = renames \cup {x} /\ x.asof = today
    BY StepAdds
  <2>2. QED BY <2>1, <1>d DEF Visible
<1>3. CASE UNCHANGED holdings
  BY <1>1, <1>2, <1>3 DEF Rows
<1>4. ASSUME NEW ticker \in Symbols, RecordHolding(ticker)
      PROVE  /\ \A t : Rows(t, a)' = Rows(t, a)
             /\ {i \in DOMAIN holdings : holdings[i].asof <= a}'
                  = {i \in DOMAIN holdings : holdings[i].asof <= a}
             /\ \A i \in DOMAIN holdings : i \in DOMAIN holdings' /\ holdings'[i] = holdings[i]
  <2> DEFINE new == [ticker |-> ticker, asof |-> today]
  <2>0. holdings \in Seq(HoldingRows) /\ new \in HoldingRows
    BY <1>t DEF PitType, HoldingRows
  <2>1. holdings' = Append(holdings, new) BY <1>4 DEF RecordHolding
  <2>2. /\ DOMAIN holdings = 1 .. Len(holdings) /\ Len(holdings) \in Nat
        /\ DOMAIN holdings' = 1 .. Len(holdings) + 1
        /\ \A i \in DOMAIN holdings : holdings'[i] = holdings[i]
        /\ holdings'[Len(holdings) + 1] = new
    BY <2>0, <2>1
  <2>3. new.asof = today OBVIOUS
  <2> HIDE DEF new
  <2>4. \A i : i \in DOMAIN holdings' <=> i \in DOMAIN holdings \/ i = Len(holdings) + 1
    BY <2>2
  <2>5. \A t : Rows(t, a)' = Rows(t, a) BY <2>2, <2>3, <2>4, <1>d DEF Rows
  <2>6. {i \in DOMAIN holdings : holdings[i].asof <= a}'
          = {i \in DOMAIN holdings : holdings[i].asof <= a}
    BY <2>2, <2>3, <2>4, <1>d
  <2>7. QED BY <2>2, <2>4, <2>5, <2>6
<1>5. QED
  BY <1>1, <1>2, <1>3, <1>4
     DEF PitNext, RecordClose, RecordRename, RecordAction, EndDay, ledgers, pitVars

\* Which earlier symbol a ticker had is the same after the step.
LEMMA SuccessionStands ==
    ASSUME LedgerInv, [PitNext]_pitVars, NEW a \in Days, a < today, NEW t, NEW d
    PROVE  Succession(t, d, a)' = Succession(t, d, a)
<1> DEFINE future == {r \in renames : r.to = t /\ r.date > d}
<1>1. Visible(future, a)' = Visible(future, a)
  <2>1. Visible(renames, a)' = Visible(renames, a) BY VisibleStands
  <2>2. Visible(future, a) = {r \in Visible(renames, a) : r.to = t /\ r.date > d}
    BY DEF Visible
  <2>3. Visible(future, a)' = {r \in Visible(renames, a)' : r.to = t /\ r.date > d}
    BY DEF Visible
  <2>4. QED BY <2>1, <2>2, <2>3
<1>2. CASE Visible(future, a) = {}
  <2>1. ResolveSymbol(t, d, a) \in {t, Unavailable} BY <1>2 DEF ResolveSymbol
  <2>2. ResolveSymbol(t, d, a)' \in {t, Unavailable} BY <1>1, <1>2 DEF ResolveSymbol
  <2>3. QED BY <2>1, <2>2 DEF Succession
<1>3. CASE Visible(future, a) # {}
  <2>1. future # {} /\ future' # {} BY <1>1, <1>3 DEF Visible
  <2>2. ResolveSymbol(t, d, a)' = ResolveSymbol(t, d, a)
    BY <2>1, <1>1, <1>3 DEF ResolveSymbol
  <2>3. QED BY <2>2 DEF Succession
<1>4. QED BY <1>2, <1>3

\* The answers at a are the same if what they are computed from is.
LEMMA SameAnswers ==
    ASSUME NEW a,
           \A s, e : GetRawClose(s, e, a)' = GetRawClose(s, e, a),
           \A t, d : Succession(t, d, a)' = Succession(t, d, a),
           Visible(actions, a)' = Visible(actions, a),
           GetSnapshot(a)' = GetSnapshot(a), GetWeights(a)' = GetWeights(a)
    PROVE  AnswersAt(a)' = AnswersAt(a)
<1>1. \A s, e : GetRawClose(s, e, a)' = GetRawClose(s, e, a) OBVIOUS
<1>2. \A t, d : Succession(t, d, a)' = Succession(t, d, a) OBVIOUS
<1>3. ASSUME NEW t, NEW e
      PROVE  RawCloseWithIdentity(t, e, a)' = RawCloseWithIdentity(t, e, a)
  <2>1. RawCloseWithIdentity(t, e, a) =
          IF GetRawClose(t, e, a) # Unavailable THEN GetRawClose(t, e, a)
          ELSE IF Succession(t, e, a) = Unavailable THEN Unavailable
          ELSE GetRawClose(Succession(t, e, a), e, a)
    BY DEF RawCloseWithIdentity, Succession
  <2>2. RawCloseWithIdentity(t, e, a)' =
          IF GetRawClose(t, e, a)' # Unavailable THEN GetRawClose(t, e, a)'
          ELSE IF Succession(t, e, a)' = Unavailable THEN Unavailable
          ELSE GetRawClose(Succession(t, e, a), e, a)'
    BY DEF RawCloseWithIdentity, Succession
  <2>3. QED BY <1>1, <1>2, <2>1, <2>2
<1>4. ASSUME NEW symbol, NEW u, NEW v
      PROVE  AdjustmentFactor(symbol, u, v, a)' = AdjustmentFactor(symbol, u, v, a)
  BY DEF AdjustmentFactor
<1>5. ASSUME NEW t, NEW e, NEW b
      PROVE  AdjustedCloseOnBasis(t, e, b, a)' = AdjustedCloseOnBasis(t, e, b, a)
  BY <1>3, <1>4 DEF AdjustedCloseOnBasis
<1>6. ASSUME NEW s, NEW end
      PROVE  AvailableTradeDates(s, end, a)' = AvailableTradeDates(s, end, a)
  BY <1>1 DEF AvailableTradeDates
<1>7. ASSUME NEW t, NEW end, NEW n
      PROVE  CandidateDates(t, end, n, a)' = CandidateDates(t, end, n, a)
  <2> DEFINE d == end + 1 - n
  <2>1. CandidateDates(t, end, n, a) =
          IF Succession(t, d, a) = Unavailable THEN AvailableTradeDates(t, end, a)
          ELSE AvailableTradeDates(t, end, a) \cup AvailableTradeDates(Succession(t, d, a), end, a)
    BY DEF CandidateDates, Succession
  <2>2. CandidateDates(t, end, n, a)' =
          IF Succession(t, d, a)' = Unavailable THEN AvailableTradeDates(t, end, a)'
          ELSE AvailableTradeDates(t, end, a)' \cup AvailableTradeDates(Succession(t, d, a), end, a)'
    BY DEF CandidateDates, Succession
  <2>3. AvailableTradeDates(Succession(t, d, a), end, a)' = AvailableTradeDates(Succession(t, d, a), end, a)
    BY <1>2, <1>6
  <2>4. AvailableTradeDates(t, end, a)' = AvailableTradeDates(t, end, a) BY <1>6
  <2>5. Succession(t, d, a)' = Succession(t, d, a) BY <1>2
  <2> HIDE DEF d
  <2>6. CASE Succession(t, d, a) = Unavailable
    BY <2>1, <2>2, <2>4, <2>5, <2>6
  <2>7. CASE Succession(t, d, a) # Unavailable
    BY <2>1, <2>2, <2>3, <2>4, <2>5, <2>7
  <2>8. QED BY <2>6, <2>7
<1>8. ASSUME NEW t, NEW end, NEW n
      PROVE  GetAdjustedWindow(t, end, n, a)' = GetAdjustedWindow(t, end, n, a)
  <2> DEFINE D == {d \in CandidateDates(t, end, n, a) :
                      AdjustedCloseOnBasis(t, d, end, a) # Unavailable}
             Window(E) == IF Cardinality(E) < n THEN Unavailable
                          ELSE {AdjustedCloseOnBasis(t, d, end, a) : d \in LastDays(E, n)}
  <2>1. D' = D BY <1>5, <1>7
  <2>2. ASSUME NEW E PROVE Window(E)' = Window(E) BY <1>5
  <2>3. GetAdjustedWindow(t, end, n, a) = Window(D) BY DEF GetAdjustedWindow
  <2>4. GetAdjustedWindow(t, end, n, a)' = Window(D)' BY DEF GetAdjustedWindow
  <2> HIDE DEF D, Window
  <2>5. QED BY <2>1, <2>2, <2>3, <2>4
<1>9. ASSUME NEW t, NEW d PROVE GetAdjClose(t, d, a)' = GetAdjClose(t, d, a)
  BY <1>5 DEF GetAdjClose
<1>10. [t \in Symbols |-> [n \in Windows |-> GetAdjustedWindow(t, a, n, a)]]'
         = [t \in Symbols |-> [n \in Windows |-> GetAdjustedWindow(t, a, n, a)]]
  BY <1>8
<1>11. [t \in Symbols |-> [d \in 1 .. a |-> GetAdjClose(t, d, a)]]'
         = [t \in Symbols |-> [d \in 1 .. a |-> GetAdjClose(t, d, a)]]
  BY <1>9
<1>12. QED
  BY <1>10, <1>11, GetSnapshot(a)' = GetSnapshot(a), GetWeights(a)' = GetWeights(a) DEF AnswersAt

\* The whole answer at a is the same after the step, unless a close is corrected.
LEMMA AnswerStands ==
    ASSUME LedgerInv, LedgerInv', [PitNext]_pitVars, NEW a \in Days, a < today,
           ~CorrectedSince(a)'
    PROVE  AnswersAt(a)' = AnswersAt(a)
<1>1. \A s, e : GetRawClose(s, e, a)' = GetRawClose(s, e, a) BY RawCloseStands
<1>2. \A t, d : Succession(t, d, a)' = Succession(t, d, a) BY SuccessionStands
<1>10. GetSnapshot(a)' = GetSnapshot(a)
  <2> DEFINE rows == {i \in DOMAIN holdings : holdings[i].asof <= a}
  <2>1. rows' = rows BY VisibleStands
  <2>2. \A i \in rows : holdings'[i] = holdings[i] BY VisibleStands
  <2>3. GetSnapshot(a) = IF rows = {} THEN Unavailable ELSE {holdings[i].ticker : i \in rows}
    BY DEF GetSnapshot
  <2>4. GetSnapshot(a)' = IF rows' = {} THEN Unavailable ELSE {holdings'[i].ticker : i \in rows'}
    BY DEF GetSnapshot
  <2> HIDE DEF rows
  <2>5. QED BY <2>1, <2>2, <2>3, <2>4
<1>11. GetWeights(a)' = GetWeights(a)
  <2>1. ASSUME NEW t \in Symbols, Rows(t, a) # {}
        PROVE  LastRow(t, a)' = LastRow(t, a)
    <3>1. Rows(t, a)' = Rows(t, a) BY VisibleStands
    <3>2. HasLast(Rows(t, a)) BY <2>1 DEF LedgerInv, ChoicesExist
    <3>3. LastRow(t, a) \in Rows(t, a) /\ \A j \in Rows(t, a) : j <= LastRow(t, a)
      BY <3>2 DEF LastRow, Rows, HasLast
    <3>4. LastRow(t, a)' \in Rows(t, a)' /\ \A j \in Rows(t, a)' : j <= LastRow(t, a)'
      BY <3>1, <3>2 DEF LastRow, Rows, HasLast
    <3>5. Rows(t, a) \subseteq Int BY DEF Rows, LedgerInv, PitType
    <3>6. QED BY <3>1, <3>3, <3>4, <3>5
  <2>2. CASE GetSnapshot(a) = Unavailable
    BY <1>10, <2>2 DEF GetWeights
  <2>3. CASE GetSnapshot(a) # Unavailable
    <3>1. \A t \in GetSnapshot(a) : t \in Symbols /\ Rows(t, a) # {}
      <4>1. GetSnapshot(a) = {holdings[i].ticker : i \in {j \in DOMAIN holdings : holdings[j].asof <= a}}
        BY <2>3 DEF GetSnapshot
      <4>2. \A i \in DOMAIN holdings : holdings[i] \in HoldingRows BY DEF LedgerInv, PitType
      <4>3. \A i \in DOMAIN holdings : holdings[i].ticker \in Symbols BY <4>2 DEF HoldingRows
      <4>4. \A t \in GetSnapshot(a) : \E i \in DOMAIN holdings :
               t = holdings[i].ticker /\ holdings[i].asof <= a
        BY <4>1
      <4>5. QED BY <4>3, <4>4 DEF Rows
    <3>2. \A t \in GetSnapshot(a) : LastRow(t, a)' = LastRow(t, a)
      BY <2>1, <3>1
    <3>3. QED BY <1>10, <2>3, <3>2 DEF GetWeights
  <2>4. QED BY <2>2, <2>3
<1>12. Visible(actions, a)' = Visible(actions, a) BY VisibleStands
<1>13. QED BY <1>1, <1>2, <1>10, <1>11, <1>12, SameAnswers

\* A close once corrected stays corrected.
LEMMA CorrectionStands ==
    ASSUME [PitNext]_pitVars, NEW a, CorrectedSince(a)
    PROVE  CorrectedSince(a)'
<1>1. prices \subseteq prices'
  BY DEF PitNext, RecordClose, RecordRename, RecordAction, RecordHolding, EndDay, ledgers, pitVars
<1>2. QED BY <1>1 DEF CorrectedSince

-----------------------------------------------------------------------------
(* Point in time                                                            *)

LEMMA AnswersStandStep == LedgerInv /\ LedgerInv' /\ AnswersStand /\ [PitNext]_pitVars => AnswersStand'
<1> SUFFICES ASSUME LedgerInv, LedgerInv', AnswersStand, [PitNext]_pitVars PROVE AnswersStand'
  OBVIOUS
<1>0. LastDay \in Nat \ {0} BY PitAssumption
<1>t. PitType BY DEF LedgerInv
<1>1. DOMAIN answers = 1 .. today - 1 /\ today \in Days /\ Days \subseteq Int
  BY <1>t, <1>0 DEF PitType, Days
<1>2. ASSUME NEW a \in DOMAIN answers
      PROVE  CorrectedSince(a)' \/ answers[a] = AnswersAt(a)'
  <2>1. a \in Days /\ a < today BY <1>1, <1>0 DEF Days
  <2>2. CASE CorrectedSince(a)
    BY <2>2, CorrectionStands
  <2>3. CASE ~CorrectedSince(a)
    <3>1. answers[a] = AnswersAt(a) BY <2>3 DEF AnswersStand
    <3>2. CorrectedSince(a)' \/ AnswersAt(a)' = AnswersAt(a) BY <2>1, AnswerStands
    <3>3. QED BY <3>1, <3>2
  <2>4. QED BY <2>2, <2>3
<1>3. CASE EndDay
  <2> DEFINE x == AnswersAt(today)
  <2>1. PICK S : answers \in Seq(S) BY <1>t DEF PitType
  <2>2. answers \in Seq(S \cup {x}) /\ answers' = Append(answers, x)
    BY <2>1, <1>3 DEF EndDay
  <2>3. Len(answers) = today - 1 BY <1>t DEF PitType
  <2>4. \A a \in DOMAIN answers' : a \in DOMAIN answers \/ a = today
    <3> HIDE DEF x
    <3>1. QED BY <2>2, <2>3, <1>1
  <2>5. \A a \in DOMAIN answers : answers'[a] = answers[a]
    <3> HIDE DEF x
    <3>1. QED BY <2>2, <2>3, <1>1
  <2>6. answers'[today] = x
    <3> HIDE DEF x
    <3>1. QED BY <2>2, <2>3, <1>1
  <2>7. ASSUME NEW a PROVE AnswersAt(a)' = AnswersAt(a)
    <3>1. UNCHANGED <<prices, actions, renames, holdings>> BY <1>3 DEF EndDay, ledgers
    <3>2. \A s, e : GetRawClose(s, e, a)' = GetRawClose(s, e, a)
      BY <3>1 DEF GetRawClose, Closes
    <3>3. \A t, d : Succession(t, d, a)' = Succession(t, d, a)
      BY <3>1 DEF Succession, ResolveSymbol
    <3>4. Visible(actions, a)' = Visible(actions, a) BY <3>1
    <3>5. GetSnapshot(a)' = GetSnapshot(a) BY <3>1 DEF GetSnapshot
    <3>6. GetWeights(a)' = GetWeights(a) BY <3>1 DEF GetWeights, GetSnapshot, LastRow
    <3>7. QED BY <3>2, <3>3, <3>4, <3>5, <3>6, SameAnswers
  <2>8. \A a \in DOMAIN answers' : CorrectedSince(a)' \/ answers'[a] = AnswersAt(a)'
    BY <1>2, <2>4, <2>5, <2>6, <2>7
  <2>9. QED BY <2>8 DEF AnswersStand
<1>4. CASE UNCHANGED answers
  BY <1>2, <1>4 DEF AnswersStand
<1>5. QED
  BY <1>3, <1>4 DEF PitNext, RecordClose, RecordRename, RecordAction, RecordHolding, pitVars

\* Nothing recorded later changes what the stores answer with an earlier as-of
\* time, except the correction of a close that was known by then: there is no
\* look-ahead in the adjusted windows, closes, members and weights
\* (pit_adjustment.py, raw_prices.py, identity.py, constituents.py, weights.py).
THEOREM NoLookAhead == PitSpec => []AnswersStand
<1>1. PitInit => LedgerInv /\ AnswersStand
  <2>1. PitInit => AnswersStand BY DEF PitInit, AnswersStand
  <2>2. QED BY <2>1, LedgerInit
<1>2. LedgerInv /\ AnswersStand /\ [PitNext]_pitVars => (LedgerInv /\ AnswersStand)'
  BY LedgerStep, AnswersStandStep
<1>3. QED BY <1>1, <1>2, PTL DEF PitSpec

-----------------------------------------------------------------------------
(* The reconstruction formula                                               *)

\* A row carries the symbol of its day, and the rename the day of the switch.
SymbolsRight ==
    /\ \A r \in prices : r.symbol = SymbolOn(r.date)
    /\ \A e \in actions : e.symbol = SymbolOn(e.date)
    /\ \A r \in renames : r.date = switch
    /\ renames # {} => HasNewest(renames)

LEMMA SymbolsRightInit == PitInit => SymbolsRight
BY DEF PitInit, SymbolsRight

LEMMA SymbolsRightStep == LedgerInv /\ SymbolsRight /\ [PitNext]_pitVars => SymbolsRight'
<1> SUFFICES ASSUME LedgerInv, SymbolsRight, [PitNext]_pitVars PROVE SymbolsRight'
  OBVIOUS
<1>0. LastDay \in Nat \ {0} BY PitAssumption
<1>t. PitType /\ KnownByToday BY DEF LedgerInv
<1>s. switch' = switch /\ \A d : SymbolOn(d)' = SymbolOn(d)
  BY DEF PitNext, RecordClose, RecordRename, RecordAction, RecordHolding, EndDay, ledgers, pitVars, SymbolOn
<1>1. ASSUME NEW d \in Days, RecordClose(d) PROVE SymbolsRight'
  BY <1>1, <1>s DEF RecordClose, SymbolsRight
<1>2. ASSUME NEW kind \in {"pure_rename", "merger"}, RecordRename(kind) PROVE SymbolsRight'
  <2> DEFINE new == [from |-> Old, to |-> New, date |-> switch, kind |-> kind, asof |-> today]
  <2>1. renames' = renames \cup {new} /\ UNCHANGED <<prices, actions>>
    BY <1>2 DEF RecordRename
  <2>2. new.date = switch /\ new.asof = today OBVIOUS
  <2> HIDE DEF new
  <2>3. new \in renames' /\ \A r \in renames' : r.asof <= new.asof
    BY <2>1, <2>2, <1>t, <1>0 DEF KnownByToday, PitType, Days
  <2>4. HasNewest(renames)' BY <2>3 DEF HasNewest
  <2>5. QED BY <2>1, <2>2, <2>4, <1>s DEF SymbolsRight
<1>3. ASSUME NEW d \in Days, NEW status \in {"normalized", "pending"}, RecordAction(d, status)
      PROVE SymbolsRight'
  BY <1>3, <1>s DEF RecordAction, SymbolsRight
<1>4. CASE UNCHANGED <<prices, actions, renames>>
  BY <1>4, <1>s DEF SymbolsRight
<1>5. QED
  BY <1>1, <1>2, <1>3, <1>4 DEF PitNext, RecordHolding, EndDay, ledgers, pitVars

\* The n newest of a set of days up to a that has each of the last n days are
\* these.
LEMMA UnbrokenDays ==
    ASSUME NEW a \in Nat, NEW n \in 1 .. a, NEW D \in SUBSET (1 .. a), a - n + 1 .. a \subseteq D
    PROVE  LastDays(D, n) = a - n + 1 .. a /\ ~(Cardinality(D) < n)
<1> DEFINE m == a - n + 1
<1>0. m \in Int /\ m >= 1 /\ m <= a /\ a - m + 1 = n /\ n \in Nat
  OBVIOUS
<1>d. \A d \in D : d \in Int /\ d <= a
  OBVIOUS
<1>f. IsFiniteSet(D)
  <2>1. IsFiniteSet(1 .. a) BY FS_Interval
  <2>2. QED BY <2>1, FS_Subset
<1>s. ASSUME NEW E \in SUBSET D PROVE IsFiniteSet(E) /\ Cardinality(E) \in Nat
  BY <1>f, FS_Subset, FS_CardinalityType
<1> HIDE DEF m
<1>1. Cardinality(m .. a) = n
  <2>1. Cardinality(m .. a) = IF m > a THEN 0 ELSE a - m + 1 BY <1>0, FS_Interval
  <2>2. QED BY <2>1, <1>0
<1>m. m .. a \subseteq D BY DEF m
<1>2. ~(Cardinality(D) < n)
  <2>1. Cardinality(m .. a) <= Cardinality(D) BY <1>f, <1>m, FS_Subset
  <2>2. Cardinality(D) \in Nat BY <1>s
  <2>3. QED BY <2>1, <2>2, <1>0, <1>1
<1>3. ASSUME NEW d \in D, d >= m PROVE Cardinality({e \in D : e > d}) < n
  <2> DEFINE later == {e \in D : e > d}
  <2>1. d \in Int /\ d <= a BY <1>d
  <2>2. later \subseteq d + 1 .. a
    <3>1. \A e \in later : e \in Int /\ e > d /\ e <= a BY <1>d
    <3> HIDE DEF later
    <3>2. QED BY <2>1, <3>1
  <2>3. IsFiniteSet(d + 1 .. a) /\ Cardinality(d + 1 .. a) = IF d + 1 > a THEN 0 ELSE a - (d + 1) + 1
    BY <2>1, FS_Interval
  <2>4. later \in SUBSET D OBVIOUS
  <2> HIDE DEF later
  <2>5. Cardinality(later) <= Cardinality(d + 1 .. a) BY <2>2, <2>3, FS_Subset
  <2>6. Cardinality(later) \in Nat BY <2>4, <1>s
  <2>7. Cardinality(d + 1 .. a) = a - d BY <2>1, <2>3
  <2>8. a - d < n BY <1>0, <1>3, <2>1
  <2>9. Cardinality(later) < n BY <2>1, <2>5, <2>6, <2>7, <2>8, <1>0
  <2>10. QED BY <2>9 DEF later
<1>4. ASSUME NEW d \in D, ~(d >= m) PROVE ~(Cardinality({e \in D : e > d}) < n)
  <2> DEFINE later == {e \in D : e > d}
  <2>1. \A e \in m .. a : e > d BY <1>0, <1>4, <1>d
  <2>2. m .. a \subseteq later BY <2>1, <1>m
  <2>3. later \in SUBSET D OBVIOUS
  <2> HIDE DEF later
  <2>4. IsFiniteSet(later) /\ Cardinality(later) \in Nat BY <2>3, <1>s
  <2>5. Cardinality(m .. a) <= Cardinality(later) BY <2>2, <2>4, FS_Subset
  <2>6. ~(Cardinality(later) < n) BY <2>4, <2>5, <1>0, <1>1
  <2>7. QED BY <2>6 DEF later
<1>5. LastDays(D, n) = m .. a
  <2>1. \A d \in D : Cardinality({e \in D : e > d}) < n <=> d >= m BY <1>3, <1>4
  <2>2. LastDays(D, n) = {d \in D : d >= m} BY <2>1 DEF LastDays
  <2>3. \A d \in D : d >= m => d \in m .. a BY <1>d, <1>0
  <2>4. \A d \in m .. a : d \in D /\ d >= m BY <1>m, <1>0
  <2>5. QED BY <2>2, <2>3, <2>4
<1>6. QED BY <1>2, <1>5 DEF m

\* Which symbol a ticker had before, when asked at the end of the day.
LEMMA ResolvedAtDayEnd ==
    ASSUME LedgerInv, SymbolsRight, NEW t \in Symbols, NEW d \in Int
    PROVE  /\ Before(t, today) = {} \/ (t = New /\ Before(t, today) = {Old} /\ renames # {})
           /\ IF Before(t, today) # {} /\ d < switch
              THEN ResolveSymbol(t, d, today) = Old
              ELSE ResolveSymbol(t, d, today) \in {t, Unavailable}
<1> DEFINE future == {r \in renames : r.to = t /\ r.date > d}
<1>0. LastDay \in Nat \ {0} /\ Old # New BY PitAssumption
<1>t. PitType /\ KnownByToday BY DEF LedgerInv
<1>1. /\ Visible(renames, today) = renames
      /\ \A R \in SUBSET renames : Visible(R, today) = R
  BY <1>t DEF KnownByToday, Visible
<1>2. \A r \in renames : r.from = Old /\ r.to = New /\ r.date = switch
  BY <1>t DEF PitType, RenameRows, SymbolsRight
<1>3. switch \in Int BY <1>t, <1>0 DEF PitType
<1>4. CASE renames = {}
  <2>1. future = {} BY <1>4
  <2>2. Before(t, today) = {} BY <1>1, <1>4 DEF Before
  <2>3. QED BY <2>1, <2>2 DEF ResolveSymbol
<1>5. CASE t = Old /\ renames # {}
  <2>1. future = {} BY <1>5, <1>2, <1>0
  <2>2. Before(t, today) = {} BY <1>5, <1>1, <1>2, <1>0 DEF Before
  <2>3. QED BY <2>1, <2>2 DEF ResolveSymbol
<1>6. CASE t = New /\ renames # {}
  <2> DEFINE top == Newest(renames)
  <2>1. top \in renames BY <1>6, NewestChosen DEF SymbolsRight
  <2> HIDE DEF top
  <2>2. Before(t, today) = {r.from : r \in {r \in renames : r.kind = "pure_rename" /\ r = top}}
    BY <1>1, <1>2, <1>6 DEF Before, top
  <2>3. top.from = Old BY <2>1, <1>2
  <2>4. Before(t, today) = IF top.kind = "pure_rename" THEN {Old} ELSE {}
    BY <2>1, <2>2, <2>3
  <2>5. CASE ~(d < switch)
    <3>1. future = {} BY <1>2, <1>3, <2>5
    <3>2. ResolveSymbol(t, d, today) = t BY <3>1 DEF ResolveSymbol
    <3>3. QED BY <3>2, <2>4, <2>5, <1>6
  <2>6. CASE d < switch
    <3>1. future = renames BY <1>2, <1>3, <2>6, <1>6
    <3>2. Visible(future, today) = renames BY <3>1, <1>1
    <3>3. ResolveSymbol(t, d, today) = IF top.kind = "pure_rename" THEN top.from ELSE Unavailable
      BY <3>1, <3>2, <1>6 DEF ResolveSymbol, top
    <3>4. QED BY <3>3, <2>3, <2>4, <2>6, <1>6
  <2>7. QED BY <2>5, <2>6
<1>7. QED BY <1>4, <1>5, <1>6 DEF Symbols

\* At the end of the day the newest row of a close is what the store answers.
LEMMA RawCloseAtDayEnd ==
    ASSUME LedgerInv, NEW s, NEW e
    PROVE  /\ Visible(Closes(s, e), today) = Closes(s, e)
           /\ Closes(s, e) = {} => GetRawClose(s, e, today) = Unavailable
           /\ Closes(s, e) # {} =>
                /\ GetRawClose(s, e, today) = Newest(Closes(s, e))
                /\ Newest(Closes(s, e)) \in Closes(s, e)
                /\ Newest(Closes(s, e)) # Unavailable
<1>0. LastDay \in Nat \ {0} BY PitAssumption
<1>t. PitType /\ KnownByToday /\ ChoicesExist BY DEF LedgerInv
<1>1. Visible(Closes(s, e), today) = Closes(s, e) BY <1>t DEF KnownByToday, Visible, Closes
<1>2. CASE Closes(s, e) = {}
  BY <1>1, <1>2 DEF GetRawClose
<1>3. CASE Closes(s, e) # {}
  <2>1. s \in Symbols /\ e \in Days BY <1>3, <1>t DEF Closes, PitType, PriceRows
  <2>2. HasNewest(Closes(s, e)) BY <2>1, <1>3, <1>t DEF ChoicesExist
  <2>3. Newest(Closes(s, e)) \in Closes(s, e) BY <2>2, NewestChosen
  <2>4. Newest(Closes(s, e)) \in prices BY <2>3 DEF Closes
  <2>5. Newest(Closes(s, e)) # Unavailable BY <2>4, <1>t, ErrorAssumption DEF PitType
  <2>6. ~(Newest(Closes(s, e)).asof > today)
    BY <2>4, <1>t, <1>0 DEF KnownByToday, PitType, PriceRows, Days
  <2>7. QED BY <1>1, <1>3, <2>3, <2>5, <2>6 DEF GetRawClose
<1>4. QED BY <1>2, <1>3

\* The engine's close of a day is the security's bar of it, and there is one for
\* the same days.
LEMMA BarAtDayEnd ==
    ASSUME LedgerInv, SymbolsRight, NEW t \in Symbols, NEW d \in Days
    PROVE  LET raw == RawCloseWithIdentity(t, d, today) IN
           \/ raw = Unavailable /\ BarsOn(t, d, today) = {}
           \/ /\ raw # Unavailable /\ BarsOn(t, d, today) = {raw}
              /\ raw \in prices /\ raw.date = d
              /\ raw.symbol \in {t} \cup Before(t, today)
<1> DEFINE raw == RawCloseWithIdentity(t, d, today)
           own == Closes(t, d)
           earlier == UNION {Visible(Closes(from, d), today) : from \in Before(t, today)}
<1>0. LastDay \in Nat \ {0} /\ Unavailable \notin Symbols /\ Days \subseteq Int
  BY PitAssumption DEF Days
<1>t. PitType BY DEF LedgerInv
<1>1. BarsOn(t, d, today) = IF own # {} THEN {Newest(own)}
                            ELSE IF d < switch /\ earlier # {} THEN {Newest(earlier)} ELSE {}
  BY RawCloseAtDayEnd DEF BarsOn
<1>2. CASE own # {}
  <2>1. GetRawClose(t, d, today) = Newest(own) /\ Newest(own) \in own
        /\ Newest(own) # Unavailable
    BY <1>2, RawCloseAtDayEnd
  <2>2. raw = Newest(own) BY <2>1 DEF RawCloseWithIdentity
  <2>3. Newest(own) \in prices /\ Newest(own).date = d /\ Newest(own).symbol = t
    BY <2>1 DEF Closes
  <2>4. QED BY <1>1, <1>2, <2>1, <2>2, <2>3
<1>3. CASE own = {} /\ ~(Before(t, today) # {} /\ d < switch)
  <2>1. ResolveSymbol(t, d, today) \in {t, Unavailable}
    BY <1>0, <1>3, ResolvedAtDayEnd
  <2>2. GetRawClose(t, d, today) = Unavailable BY <1>3, RawCloseAtDayEnd
  <2>3. raw = Unavailable BY <2>1, <2>2 DEF RawCloseWithIdentity
  <2>4. ~(d < switch /\ earlier # {}) BY <1>3
  <2>5. QED BY <1>1, <1>3, <2>3, <2>4
<1>4. CASE own = {} /\ Before(t, today) # {} /\ d < switch
  <2>1. ResolveSymbol(t, d, today) = Old /\ Before(t, today) = {Old} /\ t = New
    BY <1>0, <1>4, ResolvedAtDayEnd
  <2>2. GetRawClose(t, d, today) = Unavailable BY <1>4, RawCloseAtDayEnd
  <2>3. Old # New /\ Old # Unavailable BY PitAssumption DEF Symbols
  <2>4. raw = GetRawClose(Old, d, today) BY <2>1, <2>2, <2>3 DEF RawCloseWithIdentity
  <2>5. earlier = Closes(Old, d) BY <2>1, RawCloseAtDayEnd
  <2>6. CASE Closes(Old, d) = {}
    <3>1. raw = Unavailable BY <2>4, <2>6, RawCloseAtDayEnd
    <3>2. QED BY <1>1, <1>4, <2>5, <2>6, <3>1
  <2>7. CASE Closes(Old, d) # {}
    <3>1. raw = Newest(earlier) /\ raw \in Closes(Old, d) /\ raw # Unavailable
      BY <2>4, <2>5, <2>7, RawCloseAtDayEnd
    <3>2. raw \in prices /\ raw.date = d /\ raw.symbol = Old BY <3>1 DEF Closes
    <3>3. BarsOn(t, d, today) = {raw} BY <1>1, <1>4, <2>5, <2>7, <3>1
    <3>4. QED BY <2>1, <3>1, <3>2, <3>3
  <2>8. QED BY <2>6, <2>7
<1>5. QED BY <1>2, <1>3, <1>4

\* Without an action after the rename, the factor under a bar's own symbol is
\* the one of the security.
LEMMA FactorAtDayEnd ==
    ASSUME LedgerInv, SymbolsRight, NoActionAfterRename, NEW t \in Symbols,
           NEW r \in prices, r.symbol \in {t} \cup Before(t, today)
    PROVE  AdjustmentFactor(r.symbol, r.date, today, today)
             = {e \in Visible(actions, today) :
                   /\ e.symbol \in {t} \cup Before(t, today)
                   /\ e.status = "normalized" /\ r.date < e.date /\ e.date <= today}
<1>0. LastDay \in Nat \ {0} /\ Old # New /\ Days \subseteq Int BY PitAssumption DEF Days
<1>t. PitType BY DEF LedgerInv
<1>1. /\ switch \in Int /\ r.date \in Int /\ \A e \in actions : e.date \in Int
  BY <1>t, <1>0 DEF PitType, PriceRows, ActionRows, Days
<1>2. /\ r.symbol = SymbolOn(r.date)
      /\ \A e \in actions : e.symbol = SymbolOn(e.date) /\ e.symbol = Old
  BY DEF SymbolsRight, NoActionAfterRename
<1>3. Before(t, today) = {} \/ (t = New /\ Before(t, today) = {Old})
  BY ResolvedAtDayEnd, <1>1
<1>4. CASE Before(t, today) = {}
  BY <1>4 DEF AdjustmentFactor
<1>5. CASE t = New /\ Before(t, today) = {Old} /\ r.symbol = Old
  BY <1>5, <1>2 DEF AdjustmentFactor, Visible
<1>6. CASE t = New /\ Before(t, today) = {Old} /\ r.symbol = New
  <2>1. ~(r.date < switch) BY <1>6, <1>2, <1>0 DEF SymbolOn
  <2>2. \A e \in actions : e.date < switch BY <1>2, <1>0 DEF SymbolOn
  <2>3. \A e \in actions : ~(r.date < e.date) BY <1>1, <2>1, <2>2
  <2>4. QED BY <2>3 DEF AdjustmentFactor, Visible
<1>7. QED BY <1>3, <1>4, <1>5, <1>6

\* The days the engine rebuilds a window from are those that have a bar, or both
\* hold every one of the last n days.
LEMMA DatesAtDayEnd ==
    ASSUME LedgerInv, SymbolsRight, NEW t \in Symbols, NEW n \in Windows,
           Unbroken(n, today) \/ renames = {}
    PROVE  LET dates == {d \in 1 .. today : BarsOn(t, d, today) # {}}
               tried == {d \in CandidateDates(t, today, n, today) : BarsOn(t, d, today) # {}}
           IN \/ tried = dates
              \/ /\ n \in 1 .. today
                 /\ tried \subseteq dates /\ today - n + 1 .. today \subseteq tried
<1> DEFINE dates == {d \in 1 .. today : BarsOn(t, d, today) # {}}
           tried == {d \in CandidateDates(t, today, n, today) : BarsOn(t, d, today) # {}}
           far == today + 1 - n
<1>0. /\ LastDay \in Nat \ {0} /\ Old # New /\ Days \subseteq Int /\ n \in Days
      /\ Unavailable \notin Symbols
  BY PitAssumption DEF Days
<1>t. PitType BY DEF LedgerInv
<1>1. today \in Days /\ 1 .. today \subseteq Days /\ far \in Int /\ switch \in 2 .. LastDay + 1
  BY <1>t, <1>0 DEF PitType, Days
<1>2. \A s : AvailableTradeDates(s, today, today) = {d \in 1 .. today : Closes(s, d) # {}}
  BY RawCloseAtDayEnd DEF AvailableTradeDates
<1>3. \A d : Closes(t, d) # {} => BarsOn(t, d, today) # {}
  BY RawCloseAtDayEnd DEF BarsOn
<1>4. CASE ~(Before(t, today) # {} /\ far < switch)
  <2>1. ResolveSymbol(t, far, today) \in {t, Unavailable} BY <1>1, <1>4, ResolvedAtDayEnd
  <2>2. CandidateDates(t, today, n, today) = {d \in 1 .. today : Closes(t, d) # {}}
    BY <1>2, <2>1 DEF CandidateDates
  <2>3. tried \subseteq dates BY <2>2
  <2>4. CASE Before(t, today) = {}
    <3>1. \A d : BarsOn(t, d, today) # {} => Closes(t, d) # {}
      BY <2>4, RawCloseAtDayEnd DEF BarsOn
    <3>2. QED BY <2>2, <3>1
  <2>5. CASE Before(t, today) # {}
    <3>1. t = New /\ renames # {} BY <1>1, <2>5, ResolvedAtDayEnd
    <3>2. Unbroken(n, today) BY <3>1
    <3>3. ~(far < switch) BY <1>4, <2>5
    <3>4. n \in 1 .. today BY <3>3, <1>0, <1>1 DEF Days
    <3>5. ASSUME NEW d \in today - n + 1 .. today PROVE d \in tried
      <4>1. d \in 1 .. today /\ d > today - n /\ ~(d < switch)
        BY <3>3, <3>4, <1>0, <1>1 DEF Days
      <4>2. Visible(Closes(New, d), today) # {}
        BY <3>2, <4>1 DEF Unbroken, SymbolOn
      <4>3. Closes(t, d) # {} BY <4>2, <3>1 DEF Visible
      <4>4. QED BY <2>2, <4>1, <4>3, <1>3
    <3>6. QED BY <2>3, <3>4, <3>5
  <2>6. QED BY <2>4, <2>5
<1>5. CASE Before(t, today) # {} /\ far < switch
  <2>1. ResolveSymbol(t, far, today) = Old /\ Before(t, today) = {Old}
    BY <1>1, <1>5, ResolvedAtDayEnd
  <2>2. Old # Unavailable BY <1>0 DEF Symbols
  <2>3. CandidateDates(t, today, n, today)
          = {d \in 1 .. today : Closes(t, d) # {}} \cup {d \in 1 .. today : Closes(Old, d) # {}}
    BY <1>2, <2>1, <2>2 DEF CandidateDates
  <2>4. \A d : BarsOn(t, d, today) # {} => Closes(t, d) # {} \/ Closes(Old, d) # {}
    BY <2>1, RawCloseAtDayEnd DEF BarsOn
  <2>5. QED BY <2>3, <2>4
<1>6. QED BY <1>4, <1>5

\* The window a run is answered at the end of the day is the formula's.
LEMMA WindowAtDayEnd ==
    ASSUME LedgerInv, SymbolsRight, NoActionAfterRename,
           NEW t \in Symbols, NEW n \in Windows, Unbroken(n, today) \/ renames = {}
    PROVE  GetAdjustedWindow(t, today, n, today) = Reconstruction(t, n, today)
<1> DEFINE Bars(d) == BarsOn(t, d, today)
           names == {t} \cup Before(t, today)
           Factor(d) == {e \in Visible(actions, today) :
                           /\ e.symbol \in names /\ e.status = "normalized"
                           /\ d < e.date /\ e.date <= today}
           Adj(d) == AdjustedCloseOnBasis(t, d, today, today)
           dates == {d \in 1 .. today : Bars(d) # {}}
           candidates == CandidateDates(t, today, n, today)
           tried == {d \in candidates : Bars(d) # {}}
<1>0. LastDay \in Nat \ {0} /\ Days \subseteq Nat BY PitAssumption DEF Days
<1>t. PitType BY DEF LedgerInv
<1>d. today \in Days /\ today \in Nat /\ 1 .. today \subseteq Days
  BY <1>t, <1>0 DEF PitType, Days
<1>1. ASSUME NEW d \in Days
      PROVE  \/ Bars(d) = {} /\ Adj(d) = Unavailable
             \/ \E r : /\ Bars(d) = {r} /\ r.date = d /\ Adj(d) # Unavailable
                       /\ Adj(d) = [bar |-> r, factor |-> Factor(r.date)]
  <2> DEFINE raw == RawCloseWithIdentity(t, d, today)
  <2>1. CASE raw = Unavailable
    <3>1. Bars(d) = {} BY <2>1, BarAtDayEnd
    <3>2. Adj(d) = Unavailable BY <2>1 DEF AdjustedCloseOnBasis
    <3>3. QED BY <3>1, <3>2
  <2>2. CASE raw # Unavailable
    <3>1. Bars(d) = {raw} /\ raw \in prices /\ raw.date = d /\ raw.symbol \in names
      BY <2>2, BarAtDayEnd
    <3>2. AdjustmentFactor(raw.symbol, raw.date, today, today) = Factor(raw.date)
      BY <3>1, FactorAtDayEnd
    <3>3. Adj(d) = [bar |-> raw, factor |-> AdjustmentFactor(raw.symbol, d, today, today)]
      BY <2>2 DEF AdjustedCloseOnBasis
    <3>4. raw \in PriceRows /\ AdjustmentFactor(raw.symbol, d, today, today) \in SUBSET ActionRows
      BY <3>1, <1>t DEF PitType, AdjustmentFactor, Visible
    <3>5. Adj(d) \in [bar : PriceRows, factor : SUBSET ActionRows]
      BY <3>3, <3>4
    <3>6. Adj(d) # Unavailable BY <3>5, ErrorAssumption
    <3> HIDE DEF raw, Adj, Bars, Factor, names
    <3>7. QED BY <3>1, <3>2, <3>3, <3>6
  <2>3. QED BY <2>1, <2>2
<1>2. candidates \subseteq 1 .. today
  BY DEF CandidateDates, AvailableTradeDates
<1>3. {d \in candidates : Adj(d) # Unavailable} = tried
  <2>1. \A d \in 1 .. today : Adj(d) # Unavailable <=> Bars(d) # {}
    <3> HIDE DEF Adj, Bars, Factor
    <3>1. QED BY <1>1, <1>d
  <2> HIDE DEF Adj, Bars, candidates
  <2>2. QED BY <2>1, <1>2
<1>4. GetAdjustedWindow(t, today, n, today) =
        IF Cardinality(tried) < n THEN Unavailable ELSE {Adj(d) : d \in LastDays(tried, n)}
  BY <1>3 DEF GetAdjustedWindow
<1>5. Reconstruction(t, n, today) =
        IF Cardinality(dates) < n THEN Unavailable
        ELSE {[bar |-> r, factor |-> Factor(r.date)] : r \in UNION {Bars(d) : d \in LastDays(dates, n)}}
  BY DEF Reconstruction
<1>6. /\ Cardinality(tried) < n <=> Cardinality(dates) < n
      /\ LastDays(tried, n) = LastDays(dates, n)
  <2>1. \/ tried = dates
        \/ /\ n \in 1 .. today
           /\ tried \subseteq dates /\ today - n + 1 .. today \subseteq tried
    BY DatesAtDayEnd
  <2> HIDE DEF tried
  <2>2. CASE tried = dates BY <2>2
  <2>3. CASE /\ n \in 1 .. today
             /\ tried \subseteq dates /\ today - n + 1 .. today \subseteq tried
    <3>1. dates \in SUBSET (1 .. today) OBVIOUS
    <3> HIDE DEF dates
    <3>2. LastDays(tried, n) = today - n + 1 .. today /\ ~(Cardinality(tried) < n)
      BY <2>3, <3>1, <1>d, UnbrokenDays
    <3>3. LastDays(dates, n) = today - n + 1 .. today /\ ~(Cardinality(dates) < n)
      BY <2>3, <3>1, <1>d, UnbrokenDays
    <3>4. QED BY <3>2, <3>3
  <2>4. QED BY <2>1, <2>2, <2>3
<1>7. {Adj(d) : d \in LastDays(dates, n)}
        = {[bar |-> r, factor |-> Factor(r.date)] : r \in UNION {Bars(d) : d \in LastDays(dates, n)}}
  <2> DEFINE L == LastDays(dates, n)
             Whole(r) == [bar |-> r, factor |-> Factor(r.date)]
  <2>1. \A d \in L : d \in dates BY DEF LastDays
  <2>2. \A d \in L : \E r : Bars(d) = {r} /\ Adj(d) = Whole(r)
    <3>1. \A d \in dates : d \in Days /\ Bars(d) # {} BY <1>d
    <3> HIDE DEF Adj, Bars, Factor, L, dates
    <3>2. QED BY <1>1, <2>1, <3>1
  <2> HIDE DEF Adj, Bars, Factor, L, Whole
  <2>3. {Adj(d) : d \in L} \subseteq {Whole(r) : r \in UNION {Bars(d) : d \in L}}
    BY <2>2
  <2>4. {Whole(r) : r \in UNION {Bars(d) : d \in L}} \subseteq {Adj(d) : d \in L}
    BY <2>2
  <2>5. {Adj(d) : d \in L} = {Whole(r) : r \in UNION {Bars(d) : d \in L}}
    BY <2>3, <2>4
  <2>6. QED BY <2>5 DEF L, Whole
<1> HIDE DEF Bars, Factor, Adj, dates, candidates, tried
<1>8. QED BY <1>4, <1>5, <1>6, <1>7

\* What the formula makes of a, and whether days are missing before a, is the
\* same after any later step.
LEMMA FormulaStands ==
    ASSUME LedgerInv, [PitNext]_pitVars, NEW a \in Days, a < today
    PROVE  /\ \A t, n : Reconstruction(t, n, a)' = Reconstruction(t, n, a)
           /\ \A n : Unbroken(n, a)' <=> Unbroken(n, a)
<1>0. LastDay \in Nat \ {0} BY PitAssumption
<1>t. PitType BY DEF LedgerInv
<1>d. a \in Int /\ today \in Int /\ ~(today <= a) BY <1>0, <1>t DEF Days, PitType
<1>s. switch' = switch /\ \A d : SymbolOn(d)' = SymbolOn(d)
  BY DEF PitNext, RecordClose, RecordRename, RecordAction, RecordHolding, EndDay, ledgers, pitVars, SymbolOn
<1>1. \A s, e : Visible(Closes(s, e), a)' = Visible(Closes(s, e), a)
  <2>1. prices' = prices \/ \E x : prices' = prices \cup {x} /\ x.asof = today
    BY StepAdds
  <2>2. QED BY <2>1, <1>d DEF Visible, Closes
<1>2. \A t : Before(t, a)' = Before(t, a)
  BY VisibleStands DEF Before
<1>3. ASSUME NEW t, NEW d PROVE BarsOn(t, d, a)' = BarsOn(t, d, a)
  <2> DEFINE own == Visible(Closes(t, d), a)
             earlier == UNION {Visible(Closes(from, d), a) : from \in Before(t, a)}
  <2>1. own' = own BY <1>1
  <2>2. earlier' = earlier BY <1>1, <1>2
  <2>3. BarsOn(t, d, a) = IF own # {} THEN {Newest(own)}
                          ELSE IF d < switch /\ earlier # {} THEN {Newest(earlier)} ELSE {}
    BY DEF BarsOn
  <2>4. BarsOn(t, d, a)' = IF own' # {} THEN {Newest(own')}
                           ELSE IF d < switch' /\ earlier' # {} THEN {Newest(earlier')} ELSE {}
    BY DEF BarsOn
  <2> HIDE DEF own, earlier
  <2>5. QED BY <2>1, <2>2, <2>3, <2>4, <1>s
<1>4. Visible(actions, a)' = Visible(actions, a) BY VisibleStands
<1>5. ASSUME NEW t, NEW n PROVE Reconstruction(t, n, a)' = Reconstruction(t, n, a)
  <2> DEFINE dates == {d \in 1 .. a : BarsOn(t, d, a) # {}}
             names == {t} \cup Before(t, a)
             Factor(d) == {e \in Visible(actions, a) :
                             /\ e.symbol \in names /\ e.status = "normalized"
                             /\ d < e.date /\ e.date <= a}
             bars == UNION {BarsOn(t, d, a) : d \in LastDays(dates, n)}
  <2>1. dates' = dates BY <1>3
  <2>2. bars' = bars BY <1>3, <2>1
  <2>3. \A d : Factor(d)' = Factor(d) BY <1>2, <1>4
  <2>4. Reconstruction(t, n, a) = IF Cardinality(dates) < n THEN Unavailable
                                  ELSE {[bar |-> r, factor |-> Factor(r.date)] : r \in bars}
    BY DEF Reconstruction
  <2>5. Reconstruction(t, n, a)' = IF Cardinality(dates') < n THEN Unavailable
                                   ELSE {[bar |-> r, factor |-> Factor(r.date)'] : r \in bars'}
    BY DEF Reconstruction
  <2> HIDE DEF dates, names, Factor, bars
  <2>6. QED BY <2>1, <2>2, <2>3, <2>4, <2>5
<1>6. \A n : Unbroken(n, a)' <=> Unbroken(n, a)
  BY <1>1, <1>s DEF Unbroken
<1>7. QED BY <1>5, <1>6

LEMMA WindowStep ==
    LedgerInv /\ SymbolsRight /\ WindowMatchesFormula /\ [PitNext]_pitVars => WindowMatchesFormula'
<1> SUFFICES ASSUME LedgerInv, SymbolsRight, WindowMatchesFormula, [PitNext]_pitVars,
                    NEW a \in DOMAIN answers', NEW t \in Symbols, NEW n \in Windows,
                    ((Unbroken(n, a) \/ renames = {}) /\ NoActionAfterRename)'
             PROVE  answers'[a].windows[t][n] = Reconstruction(t, n, a)'
  BY DEF WindowMatchesFormula
<1>0. LastDay \in Nat \ {0} BY PitAssumption
<1>t. PitType BY DEF LedgerInv
<1>1. DOMAIN answers = 1 .. today - 1 /\ today \in Days /\ Days \subseteq Int
  BY <1>t, <1>0 DEF PitType, Days
<1>2. renames \subseteq renames' /\ actions \subseteq actions'
  BY DEF PitNext, RecordClose, RecordRename, RecordAction, RecordHolding, EndDay, ledgers, pitVars
<1>3. NoActionAfterRename /\ (renames' = {} => renames = {})
  BY <1>2 DEF NoActionAfterRename
<1>4. CASE a \in DOMAIN answers /\ answers'[a] = answers[a]
  <2>1. a \in Days /\ a < today BY <1>1, <1>4, <1>0 DEF Days
  <2>2. Unbroken(n, a) \/ renames = {} BY <1>3, <2>1, FormulaStands
  <2>3. answers[a].windows[t][n] = Reconstruction(t, n, a)
    BY <1>3, <1>4, <2>2 DEF WindowMatchesFormula
  <2>4. QED BY <1>4, <2>1, <2>3, FormulaStands
<1>5. CASE EndDay
  <2> DEFINE x == AnswersAt(today)
  <2>1. PICK S : answers \in Seq(S) BY <1>t DEF PitType
  <2>2. answers \in Seq(S \cup {x}) /\ answers' = Append(answers, x)
    BY <2>1, <1>5 DEF EndDay
  <2>3. Len(answers) = today - 1 BY <1>t DEF PitType
  <2>4. (a \in DOMAIN answers /\ answers'[a] = answers[a]) \/ (a = today /\ answers'[a] = x)
    <3> HIDE DEF x
    <3>1. Len(answers') = today /\ DOMAIN answers' = 1 .. today BY <2>2, <2>3, <1>1
    <3>2. \A i \in 1 .. today - 1 : answers'[i] = answers[i] BY <2>2, <2>3, <1>1
    <3>3. answers'[today] = x BY <2>2, <2>3, <1>1
    <3>4. a \in 1 .. today - 1 \/ a = today BY <3>1, <1>1
    <3>5. CASE a \in 1 .. today - 1
      <4>1. a \in DOMAIN answers BY <3>5, <1>1
      <4>2. answers'[a] = answers[a] BY <3>2, <3>5
      <4>3. QED BY <4>1, <4>2
    <3>6. CASE a = today
      BY <3>3, <3>6
    <3>7. QED BY <3>4, <3>5, <3>6
  <2>5. CASE a = today /\ answers'[a] = x
    <3>1. UNCHANGED <<switch, prices, actions, renames, holdings>> BY <1>5 DEF EndDay, ledgers
    <3>2. Unbroken(n, today) \/ renames = {}
      BY <3>1, <2>5 DEF Unbroken, Visible, Closes, SymbolOn
    <3>3. GetAdjustedWindow(t, today, n, today) = Reconstruction(t, n, today)
      BY <1>3, <3>2, WindowAtDayEnd
    <3>4. x.windows[t][n] = GetAdjustedWindow(t, today, n, today)
      <4> DEFINE W == [s \in Symbols |-> [m \in Windows |-> GetAdjustedWindow(s, today, m, today)]]
      <4>1. x.windows = W BY DEF AnswersAt
      <4>2. W[t][n] = GetAdjustedWindow(t, today, n, today) OBVIOUS
      <4> HIDE DEF W, x
      <4>3. QED BY <4>1, <4>2
    <3>5. Reconstruction(t, n, a)' = Reconstruction(t, n, a)
      BY <3>1 DEF Reconstruction, BarsOn, Before, Visible, Closes
    <3>6. QED BY <2>5, <3>3, <3>4, <3>5
  <2>6. QED BY <1>4, <2>4, <2>5
<1>6. CASE UNCHANGED answers
  BY <1>4, <1>6
<1>7. QED
  BY <1>5, <1>6 DEF PitNext, RecordClose, RecordRename, RecordAction, RecordHolding, pitVars

\* Whatever the order in which closes, a rename and actions were recorded, a
\* window is the newest bars of the security known at its as-of time, scaled on
\* one basis by the actions known by then, as long as no action follows the
\* rename and no business day of the window lacks a bar
\* (LedgerPITAdjustmentEngine, pit_adjustment.py).
THEOREM WindowsFollowFormula == PitSpec => []WindowMatchesFormula
<1>1. PitInit => LedgerInv /\ SymbolsRight /\ WindowMatchesFormula
  <2>0. PitInit => DOMAIN answers = {} BY DEF PitInit
  <2>1. PitInit => WindowMatchesFormula BY <2>0, Zenon DEF WindowMatchesFormula
  <2>2. QED BY <2>1, LedgerInit, SymbolsRightInit
<1>2. LedgerInv /\ SymbolsRight /\ WindowMatchesFormula /\ [PitNext]_pitVars
        => (LedgerInv /\ SymbolsRight /\ WindowMatchesFormula)'
  BY LedgerStep, SymbolsRightStep, WindowStep
<1>3. QED BY <1>1, <1>2, PTL DEF PitSpec
=============================================================================
