------------------------------ MODULE PitStores ------------------------------
(***************************************************************************)
(* The point-in-time stores (qqq_cycle/data_contracts): ledgers of raw     *)
(* closes, corporate actions, renames, constituents and weights, whose     *)
(* rows carry the time at which they were known, and the engine that       *)
(* rebuilds adjusted closes from them, LedgerPITAdjustmentEngine.          *)
(*                                                                         *)
(* One security is followed.  It trades as Old until a day and as New from *)
(* then on.  Days are business days and as-of times their ends.  A row of  *)
(* prices stands for the close it holds, an adjusted close for that row    *)
(* and the set of actions its factor multiplies.  Rows are only appended.  *)
(***************************************************************************)
EXTENDS Integers, FiniteSets, Sequences

CONSTANTS
    Old, New,        \* the security's two symbols
    Unavailable,     \* DataNotAvailableError and its kinds
    Windows,         \* lengths of window asked for (20 and 60)
    LastDay,         \* bound: days in the calendar
    MaxDelay,        \* bound: days by which a close is recorded late
    MaxCorrections,  \* bound: corrections of closes
    MaxRenames,      \* bound: rows about the rename
    MaxActions,      \* bound: corporate-action rows
    MaxHoldings      \* bound: constituent and weight rows

Days    == 1 .. LastDay
Symbols == {Old, New}

ASSUME PitAssumption ==
    /\ Old # New /\ Unavailable \notin Symbols
    /\ LastDay \in Nat \ {0} /\ Windows \subseteq Days
    /\ MaxDelay \in Nat /\ MaxCorrections \in Nat /\ MaxRenames \in Nat
    /\ MaxActions \in Nat /\ MaxHoldings \in Nat

PriceRows  == [symbol : Symbols, date : Days, asof : Days]
ActionRows == [symbol : Symbols, date : Days, status : {"normalized", "pending"}, asof : Days]

\* An error is none of the rows and adjusted closes it is returned in place of.
ASSUME ErrorAssumption ==
    Unavailable \notin PriceRows \cup [bar : PriceRows, factor : SUBSET ActionRows]

VARIABLES
    today,      \* the day under way
    switch,     \* the first day of trading as New; after LastDay if never
    prices,     \* rows [symbol, date, asof]
    actions,    \* rows [symbol, date, status, asof], date the effective date
    renames,    \* rows [from, to, date, kind, asof]
    holdings,   \* rows [ticker, asof] of one trade date, in file order
    answers     \* history: what the weekly run was answered at the end of each day

ledgers == <<prices, actions, renames, holdings>>
pitVars == <<today, switch, ledgers, answers>>

\* The row that was appended last.
Newest(rows) == CHOOSE r \in rows : \A s \in rows : s.asof <= r.asof
Visible(rows, a) == {r \in rows : r.asof <= a}
\* The n largest days of D.
LastDays(D, n) == {d \in D : Cardinality({e \in D : e > d}) < n}

-----------------------------------------------------------------------------
\* CsvRawPriceStore: of each (symbol, date) only the newest row is kept, and it
\* is that row the as-of time is compared with.
Closes(symbol, date) == {r \in prices : r.symbol = symbol /\ r.date = date}

GetRawClose(symbol, date, a) ==
    LET rows == Closes(symbol, date) IN
    IF rows = {} \/ Newest(rows).asof > a THEN Unavailable ELSE Newest(rows)

AvailableTradeDates(symbol, end, a) ==
    {d \in 1 .. end : GetRawClose(symbol, d, a) # Unavailable}

\* SymbolIdentityResolver: Fault, every kind of succession is bridged.
ResolveSymbolAnyKind(ticker, date, a) ==
    LET future == {r \in renames : r.to = ticker /\ r.date > date} IN
    CASE future = {}                                -> ticker
      [] future # {} /\ Visible(future, a) = {}     -> Unavailable
      [] OTHER -> Newest(Visible(future, a)).from

\* The symbol a ticker had on a date: the newest visible row about a later
\* rename decides, and only a pure rename is bridged.
ResolveSymbol(ticker, date, a) ==
    LET future == {r \in renames : r.to = ticker /\ r.date > date} IN
    CASE future = {}                                -> ticker
      [] future # {} /\ Visible(future, a) = {}     -> Unavailable
      [] OTHER -> LET r == Newest(Visible(future, a)) IN
                  IF r.kind = "pure_rename" THEN r.from ELSE Unavailable

\* Fault: the ledger is read without its as-of times.
AdjustmentFactorHindsight(symbol, after, upto, a) ==
    {e \in actions : /\ e.symbol = symbol /\ e.status = "normalized"
                     /\ after < e.date /\ e.date <= upto}

\* CorporateActionStore: the actions multiplied for a bar of day "after" on the
\* basis of day "upto".
AdjustmentFactor(symbol, after, upto, a) ==
    {e \in Visible(actions, a) : /\ e.symbol = symbol /\ e.status = "normalized"
                                 /\ after < e.date /\ e.date <= upto}

-----------------------------------------------------------------------------
(* LedgerPITAdjustmentEngine                                                *)

\* A close of the ticker itself, else of the symbol it had on that date.
RawCloseWithIdentity(ticker, date, a) ==
    LET direct == GetRawClose(ticker, date, a)
        resolved == ResolveSymbol(ticker, date, a)
    IN CASE direct # Unavailable -> direct
         [] direct = Unavailable /\ resolved \in {ticker, Unavailable} -> Unavailable
         [] OTHER -> GetRawClose(resolved, date, a)

AdjustedCloseOnBasis(ticker, date, basis, a) ==
    LET row == RawCloseWithIdentity(ticker, date, a) IN
    IF row = Unavailable THEN Unavailable
    ELSE [bar |-> row, factor |-> AdjustmentFactor(row.symbol, date, basis, a)]

\* get_adj_close: the basis is the as-of day.
GetAdjClose(ticker, date, a) == AdjustedCloseOnBasis(ticker, date, a, a)

\* The dates worth trying: the ticker's own, and those of the symbol it had n
\* business days ago, unless that cannot be told.
CandidateDates(ticker, end, n, a) ==
    LET historical == ResolveSymbol(ticker, end + 1 - n, a) IN
    AvailableTradeDates(ticker, end, a) \cup
       (IF historical = Unavailable THEN {} ELSE AvailableTradeDates(historical, end, a))

\* The n newest closes that can be rebuilt, on the basis of the window's end.
GetAdjustedWindow(ticker, end, n, a) ==
    LET rebuilt == {d \in CandidateDates(ticker, end, n, a) :
                        AdjustedCloseOnBasis(ticker, d, end, a) # Unavailable} IN
    IF Cardinality(rebuilt) < n THEN Unavailable
    ELSE {AdjustedCloseOnBasis(ticker, d, end, a) : d \in LastDays(rebuilt, n)}

\* CsvConstituentStore: the tickers of every visible row; CsvWeightStore: of
\* each ticker the weight of its last visible row in the file.
GetSnapshot(a) ==
    LET rows == {i \in DOMAIN holdings : holdings[i].asof <= a} IN
    IF rows = {} THEN Unavailable ELSE {holdings[i].ticker : i \in rows}

LastRow(ticker, a) ==
    CHOOSE i \in DOMAIN holdings :
        /\ holdings[i].ticker = ticker /\ holdings[i].asof <= a
        /\ \A j \in DOMAIN holdings :
             holdings[j].ticker = ticker /\ holdings[j].asof <= a => j <= i

GetWeights(a) ==
    IF GetSnapshot(a) = Unavailable THEN Unavailable
    ELSE [ticker \in GetSnapshot(a) |-> LastRow(ticker, a)]

-----------------------------------------------------------------------------
(* The ledgers grow                                                         *)

SymbolOn(d) == IF d < switch THEN Old ELSE New

\* Everything the weekly run asks the stores with the end of day a as its time.
AnswersAt(a) ==
    [windows |-> [t \in Symbols |-> [n \in Windows |-> GetAdjustedWindow(t, a, n, a)]],
     closes  |-> [t \in Symbols |-> [d \in 1 .. a |-> GetAdjClose(t, d, a)]],
     members |-> GetSnapshot(a),
     weights |-> GetWeights(a)]

PitInit ==
    /\ today = 1
    /\ switch \in 2 .. LastDay + 1
    /\ prices = {} /\ actions = {} /\ renames = {} /\ holdings = <<>>
    /\ answers = <<>>

\* Closes that were recorded again.
Corrections ==
    Cardinality(prices) - Cardinality({<<r.symbol, r.date>> : r \in prices})

\* A close of today or, late, of a day before; or a correction of one.
RecordClose(d) ==
    /\ d <= today /\ today - d <= MaxDelay
    /\ \A r \in Closes(SymbolOn(d), d) : r.asof < today /\ Corrections < MaxCorrections
    /\ prices' = prices \cup {[symbol |-> SymbolOn(d), date |-> d, asof |-> today]}
    /\ UNCHANGED <<today, switch, actions, renames, holdings, answers>>

\* The rename becomes known, before or after its day, possibly with a kind that
\* a later row puts right.
RecordRename(kind) ==
    /\ switch <= LastDay /\ Cardinality(renames) < MaxRenames
    /\ \A r \in renames : r.asof < today
    /\ renames' = renames \cup
         {[from |-> Old, to |-> New, date |-> switch, kind |-> kind, asof |-> today]}
    /\ UNCHANGED <<today, switch, prices, actions, holdings, answers>>

\* An action with effective date d; each is normalized once.
RecordAction(d, status) ==
    /\ Cardinality(actions) < MaxActions
    /\ \A e \in actions : e.date = d => e.status # "normalized" /\ e.asof < today
    /\ actions' = actions \cup
         {[symbol |-> SymbolOn(d), date |-> d, status |-> status, asof |-> today]}
    /\ UNCHANGED <<today, switch, prices, renames, holdings, answers>>

\* A ticker's rows in the constituents and the weights of the watched date.
RecordHolding(ticker) ==
    /\ Len(holdings) < MaxHoldings
    /\ holdings' = Append(holdings, [ticker |-> ticker, asof |-> today])
    /\ UNCHANGED <<today, switch, prices, actions, renames, answers>>

\* The day ends, and the run that decides with its end as as-of time asks.
EndDay ==
    /\ today < LastDay
    /\ today' = today + 1
    /\ answers' = Append(answers, AnswersAt(today))
    /\ UNCHANGED <<switch, ledgers>>

PitNext ==
    \/ \E d \in Days : RecordClose(d)
    \/ \E kind \in {"pure_rename", "merger"} : RecordRename(kind)
    \/ \E d \in Days, status \in {"normalized", "pending"} : RecordAction(d, status)
    \/ \E ticker \in Symbols : RecordHolding(ticker)
    \/ EndDay

PitSpec == PitInit /\ [][PitNext]_pitVars

-----------------------------------------------------------------------------
(* Properties                                                               *)

\* A close that was corrected after day a.
CorrectedSince(a) ==
    \E r, s \in prices :
        r.symbol = s.symbol /\ r.date = s.date /\ r.asof <= a /\ a < s.asof

\* A later run that asks again with the same as-of time gets the answer the
\* first run got, whatever was recorded in between, late closes, renames,
\* actions and revised weights included; unless a close was corrected, because
\* the newest row hides the one that was visible (raw_prices.py 91-111).
AnswersStand ==
    \A a \in DOMAIN answers : CorrectedSince(a) \/ answers[a] = AnswersAt(a)

\* The names of the security visible at a: a ticker, and what it was called
\* before if the newest row about its rename calls that a pure one.
Before(ticker, a) ==
    {r.from : r \in {r \in Visible(renames, a) :
        r.to = ticker /\ r.kind = "pure_rename" /\ r = Newest(Visible(renames, a))}}

\* The security's bar of a date, as known at a.
BarsOn(ticker, d, a) ==
    LET own == Visible(Closes(ticker, d), a)
        earlier == UNION {Visible(Closes(from, d), a) : from \in Before(ticker, a)}
    IN IF own # {} THEN {Newest(own)}
       ELSE IF d < switch /\ earlier # {} THEN {Newest(earlier)} ELSE {}

\* P_adj(tau) = P_raw(tau) * product(f_u for tau < u <= basis_date), with the
\* actions of the security under all its names (pit_adjustment.py 169-174).
Reconstruction(ticker, n, a) ==
    LET dates == {d \in 1 .. a : BarsOn(ticker, d, a) # {}}
        names == {ticker} \cup Before(ticker, a)
        Factor(d) == {e \in Visible(actions, a) : /\ e.symbol \in names
                          /\ e.status = "normalized" /\ d < e.date /\ e.date <= a}
    IN IF Cardinality(dates) < n THEN Unavailable
       ELSE {[bar |-> r, factor |-> Factor(r.date)] :
                r \in UNION {BarsOn(ticker, d, a) : d \in LastDays(dates, n)}}

\* Each of the last n business days before a has a bar that was known at a.
Unbroken(n, a) ==
    \A d \in 1 .. a : d > a - n => Visible(Closes(SymbolOn(d), d), a) # {}
NoActionAfterRename == \A e \in actions : e.symbol = Old

\* A window is the newest bars of the security as known at its as-of time, on
\* one basis, however late closes, renames and actions were recorded; if no
\* business day in it lacks a bar, since the symbol of its far end is looked up
\* n business days back (pit_adjustment.py 258), and if no action follows the
\* rename.
WindowMatchesFormula ==
    \A a \in DOMAIN answers, t \in Symbols, n \in Windows :
        (Unbroken(n, a) \/ renames = {}) /\ NoActionAfterRename =>
            answers[a].windows[t][n] = Reconstruction(t, n, a)

\* The same formula for every action: one after the rename is recorded under
\* the new symbol and must scale the bars of the old one.
ActionsReachOldBars ==
    \A a \in DOMAIN answers, t \in Symbols, n \in Windows :
        Unbroken(n, a) => answers[a].windows[t][n] = Reconstruction(t, n, a)
=============================================================================
