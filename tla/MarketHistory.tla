---------------------------- MODULE MarketHistory ----------------------------
(***************************************************************************)
(* The history tab of the market dock: pages of the exchange's history,    *)
(* asked for through GET /market/history and joined in the browser, while  *)
(* the exchange goes on and the user may choose another data set.          *)
(***************************************************************************)
EXTENDS Integers, Sequences

CONSTANTS
  CandleSets,       \* data sets whose rows have a time each (candles, funding, ...)
  TradeSets,        \* data sets of trades, of which several share a time
  MaxHistory,       \* bound: rows of a data set
  HistoryPage,      \* rows that the exchange returns (100)
  MaxAsked,         \* bound: requests of the user
  MaxHistoryFaults  \* bound: answers that fail

_DATASETS == CandleSets \cup TradeSets

ASSUME HistoryAssumption ==
  /\ CandleSets \cap TradeSets = {} /\ _DATASETS # {}
  /\ {MaxHistory, MaxAsked, MaxHistoryFaults} \subseteq Nat /\ HistoryPage \in Nat \ {0}

VARIABLES
  newest,         \* by data set: rows 1..newest exist at the exchange
  dataset,        \* the user's choice
  history,        \* shown below it
  asked,          \* the request on its way, and what is shown when it is sent
  requests,       \* so far
  historyFaults

historyVars == <<newest, dataset, history, asked, requests, historyFaults>>

\* A cursor 0 is none, and offers no earlier rows.
NoHistory == [rows |-> <<>>, next_after |-> 0]
NotAsked  == [stage |-> "idle", dataset |-> "", after |-> 0, base |-> NoHistory]

-----------------------------------------------------------------------------
(* The exchange: the newest rows older than the cursor, newest first. The  *)
(* page type is that of trade ids, and ids are smaller than milliseconds.  *)

timestamp_ms(d, n) == MaxHistory + (IF d \in TradeSets THEN (n + 1) \div 2 ELSE n)

\* What "after" is compared with.
Cursor(d, n) == IF d \in TradeSets THEN n ELSE timestamp_ms(d, n)

Answer(d, after) ==
  LET last == CHOOSE n \in 0..newest[d] :
                /\ \A k \in 1..n : after = 0 \/ Cursor(d, k) < after
                /\ n = newest[d] \/ (after # 0 /\ Cursor(d, n + 1) >= after)
      size == IF last < HistoryPage THEN last ELSE HistoryPage
  IN  [i \in 1..size |-> [dataset |-> d, row |-> last + 1 - i]]

-----------------------------------------------------------------------------
(* The endpoint                                                            *)

\* The oldest time of the page; without rows there is none.
history_cursor(rows) ==
  IF rows = <<>> THEN 0 ELSE timestamp_ms(rows[Len(rows)].dataset, rows[Len(rows)].row)

market_history(d, after) ==
  [rows |-> Answer(d, after), next_after |-> history_cursor(Answer(d, after))]

-----------------------------------------------------------------------------
(* The dock                                                                *)

HistoryInit ==
  /\ newest \in [_DATASETS -> 0..MaxHistory]
  /\ dataset \in _DATASETS
  /\ history = NoHistory /\ asked = NotAsked /\ requests = 0 /\ historyFaults = 0

NewRow ==
  /\ \E d \in _DATASETS : newest[d] < MaxHistory /\ newest' = [newest EXCEPT ![d] = @ + 1]
  /\ UNCHANGED <<dataset, history, asked, requests, historyFaults>>

\* The choice is open while a request is on its way.
Choose ==
  /\ \E d \in _DATASETS \ {dataset} : dataset' = d
  /\ history' = NoHistory
  /\ UNCHANGED <<newest, asked, requests, historyFaults>>

\* historyBusy disables the buttons.
Ask(after, base) ==
  /\ asked.stage = "idle" /\ requests < MaxAsked
  /\ requests' = requests + 1
  /\ asked' = [stage |-> "sent", dataset |-> dataset, after |-> after, base |-> base]
  /\ UNCHANGED <<newest, dataset, history, historyFaults>>

Load == Ask(0, NoHistory)

LoadEarlier == history.next_after # 0 /\ Ask(history.next_after, history)

\* The rows are joined to those there were when the request was sent.
Loaded ==
  /\ asked.stage = "sent"
  /\ LET next == market_history(asked.dataset, asked.after)
     IN  history' = [next EXCEPT !.rows = asked.base.rows \o @]
  /\ asked' = NotAsked
  /\ UNCHANGED <<newest, dataset, requests, historyFaults>>

\* OKXDiagnosticError: an answer without rows and without a cursor.
Diagnosed ==
  /\ asked.stage = "sent" /\ historyFaults < MaxHistoryFaults
  /\ history' = [rows |-> asked.base.rows, next_after |-> 0]
  /\ asked' = NotAsked /\ historyFaults' = historyFaults + 1
  /\ UNCHANGED <<newest, dataset, requests>>

\* The backend cannot be reached, or raises: what was shown goes.
NotReady ==
  /\ asked.stage = "sent" /\ historyFaults < MaxHistoryFaults
  /\ history' = NoHistory
  /\ asked' = NotAsked /\ historyFaults' = historyFaults + 1
  /\ UNCHANGED <<newest, dataset, requests>>

HistoryNext == NewRow \/ Choose \/ Load \/ LoadEarlier \/ Loaded \/ Diagnosed \/ NotReady

-----------------------------------------------------------------------------

Shown == history.rows

\* The history's share of the type invariant.
HistoryTypeOK ==
  /\ newest \in [_DATASETS -> 0..MaxHistory] /\ dataset \in _DATASETS
  /\ \A i \in DOMAIN Shown : Shown[i] \in [dataset : _DATASETS, row : 1..MaxHistory]
  /\ history.next_after \in 0..2 * MaxHistory
  /\ asked.stage \in {"idle", "sent"} /\ requests \in 0..MaxAsked /\ historyFaults \in 0..MaxHistoryFaults

\* A list of rows of one data set that have a time each shows every one of them once, newest first
\* and with no hole where two pages meet, whatever was chosen between the requests and though the
\* exchange adds rows at the other end.
PagesMeet ==
  \A d \in CandleSets :
    (\A i \in DOMAIN Shown : Shown[i].dataset = d) =>
      \A i \in 1..(Len(Shown) - 1) : Shown[i].row = Shown[i + 1].row + 1

\* What a list of one data set says of itself: the rows are those of the data set chosen.
\* An answer that comes after another choice breaks it.
RowsAreOfTheChoice == \A i \in DOMAIN Shown : Shown[i].dataset = dataset

\* "paginated via after tradeId": a page that is asked for as the earlier one has only earlier
\* trades. The cursor of a page of trades is a time, and every id is smaller.
EarlierTradesAreEarlier ==
  \A i, j \in DOMAIN Shown :
    i < j /\ Shown[i].dataset = Shown[j].dataset => Shown[i].row > Shown[j].row
=============================================================================
