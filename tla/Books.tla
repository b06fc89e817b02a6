-------------------------------- MODULE Books --------------------------------
(***************************************************************************)
(* The money of one engine: the append-only journal of LedgerService, the  *)
(* projection tables rebuilt from it, the paper exchange that keeps its    *)
(* own balances and positions in memory, the perpetual paper engine that   *)
(* replays the same journal, and the reconciliation loop that compares the *)
(* journal with the exchange and halts execution.                          *)
(*                                                                         *)
(* Three tasks of the engine share them: the tick (orders, perpetual       *)
(* opens and closes), the event loop (settles one spot fill at a time) and *)
(* the reconciliation loop.  Each await of a task on the database is a     *)
(* step of its own.  The event loop swallows what its handler raises, so a *)
(* fill may be dropped, or its settlement given up half-way; an event      *)
(* stands for its copies, one per subscription, and a drop for that of the *)
(* last of them.  One spot symbol, one perpetual contract and one          *)
(* currency stand for all; a fill is one lot.  The journal is append-only  *)
(* and replayed in the order of its writes, so it is kept as what can be   *)
(* read from it: the total of every account and the results of the three   *)
(* replays.  A transaction is its metadata; Postings gives its double      *)
(* entry.                                                                  *)
(***************************************************************************)
EXTENDS Integers, Sequences, FiniteSetsExt

CONSTANTS
  Prices,      \* the prices of the market; lots of two of them average exactly
  Deposit,     \* paper_initial_equity
  Fee,         \* the fee of one fill
  Leverage,    \* of every perpetual entry
  Rates,       \* funding amounts per lot, negative when longs pay
  MaxLots,     \* bound: lots held at once, spot or perpetual
  MaxOrders,   \* bound: spot fills and perpetual operations per behaviour
  MaxCrashes,  \* bound: crashes of the process per behaviour
  MaxFaults    \* bound: events the event loop fails to handle per behaviour

ASSUME PricesAssumption == Prices \subseteq Nat \ {0}
ASSUME AmountsAssumption == Deposit \in Nat \ {0} /\ Fee \in Nat /\ Leverage \in Nat \ {0}
ASSUME RatesAssumption == Rates \subseteq Int
ASSUME BoundsAssumption == {MaxLots, MaxOrders, MaxCrashes, MaxFaults} \subseteq Nat

VARIABLES
  journal,   \* ledger_transactions: account totals and the replays
  table,     \* accounts_projection and positions_projection
  initial,   \* _initial_balances of the running engine
  venue,     \* the in-memory paper exchange
  queue,     \* spot fills whose order events wait in _event_queue
  settle,    \* the fill the event loop is settling, and how far it is
  recon,     \* the reconciliation round
  halted,    \* reconciliation_halted
  ended,     \* the loops an exception has ended
  phase,     \* of the process: "down", "seeding", "seeded" or "running"
  lost,      \* history: the fills of this run that never reach the journal
  torn,      \* history: whether a record was cut off from its refresh
  orders,    \* operations so far
  crashes,
  faults

loops   == <<queue, settle, recon, halted, ended>>
history == <<lost, torn>>
bounds  == <<orders, crashes, faults>>
vars    == <<journal, table, initial, venue, loops, phase, history, bounds>>

-----------------------------------------------------------------------------
(* Journal entries and their postings.                                     *)

Account == {"CASH", "EQUITY", "POSITION_ASSET", "FEE_EXPENSE", "REALIZED_PNL", "MARGIN",
            "FUTURES_POSITION_ASSET", "FUTURES_POSITION_LIABILITY",
            "FUTURES_TRADING_FEE", "FUTURES_REALIZED_PNL",
            "FUNDING_RECEIPT", "FUNDING_PAYMENT"}

\* The postings of a transaction, by account: a debit adds, a credit takes away,
\* and a gain or loss of zero is no posting.
NoPosting == [account \in Account |-> 0]

TradePostings(t) ==
  IF t.side = "BUY"
  THEN [NoPosting EXCEPT !["POSITION_ASSET"] = t.price, !["FEE_EXPENSE"] = Fee,
                         !["CASH"] = -(t.price + Fee)]
  ELSE [NoPosting EXCEPT !["CASH"] = t.price - Fee, !["POSITION_ASSET"] = -t.released,
                         !["FEE_EXPENSE"] = Fee,
                         !["REALIZED_PNL"] = -(t.price - t.released)]

DepositPostings(t) == [NoPosting EXCEPT !["CASH"] = t.amount, !["EQUITY"] = -t.amount]

OpenPostings(t) ==
  [NoPosting EXCEPT !["FUTURES_POSITION_ASSET"] = t.qty * t.price,
                    !["FUTURES_POSITION_LIABILITY"] = -(t.qty * t.price),
                    !["FUTURES_TRADING_FEE"] = Fee, !["MARGIN"] = t.margin,
                    !["CASH"] = -(Fee + t.margin)]

ClosePostings(t) ==
  [NoPosting EXCEPT !["FUTURES_POSITION_LIABILITY"] = t.qty * t.entry,
                    !["FUTURES_POSITION_ASSET"] = -(t.qty * t.entry),
                    !["FUTURES_TRADING_FEE"] = Fee, !["MARGIN"] = -t.margin,
                    !["CASH"] = t.pnl + t.margin - Fee,
                    !["FUTURES_REALIZED_PNL"] = -t.pnl]

FundingPostings(t) ==
  [NoPosting EXCEPT !["CASH"] = t.amount,
                    ![IF t.amount > 0 THEN "FUNDING_RECEIPT" ELSE "FUNDING_PAYMENT"] =
                      -t.amount]

Postings(t) ==
  CASE t.type = "TRADE"   -> TradePostings(t)
    [] t.type = "DEPOSIT" -> DepositPostings(t)
    [] t.type = "OPEN"    -> OpenPostings(t)
    [] t.type = "CLOSE"   -> ClosePostings(t)
    [] t.type = "FUNDING" -> FundingPostings(t)

\* The debits less the credits of a balance sheet, or of one transaction.
TrialBalance(p) ==
  p["CASH"] + p["EQUITY"] + p["POSITION_ASSET"] + p["FEE_EXPENSE"] + p["REALIZED_PNL"]
  + p["MARGIN"] + p["FUTURES_POSITION_ASSET"] + p["FUTURES_POSITION_LIABILITY"]
  + p["FUTURES_TRADING_FEE"] + p["FUTURES_REALIZED_PNL"]
  + p["FUNDING_RECEIPT"] + p["FUNDING_PAYMENT"]

\* journal_balanced: the debits of a transaction equal its credits.
Balanced(t) == TrialBalance(Postings(t)) = 0

Posted(t, account) == Postings(t)[account]

Trade(side, price, released) ==
  [type |-> "TRADE", side |-> side, price |-> price, released |-> released]
Funds(amount)   == [type |-> "DEPOSIT", amount |-> amount]
Funding(amount) == [type |-> "FUNDING", amount |-> amount]
Opened(side, price) ==
  [type |-> "OPEN", side |-> side, qty |-> 1, price |-> price,
   margin |-> price \div Leverage]

-----------------------------------------------------------------------------
(* ProjectionBuilder: the spot view, a fold over the journal.              *)

EmptyBooks ==
  [cash |-> 0, funded |-> FALSE, known |-> FALSE, qty |-> 0, cost |-> 0, ok |-> TRUE]

Average(b) == IF b.qty > 0 THEN b.cost \div b.qty ELSE 0

\* CASH and MARGIN accounts both count in the balance of their currency.
MoveBalance(b, t) ==
  [b EXCEPT !.cash = @ + Posted(t, "CASH") + Posted(t, "MARGIN"), !.funded = TRUE]

\* A sale of more than is held raises ValueError out of the replay.
ApplyTrade(b, t) ==
  IF t.side = "BUY" THEN [b EXCEPT !.qty = @ + 1, !.cost = @ + t.price, !.known = TRUE]
  ELSE IF b.qty < 1 THEN [b EXCEPT !.ok = FALSE]
  ELSE [b EXCEPT !.qty = @ - 1,
                 !.cost = IF b.qty = 1 THEN 0 ELSE Max({@ - Average(b), 0})]

ApplyTransaction(b, t) ==
  IF ~b.ok THEN b
  ELSE IF t.type = "TRADE" THEN ApplyTrade(MoveBalance(b, t), t)
  ELSE MoveBalance(b, t)

\* Variant: the replay for the exchange view takes every entry.
EveryEntry(t) == TRUE

\* reconcile and hydrate_from_ledger leave the perpetual entries out.
FuturesTypes == {"OPEN", "CLOSE", "FUNDING"}
InSpotScope(t) == t.type \notin FuturesTypes

-----------------------------------------------------------------------------
(* rebuild_futures_projection: the perpetual view, another fold.           *)

Flat == [side |-> "FLAT", qty |-> 0, avg |-> 0, margin |-> 0]
EmptyFutures == [pos |-> Flat, margin |-> 0]

\* Variant: an add replaces the margin of the position.
OpenReplacesMargin(f, t) ==
  [pos |-> [side |-> t.side, qty |-> f.pos.qty + t.qty, avg |-> t.price, margin |-> t.margin],
   margin |-> f.margin + t.margin]

ApplyOpen(f, t) ==
  LET pos == f.pos
      all == pos.qty + t.qty
      next ==
        IF pos.qty = 0
        THEN [side |-> t.side, qty |-> t.qty, avg |-> t.price, margin |-> t.margin]
        ELSE IF pos.side = t.side
        THEN [pos EXCEPT !.qty = all, !.margin = @ + t.margin,
                         !.avg = (pos.avg * pos.qty + t.price * t.qty) \div all]
        ELSE IF t.qty = pos.qty THEN Flat
        ELSE IF t.qty > pos.qty
        THEN [side |-> t.side, qty |-> t.qty - pos.qty, avg |-> t.price,
              margin |-> t.margin]
        ELSE [pos EXCEPT !.qty = @ - t.qty,
                         !.margin = (@ * (pos.qty - t.qty)) \div pos.qty]
  IN  [pos |-> next, margin |-> f.margin + t.margin]

ApplyClose(f, t) ==
  IF f.pos.qty = 0 THEN f
  ELSE [pos |-> IF f.pos.qty <= t.qty THEN Flat
                ELSE [f.pos EXCEPT !.qty = @ - t.qty, !.margin = Max({@ - t.margin, 0})],
        margin |-> Max({f.margin - t.margin, 0})]

ApplyFutures(f, t) ==
  CASE t.type = "OPEN"  -> ApplyOpen(f, t)
    [] t.type = "CLOSE" -> ApplyClose(f, t)
    [] OTHER -> f

EmptyJournal ==
  [total |-> NoPosting, all |-> EmptyBooks, spot |-> EmptyBooks,
   futures |-> EmptyFutures]

\* A transaction that does not balance is refused, and nothing is written.
Record(t) ==
  journal' =
    IF ~Balanced(t) THEN journal
    ELSE [total   |-> [a \in Account |-> journal.total[a] + Posted(t, a)],
          all     |-> ApplyTransaction(journal.all, t),
          spot    |-> IF InSpotScope(t) THEN ApplyTransaction(journal.spot, t)
                      ELSE journal.spot,
          futures |-> ApplyFutures(journal.futures, t)]

Replayable == journal.all.ok
Position   == journal.futures.pos

\* rebuild_projections starts its replay from _initial_balances.
Rebuilt == [journal.all EXCEPT !.cash = @ + initial]

\* LONG gains when the price rises, SHORT when it falls.
Gain(pos, mark, qty) == (IF pos.side = "LONG" THEN mark - pos.avg ELSE pos.avg - mark) * qty

\* close_position: at most what is held, its share of the margin released.
Closed(pos, qty, mark) ==
  [type |-> "CLOSE", side |-> pos.side, qty |-> qty, entry |-> pos.avg,
   pnl |-> Gain(pos, mark, qty), margin |-> (pos.margin * qty) \div pos.qty]

\* The replayed position has no maintenance margin: it is liquidated when its
\* loss has consumed the whole initial margin.
Liquidated(pos, mark) == Gain(pos, mark, pos.qty) <= -pos.margin

-----------------------------------------------------------------------------
NewVenue  == [cash |-> Deposit, base |-> 0, qty |-> 0, cost |-> 0, listed |-> FALSE]
NoFill    == [stage |-> "idle", side |-> "BUY", price |-> 0, view |-> EmptyBooks]
NothingLost == [fills |-> 0, cash |-> 0, qty |-> 0, listed |-> FALSE]
NoRound   == [stage |-> "idle", local |-> EmptyBooks, alarm |-> FALSE]

Init ==
  /\ journal = EmptyJournal
  /\ table = EmptyBooks
  /\ initial = 0
  /\ venue = NewVenue
  /\ queue = <<>>
  /\ settle = NoFill
  /\ recon = NoRound
  /\ halted = FALSE
  /\ ended = {}
  /\ phase = "down"
  /\ lost = NothingLost /\ torn = "never"
  /\ orders = 0 /\ crashes = 0 /\ faults = 0

(* The start of the engine.  A replay that raises ends the start.          *)

\* _seed_initial_balances, first part: adopt the ledger, or deposit.
Seed ==
  /\ phase = "down" /\ Replayable
  /\ IF journal.all.funded
     THEN /\ initial' = journal.all.cash
          /\ phase' = "seeded"
          /\ UNCHANGED journal
     ELSE /\ initial' = venue.cash
          /\ Record(Funds(venue.cash))
          /\ phase' = "seeding"
  /\ UNCHANGED <<table, venue, loops, history, bounds>>

\* Its second part, only after a deposit: the projection is rebuilt.
SeedRefresh ==
  /\ phase = "seeding"
  /\ table' = Rebuilt
  /\ phase' = "seeded"
  /\ UNCHANGED <<journal, initial, venue, loops, history, bounds>>

\* hydrate_from_ledger: the paper exchange adopts the spot view of the ledger;
\* the base asset is a position there and no balance.
Hydrated(b) ==
  [cash |-> IF b.funded THEN b.cash ELSE venue.cash,
   base |-> IF b.funded THEN 0 ELSE venue.base,
   qty |-> b.qty, cost |-> b.cost, listed |-> b.qty # 0]

Hydrate ==
  /\ phase = "seeded"
  /\ venue' = Hydrated(journal.spot)
  /\ phase' = "running"
  /\ UNCHANGED <<journal, table, initial, loops, history, bounds>>

\* The fill in settlement is in the journal and not yet in the table.
Unrefreshed == settle.stage \in {"recorded", "replayed"}

\* The process dies: the exchange, the queue and every task die with it.
Crash ==
  /\ phase # "down" /\ crashes < MaxCrashes
  /\ crashes' = crashes + 1
  /\ phase' = "down"
  /\ venue' = NewVenue
  /\ initial' = 0
  /\ queue' = <<>> /\ settle' = NoFill /\ recon' = NoRound
  /\ halted' = FALSE /\ ended' = {}
  /\ lost' = NothingLost
  /\ torn' = IF Unrefreshed THEN "open" ELSE torn
  /\ UNCHANGED <<journal, table, orders, faults>>

-----------------------------------------------------------------------------
(* The tick: it reads the account by a replay, which ends the loop when it *)
(* raises, and orders.  A marketable order is matched at once.             *)

Ticking == phase = "running" /\ "tick" \notin ended

TickFails ==
  /\ Ticking /\ ~Replayable
  /\ ended' = ended \cup {"tick"}
  /\ UNCHANGED <<journal, table, initial, venue, queue, settle, recon, halted, phase, history, bounds>>

\* _apply_fill_to_balances
Moved(side, price) ==
  LET avg == IF venue.qty > 0 THEN venue.cost \div venue.qty ELSE 0 IN
  IF side = "BUY"
  THEN [cash |-> venue.cash - price - Fee, base |-> venue.base + 1,
        qty |-> venue.qty + 1, cost |-> venue.cost + price, listed |-> TRUE]
  ELSE [cash |-> venue.cash + price - Fee, base |-> venue.base - 1,
        qty |-> venue.qty - 1,
        cost |-> IF venue.qty = 1 THEN 0 ELSE Max({venue.cost - avg, 0}),
        listed |-> TRUE]

\* An entry is bounded by what the risk checks allow; an exit needs a holding in
\* the projection and no order in list_open().
MayTrade(side) ==
  IF side = "BUY" THEN venue.qty < MaxLots
  ELSE table.qty > 0 /\ queue = <<>> /\ ~lost.listed

SpotOrder(side, price) ==
  /\ Ticking /\ Replayable /\ ~halted /\ orders < MaxOrders
  /\ MayTrade(side)
  /\ venue' = Moved(side, price)
  /\ queue' = Append(queue, [side |-> side, price |-> price])
  /\ orders' = orders + 1
  /\ UNCHANGED <<journal, table, initial, settle, recon, halted, ended, phase,
                 history, crashes, faults>>

FuturesOperation(t) ==
  /\ Ticking /\ Replayable /\ orders < MaxOrders
  /\ Record(t)
  /\ orders' = orders + 1
  /\ UNCHANGED <<table, initial, venue, loops, phase, history, crashes, faults>>

\* open_position, behind check_no_reversal: flat, or more of the same side.
OpenPosition(side, price) ==
  /\ ~halted
  /\ Position.side \in {"FLAT", side} /\ Position.qty < MaxLots
  /\ FuturesOperation(Opened(side, price))

ClosePosition(qty, price) ==
  /\ Position.qty > 0
  /\ FuturesOperation(Closed(Position, Min({qty, Position.qty}), price))

\* apply_funding: a zero payment is not recorded.
ApplyFunding(rate) ==
  /\ Position.qty > 0 /\ rate # 0
  /\ FuturesOperation(Funding((IF Position.side = "LONG" THEN -rate ELSE rate) * Position.qty))

\* mark_to_market values a state of its own, so the pnl that liquidate() records is
\* the zero of a position just loaded.
Liquidate(mark) ==
  /\ Position.qty > 0 /\ Liquidated(Position, mark)
  /\ FuturesOperation([Closed(Position, Position.qty, mark) EXCEPT !.pnl = 0])

-----------------------------------------------------------------------------
(* The event loop settles the fill of an order event, or fails to and goes *)
(* on with the next event.                                                 *)

Settling(stage) == phase = "running" /\ settle.stage = stage

\* apply_fill commits the order row, so the order leaves list_open().
BookFill ==
  /\ Settling("idle") /\ queue # <<>>
  /\ settle' = [NoFill EXCEPT !.stage = "booked", !.side = Head(queue).side,
                              !.price = Head(queue).price]
  /\ queue' = Tail(queue)
  /\ UNCHANGED <<journal, table, initial, venue, recon, halted, ended, phase, history,
                 bounds>>

Booked == [side |-> settle.side, price |-> settle.price]

\* What a fill moves at the exchange.
Paid(fill) == IF fill.side = "BUY" THEN -(fill.price + Fee) ELSE fill.price - Fee
Lots(fill) == IF fill.side = "BUY" THEN 1 ELSE -1

\* One more fill that the journal will never have.
LostToo(fill, listed) ==
  [fills |-> lost.fills + 1, cash |-> lost.cash + Paid(fill),
   qty |-> lost.qty + Lots(fill), listed |-> listed]

\* What the handler raises the event loop swallows, and takes the next event.
Fault ==
  /\ phase = "running" /\ faults < MaxFaults
  /\ faults' = faults + 1
  /\ UNCHANGED <<journal, table, initial, venue, recon, halted, ended, phase, orders,
                 crashes>>

\* The event comes before submit() has returned the exchange's id, so no order has
\* that id, or apply_fill raises before it commits: no row is written, and the order
\* stays in list_open().
DropFill ==
  /\ Settling("idle") /\ queue # <<>>
  /\ Fault
  /\ queue' = Tail(queue)
  /\ lost' = LostToo(Head(queue), TRUE)
  /\ UNCHANGED <<settle, torn>>

\* The settlement raises before it has recorded: the fill row is there, so every
\* copy of the event is a duplicate from now on.
AbandonFill ==
  /\ Settling("booked")
  /\ Fault
  /\ settle' = NoFill
  /\ lost' = LostToo(Booked, lost.listed)
  /\ UNCHANGED <<queue, torn>>

\* The refresh of the projection raises.
TearFill ==
  /\ Unrefreshed
  /\ Fault
  /\ settle' = NoFill
  /\ torn' = "open"
  /\ UNCHANGED <<queue, lost>>

\* _settle_fill takes the cost it releases from the projection table.
ReleasedCost == IF table.qty > 0 THEN Average(table) ELSE settle.price

\* Variant: the journal is replayed before the fill is recorded.
ReplayThenRecord ==
  /\ Settling("booked")
  /\ Record(Trade(settle.side, settle.price, ReleasedCost))
  /\ settle' = [settle EXCEPT !.stage = "replayed", !.view = Rebuilt]
  /\ UNCHANGED <<table, initial, venue, queue, recon, halted, ended, phase, history,
                 bounds>>

RecordFill ==
  /\ Settling("booked")
  /\ Record(Trade(settle.side, settle.price, ReleasedCost))
  /\ settle' = [settle EXCEPT !.stage = "recorded"]
  /\ UNCHANGED <<table, initial, venue, queue, recon, halted, ended, phase, history,
                 bounds>>

\* The replay of rebuild_projections; the loop catches what it raises.
ReadJournal ==
  /\ Settling("recorded")
  /\ settle' = IF Replayable
               THEN [settle EXCEPT !.stage = "replayed", !.view = Rebuilt]
               ELSE NoFill
  /\ UNCHANGED <<journal, table, initial, venue, queue, recon, halted, ended, phase, history,
                 bounds>>

ReplaceTable ==
  /\ Settling("replayed")
  /\ table' = settle.view
  /\ settle' = NoFill
  /\ torn' = IF torn = "open" THEN "mended" ELSE torn
  /\ UNCHANGED <<journal, initial, venue, queue, recon, halted, ended, phase, lost,
                 bounds>>

-----------------------------------------------------------------------------
(* The reconciliation loop.                                                *)

Reconciling(stage) ==
  phase = "running" /\ "recon" \notin ended /\ recon.stage = stage

ReadLedger ==
  /\ Reconciling("idle")
  /\ IF journal.spot.ok
     THEN /\ recon' = [recon EXCEPT !.stage = "read", !.local = journal.spot]
          /\ UNCHANGED ended
     ELSE /\ ended' = ended \cup {"recon"}
          /\ UNCHANGED recon
  /\ UNCHANGED <<journal, table, initial, venue, queue, settle, halted, phase, history, bounds>>

\* local.positions has the symbol once a trade was replayed.
Covered(b)   == b.known /\ venue.listed /\ b.qty = venue.qty
Mismatch(b)  ==
  \/ b.cash # venue.cash
  \/ venue.base # 0 /\ ~Covered(b)
  \/ b.known /\ b.qty # (IF venue.listed THEN venue.qty ELSE 0)

Compare ==
  /\ Reconciling("read")
  /\ recon' = [recon EXCEPT !.stage = "compared", !.alarm = Mismatch(recon.local)]
  /\ UNCHANGED <<journal, table, initial, venue, queue, settle, halted, ended, phase, history,
                 bounds>>

\* Variant: a halt is only ever raised.
PublishAlarm ==
  /\ Reconciling("compared")
  /\ halted' = (halted \/ recon.alarm)
  /\ recon' = NoRound
  /\ UNCHANGED <<journal, table, initial, venue, queue, settle, ended, phase, history,
                 bounds>>

\* The report is saved, then its verdict becomes the halt of the engine.
Publish ==
  /\ Reconciling("compared")
  /\ halted' = recon.alarm
  /\ recon' = NoRound
  /\ UNCHANGED <<journal, table, initial, venue, queue, settle, ended, phase, history,
                 bounds>>

-----------------------------------------------------------------------------
EventLoop ==
  \/ BookFill \/ RecordFill \/ ReadJournal \/ ReplaceTable
  \/ DropFill \/ AbandonFill \/ TearFill
ReconLoop == ReadLedger \/ Compare \/ Publish
Start     == Seed \/ SeedRefresh \/ Hydrate

Tick ==
  \/ TickFails
  \/ \E side \in {"BUY", "SELL"}, price \in Prices : SpotOrder(side, price)
  \/ \E side \in {"LONG", "SHORT"}, price \in Prices : OpenPosition(side, price)
  \/ \E qty \in 1..MaxLots, price \in Prices : ClosePosition(qty, price)
  \/ \E rate \in Rates : ApplyFunding(rate)
  \/ \E mark \in Prices : Liquidate(mark)

Next == Start \/ Crash \/ Tick \/ EventLoop \/ ReconLoop

Spec == Init /\ [][Next]_vars

\* An asyncio task that can go on does; the operator restarts a dead process.
FairSpec == Spec /\ WF_vars(EventLoop) /\ WF_vars(ReconLoop) /\ WF_vars(Start)

-----------------------------------------------------------------------------
Quiet == phase = "running" /\ queue = <<>> /\ settle.stage = "idle"

BooksType ==
  [cash : Int, funded : BOOLEAN, known : BOOLEAN, qty : Int, cost : Nat, ok : BOOLEAN]
FuturesType ==
  [pos : [side : {"FLAT", "LONG", "SHORT"}, qty : Nat, avg : Nat, margin : Nat],
   margin : Nat]

\* Every variable has its shape, and no replay goes below zero lots.
TypeOK ==
  /\ journal \in [total : [Account -> Int], all : BooksType, spot : BooksType,
                  futures : FuturesType]
  /\ table \in BooksType /\ initial \in Int
  /\ {journal.all.qty, journal.spot.qty, table.qty} \subseteq Nat
  /\ venue \in [cash : Int, base : Int, qty : Int, cost : Nat, listed : BOOLEAN]
  /\ queue \in Seq([side : {"BUY", "SELL"}, price : Prices])
  /\ settle \in [stage : {"idle", "booked", "recorded", "replayed"},
                 side : {"BUY", "SELL"}, price : Prices \cup {0}, view : BooksType]
  /\ recon \in [stage : {"idle", "read", "compared"}, local : BooksType, alarm : BOOLEAN]
  /\ halted \in BOOLEAN /\ ended \subseteq {"tick", "recon"}
  /\ phase \in {"down", "seeding", "seeded", "running"}
  /\ lost \in [fills : Nat, cash : Int, qty : Int, listed : BOOLEAN]
  /\ torn \in {"never", "open", "mended"}
  /\ orders \in 0..MaxOrders /\ crashes \in 0..MaxCrashes /\ faults \in 0..MaxFaults

\* When no fill is on its way, the paper exchange is ahead of the spot view of the
\* journal by exactly the fills the event loop has dropped, in cash and in lots;
\* with none dropped they agree on the cost too and a round that starts then raises
\* no alarm: the double entry of _settle_fill, replayed by ProjectionBuilder,
\* repeats the exchange's own arithmetic, and hydrate_from_ledger makes a started
\* exchange forget what an earlier one had executed.
BooksMatchVenue ==
  Quiet /\ Replayable =>
    LET b == journal.spot IN
    /\ venue.cash = b.cash + lost.cash /\ venue.qty = b.qty + lost.qty
    /\ lost.fills = 0 => venue.cost = b.cost /\ ~Mismatch(b)

\* The POSITION_ASSET account of the journal is the cost of what is held, so long
\* as nothing came between a record and its refresh: _settle_fill releases the
\* average cost that the replay computes for itself.
PositionAccountIsCost ==
  torn = "never" /\ Replayable => journal.total["POSITION_ASSET"] = journal.all.cost

\* The three accounts of a holding agree: the exchange's, that of the replay and
\* that of the journal.
AccountsAgree == BooksMatchVenue /\ PositionAccountIsCost

\* The MARGIN account of the journal, the margin_balance of the replay and the
\* margin of the open position are the same money, through adds, partial
\* closes and liquidations.
MarginIsOneNumber ==
  /\ journal.total["MARGIN"] = journal.futures.margin
  /\ journal.futures.margin = Position.margin

\* Once the event loop is idle the holding of positions_projection is the holding
\* of the journal, unless a crash or an error cut a record off from its refresh and
\* no fill was settled since: the refresh that reads late never loses the fill it
\* belongs to, and the next refresh makes up for the one that failed.
TableFollowsJournal ==
  Quiet /\ torn # "open" /\ Replayable =>
    table.qty = journal.all.qty /\ table.cost = journal.all.cost

\* The dropped fills do not cancel out.
Apart == lost.cash # 0 \/ lost.qty # 0

\* The halt of the reconciliation tells the truth in the end: a false alarm, that of
\* a round that met a fill on its way, is withdrawn, and a fill that the event loop
\* has dropped halts the engine.  An oversold journal ends the loop.
HaltIsTrue == []<>(halted = Apart \/ ~Replayable)

\* SPAC.md:117 says of crashes between ledger and projection that they are
\* "recovered by replay".  Of the projection table: a started engine with no
\* fill on its way has the holding of its journal.
ProjectionRecovered ==
  Quiet /\ Replayable => table.qty = journal.all.qty

\* SPAC.md:92, "Ledger replay rebuilds AccountProjection, PositionProjection":
\* the journal can be replayed.
JournalReplays == Replayable
=============================================================================
