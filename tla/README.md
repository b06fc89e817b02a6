# Verification of the crypto auto-trading system

A TLA+ development of the Python service under `src/src/crypto_trader/`: an
event-driven, ledger-first trading engine. As configured it trades on a
simulated exchange inside the process ("paper" trading on real or synthetic
market data); adapters for real exchanges exist, behind gates that are closed.

Paths in this document are relative to `src/src/crypto_trader/` unless they
begin with `src/`. `PROJECT.json` maps every definition that models code to the
lines it stands for.

Contents: 1 the system and its parts; 2 the modules; 3 `OrderLifecycle`;
4 `EngineLease`; 5 `PositionExit`; 6 `Books`; 7 the market data; 8 the learning
side; 9 the gateway and the supervisor; 10 `ChiefTrader`; 11 the way of a
decision; 12 what is proved and how; 13 where the code and its documents
disagree; 14 hazards; 15 what is not modelled; 16 what is left; 17 running it.

## 1. The system and its parts

One asyncio process holds one `TradingEngine` (`runtime/engine.py`). Its tasks:

* **the tick loop** (`_tick_loop`, every 0.5 s): refresh market data, run the
  strategies, send each signal through `process_signal`, then let the position
  bridge look at the open positions;
* **the event loop** (`_event_loop`): takes exchange events off
  `_event_queue` and applies them to orders and fills;
* **the lease loop** (`_lease_loop`, every 3 s): renews the execution lease;
* **the reconciliation loop** (`_reconcile_loop`): compares ledger and exchange;
* **the HTTP API** in the same process, which reads, and sets the kill switch.

They share the database (SQLite by default; every repository method opens its
own session, and no method holds a transaction across an `await` of another)
and the attributes of a few objects. There is no lock. Two processes can share
one database; the execution lease is what keeps them apart. The exchange
simulator lives in the engine's process and emits its events synchronously,
inside `submit_order`.

### The components

The table says what each part keeps and does, where it is hard, and what
would make it correct. The last column names the modules that model it, "–" that
none does (section 15).

| component | state | operations | what is hard | what correct means | modules |
|---|---|---|---|---|---|
| Order state machine (`order/state_machine.py`) | none | `transition`, the table and the no-op events | late, duplicated, reversed events | terminal stays terminal, a duplicate changes nothing | `OrderStateMachine` |
| Order manager (`order/manager.py`) | tables `orders`, `order_events`, `fills` | `create_from_intent`, `transition`, `apply_fill`, `list_open` | read and write are two sessions; commit comes before the settlement callback | a fill is counted and settled once; the filled quantity equals the fill rows | `OrderLifecycle` |
| Engine: order path and events (`runtime/engine.py`) | `_event_queue`, the tasks | `process_signal`, `process_exchange_event`, `_settle_fill`, `start`, `stop` | two tasks on one order, events before the acknowledgement, exceptions that end a task | an order is recorded before it is sent and sent once | `OrderLifecycle`, `Books`, `ExecutionGate` |
| Recovery (`runtime/recovery.py`) | none of its own | `recover` | a stale snapshot, an exchange that does not know the order | every order that is not final is resolved, none is submitted again | `OrderLifecycle` |
| Simulated exchange (`simulator/`) | orders, balances, event sinks | `submit_order`, matching, `get_order` | failure hooks before and after the order exists; every event reaches three subscriptions | (environment) | `OrderLifecycle`, `Books`, `MarketFeed` |
| Execution lease (`runtime/lease.py`) | table `runtime_leases` | `acquire`, `renew`, `is_held`, `release` | clock read before the row, two processes on an expired row | one holder; a lease is never taken before it expires | `EngineLease` |
| Kill switch, execution authority (`risk/kill_switch.py`, `execution/authority.py`) | one flag | `engage`, `disengage`, `authorize` | engaged between authorization and submission | nothing goes out once it is on | `EngineLease`, `ExecutionGate` |
| Risk engine (`risk/engine.py`) | none | `check`, `check_no_reversal` | two loops read the same figures before either acts | limits are exceeded by what is in flight at most; an exit never reverses | `ExecutionGate`, `PositionExit` |
| Position bridge (`runtime/ai_position_bridge.py`) | `_first_seen_open`, `_missing_since`, `_exit_in_flight` | `evaluate_active_positions` | positions move while the round runs; partial reads; restarts | a position is closed when due, once, and only then | `PositionExit`, `ExecutionGate` |
| Entry strategy (`runtime/chief_trader_strategy.py`, `multi_symbol_chief_trader.py`) | cursor, cooldowns, last decisions, candle cache | `on_market` | a property that moves the cursor; a cache filled by the API; a cooldown shorter than the interval | every coin gets its turn on evidence of its own, and no entry on an open position | `ChiefTrader` |
| Ledger and projections (`ledger/`) | `ledger_transactions`, `ledger_entries`, `accounts_projection`, `positions_projection` | `record`, `rebuild_projections` | replay and replacement in two sessions, beside postings | the tables are a replay of the journal, and an old one only for a while | `Books` |
| Perpetual engine and ledger (`perpetual/`) | `perpetual_ledger_entries`, positions by replay | open, add, reduce, close, funding, liquidation | netting of an opposite opening | the margin of the position, of the replay and of the account are one number | `Books`, `PositionExit` |
| Portfolio (`portfolio/service.py`) | `_initial_balances` | `refresh`, `get_account` | – | agrees with the ledger | `Books` |
| Reconciliation (`reconciliation/service.py`) | `reconciliation_halted` | `reconcile` | reads ledger and exchange at different instants | a false alarm is withdrawn, a lost fill halts | `Books` |
| Market data, order book (`market_data/service.py`, `orderbook.py`) | books, sequence numbers, health | `ingest_snapshot`, `ingest_delta`, `resync` | gaps, duplicates, a resync beside the tick | a healthy book is the exchange's | `MarketBook` |
| Market feeds (`market_data/public_feed.py`, `okx_public_data.py`, `simulator/real_market_paper.py`) | `MarketState` | `refresh`, `invalidate`, `can_add_risk`, backfill | several refreshes at once, one fails under another | no risk and no fill on old or partial data | `MarketFeed`, `CandleBackfill` |
| Instrument registry (`market_registry/registry.py`) | `okx_instruments` | `refresh_sync` | commands that overlap, partial answers | rows are never lost; a refresh settles the universe | `InstrumentRegistry` |
| Technical indicators | none | arithmetic on candles | warm-up, windows, symmetry | a window forgets; long and short mirror | `TechnicalIndicators` |
| Decision context, factors (`runtime/live_decision_context.py`, `factors/`) | `factor_snapshots` | `build`, `snapshot` | groups that raise half-way, a snapshot that is not stored | each factor once; an id given out resolves | `ChiefTrader`, `FactorSnapshot` |
| Strategy evidence (`alpha/`, `llm_chief/strategy_evidence.py`) | volatility history | `build` of ten strategies | thresholds of opposite sign, a rank in a history | symmetric; an extreme regime stands out | `StrategyEvidence` |
| Exploration analytics | read model | `exploration_status` | LIMIT, floating residues, partial, late and oversized exits | reported round trips of decisions happened | `ExplorationReport` |
| Exchange adapters (`exchange/`) | connections | submit, cancel, `get_order`, retries | a request whose answer is lost is sent again | never two orders of a client id at work; final statuses are the venue's | `VenueOrders` |
| HTTP API (`api/app.py`) | connection state, validation lock | keys, validation, kill switch, history | a verdict for keys that are no longer stored | the verdict shown is of the keys stored, but for one at most | `OKXConnection`, `MarketHistory`, `EngineLease` |
| Frontend, history dock | rows, cursor | fetch, append | answers to an earlier choice | pages meet | `MarketHistory` |
| LLM runtime and gateway (`llm_runtime/`) | copy of providers and routes, circuits | `save_*`, `reload`, `invoke` | reloads that overlap, one circuit for several brains | the copy follows the tables; an outage is bounded | `LLMGateway` |
| Supervisor (`runtime/supervisor.py`) | task table, lease, state | `start`, `_supervised`, `stop` | several starts, a lease lost | a stop ends all, and only its own | `Supervisor` |
| Hierarchical reviews (`evolution/hierarchical/`) | reports, jobs, lessons | `run`, `run_due` | two runners, a death between two writes | each day counted once; every period reviewed | `ReviewJobs` |
| Daily governance, trade episodes (`governance/`) | memory, review rows, episodes | hook per fill, review at 00:05 | late fills, quarantine, overlapping reviews | episodes are trades that were made | `TradeEpisodes`, `DailyGovernance` |
| Candidates, validation, promotion (`evolution/`) | registry, workspaces, records, active release | `register`, edits, `certify`, `promote`, `rollback` | refused changes under a new name, rollback of an old release | what was refused stays out | `CandidateChange`, `Promotion`, `ReleaseChange` |
| Shadow campaign | observations, decisions | `start` … `to_dict`, `from_dict` | restart | a completed campaign has its days | `ShadowCampaign` |
| Domain types, persistence, bootstrap | the schema, constants | – | unique constraints are the only mutual exclusion | – | in the steps and constants of the modules |
| Scheduler, event bus, local runner; rate limiter, cross-exchange guard; governance reviewers, backtest; LLM tools, AI brain, intelligence; capital management; replay, shadow trading; operating-system jobs; security, observability; advisory packages; deployment | – | – | – | – | – |

### How they interact

```
 strategies --signal--> process_signal --gates--> OrderManager --row--> DB
     ^                      |  is_held(lease), kill switch, risk, authority
 position bridge            v
     ^                 adapter.submit_order --events--> _event_queue
     |                      |                                |
 ledger, perpetual <--settlement callback-- apply_fill <-- _event_loop
                                               ^
                        recover (start, or an unknown outcome)
```

The promises of the documents that the modules are about: write-ahead order
intent and "never blind resubmit" (`src/SPAC.md:83`), idempotent and
order-insensitive events (`:81-84`), single-writer lease (`:114`), restart
resolves what was in flight (`:117`), and the invariants of
`src/docs/phase1_brainstorm.md:72-81`.

Beside that circle: the feeds and the API's endpoints write the market state the
tick reads; the API's settings page writes what the gateway to the language models
reads; the fills feed the trade episodes and those the daily and the periodic
reviews, out of which candidate changes come.

## 2. The modules

| module | what it is |
|---|---|
| `OrderStateMachine` | the statuses, the transition table and `transition()` as operators |
| `OrderLifecycle` | the order path, the event loop, recovery and crashes of one process; EXTENDS `OrderStateMachine` |
| `OrderContract` | what the order path promises, without its tasks: record, submit once, book and settle each fill once; `OrderLifecycle` implements it |
| `EngineLease` | several processes, the lease row, the kill switch and the two gates before an order |
| `PositionExit` | the position bridge against the two ways an order changes a position |
| `Books` | journal, projection tables, paper exchange, perpetual positions, reconciliation, crashes |
| `MarketBook` | one order book under snapshots, deltas, gaps and overlapping resyncs |
| `MarketFeed` | the market state under overlapping refreshes, and the fill of a paper order on it |
| `InstrumentRegistry` | overlapping refreshes of the table of instruments |
| `CandleBackfill` | the paging of a history that grows |
| `ReviewJobs` | weekly, monthly and yearly reviews with several runners |
| `TradeEpisodes` | cycles of fills from flat to flat, and their storage |
| `DailyGovernance` | the daily review of the trade memory |
| `CandidateChange`, `Promotion`, `ReleaseChange` | the registry and workspaces of changes; certification, promotion, rollback; both together |
| `LLMGateway` | settings, reloads, routes, retries and circuits |
| `Supervisor` | the loops of the runtime supervisor and its lease |
| `ChiefTrader` | the entry tick: turns, candles, score, context, model, cooldowns |
| `StrategyEvidence`, `TechnicalIndicators`, `FactorSnapshot` | what a decision is shown |
| `ExecutionGate` | the readings and limits between a signal and an order, by two loops |
| `VenueOrders`, `OKXConnection` | the order calls of the adapters; keys and their validation |
| `ExplorationReport`, `MarketHistory`, `ShadowCampaign` | the report on round trips; the history tab; the campaign |
| `MCOrderLifecycle`, `MCEngineLease`, `MCPositionExit`, `MCBooks`, `MCChiefTrader` | small instances of one module |
| `MCMarket`, `MCLearning`, `MCRuntime`, `MCDecisions` | small instances of several |
| `OrderLifecycle_proofs`, `EngineLease_proofs`, `PositionExit_proofs`, `Books_proofs`, `ChiefTrader_proofs` | the proofs about one module (`ChiefTrader_proofs` also those about `LLMGateway`) |
| `Market_proofs`, `Learning_proofs`, `Decisions_proofs` | the proofs about the modules of the run of that name |

`OrderLifecycle` composes the order manager, the engine, the recovery and the
exchange, because what makes them hard is what they do to each other's rows.
It assumes the lease (one process); `EngineLease` is the process level above
it and takes one order as a pair of gates and a submission. `PositionExit`
looks at several orders of a symbol and takes each one as a few steps. `Books`
takes an order as a fill and looks at the money. `ChiefTrader` is the other end:
how an entry comes about.

The last four MC modules put several small components into one run. Their
parts share no state in the code, nor in the model: the variable `topic`, chosen at
the start, says which part a behaviour exercises, and the others stay in one of
their initial states. The distinct states are the sum of the parts, not their
product, and each action, guard and property is that of the part's own module. A
property of such a run is a conjunction of named properties of the parts.

A definition marked "Variant" is an alternative form of the definition that
follows it: the way a plausible slip in that code would read. No specification
uses it; `PROJECT.json` lists under "mutants" which property each one breaks.

`CHECK_DEADLOCK FALSE` is set in every configuration for the same reason: signals, faults,
fills, operations and time are bounded, so a behaviour may use them up and
then nothing more happens, as in the program when nothing arrives.

## 3. `OrderLifecycle`

### State and actions

| model | code |
|---|---|
| `order`, `fills`, `seen` | tables `orders`, `fills`, `order_events` (unique `event_id`) |
| `posted` | the ledger transactions of each fill id |
| `exch`, `sends`, `answer` | what the exchange holds; how often `submit_order` was called; how it ended |
| `queue` | `TradingEngine._event_queue` |
| `phase`, `pc`, `job`, `todo` | the life of the process, where each `process_signal` task stands, the rows its recovery has still to visit |
| `call` | the OrderManager operation a task is inside: nothing read, row read, row committed and callback pending |

| action | code |
|---|---|
| `Dispatch`, `Retry` | `process_signal` up to the first row; an existing client id returns early |
| `Create`, `Validate`, `Submitting`, `Submitted` | the four rows written before the order is sent. One step each: until the row is SUBMITTED nobody else lists, finds or writes it |
| `SendAccepted`, `SendUnknown`, `SendFailed`, `SendDisconnected` | `adapter.submit_order` with every failure hook of the simulator, and the `except` clauses in the order Python tries them |
| `ReadTransition`, `WriteTransition` | `OrderManager.transition`: read, compute, write blindly |
| `ReadFill`, `WriteFill`, `Settle` | `OrderManager.apply_fill`: read and check, commit, then the callback |
| `Deliver` | one event of `_event_loop`, with `get_by_exchange` |
| `ListOpen`, `Recover`, `Recovered` | `RecoveryService.recover`: the snapshot, one row of it, the end |
| `Start`, `Crash` | `start()`; a crash or `stop()`, both of which drop everything in memory |

What is abstracted: prices, fees and books (an order is `Qty` lots, matching
chooses how many execute and in one trade or lot by lot), symbols, the gates
before the first row (`ExecutionGate`), logging, and the settlement (one posting;
the journal is in `Books`). The perpetual branch of `process_signal`
never reaches the exchange and is in `PositionExit` and `Books`.

### Runs

| run | instance | what it checks |
|---|---|---|
| `order_concurrent` | 2 orders, 2 tasks, every answer, 1 crash, the simulated exchange dies with the process | `TypeOK`; `SingleSubmission`: an order is sent once; `PersistBeforeSubmit`: and never before its row |
| `order_uncertain` | 2 orders, 1 task, every event twice, unknown outcomes, 1 crash | `SettledOnce`; `ClaimsAreBacked` = `NothingInvented` and `RejectedIsNotLive`; `KeepsContract`: it implements `OrderContract` |
| `order_definite` | 2 orders, 1 task, no unknown outcome, 1 crash | `FilledIsExact` = `FilledIsBooked`, `FilledWithinExecuted` and `FilledMeansComplete`; `RestartRecovers` = `RestartCatchesUp` and `RestartResolves`; under fairness `PathProgresses` = `QueuedFillsAreBooked` and `WorkersReturn` |

Why the properties are split: after an unknown outcome `recover` runs beside the
event loop, and then the exact properties of the third run do not hold
(section 13). The second run says what does: the local order never claims more
than its fill rows, a fill is settled at most once, and REJECTED is never
written for an order the exchange has. `RejectedIsNotLive` needs one task: with
two, the recovery of one finds "SUBMITTED" rows the other is about to send, does
not find them at the exchange and rejects them (`recovery.py:52`).

Why the bounds are enough: with `Qty = 2` an order can be partly filled, filled in
one trade or in two; two orders and two tasks make every pair of operations on one
row or on two; one crash splits any two writes, and a second would start from
states the first already reaches, with an empty memory. The engine enqueues
each event three times; the second copy of an event takes the paths that the
third takes.

`ExchangeSurvives` separates two worlds: the simulator lives in the process and
forgets its orders on a crash (`FALSE`), a real exchange does not (`TRUE`).

### Fairness

asyncio resumes a task that waits for nothing outside the process, so a worker's
next step, a started OrderManager operation and the event loop are weakly fair.
Nothing promises a signal, a start or a crash. No strong fairness is used.

## 4. `EngineLease`

### State and actions

`lease` is the row of `runtime_leases` as a token and the ticks left to
`expires_at`; per process there are its `state`, the `token` of `self.lease`, the
`call` of the lease manager in progress, the `gate` its tick task stands at and
the `kill` switch. `late` and `defied` count the orders sent after losing the
lease and after the switch was engaged; they are bookkeeping for the properties.

Every method of `LeaseManager` computes `now` first and then awaits the
database, which by `busy_timeout` may take as long as the lease lives (both are
10 s). So each method is a step that notes the time and one that uses the row with
that old time, at most `MaxDelay` ticks later. `acquire` is three steps (clock;
`SELECT`; `INSERT` or the conditional `UPDATE`), `renew` and `is_held` two,
`release` one.

| action | code |
|---|---|
| `Start`, `AcquireRead`, `AcquireInsert`, `AcquireCas` | `start()` and `acquire`; a unique-key conflict starts it again, a held or lost row fails the startup |
| `Recovered` | the end of recovery: only now do the loops start |
| `RenewBegin`, `RenewEnd`, `RenewRaises` | `_lease_loop`: extend, or engage the kill switch, or die of a database error |
| `Stop`, `Crash` | `stop()` with `release` (not reached when the lease loop died: awaiting its task raises), and every other end |
| `SetKill` | `POST /killswitch` |
| `Ask`, `Authorize`, `Send` | `process_signal`: the risk check and the call of `is_held`; its answer and `authorize`; the submission, several database calls later |
| `Tick` | the clock |

### Runs

`engine_lease`: two processes, a lease of 2 ticks, delays of up to 2 ticks (the
lease can run out during any call, as in the code), 3 tokens, so that a lease
changes hands and comes back. `OneLateOrder` and `OneDefiantOrder` (an engine sends at
most one order after it lost the lease, or after the switch), `NeverStolen` (a lease
is not taken before it expires), `LossIsNoticed`. A third process would only be one more
contender for the same row; the properties name one engine at a time.

Fairness: weak on the lease loop alone (it sleeps and is woken). `LossIsNoticed`
excuses a loop that died of a database error, because nothing restarts it.

## 5. `PositionExit`

### State and actions

`position`, `held` and `lastFill` are the ledger's view of a symbol: the signed
quantity, how long it has been held, and the age of the newest fill of each side
(what `bootstrap.py`'s open-time provider reads with `MAX(timestamp)`). `orders`
are those that are not final. `firstSeen`, `missing` and `inflight` are the three
dictionaries of the bridge. `pc`, `snap`, `todo` and `intent` say where the tick
task is. Ages count ticks and stop at the threshold the code compares them with.

| action | code |
|---|---|
| `Enter` | a strategy emits an entry: only on a flat symbol with no entry out |
| `Snapshot`, `PartialSnapshot` | the two position reads of `evaluate_active_positions`; the perpetual one may fail and is then taken as empty |
| `ListOpen` | the re-arming: what is in flight and no longer listed is dropped |
| `Evaluate` | one candidate: skip when in flight; its age; the time stop |
| `EndRound` | the grace window and the clean-up of the three dictionaries |
| `Refuse`, `Approve` | the gates of `process_signal` (`check_no_reversal` is the one that matters here), and the roll-back of the in-flight mark |
| `Submit`, `Send` | a spot order: row, exchange |
| `Submit`, `Move`, `FillPerpetual` | a perpetual order: row, ledger transaction, fill row |
| `FillRow`, `Settle` | the event loop: fill row with the order FILLED, then the posting |
| `Raise`, `Crash`, `Restart`, `Clock` | an unhandled database error, a crash, recovery (which rejects what the simulator forgot), time |

What is abstracted: an order is one unit and fills completely; what the model of
the Chief Trader decides is a free choice; the brain holds every position, which
is what it does as no caller sets its overrides. The decision interval (300 s) and
the entry cooldown (240 s, from the previous entry) do not keep an entry out
of the 60 s after an exit, so no guard stands for them (they are in
`ChiefTrader`); the strategy emits one signal per tick. With `"crash"` or `"read"` in `Faults` one such fault happens
per behaviour; the `fault` variable records it.

One evaluator is modelled, that of the tick. `bootstrap.py:387-391` also hands
`evaluate_active_positions` to the supervisor as a callback of 5 s; the supervisor is not
started by the lifespan of the wired application, so that callback never runs there. Started, it
would be a second `tick` of this module on the same dictionaries, and what section 12 proves here
does not cover it. (Two callers of `process_signal` are in `ExecutionGate`.)

### Runs

`position_exit`: one spot symbol that is bought, one perpetual sold short, a time
stop and a grace window of one tick, two orders out at a time, one crash or one
partial read anywhere. `PerpIsOneEntry` (a perpetual position is one entry),
`NoSecondListedExit` (no exit goes out beside one that is listed), and under
fairness `OpenIsClosed`. One tick is enough to be due or not due, and
within or beyond the window; two orders are an exit and the one that could be
doubled.

Fairness: the tick and event loops and the clock are weakly fair. The gates are
external to this module (risk limits, market health, authority): an exit that
is offered again and again is let through infinitely often at most by
assumption, so `Approve` of an exit of each symbol is strongly fair. Without
it a gate that always says no keeps a position open, which the code does not
prevent.

`"list"` is left out of that run: an exception of `list_open` is taken for "no
order outstanding" (`ai_position_bridge.py:196`), every exit in flight is
re-armed, and then `NoSecondListedExit` fails; two such exits in a row
overshoot zero, the next one overshoots back, and the position need never close.

## 6. `Books`

### State and actions

| model | code |
|---|---|
| `journal` | `ledger_transactions` and `ledger_entries`: the total of every account, and what the three replays of the journal say (spot accounts, all accounts, futures) |
| `table` | `accounts_projection`, `positions_projection` |
| `initial` | `_initial_balances` of the running engine |
| `venue` | balances and positions of the simulated exchange, in memory |
| `queue`, `settle` | fills whose events wait; the one the event loop settles, and how far it is (recorded, replayed, table replaced) |
| `recon`, `halted`, `ended` | the round of `reconcile`, `reconciliation_halted`, loops that an exception ended |
| `lost` | bookkeeping: how many fills of this run the journal will never have, what they moved at the exchange, and whether one left its order in `list_open` |
| `torn` | bookkeeping: whether a record was cut off from its refresh, by a crash or an error, and whether a later refresh has mended that |

`Tick` is a spot trade or a perpetual operation (open, add, reduce, close; funding and
liquidation, which nothing calls, are operations of the engine all the same);
`EventLoop` records a fill with its double entry, replays, replaces the tables;
`ReconLoop` reads the journal, then the exchange, then compares; `Start` seeds or
hydrates; `Crash`. The event loop swallows what its handler raises (`engine.py:265`), so a fill may
be lost in three places: `DropFill` (handled before its acknowledgement, no order has its
exchange id, `engine.py:870-873`; or an exception before the row), `AbandonFill` (the settlement
raises before its entry; every copy of the event is a duplicate from then on), and `TearFill` (recorded,
and the refresh raises). One event stands for its three copies: a fill that is dropped is one all of
whose copies were. That the recovery of an unknown submission books a dropped fill after all is left out:
every order of this module was answered. A transaction is its metadata, from which `Postings` makes the
entries as `ledger/service.py` and `_settle_fill` do; the account totals are folds of the
postings. Rejected is what the code rejects: an operation without margin, a fill that
oversells is recorded and ends every later replay.

Run `books`: prices {8, 16} (two lots average exactly, so there is no rounding to argue
about), deposit 100, fee 1, leverage 2, one funding rate, 2 lots, 4 operations, 1 crash, 1 fault.
Two lots are an add and a partial close; four operations open, add, reduce, close; one fault is
a lost fill or a torn record anywhere among them.

* `AccountsAgree`: with no fill on its way the exchange is ahead of the replay by exactly the
  fills that were dropped, in cash and lots, and where none was it agrees with it in cost too
  and no alarm is raised (`BooksMatchVenue`); the journal's POSITION_ASSET is the cost of the replay
  until a record is cut off from its refresh (`PositionAccountIsCost`);
* `MarginIsOneNumber`: MARGIN in the journal, `margin_balance` of the replay and the
  margin of the position are the same money;
* `TableFollowsJournal`: a refresh that reads late never loses the fill it belongs to, and one
  that failed is made up for by the next;
* `HaltIsTrue`: a false alarm of a round that met a fill on its way is withdrawn, and a fill
  that was dropped halts the engine, until a restart.

Fairness: weak on `EventLoop`, `ReconLoop` and `Start`: loops that sleep and are woken,
and an operator who starts the service again.

## 7. The market data: `MarketBook`, `MarketFeed`, `InstrumentRegistry`, `CandleBackfill`

* **`MarketBook`** (`market_data/service.py`, `orderbook.py`): the exchange publishes
  numbered deltas, each copied into the feeder's inbox once per subscription; the feeder
  buffers, applies, finds a gap, fetches a snapshot (provider absent, a dictionary or a
  book) and replays its buffer (`Replayed`: the deltas that follow on without a gap,
  `Leading` of them, are applied one after the other, and the first that does not breaks
  the book); the tick reads a book and ingests it. Delta n writes n, so
  a lost, doubled or late delta shows. `HealthyBookIsExact` (`BookCatchesUp` in
  `MarketSettles`).
* **`MarketFeed`** (`public_feed.py`, `okx_public_data.py`, `state.py`, `new_risk_gate.py`,
  `real_market_paper.py`): callers refresh one `MarketState` stage by stage; any
  failure invalidates it under the others; `can_add_risk` judges ages; a paper order waits
  for its own refresh. A price is the time at which the exchange had it. `FeedIsHonest` =
  `HealthyIsWhole`, `RiskOnFreshData`, `FillIsReal`; `FeedRecovers`.
* **`InstrumentRegistry`** (`market_registry/registry.py`): two overlapping commands,
  each of two requests, a read of the ids and one write; the listing changes in between.
  `HistoryIsKept`, `UniverseSettles`.
* **`CandleBackfill`** (`backfill_candles`): pages backwards while candles are added at
  the other end. `BackfillHasNoHole`.

Run `market`: 1 feeder, 3 copies, 3 deltas, 1 fault; 2 callers, a clock of 2 with an age
limit of 1, 1 outage; 2 instruments, 2 commands, 1 change of the listing, 1 broken request;
5 candles, pages of 2, limit none or 2, 1 fault. Three deltas give a gap, a buffered
delta and one after it; a clock of 2 passes the age limit once. Fairness: weak on the feeder, the tick, the callers (they
refresh for ever) and the commands (an operator who repeats them).

## 8. The learning side: `ReviewJobs`, `TradeEpisodes`, `DailyGovernance`, `ReleaseChange`

* **`ReviewJobs`** (`evolution/hierarchical/`, `persistence_backends.py`,
  `time/review_period.py`): the daily reviews appear, days end, and each runner
  collects the children of a period, aggregates, inserts the report and writes the job row; unique keys
  collide, writes fail, runners die. `DailyRow` merges the reviews of one day, `RowsOf`
  lists what is stored of a period, `Collapsed` keeps one row of a day, `Total` adds a day up.
  `CalendarAssumption`: weeks share no day, months no week (the ISO calendar of
  `time/review_period.py`). `CompletedHasReport`, `CountedOnce`,
  `ConfirmedOnTwoDays`, `ReportsAreFinal`, and under fairness `JobsComplete`.
* **`TradeEpisodes`** (`governance/trade_episodes.py`): fills in order, late, or
  oversized; quarantines of a fill or a symbol; the hook that replays all and stores the
  completed cycles, and may fail. It runs after a fill that leaves a spot symbol flat and after
  each exit of a perpetual (`CallsHook`), so what a failed one missed waits for the next of those. `EpisodesAreSound` = `EpisodesAreTrades`,
  `EpisodesNetToZero`, `QuarantineIsHonoured`.
* **`DailyGovernance`** (`governance/scheduler.py`, `memory_persistence.py`): the loop of 00:05
  and a review by hand, each with the model's answers between its read and its write.
  `RowsAreOfTheirDate`.
* **`ReleaseChange`** joins **`CandidateChange`** (`foundation/registry.py`,
  `validation/workspace.py`) and **`Promotion`** (`promotion/coordinator.py`, validation). A
  path is as an edit writes it and `FileOf` the file it resolves to: `resolve_path` looks
  for an escape in the latter and for the prefixes in the former. An id may be promoted again.
  `RefusedStaysOut` = `NoSecondChance`, `ChangeSetInPolicy`, `GateBlockedOnlyWhenDegraded`,
  `ActiveNotRolledBack`.

Run `learning`: two days, one week, month and year; a direct runner and the coordinator; three daily
reviews, two of them of one day; 1 fault. Quantities {1, 2}, 4 fills, 1
disturbance. 2 dates, 2 trades. 2 candidates, a permitted and a forbidden
content, five paths to two files (permitted, a detour written like a permitted one, protected, outside, not listed), budgets of 1. 2 promotions. Four fills make two
trades, or one with parts on both sides. Fairness: weak on midnight and on each runner, who goes on
as long as a review it is asked for is due (`run_due` is called again and again).

## 9. The gateway and the supervisor: `LLMGateway`, `Supervisor`

* **`LLMGateway`** (`llm_runtime/gateway.py`, `repository.py`): operators save or delete
  providers, save routes, and reload under `_config_lock` in two reads; callers look at
  the copy and the circuit once, call, retry, note the outcome, and write a usage row, which may
  fail. `ConfigSettles`; `FewLateCalls` and `ServiceResumes` in `OutagesAreBounded`.
* **`Supervisor`** (`runtime/supervisor.py`): start, stop, crashes, a lease with a fixed
  owner that expires or goes to another process; a loop may run in several copies, as
  `start` remembers only the newest tasks. `EndsItsOwn` = `StopEndsEverything`,
  `LossHalts`, `ReleasesItsOwn`.

Run `runtime`: 2 providers, 2 routes, 2 callers, 2 operators, threshold 2, 1 retry, 3
troubles; 3 loops, 3 tokens, 2 copies, 2 breakdowns. A threshold of 2 with one retry opens a
circuit within one invocation or across two. Fairness: weak on the passing of the
open time, on callers, on the end of a stop and on loops.

## 10. `ChiefTrader`

`runtime/multi_symbol_chief_trader.py`, `chief_trader_strategy.py`,
`live_decision_context.py`, `opportunity_scanner.py`: `Turn` takes the coin at
the cursor; `Ask` and `Answer` fetch its candles through the cache, which the market page
(`PageShows`, `PageAsks`) fills too; `Score`; `Build` makes the evidence for the coin the
provider is `pointed` at; `Refuse`, `AskModel` are the gates (position, interval, cooldown);
`Decide`, `DecisionFails`; `Settle` books an entry, `Close` is an exit by the bridge;
`ChiefRestarts` forgets cooldowns, intervals and the cache; `Clock` lets time pass. Times
are ages that stop at the threshold they are compared with.

Run `chief_trader`: a perpetual coin and a spot coin, the spot coin shown on the page; an
interval of 2, cooldown and time to live of 1, a fetch of at most 1, 1 mishap (a restart,
a failed decision or a failed fetch). `InputsAreOfTheCoin` = `EvidenceIsOfTheCoin`,
`CandlesAreFresh`; `NoPyramiding`; `TurnsAreFair` = `CallsAreSpaced`, `EveryCoinIsConsidered`.

`NoPyramiding` holds because an entry is booked, and the position read again, before the
next decision: the cooldown (240 s) is shorter than the interval (300 s) and adds
nothing, and the assumption `SettleTime + FetchTime < Interval` is what carries it.
Fairness: weak on the tick, the page, answers and settlements; strong on the clock
(the tick leaves it a moment now and then) and on `Close`, for the reason given for `Approve`
in section 5.

## 11. The way of a decision

`MCDecisions` puts nine small parts together; the run `decisions` exercises them one
by one (`Topics`).

| module | code | instance | properties |
|---|---|---|---|
| `VenueOrders` | `exchange/okx.py`, `binance.py` with `recovery.py`: requests that arrive and lose their answers, repeats, lookups, the status map; either adapter's venue | 1 order, 3 attempts, 4 calls | `OneOrderPerId`, `FinalIsTheVenues` |
| `OKXConnection` | `api/app.py`, `credentials.py`: keys saved, deleted, revoked; validations behind a lock, each a sequence of requests | keys k1, k2, a live key, validators startup, page and other, 3 edits | `AsksOneAtATime`, `VerdictIsOfTheKeys`, `ValidationsAreAnswered` |
| `ExecutionGate` | `process_signal` before the row, `risk/engine.py`, `authority.py`, by the tick and a callback; the commit of a fill and its settlement | lots of 1, prices 0 (no book) and 1, limits of 1, 6 orders | `OpenOrdersBounded`, `SpotOvershootBounded` |
| `ExplorationReport` | `exploration_analytics.py` over evidence and fills, late and oversized ones among them | 1 asset, 2 signals, LIMIT 1, 5 fills | `TradesAreRoundTrips`, `RoundTripsAreReported` |
| `FactorSnapshot` | `factors/capture.py`, `catalog`, `live_decision_context.py` | up to 3 unreadable items, any absent | `EveryFactorOnce`, `ErrorsStayInTheirGroup`, `SnapshotIdResolves` |
| `StrategyEvidence` | `alpha/market_data_engine.py`, `regime.py`, `live_playbook.py`, `strategy_evidence.py` | markets on both sides of each threshold, 2 builds | `MirrorImage`, `TrendFamilyAgrees`, `DominantCandidateTrades`, `EveryCandleCounts` |
| `TechnicalIndicators` | `market_data/technical_indicators.py` | 6 bars, one unreadable; charts of 4, periods of 2 | `IndicatorsMirror`, `WindowedForget` |
| `MarketHistory` | `api/market_analysis.py`, `MarketIntelligenceDock.tsx` | candles and trades, 4 rows, pages of 2, 4 requests, 1 fault | `PagesMeet` |
| `ShadowCampaign` | `shadow_campaign/campaign.py` | 4 ticks, 2 a day, 1 restart | `CompletionIsEarned` |

The runs' properties are conjunctions of these: `VenueAnswersAreTrue`,
`LongAndShortMirror` (`src/SPAC.md:159`, long and short "are fully symmetric"; of
`StrategyEvidence` and `IndicatorsMirror`), `SnapshotIsTrue` (of `FactorSnapshot`,
`EveryCandleCounts` and `WindowedForget`), `LimitsAreBounded`, `RecordsAreWhole`,
`ValidationsAreAnswered`.

The pure parts (`StrategyEvidence`, `TechnicalIndicators`, `FactorSnapshot`) are operators
over bounded inputs that a step chooses; numbers are integers in the unit that the thresholds
are written in, or fractions. Three attempts and four calls let a copy of a request arrive after
the order was looked up and given up. Two callers (the tick, and a callback of the
supervisor if it is started) and limits of 1 are the smallest race for a limit, and six orders are
one more than the bound lets be bought or on order, which is reached (TLC finds the bound less one
order violated).
`GateAssumption` says what the proofs need of the limits: lots are positive, prices and
limits are naturals, there is a caller;
five fills are two round trips, the first in parts, with a residue, a late part or an oversized exit between
them.

Of the venues, which are not in the repository, `VenueOrders` assumes this: OKX never opens a second
order of a client order id, and on Binance an id is taken while an order of that id is open and
free again afterwards. In `ExecutionGate` the commit that takes an order off the list (`Commits`)
and the callback that moves its cost (`Settles`) are two steps; the event loop is between them with one
fill at a time, and a call whose submission got no answer runs a recovery of its own and is
between them with one more (`Free`). In `ExplorationReport` a fill row bears the time at which it is recorded
(`engine.py:492`, `:811`, `:935`; `recovery.py`), so a late fill stands late in the report: a part of an
entry that comes behind an exit begins another round trip of the same decision there, as in the model.
An exit's row has the quantity that was ordered, also where `close_position` took less or the settlement
raised behind the commit; then the sum of the rows is not the position, and the model keeps both
(`booked`, `holds`). A row whose commit is overtaken is missing from a report until then; reports
are computed anew at each request.

Fairness: weak on the validations that have begun,
whose requests have timeouts.

## 12. What is proved

TLAPS checks these theorems for all values of the constants, from the named
assumptions of the modules (`QtyAssumption`, `TTLAssumption` and so on: that
bounds are naturals and markers are not values).

### `OrderLifecycle_proofs`

* `TypeCorrect`: `Spec => []TypeOK`. `TypeOK` is not inductive: a pending write
  of a task must fit the row it came from. `TypeInv` adds `WellFormed`, which
  ties each `call` to the stage and the program counter of its task.
* `SubmittedOnce` (`SingleSubmission`), `RecordedBeforeSubmitted`
  (`PersistBeforeSubmit`), `SettledAtMostOnce` (`SettledOnce`) follow from one
  inductive invariant `Inv`, with the parts
  `OwnOrder` (an order that is not yet SUBMITTED belongs to at most one task),
  `NotYetSent` (and was never sent), `SentOnce`, `Concerned` (an operation, a
  listed row or a queued event is about a recorded order), `SettledOnce` and
  `Unsettled` (a fill row between its commit and its callback is in the hands
  of exactly one task, and is not posted). The reason the
  first two hold is that `list_open` starts at SUBMITTED and
  `process_signal` returns on an existing row; the reason for the third is
  that `fill_id` is unique in `fills` and only the task whose insert committed
  runs the callback.
* `Implementation`: `Spec => KeepsContract`, from the same invariant: initial
  states map to initial states, and every action maps to one of
  `OrderContract` or to a stutter.
* `NothingIsInvented`: `NothingInvented`. `Covered` says it of what will be written too:
  the quantity of a pending write is backed by the fill rows there are and the one it
  inserts with it, so a row that overwrites a newer one can lose a fill and not gain one.
* `ClaimsAreAlwaysBacked` (`ClaimsAreBacked`), under `OneTask` (the signals and the
  recoveries are run by one task, as by the tick task of the engine) or `NothingUnknown` (no
  submission times out or is lost, so that only a start recovers). `Rejections` says of an
  order whose rejection is written or about to be written that the exchange does not have it and
  that nobody is about to send it; it is inductive where recovery is `Undisturbed`. That is
  needed: with a second task a recovery takes "not found" as final for an order
  that the other one is about to send (section 13).
* `FilledStaysExact`: `FilledIsExact`, under `NothingUnknown`
  and `ExchangeSurvives`, for any number of tasks, lots, duplicates and crashes.
  Without unknown outcomes recovery is the startup's alone (`StartupAlone`), and two operations
  never work on one order (`OneAtATime`). So a pending row was computed from the row as it is
  (`Current`), and each write leaves the row exact (`Exact`: what it has filled is what its fill
  rows add up to, and it is FILLED exactly when that is the whole quantity). `Executed` is about the
  other side: the fills of an order that are booked or on their way are all of one
  execution, whole (`Whole`) or in lots (`Lots`, `Streamed`), or recovery has booked what
  was missing after a crash (`CaughtUp`), and then no event of before the crash is left. `WholeSum` and
  `LotsSum` turn that into a bound of the sum by what the exchange executed.
* `RestartLeavesNoDoubt`: `RestartRecovers`, the action property, under the same two assumptions. `Thorough`
  is the loop invariant of startup recovery: each order agrees with the exchange, or is still
  to be visited, or is what recovery has in hand. It rests on four facts: an order that is
  not listed agrees (`UnlistedAgree`, from `FilledIsExact` and `Rejections`); the exchange's status is how far
  an order is executed (`VenueIsPlain`); nothing cancels one (`Uncancelled`); and a recovery fill that is
  in the books left nothing missing (`Remedied`), so that no recovery is turned away as a duplicate.

### `EngineLease_proofs`

* `LeaseIsNeverStolen` (`NeverStolen`), `AtMostOneLateOrder` (`OneLateOrder`),
  `AtMostOneDefiantOrder` (`OneDefiantOrder`), `TypeCorrect`. The inductive
  invariant `Inv` has `TypeInv`, `Starting` and `Known` (tokens in use were drawn,
  and each belongs to one process), `Fresh` (a token being drawn is not in the
  table), `Lost` (a process whose lease is gone and that has sent a late order is
  past no gate, and cannot get the lease back without starting) and `Obedient`
  (the same for the switch). They hold for any number of processes, any lease
  time and any delay.

### `PositionExit_proofs`

* `TypeCorrect`. `TypeInv` adds `Working`: while the tick task submits there is
  exactly one order in SUBMITTED, its own, and a perpetual order is never
  anything but SUBMITTED until its fill row removes it.
* `PerpetualIsOneEntry` (`PerpIsOneEntry`), with `Entered` and `Reducing`: between
  the gates and `record_open` or `record_close` nobody else moves a perpetual
  position, so the move still does what the gates allowed.
* `ExitsAreNotDoubled`: `"list" \notin Faults /\ Spec => NoSecondListedExit`. The
  invariant has two halves. `OrdersInv`: the event loop settles one fill
  at a time, a spot symbol has at most one order that is not executed, an entry is
  alone on a flat symbol, and a flat symbol with a listed exit has nothing left to
  settle beside it. `RoundInv`: the signal at the gates has no listed exit beside it, and a
  listed exit is in `inflight` unless its symbol is flat and not in the round.
  The first half is what makes the second inductive: without it a settlement
  could open a position whose exit the bridge has already forgotten. It
  holds for any number of symbols and orders, with crashes, refusals, dead tick
  tasks and partial reads anywhere.

### `ChiefTrader_proofs`

`OneEntryPerCoin` (`NoPyramiding`) and `EvidenceOfTheCoin` (`InputsAreOfTheCoin`), for any
coins, intervals and times to live with `SettleTime + FetchTime < Interval`. The invariant
`Inv` has `TypeInv` and
* `Booking`: an entry on its way to the books is the coin's only one, and its decision is
  no older than it, so until it is booked the coin has been decided about recently;
* `Scored`: a position that was read as flat is flat, or its entry is so recent that the
  coin is throttled for as long as the candles of the tick may take to come;
* `Gated`: behind the throttle it is flat;
* `Aimed`: from the building of the evidence to the model the provider is pointed at the
  tick's coin, and so is the evidence.

`ModelIsAskedSparingly` is `CallsAreSpaced`, the action property in `TurnsAreFair`. The throttle
looks at the last decision and the property speaks of the last call; `Spaced` relates them:
what was called was decided about no earlier than that, whether the call led to a decision, a
failure or none, and between the throttle and the model the interval stays over.

The module also proves `CopyFollowsTables` (`ConfigSettles`) of `LLMGateway`, for any
number of providers, routes and requests. `GatewayInv` = `Shape`, `Locked` (between the
reads of a reload a request holds the lock) and `Followed`: either a request has committed
and still has its reload to come, or the reload under way has read what the tables hold
and the copy differs from them only where that reload will write. The lock is what
excludes the reload that would write older rows over newer ones.

`LateCallsAreFew` is `FewLateCalls`, the safety part of `OutagesAreBounded`: while a circuit is
open its provider gets the retries of the calls that were under way and nothing else. Those
retries are a set (`Remaining`), so its cardinality takes the place of a sum over callers; the
invariant `Bounded` adds it to the calls made since the circuit opened. A retry moves an element
from the one to the other, and the failure that opens the circuit ends the call of one caller,
which leaves at most the retries of all the others. `GatewayAssumption` says for that
that the callers are finitely many and at least one.

### `Books_proofs`

`AccountsAlwaysAgree` (`AccountsAgree`), `MarginIsAlwaysOneNumber` (`MarginIsOneNumber`),
`TableAlwaysFollows` (`TableFollowsJournal`) and `BooksTyped`, for any prices, fee, leverage,
funding rates, deposit and any number of operations, crashes and faults. The argument has four steps.
* What a transaction posts (`TradePosts`, `DepositPosts`, `FuturesPosts`): it balances, only
  an opening and a closing touch MARGIN, only a trade POSITION_ASSET.
* The replays treat cash apart from the holding (`ReplayHolds`, `OnlyCash`): so the two
  spot replays never differ on it, whatever perpetual entries lie between.
* The exchange is ahead of the journal by the fills on their way. `VenueSound` says so
  without recursion: there is a sequence of books, one for each queued fill, that begins
  with the replay of the journal (and the fill between its row and its entry), applies the
  fills, and ends with the books of the exchange. A spot order adds one to the sequence, a recorded
  fill takes its first, and when the queue is empty the two agree. It holds until a fill is dropped.
* Beyond that the gap is counted. `GapSound` has two such sequences, of the cash and of the lots, that
  begin with the journal's plus what was dropped and end with the exchange's. A dropped fill
  passes from the queue, or from the hands of the event loop, into `lost`, and neither sequence moves
  (`HeadTaken`, `FillMoves`); the cost has no such sequence, as it is an average.

`BooksInv` adds `JournalSound` (MARGIN is the margin of the futures replay, and that of its
position), `TableSound` (between the record of a fill and its refresh, and after a refresh that failed,
the table is behind; the view that will replace it is not) and `PhaseSound` (nothing waits while the engine is down).

### `Market_proofs`

* `BookIsTheExchanges` (`HealthyBookIsExact`), for any number of levels' deltas, copies, gaps,
  late snapshots and overlapping resyncs. `BookInv`: whatever its status, a book with a number
  has the levels that the exchange had at that number; what carries it is `ReplayedSound`: a
  buffer of any content replayed on an exact book gives an exact book or one that is not healthy.
* `FeedActsOnTruth` (`FeedIsHonest`), for any callers, age limit and clock. `FeedInv` ties the stamps of
  a source to its status, and the stage a refresh has reached to the sources it has
  filled, so that the last stage cannot declare HEALTHY a market with a hole.
* `RegistryForgetsNothing`: `HistoryIsKept`, for any instruments and overlapping commands.
* `BackfillIsWhole` (`BackfillHasNoHole`): the rows so far are an interval that ends at the
  cursor, and a page is an interval up to it (`PageIsInterval`), for any page size and limit.

### `Learning_proofs`

* `ReviewsCountHonestly` (`CountsAreHonest`), for any calendar, runners, daily reviews and
  faults. `ReviewInv` says of a report that is or may be stored what is promised of it
  (`SoundReport`), and of a runner (`SoundJob`) that what it has collected is still what the
  children's rows say, although daily reviews go on being written: a stored row is not changed, and the days of two weeks do not
  meet. `AtMostOnce` and `TermInSum` are about the sums of the aggregation: where at most one row adds to
  a day, and by one, the sum is at most one. `GovernanceInv`: a count that was read is no
  more than the memory holds now.
* `ReportsStay`: `ReportsAreFinal`, the action property, from the same invariant. The
  run checks it as a part of the reviews' behaviour.
* `RefusalsLast` (`RefusedStaysOut`), for any candidates, contents, paths and promotions,
  in any order of the calls: whatever file a path resolves to, and however often an id is promoted.
  The four parts become inductive with what `Registry`, `Workspaces` and `Promoted` add about the
  shape of the rows.
* `EpisodesStaySound` (`EpisodesAreSound`), for any quantities and any number of fills, late
  fills, quarantines and failed hooks. `build_cycles` replays all fills at every hook, so the argument
  has a part about the replay and a part about the table.
  * Of any replay (`CyclesShaped`, `CyclesClosed`): a cycle is a `Cut`, a stretch of the replay
    whose entries and exits are exactly the fills between its ends and whose running position is their
    sum. So a complete one nets to zero (`Closed`), and as the replay is in the order of time
    and leaves out what is quarantined (`ReplayIs`), it has no quarantined fill, and lies in time
    between its first entry and its last exit (`Within`), which is what the window of a
    symbol's quarantine is compared with.
  * Of undisturbed fills: they were booked in the order of their stamps, so the replay is the table
    (`ReplayIsTable`). `Steady` goes along with the fold: its position is the position that trading had,
    and the cycles listed so far are exactly the trades from flat to flat so far (`Told`).
    `Orderly` is what makes it true: the risk engine refuses an entry against the position
    and an exit never exceeds it, so the skipping of fills at flat and the classification by side
    and by the flag agree.
  * `EpisodeInv` has `Closed` for every stored episode whatever happened, and `Traded` while nothing
    disturbed the fills. A fill that is added changes no earlier sum (`NetKept`), so what is
    stored stays what it was.

### `Decisions_proofs`

* `VenueIsBelieved` (`VenueAnswersAreTrue`). `VenueInv`: all attempts of an order carry one id,
  so OKX has opened at most one order of it, and Binance none beside one that is at work
  (`OrderSound`); a request on its way has opened nothing yet, and none was sent of a later attempt
  than the one under way. A final status is that of an order there, which does not move any more.
  `ConnectionInv`: a validator waits in the queue once and exactly when it is not idle; whoever has a client
  open is the head of the queue; the keys that are shown are the file's. `late` counts the verdicts of other
  keys since the keys last changed: while none was shown one validation may be under way on behalf of
  older keys, the head's; once one was shown there is none, as whoever asks next reads the keys anew.
* `LimitsHold` (`LimitsAreBounded`), for any number of callers, lots, prices and limits. The
  bound on orders alone is not inductive: `OpenCounted` counts, with the open orders, every call
  that the limit no longer stops; a call enters that count only where there is room, so
  that the two exceed the limit by the other callers at most. `ExposureCounted` adds to
  what is bought and on order the `Claim` of each call: the most that it may still order on what it
  has read. A claim is made when positions are read, at most what the reading leaves under the limit,
  and only shrinks until it becomes an order; so the worst case is that of the reading itself, when
  the open orders (as many as `OpenCounted` allows) are not in the cost, nor is a fill whose commit has taken it
  off the list and whose settlement is still to come, and each other caller has a claim or a recovery with
  such a fill of its own.

  The sums are recursive functions over the subsets of a finite set. `AddsExists`,
  `AnyFirst`, `AddsUnique`, `SumAgree`, `SumRemove`, `SumChange` and `SumBounded` give what is
  needed of them, and `FoldIs` that the fold `OpenBuys` of the model is such a sum.
* `RecordsStayWhole` (`RecordsAreWhole`), for any assets, signals, page lengths and number of
  fills, requests and restarts; fills may be late and exits of either size. `exploration_status` replays the
  fills; `StatusGrows` says that the report on one more fill is the report on the others and that fill
  read, so the replay becomes a step that can be followed beside trading. `ReportInv` relates the two:
  the report's net of a symbol (`TripFits`) is the exact sum of the rows (or, where that is 0, the residue of the floating-point
  sum); a lot with a decision is that of the round trip under way (`Reads`); a lot of no round trip
  (`Phantom`) has no decision and a symbol that was oversold; and a trade that the report takes matches a round trip whose
  first exit is that very fill (`TakenMatch`), unless its lot is such a one. A round trip it does not list began where
  the sum was of the other sign. `HistoryInv`:
  the rows shown are an initial part of the data set down to the cursor, so the page that
  follows it meets them. `CampaignInv`: the days counted are at most the days observed,
  and a campaign that is complete was so by its own count.
* `SnapshotStaysTrue` (`SnapshotIsTrue`), for any catalogue, failures and windows. `FactorsOnce`
  and `ErrorsConfined` are about the groups, each of which names its factors whether it
  is computed or fails. `CandlesCounted`: the provider sorts by rank, one row for a minute
  (`ProviderSorts`), and the ingestion keeps of those what has a price and is newer than what
  it has (`NextBar`), so every candle with a price is one bar and the bars are in the order
  of time. `WindowsForget`: every windowed indicator is a function of the newest rows of the
  chart (`SameWindows`), so it is that of the window alone.
* `EvidenceIsImpartial` (`LongAndShortMirror`), for any candles, windows, averages and
  markets. Of the strategies (`TenStrategies`): each has the opposite signal on the market
  upside down, with the same fit (`FitMirrored`). `FamilyAgrees` and `DominantTrades` are about the
  candidates that come of them. Of the indicators (`SnapshotFlipped`): a chart upside down (`Flips`:
  prices taken from a height, highs and lows exchanged) has the averages taken from
  the same height, ranges and strength of trend unchanged, upper and lower levels and the two
  directions exchanged, differences and signed flows negated, and positions in a range
  counted from the other end. Fractions are pairs, and `Reflects(H, s, u)` says of two sequences of them that
  each value is H less the other; it passes through sums, averages with a memory and
  their differences (`AddReflected`, `BlendReflected`, `MacdReflects`, where the height cancels).

  `MarketsAssumption` and `IndicatorsAssumption` say what these need: numbers are integers,
  lengths of averages positive and the first of the MACD no longer than the second, a low is at most
  its close and a close at most its high, and the greatest of a window is not below the least.

### Induction

Where a proof needs induction over numbers it is stated as a fact about a set: a set of
naturals has a least element (`LeastNumber`, from the well-foundedness of the naturals), so a set
that contains 0 and, with k - 1, also k, reaches everything up to n (`ReachesAll`). The
folds and recursive functions over finite sets and sequences that these theorems meet
(`ApplyAll`, `Total`, `OpenBuys`, `NetOf`, `build_cycles`, `_realized_trades`, the ingestion of
candles, sums and averages) are treated that way: a fold has the value at the end of a
sequence of states, one for each element (`Passes`, `Runs`), and an invariant of a step is an
invariant of that sequence. A sequence sorted by a code path is given by ranks: the n-th
element has n - 1 before it (`ByRank`).

### Only model-checked

Everything under fairness: `PathProgresses`, `LossIsNoticed`, `OpenIsClosed`, `HaltIsTrue`,
`MarketSettles`, `ValidationsAreAnswered`, and the liveness in `ReviewsAreFinished`,
`OutagesAreBounded`, `TurnsAreFair` and `EndsItsOwn`; liveness and ENABLED are beyond this
prover. What those conjunctions say of safety is proved (`ReportsAreFinal`, `HistoryIsKept`,
`FewLateCalls`, `CallsAreSpaced`), but for `ReleasesItsOwn` of the supervisor, which one action
settles. Every other invariant that a passing run lists is stated by a theorem.

## 13. Where the code and its documents disagree

The run `find_extreme_regime` finds one: `realized_vol` takes its returns from `returns(1)`,
which holds the last one only (`alpha/market_data_engine.py:75`), so it is 0 for every
market; after ten builds 0 ranks at the top of ten zeros, and every market is
EXTREME_RISK (`ExtremeStandsOut`).

The modules define more properties that a document, a comment or a test states and that the code
does not keep. No configuration lists them; each is found violated when it is
made the only INVARIANT (or PROPERTY, for an action property) of the configuration named.

| property | configuration | what happens |
|---|---|---|
| `FillsAreSettled` | `OrderUncertain` | crash between the commit of a fill row and its callback: the fill is a duplicate from then on and never reaches the ledger |
| `NothingStranded` | `OrderUncertain` | crash at SUBMITTING: `list_open` does not list it, startup recovery never looks at it |
| `StreamIsComplete` | `OrderConcurrent` | the event loop runs before the acknowledgement has stored the exchange id: no order is found and the events, fills among them, are dropped |
| `FilledWithinExecuted` | `OrderUncertain` | recovery books a partial fill under its own id and the stream books the same execution again |
| `OnlyHolderSubmits` | `EngineLease` | the lease ends between `is_held` and the submission |
| `StopsOnlyWhatIsDue` | `PositionExit` | a position opened within the grace window inherits the age of the one before it and is closed at once |
| `NoExitBeforeSettled` | `PositionExit` | a FILLED exit that is not settled is not listed, the position looks open, a second exit goes out |
| `ProjectionRecovered` | `Books` | crash or error between `record` and `refresh` (`engine.py:1002`, `:1011`): `start` returns early from `_seed_initial_balances` and the table stays behind (`src/SPAC.md:117`) |
| `JournalReplays` | `Books` | a fill that oversells is recorded and every later replay raises (`src/SPAC.md:92`) |
| `LoopsRestart` | `Runtime` | a crashed loop is restarted by awaiting its finished coroutine (`supervisor.py:114-129`) |
| `FailedDateIsRetried` | `Learning` | the next loop reviews the next date |
| `NeverSentTwice` | `Decisions` | a MARKET order whose answer was lost is filled; the same id is sent again and Binance opens a second one (`exchange/binance.py:104-118`; `src/SPAC.md:83`) |
| `ProtectedStays` | `Learning` | a path written with an allowed prefix resolves to a protected file and is accepted (`validation/workspace.py:87-99`) |
| `NothingFabricated` | `Decisions` | an exit that sells more than there is leaves the sum of the rows on the other side, and the next fill closes a round trip that nobody made (`exploration_analytics.py:254-301`) |
| `RejectedIsAbsent` | `Decisions` | recovery rejects an order whose request arrives later (`recovery.py:54`) |
| `DeletedIsNotAuthenticated` | `Decisions` | a validation of keys that are deleted meanwhile ends by showing them as authenticated |
| `PerpetualWithinLimit` | `Decisions` | perpetual positions are not in the exposures that the check reads (`src/SPAC.md`, section 8) |
| `ExitIsNotTooLarge` | `Decisions`, with `Price = {0, 1, 2}` | MAX_ORDER_NOTIONAL refuses the sale of a position (`risk/engine.py:216` says it must not) |
| `RowsAreOfTheChoice` | `Decisions` | an answer to the previous choice is shown under the new one (`MarketIntelligenceDock.tsx:232`) |
| `EarlierTradesAreEarlier` | `Decisions` | the cursor of a page of trades is a time, `after` is a trade id (`exchange/okx.py:410`) |
| `DaysAreKept` | `Decisions` | a restart drops the observations, and the next one counts only itself (`campaign.py:1-5`) |

Seen while modelling, and in the models:

* `OrderRejected` is a subclass of `ExchangeError` and its handler comes second, so a
  rejected order becomes UNKNOWN, not REJECTED (`engine.py:744`; `src/SPAC.md:85`).
  `SendFailed` models it.
* Under a recovery that runs beside the stream, a status computed from an old
  read overwrites FILLED (`manager.py:251`, `:292`), and an overfill raises out
  of `recover` and ends the tick task (`recovery.py:86`). This is why
  `PathProgresses` is in the definite run.
* A fill that the event loop drops (section 6) leaves the exchange ahead of the journal for good; the
  reconciliation halts, and only a restart, which hydrates the exchange from the journal, ends that.
* The liquidation of a perpetual position books a realized result of 0 (`perpetual/engine.py:196-216`).
* With two tasks the recovery of one rejects a row the other is about to send
  (`recovery.py:52`).
* With the kill switch engaged between authorization and submission one order
  still goes out (`src/docs/phase1_brainstorm.md:76`); `OneDefiantOrder` proves
  that it is at most one.
* An exception of `reconcile` ends its loop (`engine.py:292`), and a halt stays.
* The yearly sums count a day of a straddling ISO week twice, which is why
  `CountedOnce` speaks of weeks and months; a month can be reviewed before its last
  week; FAILED can overwrite COMPLETED of a job whose report is stored and
  is repaired by the next run.
* Rolling back an old promotion clears the newer active release (`coordinator.py:65`); promoting the
  active one again with failing health leaves it ROLLING_BACK, and active.
* A late fill changes the key of its cycle, and the old and the new episode are both
  stored; a late quarantine deletes nothing (`EpisodesAreTrades` is about undisturbed fills).
* Reading the property `symbol` of the multi-symbol trader moves its cursor (`:62`).
* Factors whose input is absent (`cvd`, aggressive ratio, divergences, funding change,
  liquidations) are reported as VALID_ZERO.
* One unreadable candle empties all indicators; OBV depends on where the window begins
  and is not among those of `WindowedForget`.
* Between the commit of a fill and its settlement an order is in no sum: another signal may pass
  the limit by it (`order/manager.py:429`, `:444`); `SpotOvershootBounded` says by how much.
* A part of an entry that is booked behind an exit makes a second round trip of the same decision in the report;
  a round trip that began against what an oversized exit left is missing.
* The report keeps the oldest decisions (`LIMIT 5000 ... ASC`), and a residue of
  floating-point sums can hide the next round trip (`RoundTripsAreReported` excuses it).
* The verdict of a validation whose keys were replaced meanwhile is shown until the next change.
* Overlapping daily reviews may leave the older count of a date.

Seen outside the models:

* `ledger/service.py:206-216`: the lookup for idempotency never matches, as each call
  has a fresh event id.
* `portfolio.refresh` starts its replay from `_initial_balances` although the journal
  has the deposit, so `accounts_projection` shows it twice.
* `_process_market_event` catches only `MarketDataUnhealthy`.
* `llm_runtime/gateway.py`: protocol errors of the HTTP client escape `complete` (no
  retry, no circuit, no usage row); overlapping calls of `test_provider` leave their test route
  behind; `save_provider` beside `delete_provider` may re-create a provider without a key.
* `api/app.py:1446` gives the event bus a handler that cannot be awaited
  (`event_bus.py:21-25`); nothing publishes.
* Adapters: the reason classifier of OKX finds "ip" inside words; `validate_credentials` catches an
  error class that is not the one raised; Binance looks an order up by the exchange's
  id as if it were the client's; a local sequence number hides missed updates of its
  stream; `/validate` may reuse a healthy verdict that is no longer true.
* The resolver of instruments creates its table with three columns, and later
  refreshes fail on it.
* A crash between the ledger transaction of a perpetual order and its fill row
  leaves no fill, although `engine.py:475` counts on one; the open-time provider then
  falls back on an older fill or on the present.
* `ai_position_bridge.py:365` reads an attribute (`hard_risk_exit`) the evaluation
  does not have; it is reached only when the brain does not hold.
* Re-acquiring a lease by the same owner returns fence generation 1 (`lease.py:58`).

## 14. Hazards

`PROJECT.json` lists forty-one with their lines and the properties that would catch them going wrong.
One has no property: the age of a position after a restart (`bootstrap.py:354`), where
`StopsOnlyWhatIsDue` fails anyway. Met as well, and not in that list: a recovery
that raises half-way (`recovery.py:86`) or outlasts the lease (`engine.py:176`); a
failing `list_open` (section 5), a second evaluator of positions (section 5); the replay of the perpetual journal by
timestamps (`perpetual/ledger.py:243`) when the clock steps back; restarts of the supervisor's
loops; requests of the settings page that race over one provider's key; intervals changed
under a request in `useKlines.ts`.

## 15. What is not modelled, and why

* The content of decisions: prompts, memory retrieval, the model's answers, the AI
  brain, intelligence, ensemble, sizing, reviewers, backtests, texts and scores of
  reviews. Numeric or textual functions of their inputs; where their result
  matters it is a free choice.
* Payload parsing, websocket reconnection (no caller) and the Binance feed's streams: what
  they deliver is an input.
* Cancellation (`cancel_pending`, `cancel_confirm`, `expire`, `cancel_order`):
  nothing under `src/src` calls it; it appears only in the transition table.
* `capital_management`, `portfolio_risk`, `cross_exchange_guard`,
  `execution_intelligence`, `UniverseManager`, `InstrumentResolver`, rate limiter: no caller
  in the trading path. `can_add_risk` and `ShadowCampaign` have none either but carry
  a promise of their own, and are modelled.
* `test_provider`, `test_unsaved_provider` and the qualification of routes in the gateway.
* Scheduler of background work, event bus, local runner, security, observability, operating
  system jobs, replay and shadow records: wiring or append-only.
* Some sixty advisory packages of 26 to 150 lines: pure functions over records that nothing in the
  trading path calls.
* The evaluator of positions as a callback of the supervisor (section 5); in the report, an exit by an old
  signal that arrives after its position was reversed.
* The frontend but its history tab, deployment, migrations.

## 16. What is left

* The composition of `EngineLease` and `OrderLifecycle`: two processes whose
  recoveries meet when one outlives its lease; and of `Books` in place of `Settle`.
* Theorems about such a composition: that two processes with one order table keep
  `SingleSubmission` as long as `EngineLease` keeps their leases apart.
* The gateway's tests of providers; the perpetual journal under a clock that steps back.
* Daily reviews' scoring, the memory's retrieval and the remaining tables of the schema as
  operators, where a property worth having can be found.

## 17. Running it

```
tlc -workers 2 -config OrderConcurrent.cfg   MCOrderLifecycle.tla
tlc -workers 2 -config OrderUncertain.cfg    MCOrderLifecycle.tla
tlc -workers 2 -config OrderDefinite.cfg     MCOrderLifecycle.tla
tlc -workers 2 -config EngineLease.cfg       MCEngineLease.tla
tlc -workers 2 -config PositionExit.cfg      MCPositionExit.tla
tlc -workers 2 -config Books.cfg             MCBooks.tla
tlc -workers 2 -config Market.cfg            MCMarket.tla
tlc -workers 2 -config Learning.cfg          MCLearning.tla
tlc -workers 2 -config Runtime.cfg           MCRuntime.tla
tlc -workers 2 -config ChiefTrader.cfg       MCChiefTrader.tla
tlc -workers 2 -config Decisions.cfg         MCDecisions.tla
tlc -workers 2 -config FindExtremeRegime.cfg MCDecisions.tla      (finds a violation)

tlapm M.tla    for M = OrderLifecycle_proofs, EngineLease_proofs, PositionExit_proofs,
               Books_proofs, ChiefTrader_proofs, Market_proofs, Learning_proofs,
               Decisions_proofs
```

Distinct states: `order_concurrent` 160,554 (with symmetry of the orders),
`order_uncertain` 212,045, `order_definite` 70,762, `engine_lease` 193,926,
`position_exit` 217,362, `books` 1,009,900, `market` 191,624, `learning` 715,752, `runtime`
190,044, `chief_trader` 340,375, `decisions` 790,731.

The type invariants of the modules hold in these runs too (`BookTypeOK`, `FeedTypeOK`,
`ReviewTypeOK`, `GatewayTypeOK`, `ChiefTypeOK`, `DecisionsTypeOK` and so on); the
configurations list one of them, and those of the order path, the lease, the position
bridge, the Chief Trader and the gateway are proved or parts of an inductive invariant.
