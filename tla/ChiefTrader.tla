----------------------------- MODULE ChiefTrader -----------------------------
(***************************************************************************)
(* The entry side of the engine's tick: MultiSymbolChiefTraderStrategy-    *)
(* Adapter takes the coins in turn, scores them, and lets the language     *)
(* model decide about each, at most once per interval.  The candles come   *)
(* from a cache that the market page of the API fills, too.  Time passes   *)
(* while the tick waits; times are ages, which stop at the threshold they  *)
(* are compared with.                                                      *)
(***************************************************************************)
EXTENDS Integers, FiniteSets, Sequences

CONSTANTS
  symbols,     \* the configured coins, a sequence without repetitions
  Shown,       \* the coins the market page shows
  PerpCoin,    \* those that execute as paper perpetuals
  Never,        \* no age, no fetch
  Interval,    \* min_decision_interval_seconds
  Cooldown,    \* entry_cooldown_seconds
  CacheTtl,    \* candle_cache_seconds
  SettleTime,  \* bound: a spot order is executed and booked within this time
  FetchTime,   \* bound: a fetch is over within this time (timeout of the client)
  MaxMishaps   \* bound: restarts, failed decisions and failed fetches

Coin == {symbols[i] : i \in 1..Len(symbols)}

ASSUME ChiefAssumption ==
  /\ Len(symbols) \in Nat \ {0}
  /\ \A i, j \in 1..Len(symbols) : symbols[i] = symbols[j] => i = j
  /\ {Interval, Cooldown, CacheTtl, SettleTime, FetchTime, MaxMishaps} \subseteq Nat
  /\ Never \notin Nat \cup Coin \cup [coin : Coin, asked : Nat, data : Nat \cup {Never}]
  /\ SettleTime + FetchTime < Interval

VARIABLES
  cursor,     \* _symbol_cursor
  pc, coin,   \* where the tick waits, and the coin it is about
  flat,       \* ctx.positions has no position in the coin
  pointed,    \* LiveDecisionContextProvider.symbol
  bundle,     \* the coin the evidence is of, Never without evidence
  decided,    \* coin -> age of _last_decision_completed_by_symbol
  entered,    \* coin -> age of _last_entry_initiated_at
  waited,     \* time since the cooldown was looked at
  called,     \* coin -> time since the model was last busy with it, in this process
  fetch,      \* who -> the fetch of candles that is under way
  cache,      \* coin -> candles with the time they were asked for and answered
  position,   \* coin -> entries booked
  pending,    \* coin -> age of the entry that is not booked yet
  broken,     \* the coins whose order book cannot be fetched
  mishaps

tick    == <<pc, coin, flat, pointed, bundle, waited>>
memory  == <<decided, entered, called>>
candles == <<fetch, cache>>
holding == <<position, pending>>
chiefVars == <<cursor, tick, memory, candles, holding, broken, mishaps>>

Who     == {"trader", "api"}
Nothing == [c \in Coin |-> Never]

ChiefInit ==
  /\ cursor = 1 /\ pc = "idle" /\ coin = symbols[1] /\ flat = TRUE
  /\ pointed = symbols[1] /\ bundle = Never
  /\ decided = Nothing /\ entered = Nothing /\ called = Nothing /\ waited = 0
  /\ fetch = [w \in Who |-> Never] /\ cache = Nothing
  /\ position = [c \in Coin |-> 0] /\ pending = Nothing
  /\ broken \in {B \in SUBSET Coin : B # Coin}
  /\ mishaps = 0

Mishap == mishaps < MaxMishaps /\ mishaps' = mishaps + 1

-----------------------------------------------------------------------------
(* Time, and what happens beside the tick.                                 *)

Older(age, most) == IF age = Never THEN Never ELSE IF age < most THEN age + 1 ELSE age

OlderFetch(f) ==
  [coin |-> f.coin, asked |-> f.asked + 1, data |-> Older(f.data, CacheTtl + 1)]

\* Candles that have expired are as good as none.
OlderCandles(r) ==
  IF r.asked >= CacheTtl THEN Never
  ELSE [asked |-> r.asked + 1, data |-> Older(r.data, CacheTtl + 1)]

\* The tick takes time only where it waits for an answer.  Assumption: what it has ordered
\* is booked, and what it has asked for is there, in less time than the interval.
Clock ==
  /\ \A c \in Coin : pending[c] # SettleTime
  /\ pc \in {"score", "build"} => fetch["trader"] # Never
  /\ \A w \in Who : fetch[w] # Never => fetch[w].asked < FetchTime
  /\ decided' = [c \in Coin |-> Older(decided[c], Interval)]
  /\ entered' = [c \in Coin |-> Older(entered[c], Cooldown)]
  /\ called'  = [c \in Coin |-> Older(called[c], Interval)]
  /\ waited'  = IF pc = "llm" THEN Older(waited, Cooldown) ELSE waited
  /\ pending' = [c \in Coin |-> Older(pending[c], SettleTime)]
  /\ fetch'   = [w \in Who |-> IF fetch[w] = Never THEN Never ELSE OlderFetch(fetch[w])]
  /\ cache'   = [c \in Coin |-> IF cache[c] = Never THEN Never ELSE OlderCandles(cache[c])]
  /\ UNCHANGED <<cursor, pc, coin, flat, pointed, bundle, position, broken, mishaps>>

Settle(c) ==
  /\ pending[c] # Never
  /\ pending' = [pending EXCEPT ![c] = Never]
  /\ position' = [position EXCEPT ![c] = @ + 1]
  /\ UNCHANGED <<cursor, tick, memory, candles, broken, mishaps>>

\* The bridge closes a position, at the end of a tick.
Close(c) ==
  /\ pc = "idle" /\ position[c] > 0
  /\ position' = [position EXCEPT ![c] = 0]
  /\ UNCHANGED <<cursor, tick, memory, candles, pending, broken, mishaps>>

\* The process ends and starts again; recovery books what was executed.
ChiefRestarts ==
  /\ Mishap
  /\ position' = [c \in Coin |-> IF pending[c] = Never THEN position[c] ELSE position[c] + 1]
  /\ pending' = Nothing
  /\ cursor' = 1 /\ pc' = "idle" /\ coin' = symbols[1] /\ flat' = TRUE
  /\ pointed' = symbols[1] /\ bundle' = Never /\ waited' = 0
  /\ decided' = Nothing /\ entered' = Nothing
  /\ fetch' = [w \in Who |-> Never] /\ cache' = Nothing
  /\ called' = Nothing
  /\ UNCHANGED broken

-----------------------------------------------------------------------------
(* get_candles: a fetch by w, and what it leaves in the cache.             *)

IsCached(c) == cache[c] # Never

BeginFetch(w, c) == fetch' = [fetch EXCEPT ![w] = [coin |-> c, asked |-> 0, data |-> Never]]

\* The exchange answers with the candles of this moment.
Answer(w) ==
  /\ fetch[w] # Never /\ fetch[w].data = Never
  /\ fetch' = [fetch EXCEPT ![w] = [coin |-> fetch[w].coin, asked |-> fetch[w].asked, data |-> 0]]
  /\ UNCHANGED <<cursor, tick, memory, cache, holding, broken, mishaps>>

\* Candles are stamped with the time they were asked for.
Stamped(f) == [asked |-> f.asked, data |-> f.data]

EndFetch(w) ==
  /\ fetch' = [fetch EXCEPT ![w] = Never]
  /\ cache' = [cache EXCEPT ![fetch[w].coin] =
                 IF Stamped(fetch[w]).asked > CacheTtl THEN Never ELSE Stamped(fetch[w])]

\* The market page.
PageAsks(c) ==
  /\ c \in Shown /\ fetch["api"] = Never /\ ~IsCached(c)
  /\ BeginFetch("api", c)
  /\ UNCHANGED <<cursor, tick, memory, cache, holding, broken, mishaps>>

PageShows ==
  /\ fetch["api"] # Never /\ fetch["api"].data # Never
  /\ EndFetch("api")
  /\ UNCHANGED <<cursor, tick, memory, holding, broken, mishaps>>

-----------------------------------------------------------------------------
(* The tick.                                                               *)

\* Variant: the turn passes on only when the book has arrived.
StaysOnFailure(c) == IF c \in broken THEN cursor ELSE (cursor % Len(symbols)) + 1

\* The property symbol moves on whenever it is read.
NextCursor(c) == (cursor % Len(symbols)) + 1

Turn ==
  LET c == symbols[cursor] IN
  /\ pc = "idle"
  /\ cursor' = NextCursor(c) /\ coin' = c
  /\ pc' = IF c \in broken THEN "idle" ELSE "score"
  /\ flat' = (c \in broken \cup PerpCoin \/ position[c] = 0)
  /\ UNCHANGED <<pointed, bundle, waited, memory, candles, holding, broken, mishaps>>

\* The scanner asks for the coin of the tick, build for that of the provider.
Asked == IF pc = "score" THEN coin ELSE pointed

\* The candles, asked for when they are not in the cache.
Ask ==
  /\ pc \in {"score", "build"} /\ ~IsCached(Asked) /\ fetch["trader"] = Never
  /\ BeginFetch("trader", Asked)
  /\ UNCHANGED <<cursor, tick, memory, cache, holding, broken, mishaps>>

Ready(c) ==
  \/ (fetch["trader"] = Never /\ IsCached(c) /\ UNCHANGED candles)
  \/ (fetch["trader"] # Never /\ fetch["trader"].data # Never /\ EndFetch("trader"))

\* No candles: a fetch that fails leaves the cache as it is.
FetchFails ==
  /\ fetch["trader"] # Never /\ Mishap
  /\ fetch' = [fetch EXCEPT !["trader"] = Never]
  /\ UNCHANGED cache

IsThrottled(c) == decided[c] # Never /\ decided[c] < Interval

\* Variant: the context provider is not told which coin is decided about.
KeepPointed == pointed

PointTo == coin

\* The scanner scores the coin, whatever became of the candles, and vetoes nothing; then
\* the interval.
Score ==
  /\ pc = "score"
  /\ (Ready(coin) /\ UNCHANGED mishaps) \/ FetchFails
  /\ pointed' = IF IsThrottled(coin) THEN pointed ELSE PointTo
  /\ pc' = IF IsThrottled(coin) THEN "idle" ELSE "build"
  /\ flat' = (IsThrottled(coin) \/ flat)
  /\ UNCHANGED <<cursor, coin, bundle, waited, memory, holding, broken>>

Build ==
  /\ pc = "build"
  /\ \/ (Ready(pointed) /\ bundle' = pointed /\ UNCHANGED mishaps)
     \/ (FetchFails /\ bundle' = Never)
  /\ pc' = "gate"
  /\ UNCHANGED <<cursor, coin, flat, pointed, waited, memory, holding, broken>>

IsCooling(c) == entered[c] # Never /\ entered[c] < Cooldown

\* Variant: an open position does not keep the model from being asked.
MayStack(c) == bundle # Never /\ ~IsCooling(c)

\* Evidence, no position in this coin, and the cooldown of its last entry.
MayDecide(c) ==
  /\ bundle # Never
  /\ flat /\ (c \in PerpCoin => position[c] = 0)
  /\ ~IsCooling(c)

\* The finally clause: the interval starts however the decision has ended.
Completed(signalled) == [decided EXCEPT ![coin] = 0]

Finish(signalled) ==
  /\ decided' = Completed(signalled)
  /\ called' = IF pc = "llm" THEN [called EXCEPT ![coin] = 0] ELSE called
  /\ pc' = "idle" /\ bundle' = Never /\ waited' = 0 /\ flat' = TRUE

\* One of the gates is closed: NO_TRADE without asking the model.
Refuse ==
  /\ pc = "gate" /\ ~MayDecide(coin)
  /\ Finish(FALSE)
  /\ UNCHANGED <<cursor, coin, pointed, entered, candles, holding, broken, mishaps>>

AskModel ==
  /\ pc = "gate" /\ MayDecide(coin)
  /\ pc' = "llm"
  /\ UNCHANGED <<cursor, coin, flat, pointed, bundle, waited, memory, candles, holding,
                 broken, mishaps>>

\* _ACTION_ALIASES: what is not one of these becomes WAIT.
Alias(action) ==
  CASE action \in {"LONG", "OPEN_LONG", "BUY"}    -> "LONG"
    [] action \in {"SHORT", "OPEN_SHORT", "SELL"} -> "SHORT"
    [] action = "NO_TRADE" -> "NO_TRADE"
    [] OTHER               -> "WAIT"

\* An answer; without one the decision is NO_TRADE.  An entry is stamped with the time
\* at which the cooldown was looked at.  The order may be refused, and one that sells a
\* spot coin is.  A perpetual moves in the tick itself; a spot order is booked later.
Decide(action, accepted) ==
  LET enters == Alias(action) \in {"LONG", "SHORT"}
      fills  == accepted /\ enters /\ (Alias(action) = "SHORT" => coin \in PerpCoin)
  IN
  /\ pc = "llm"
  /\ entered' = IF enters THEN [entered EXCEPT ![coin] = waited] ELSE entered
  /\ IF ~fills THEN UNCHANGED holding
     ELSE IF coin \in PerpCoin
          THEN position' = [position EXCEPT ![coin] = @ + 1] /\ UNCHANGED pending
          ELSE pending' = [pending EXCEPT ![coin] = 0] /\ UNCHANGED position
  /\ Finish(enters)
  /\ UNCHANGED <<cursor, coin, pointed, candles, broken, mishaps>>

\* The model's answer is no decision (parse_decision raises), or the position check does.
DecisionFails ==
  /\ pc \in {"gate", "llm"} /\ Mishap
  /\ Finish(FALSE)
  /\ UNCHANGED <<cursor, coin, pointed, entered, candles, holding, broken>>

-----------------------------------------------------------------------------
TickStep ==
  \/ Turn \/ Ask \/ Score \/ Build \/ Refuse \/ AskModel
  \/ \E action \in {"BUY", "OPEN_SHORT", "NO_TRADE", "EXIT"}, accepted \in BOOLEAN :
       Decide(action, accepted)

ChiefNext ==
  \/ TickStep \/ DecisionFails
  \/ \E w \in Who : Answer(w)
  \/ PageShows \/ Clock \/ ChiefRestarts
  \/ \E c \in Coin : Settle(c) \/ Close(c) \/ PageAsks(c)

\* The loop of the engine runs, the exchange answers, orders are booked, positions are
\* closed some time, and time passes.
ChiefFairness ==
  /\ WF_chiefVars(TickStep) /\ WF_chiefVars(PageShows) /\ SF_chiefVars(Clock)
  /\ \A w \in Who : WF_chiefVars(Answer(w))
  /\ \A c \in Coin : WF_chiefVars(Settle(c)) /\ SF_chiefVars(Close(c))

-----------------------------------------------------------------------------
ChiefTypeOK ==
  /\ cursor \in 1..Len(symbols) /\ coin \in Coin /\ pointed \in Coin
  /\ pc \in {"idle", "score", "build", "gate", "llm"}
  /\ decided \in [Coin -> 0..Interval \cup {Never}]
  /\ entered \in [Coin -> 0..Cooldown \cup {Never}]
  /\ pending \in [Coin -> 0..SettleTime \cup {Never}]

\* The evidence that the model is shown is that of the coin it decides about, though the
\* provider of the evidence is told its coin beforehand and keeps it across waits.
EvidenceIsOfTheCoin == pc = "llm" => bundle = coin

\* However an earlier decision ended, the model is asked about a coin at most once per
\* interval; only a restart forgets.
CallsAreSpaced ==
  [][pc = "gate" /\ pc' = "llm" => called[coin] \in {Never, Interval}]_chiefVars

\* One entry at a time: while a position in a coin is open, or on its way to the books,
\* the coin is not entered again, through restarts and slow answers of the model.
NoPyramiding ==
  \A c \in Coin : position[c] + (IF pending[c] = Never THEN 0 ELSE 1) <= 1

\* Candles out of the cache are never older than its time to live.
CandlesAreFresh == \A c \in Coin : IsCached(c) => cache[c].data <= CacheTtl

\* What the model is shown belongs to the coin it is asked about, and is recent.
InputsAreOfTheCoin == EvidenceIsOfTheCoin /\ CandlesAreFresh

\* A coin whose book fails does not keep the others waiting.
EveryCoinIsConsidered == \A c \in Coin : c \notin broken => []<>(pc = "llm" /\ coin = c)

\* Every coin gets its turns, and none more than its share of calls.
TurnsAreFair == CallsAreSpaced /\ EveryCoinIsConsidered
=============================================================================
