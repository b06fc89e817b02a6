----------------------------- MODULE MarketFeed -----------------------------
(***************************************************************************)
(* The public market feeds and the one MarketState object behind each of   *)
(* them.  The tick, the read endpoints and the submission of an order all  *)
(* call refresh() on the same feed, so several refreshes are under way at  *)
(* once, each suspended at its requests; any failure invalidates the state *)
(* under the others.  The age of the data is judged by can_add_risk from   *)
(* the time stamps that the refreshes leave.                               *)
(*                                                                         *)
(* A price is represented by the moment at which the exchange had it.      *)
(***************************************************************************)
EXTENDS Integers, Sequences

CONSTANTS
  Caller,         \* tasks that call refresh(): the tick, an endpoint, an order
  Submitter,      \* the caller that refreshes in order to submit an order
  MaxTime,        \* bound of the clock
  MaxAge,         \* orderbook_max_age and mark_max_age of can_add_risk
  MaxOutages      \* bound: requests that fail

ASSUME FeedAssumption ==
  /\ Submitter \in Caller
  /\ MaxTime \in Nat /\ MaxAge \in Nat /\ MaxOutages \in Nat

VARIABLES
  feed,      \* "OKX" or "BINANCE"
  now,       \* the clock
  market,    \* the MarketState
  call,      \* caller -> its refresh
  fill,      \* price of the last paper fill
  outages

feedVars == <<feed, now, market, call, fill, outages>>

Never     == -1      \* a time stamp of None, a price of 0
Synthetic == -2      \* the seeded book of the simulator, mid = 100

\* The sources in the order of their requests; what a stage fetched is applied
\* in one step.  OKX: ticker and book, then mark, index, funding, open interest.
Stages(f) ==
  IF f = "OKX" THEN <<{"ticker", "orderbook"},
                      {"mark_price", "index_price", "funding", "open_interest"}>>
  ELSE <<{"orderbook"}, {"mark_price"}, {"open_interest"}, {"trades"}>>

AllSources == {"ticker", "orderbook", "mark_price", "index_price", "funding",
               "open_interest", "trades"}

\* The sources whose price and stamp somebody reads.
Priced == {"orderbook", "mark_price"}

IdleCall == [stage |-> 0, start |-> Never, observed |-> Never]

NewMarket ==
  [observed |-> [s \in Priced |-> Never],
   status   |-> [s \in AllSources |-> "ABSENT"],
   updated  |-> [s \in Priced |-> Never],
   health   |-> "UNAVAILABLE", generation |-> FALSE, allowed |-> FALSE]

FeedInit ==
  /\ feed \in {"OKX", "BINANCE"}
  /\ now = 0
  /\ market = NewMarket
  /\ call = [c \in Caller |-> IdleCall]
  /\ fill = Never
  /\ outages = 0

-----------------------------------------------------------------------------
(* MarketState.  The generation only matters as "at least one".            *)

OverallHealth(status) ==
  LET present == {status[s] : s \in AllSources} \ {"ABSENT"}
  IN CASE present = {} -> "UNAVAILABLE"
       [] present = {"HEALTHY"} -> "HEALTHY"
       [] OTHER -> "DEGRADED"

Invalidate(m) ==
  [m EXCEPT !.generation = TRUE, !.health = "UNAVAILABLE", !.allowed = FALSE,
            !.status = [s \in AllSources |-> IF @[s] = "ABSENT" THEN "ABSENT" ELSE "UNAVAILABLE"],
            !.updated = [s \in Priced |-> Never]]

MarkFrom(m, group, status, stamp) ==
  [m EXCEPT !.status = [s \in AllSources |-> IF s \in group THEN status ELSE @[s]],
            !.updated = [s \in Priced |-> IF s \in group THEN stamp ELSE @[s]]]

Store(m, group, observed) ==
  [m EXCEPT !.observed = [s \in Priced |-> IF s \in group THEN observed ELSE @[s]]]

\* _healthy(): the stamp is the moment the refresh began.
Healthy(m, group, c) == MarkFrom(Store(m, group, call[c].observed), group, "HEALTHY", call[c].start)

\* What the last stage adds: only OKX decides whether new risk is allowed.
Finished(m) ==
  LET h == OverallHealth(m.status) IN
  IF feed = "OKX" THEN [m EXCEPT !.health = h, !.allowed = (h = "HEALTHY")]
  ELSE [m EXCEPT !.health = h]

-----------------------------------------------------------------------------
(* refresh().                                                              *)

Refreshing(c) == call[c].stage > 0
Group(c) == Stages(feed)[call[c].stage]
LastStage(c) == call[c].stage = Len(Stages(feed))

Refresh(c) ==
  /\ ~Refreshing(c)
  /\ call' = [call EXCEPT ![c] = [stage |-> 1, start |-> now, observed |-> Never]]
  /\ UNCHANGED <<feed, now, market, fill, outages>>

\* The exchange answers the requests of the stage.
Observe(c) ==
  /\ Refreshing(c) /\ call[c].observed = Never
  /\ call' = [call EXCEPT ![c].observed = now]
  /\ UNCHANGED <<feed, now, market, fill, outages>>

Leave(c) ==
  IF LastStage(c) THEN call' = [call EXCEPT ![c] = IdleCall]
  ELSE call' = [call EXCEPT ![c].stage = @ + 1, ![c].observed = Never]

Stored(c) ==
  LET m == Healthy(market, Group(c), c) IN IF LastStage(c) THEN Finished(m) ELSE m

\* PaperRealMarketAdapter.submit_order: the simulator matches the order at the
\* refreshed price, and raises when there is none.
Submits(c) == c = Submitter /\ feed = "OKX" /\ LastStage(c)

Filled(c) == IF Submits(c) THEN market'.observed["orderbook"] ELSE fill

StoreStage(c) ==
  /\ Refreshing(c) /\ call[c].observed # Never
  /\ market' = Stored(c)
  /\ fill' = Filled(c)
  /\ Leave(c)
  /\ UNCHANGED <<feed, now, outages>>

\* An order whose refresh failed is refused; there is no price to fall back on.
RefusedFill(c) == fill

\* OKX: any exception invalidates the whole state and is raised.
RefreshFails(c) ==
  /\ Refreshing(c) /\ feed = "OKX" /\ outages < MaxOutages
  /\ market' = Invalidate(market)
  /\ fill' = RefusedFill(c)
  /\ call' = [call EXCEPT ![c] = IdleCall]
  /\ outages' = outages + 1
  /\ UNCHANGED <<feed, now>>

\* Binance: a source that is unavailable is marked, its values stay, and the
\* refresh goes on with the next one.
SourceFails(c) ==
  /\ Refreshing(c) /\ feed = "BINANCE" /\ outages < MaxOutages
  /\ LET m == MarkFrom(market, Group(c), "UNAVAILABLE", call[c].start)
     IN market' = IF LastStage(c) THEN Finished(m) ELSE m
  /\ Leave(c)
  /\ outages' = outages + 1
  /\ UNCHANGED <<feed, now, fill>>

\* A Binance answer of the wrong shape is an exception nothing catches.
RefreshRaises(c) ==
  /\ Refreshing(c) /\ feed = "BINANCE" /\ outages < MaxOutages
  /\ call' = [call EXCEPT ![c] = IdleCall]
  /\ outages' = outages + 1
  /\ UNCHANGED <<feed, now, market, fill>>

Pass ==
  /\ now < MaxTime
  /\ now' = now + 1
  /\ UNCHANGED <<feed, market, call, fill, outages>>

CallerStep(c) == Refresh(c) \/ Observe(c) \/ StoreStage(c)

FeedNext ==
  \/ \E c \in Caller : \/ CallerStep(c)
                       \/ RefreshFails(c) \/ SourceFails(c) \/ RefreshRaises(c)
  \/ Pass

-----------------------------------------------------------------------------
(* new_risk_gate.                                                          *)

Stale(s) == market.updated[s] = Never \/ now - market.updated[s] > MaxAge

\* Variant: the generation is not looked at.
AnyGeneration == TRUE

HasGeneration == market.generation

can_add_risk ==
  /\ HasGeneration
  /\ market.health \notin {"UNAVAILABLE", "STALE"}
  /\ market.observed["orderbook"] # Never
  /\ ~Stale("orderbook")
  /\ market.status["mark_price"] # "ABSENT" => ~Stale("mark_price")
  /\ market.observed["mark_price"] # Never

\* A side is +1 or -1 and a position has a sign.
Reduces(side, position) == side * position < 0

new_risk_blocked(side, position) == ~Reduces(side, position) /\ ~can_add_risk

-----------------------------------------------------------------------------
FeedTypeOK ==
  /\ feed \in {"OKX", "BINANCE"} /\ now \in 0..MaxTime /\ outages \in 0..MaxOutages
  /\ market \in [observed : [Priced -> Never..MaxTime],
                 status : [AllSources -> {"ABSENT", "HEALTHY", "UNAVAILABLE"}],
                 updated : [Priced -> Never..MaxTime],
                 health : {"UNAVAILABLE", "HEALTHY", "DEGRADED"},
                 generation : BOOLEAN, allowed : BOOLEAN]
  /\ call \in [Caller -> [stage : 0..4, start : Never..MaxTime, observed : Never..MaxTime]]
  /\ fill \in {Synthetic} \cup (Never..MaxTime)

\* While the state claims to be HEALTHY, or allows new risk, every source of the
\* feed is there and none has been invalidated under a refresh that went on.
HealthyIsWhole ==
  (market.allowed \/ market.health = "HEALTHY") =>
     \A i \in DOMAIN Stages(feed) : \A s \in Stages(feed)[i] :
        /\ s \in Priced => market.observed[s] # Never
        /\ feed = "OKX" => market.status[s] = "HEALTHY"

\* can_add_risk lets an order add risk only on a book and a mark that the exchange
\* had within the maximum age, however refreshes overlapped, failed half-way or
\* overwrote each other with older answers; an order that reduces is never stopped.
RiskOnFreshData ==
  \A side, position \in {-1, 0, 1} :
     side # 0 /\ ~new_risk_blocked(side, position) =>
        \/ (position + side) * (position + side) < position * position
        \/ /\ now - market.observed["orderbook"] <= MaxAge
           /\ now - market.observed["mark_price"] <= MaxAge

\* A paper order is filled at a price of the exchange or not at all, whatever
\* happens to the refresh it waits for: never at the seeded book of the simulator.
FillIsReal == fill # Synthetic /\ (fill # Never => fill >= 0 /\ fill <= now)

\* Nothing acts on data that the exchange did not give, or not lately.
FeedIsHonest == HealthyIsWhole /\ RiskOnFreshData /\ FillIsReal

\* When the outages are over the state becomes HEALTHY and stays so.
FeedRecovers == <>[](market.health = "HEALTHY")
=============================================================================
