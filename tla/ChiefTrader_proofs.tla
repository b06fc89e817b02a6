-------------------------- MODULE ChiefTrader_proofs --------------------------
(***************************************************************************)
(* The chief trader and the gateway that answers it: one entry per coin,   *)
(* evidence of the coin the model is asked about and calls of the model at *)
(* intervals, for any number of coins and any times; the gateway's copy of *)
(* the configuration settles on the tables, and an open circuit lets only  *)
(* what was under way through, for any number of providers, routes,        *)
(* callers and overlapping requests.                                       *)
(***************************************************************************)
EXTENDS ChiefTrader, LLMGateway, FiniteSetTheorems, TLAPS

Fetched == [coin : Coin, asked : Nat, data : Nat \cup {Never}]

\* Candles are never newer than the request they answer.
IsFetch(f)  == f = Never \/ (f \in Fetched /\ f.asked <= FetchTime /\ (f.data # Never => f.data <= f.asked))
IsCandle(r) == r = Never \/ (/\ r \in [asked : Nat, data : Nat]
                             /\ r.data <= r.asked /\ r.asked <= CacheTtl)

TypeInv ==
  /\ ChiefTypeOK
  /\ flat \in BOOLEAN /\ waited \in 0..Cooldown
  /\ position \in [Coin -> Nat]
  /\ DOMAIN fetch = Who /\ \A w \in Who : IsFetch(fetch[w])
  /\ DOMAIN cache = Coin /\ \A c \in Coin : IsCandle(cache[c])

\* An entry that is not booked yet is the only one, and its decision is no older.
Booking ==
  \A c \in Coin :
    /\ position[c] <= 1
    /\ pending[c] # Never =>
         /\ c \notin PerpCoin /\ position[c] = 0
         /\ decided[c] # Never /\ decided[c] <= pending[c]

Waiting == IF fetch["trader"] = Never THEN 0 ELSE fetch["trader"].asked

IsOut(c) == position[c] = 0 /\ pending[c] = Never

\* A position that was read as flat is flat, or its entry is so recent that the
\* coin is throttled, as long as the candles of the tick take to come.
Scored ==
  pc = "score" /\ flat /\ coin \notin PerpCoin =>
     IsOut(coin) \/ (decided[coin] # Never /\ decided[coin] <= SettleTime + Waiting)

\* Behind the throttle it is flat.
Gated ==
  /\ pc \in {"build", "gate", "llm"} /\ flat /\ coin \notin PerpCoin => IsOut(coin)
  /\ pc = "llm" => flat /\ position[coin] = 0

\* The provider of the evidence points to the coin, and the evidence is of it.
Aimed ==
  /\ pc = "build" => pointed = coin
  /\ pc = "gate"  => bundle \in {coin, Never}
  /\ pc = "llm"   => bundle = coin

Inv == TypeInv /\ Booking /\ Scored /\ Gated /\ Aimed

-----------------------------------------------------------------------------
LEMMA Assumed ==
  /\ Len(symbols) \in Nat \ {0}
  /\ Interval \in Nat /\ Cooldown \in Nat /\ CacheTtl \in Nat /\ SettleTime \in Nat
  /\ FetchTime \in Nat
  /\ Never \notin Nat /\ Never \notin Coin /\ Never \notin Fetched
  /\ SettleTime + FetchTime < Interval
  BY ChiefAssumption DEF Fetched

LEMMA TurnInRange ==
  ASSUME NEW n \in 1..Len(symbols)
  PROVE  symbols[n] \in Coin /\ (n % Len(symbols)) + 1 \in 1..Len(symbols)
<1> DEFINE k == Len(symbols)
<1>1. k \in Nat \ {0} /\ n \in Nat
  BY Assumed
<1>2. symbols[n] \in Coin
  BY DEF Coin
<1> HIDE DEF k
<1>3. n % k \in 0..(k - 1)
  BY <1>1
<1>4. (n % k) + 1 \in 1..k
  BY <1>1, <1>3
<1> QED BY <1>2, <1>4 DEF k

LEMMA ChiefInitial == ChiefInit => Inv
<1> SUFFICES ASSUME ChiefInit PROVE Inv
  OBVIOUS
<1>1. 1 \in 1..Len(symbols) /\ symbols[1] \in Coin
  BY Assumed DEF Coin
<1> QED
  BY <1>1, Assumed
  DEF ChiefInit, Inv, TypeInv, ChiefTypeOK, IsFetch, IsCandle, Booking, Scored, Gated, Aimed,
      Nothing, Who

-----------------------------------------------------------------------------
(* What the parts of the actions do to the types.                          *)

LEMMA OlderKeeps ==
  ASSUME NEW n \in Nat, NEW age \in 0..n \cup {Never}
  PROVE  /\ Older(age, n) \in 0..n \cup {Never}
         /\ (Older(age, n) = Never <=> age = Never)
         /\ age # Never => Older(age, n) <= age + 1
  BY Assumed DEF Older

LEMMA EndFetchKeeps ==
  ASSUME TypeInv, NEW w \in Who, fetch[w] # Never, fetch[w].data # Never, EndFetch(w)
  PROVE  /\ DOMAIN fetch' = Who /\ \A v \in Who : IsFetch(fetch'[v])
         /\ DOMAIN cache' = Coin /\ \A c \in Coin : IsCandle(cache'[c])
<1>1. fetch[w] \in Fetched /\ fetch[w].data <= fetch[w].asked
  BY DEF TypeInv, IsFetch
<1>2. fetch[w].coin \in Coin /\ fetch[w].asked \in Nat /\ fetch[w].data \in Nat
  BY <1>1 DEF Fetched
<1>3. Stamped(fetch[w]) \in [asked : Nat, data : Nat]
  BY <1>2 DEF Stamped
<1>4. /\ Stamped(fetch[w]).asked = fetch[w].asked
      /\ Stamped(fetch[w]).data = fetch[w].data
  BY DEF Stamped
<1>5. fetch[w].asked <= CacheTtl => IsCandle(Stamped(fetch[w]))
  BY <1>1, <1>3, <1>4 DEF IsCandle
<1>6. IsCandle(cache'[fetch[w].coin])
  BY <1>2, <1>4, <1>5, Assumed DEF EndFetch, TypeInv, IsCandle
<1> QED BY <1>2, <1>6 DEF EndFetch, TypeInv, IsFetch

LEMMA ReadyKeeps ==
  ASSUME TypeInv, NEW c, Ready(c)
  PROVE  /\ DOMAIN fetch' = Who /\ \A v \in Who : IsFetch(fetch'[v])
         /\ DOMAIN cache' = Coin /\ \A d \in Coin : IsCandle(cache'[d])
  BY EndFetchKeeps DEF Ready, candles, TypeInv, Who

LEMMA FetchFailsKeeps ==
  ASSUME TypeInv, FetchFails
  PROVE  /\ DOMAIN fetch' = Who /\ \A v \in Who : IsFetch(fetch'[v])
         /\ DOMAIN cache' = Coin /\ \A d \in Coin : IsCandle(cache'[d])
  BY DEF FetchFails, TypeInv, IsFetch

LEMMA BeginFetchKeeps ==
  ASSUME TypeInv, NEW w \in Who, NEW c \in Coin, BeginFetch(w, c)
  PROVE  /\ DOMAIN fetch' = Who /\ \A v \in Who : IsFetch(fetch'[v])
         /\ \A v \in Who \ {w} : fetch'[v] = fetch[v]
         /\ fetch'[w].asked = 0
<1> DEFINE r == [coin |-> c, asked |-> 0, data |-> Never]
<1>1. r \in Fetched /\ r.asked = 0 /\ r.data = Never
  BY DEF Fetched
<1>2. fetch' = [fetch EXCEPT ![w] = r]
  BY DEF BeginFetch
<1> HIDE DEF r
<1>3. IsFetch(r)
  BY <1>1, Assumed DEF IsFetch
<1> QED BY <1>1, <1>2, <1>3 DEF TypeInv

LEMMA ClockKeeps ==
  ASSUME TypeInv, Clock
  PROVE  /\ DOMAIN fetch' = Who /\ \A v \in Who : IsFetch(fetch'[v])
         /\ DOMAIN cache' = Coin /\ \A d \in Coin : IsCandle(cache'[d])
         /\ fetch["trader"] # Never =>
              fetch'["trader"] # Never /\ fetch'["trader"].asked = fetch["trader"].asked + 1
<1> USE Assumed
<1>1. ASSUME NEW v \in Who, fetch[v] # Never
      PROVE  /\ IsFetch(fetch'[v]) /\ fetch'[v] # Never
             /\ fetch'[v].asked = fetch[v].asked + 1
  <2> DEFINE f == fetch[v]
             d == Older(f.data, CacheTtl + 1)
             g == OlderFetch(f)
  <2>1. f \in Fetched /\ f.asked < FetchTime /\ (f.data # Never => f.data <= f.asked)
    BY <1>1 DEF TypeInv, IsFetch, Clock
  <2>2. f.coin \in Coin /\ f.asked \in Nat /\ f.data \in Nat \cup {Never}
    BY <2>1 DEF Fetched
  <2>3. fetch'[v] = g
    BY <1>1 DEF Clock
  <2>4. g = [coin |-> f.coin, asked |-> f.asked + 1, data |-> d]
    BY DEF OlderFetch
  <2> HIDE DEF f, g
  <2>5. /\ d \in Nat \cup {Never}
        /\ f.data = Never => d = Never
        /\ f.data # Never => d \in Nat /\ d <= f.data + 1
    BY <2>2 DEF Older
  <2> HIDE DEF d
  <2>6. g \in Fetched /\ g.asked = f.asked + 1 /\ g.data = d
    BY <2>2, <2>4, <2>5 DEF Fetched
  <2>7. IsFetch(g)
    BY <2>1, <2>2, <2>5, <2>6 DEF IsFetch
  <2> QED BY <2>3, <2>6, <2>7 DEF f
<1>2. ASSUME NEW c \in Coin, cache[c] # Never
      PROVE  IsCandle(OlderCandles(cache[c]))
  <2> DEFINE r == cache[c]
             d == Older(r.data, CacheTtl + 1)
             g == [asked |-> r.asked + 1, data |-> d]
  <2>1. r \in [asked : Nat, data : Nat] /\ r.data <= r.asked
    BY <1>2 DEF TypeInv, IsCandle
  <2>2. r.asked \in Nat /\ r.data \in Nat
    BY <2>1
  <2>3. OlderCandles(r) = IF r.asked >= CacheTtl THEN Never ELSE g
    BY DEF OlderCandles
  <2> HIDE DEF r
  <2>4. d \in Nat /\ d <= r.data + 1
    BY <2>2 DEF Older
  <2> HIDE DEF d
  <2>5. g \in [asked : Nat, data : Nat] /\ g.asked = r.asked + 1 /\ g.data = d
    BY <2>2, <2>4
  <2> HIDE DEF g
  <2>6. IsCandle(OlderCandles(r))
    BY <2>1, <2>2, <2>3, <2>4, <2>5 DEF IsCandle
  <2> QED BY <2>6 DEF r
<1>3. \A c \in Coin : IsCandle(cache'[c])
  BY <1>2 DEF Clock, IsCandle
<1>4. \A v \in Who : IsFetch(fetch'[v])
  BY <1>1 DEF Clock, IsFetch
<1>5. DOMAIN fetch' = Who /\ DOMAIN cache' = Coin
  BY DEF Clock
<1> QED BY <1>1, <1>3, <1>4, <1>5 DEF Who
-----------------------------------------------------------------------------
(* Every step keeps the invariant.                                         *)

LEMMA CandleSteps ==
  ASSUME Inv,
         \/ Ask \/ PageShows
         \/ \E w \in Who : Answer(w)
         \/ \E c \in Coin : PageAsks(c)
  PROVE  Inv'
<1> USE Assumed DEF Inv
<1>1. CASE Ask
  <2>1. Asked \in Coin /\ BeginFetch("trader", Asked)
    BY <1>1 DEF Ask, Asked, TypeInv, ChiefTypeOK
  <2>2. DOMAIN fetch' = Who /\ (\A v \in Who : IsFetch(fetch'[v])) /\ fetch'["trader"].asked = 0
    BY <2>1, BeginFetchKeeps DEF Who
  <2>3. UNCHANGED <<cursor, tick, memory, cache, holding, broken, mishaps>> /\ fetch["trader"] = Never
    BY <1>1 DEF Ask
  <2>4. TypeInv'
    BY <2>2, <2>3 DEF TypeInv, ChiefTypeOK, IsCandle, tick, memory, holding
  <2>5. Waiting' = 0 /\ Waiting = 0
    BY <2>2, <2>3 DEF Waiting
  <2>6. Booking' /\ Gated' /\ Aimed'
    BY <2>3 DEF Booking, Gated, Aimed, IsOut, tick, memory, holding
  <2>7. Scored'
    BY <2>3, <2>5 DEF Scored, IsOut, tick, memory, holding
  <2> QED BY <2>4, <2>6, <2>7
<1>2. CASE PageShows
  <2>1. EndFetch("api") /\ fetch["api"] # Never /\ fetch["api"].data # Never
    BY <1>2 DEF PageShows
  <2>2. /\ DOMAIN fetch' = Who /\ \A v \in Who : IsFetch(fetch'[v])
        /\ DOMAIN cache' = Coin /\ \A c \in Coin : IsCandle(cache'[c])
    BY <2>1, EndFetchKeeps DEF Who
  <2>3. UNCHANGED <<cursor, tick, memory, holding, broken, mishaps>>
    BY <1>2 DEF PageShows
  <2>4. TypeInv'
    BY <2>2, <2>3 DEF TypeInv, ChiefTypeOK, tick, memory, holding
  <2>5. fetch'["trader"] = fetch["trader"]
    BY <2>1 DEF EndFetch, TypeInv, Who
  <2>6. Booking' /\ Gated' /\ Aimed'
    BY <2>3 DEF Booking, Gated, Aimed, IsOut, tick, memory, holding
  <2>7. Scored'
    BY <2>3, <2>5 DEF Scored, Waiting, IsOut, tick, memory, holding
  <2> QED BY <2>4, <2>6, <2>7
<1>3. ASSUME NEW w \in Who, Answer(w) PROVE Inv'
  <2> DEFINE f == fetch[w]
             g == [coin |-> f.coin, asked |-> f.asked, data |-> 0]
  <2>1. f # Never /\ fetch' = [fetch EXCEPT ![w] = g]
    BY <1>3 DEF Answer
  <2>2. UNCHANGED <<cursor, tick, memory, cache, holding, broken, mishaps>>
    BY <1>3 DEF Answer
  <2>3. f \in Fetched /\ f.asked <= FetchTime /\ f.asked \in Nat /\ f.coin \in Coin
    BY <2>1 DEF TypeInv, IsFetch, Fetched
  <2> HIDE DEF f
  <2>4. g \in Fetched /\ g.asked = f.asked /\ g.data = 0
    BY <2>3 DEF Fetched
  <2> HIDE DEF g
  <2>5. IsFetch(g) /\ g # Never
    BY <2>3, <2>4 DEF IsFetch
  <2>6. TypeInv'
    BY <2>1, <2>2, <2>5 DEF TypeInv, ChiefTypeOK, IsCandle, tick, memory, holding
  <2>7. Waiting' = Waiting
    BY <2>1, <2>4, <2>5 DEF Waiting, f, TypeInv
  <2>8. Booking' /\ Gated' /\ Aimed'
    BY <2>2 DEF Booking, Gated, Aimed, IsOut, tick, memory, holding
  <2>9. Scored'
    BY <2>2, <2>7 DEF Scored, IsOut, tick, memory, holding
  <2> QED BY <2>6, <2>8, <2>9
<1>4. ASSUME NEW c \in Coin, PageAsks(c) PROVE Inv'
  <2>1. BeginFetch("api", c)
    BY <1>4 DEF PageAsks
  <2>2. /\ DOMAIN fetch' = Who /\ \A v \in Who : IsFetch(fetch'[v])
        /\ fetch'["trader"] = fetch["trader"]
    BY <2>1, BeginFetchKeeps DEF Who
  <2>3. UNCHANGED <<cursor, tick, memory, cache, holding, broken, mishaps>>
    BY <1>4 DEF PageAsks
  <2>4. TypeInv'
    BY <2>2, <2>3 DEF TypeInv, ChiefTypeOK, IsCandle, tick, memory, holding
  <2>5. Booking' /\ Gated' /\ Aimed'
    BY <2>3 DEF Booking, Gated, Aimed, IsOut, tick, memory, holding
  <2>6. Scored'
    BY <2>2, <2>3 DEF Scored, Waiting, IsOut, tick, memory, holding
  <2> QED BY <2>4, <2>5, <2>6
<1> QED BY <1>1, <1>2, <1>3, <1>4

LEMMA TurnStep ==
  ASSUME Inv, Turn
  PROVE  Inv'
<1> USE Assumed DEF Inv
<1> DEFINE c == symbols[cursor]
<1>1. c \in Coin /\ NextCursor(c) \in 1..Len(symbols)
  BY TurnInRange DEF TypeInv, ChiefTypeOK, NextCursor
<1>2. /\ cursor' = NextCursor(c) /\ coin' = c
      /\ pc' = IF c \in broken THEN "idle" ELSE "score"
      /\ flat' = (c \in broken \cup PerpCoin \/ position[c] = 0)
      /\ UNCHANGED <<pointed, bundle, waited, memory, candles, holding, broken, mishaps>>
  BY DEF Turn
<1> HIDE DEF c
<1>3. TypeInv'
  BY <1>1, <1>2 DEF TypeInv, ChiefTypeOK, IsFetch, IsCandle, memory, candles, holding
<1>4. Booking' /\ Gated' /\ Aimed'
  BY <1>2 DEF Booking, Gated, Aimed, memory, holding
<1>5. Waiting' = Waiting /\ Waiting \in Nat
  BY <1>2 DEF Waiting, candles, TypeInv, IsFetch, Fetched, Who
<1>6. pending[c] # Never => decided[c] # Never /\ decided[c] <= SettleTime + Waiting
  BY <1>1, <1>5 DEF Booking, TypeInv, ChiefTypeOK
<1>7. Scored'
  BY <1>1, <1>2, <1>5, <1>6 DEF Scored, IsOut, memory, holding
<1> QED BY <1>3, <1>4, <1>7

LEMMA ScoreStep ==
  ASSUME Inv, Score
  PROVE  Inv'
<1> USE Assumed DEF Inv
<1>1. /\ DOMAIN fetch' = Who /\ \A v \in Who : IsFetch(fetch'[v])
      /\ DOMAIN cache' = Coin /\ \A d \in Coin : IsCandle(cache'[d])
  BY ReadyKeeps, FetchFailsKeeps DEF Score
<1>2. /\ pc = "score"
      /\ pointed' = IF IsThrottled(coin) THEN pointed ELSE coin
      /\ pc' = IF IsThrottled(coin) THEN "idle" ELSE "build"
      /\ flat' = (IsThrottled(coin) \/ flat)
      /\ UNCHANGED <<cursor, coin, bundle, waited, memory, holding, broken>>
  BY DEF Score, PointTo
<1>3. coin \in Coin /\ flat \in BOOLEAN
  BY DEF TypeInv, ChiefTypeOK
<1>4. flat' \in BOOLEAN /\ (pc' = "build" => (flat' <=> flat))
  BY <1>2, <1>3
<1>5. TypeInv'
  BY <1>1, <1>2, <1>4 DEF TypeInv, ChiefTypeOK, memory, holding
<1>6. Booking' /\ Scored' /\ Aimed'
  BY <1>2 DEF Booking, Scored, Aimed, memory, holding
<1>7. Waiting \in 0..FetchTime
  BY DEF Waiting, TypeInv, IsFetch, Fetched, Who
<1>8. ~IsThrottled(coin) =>
        ~(decided[coin] # Never /\ decided[coin] <= SettleTime + Waiting)
  BY <1>3, <1>7 DEF IsThrottled, TypeInv, ChiefTypeOK
<1>9. Gated'
  BY <1>2, <1>4, <1>8 DEF Gated, Scored, IsOut, memory, holding
<1> QED BY <1>5, <1>6, <1>9

LEMMA BuildStep ==
  ASSUME Inv, Build
  PROVE  Inv'
<1> USE Assumed DEF Inv
<1>1. /\ DOMAIN fetch' = Who /\ \A v \in Who : IsFetch(fetch'[v])
      /\ DOMAIN cache' = Coin /\ \A d \in Coin : IsCandle(cache'[d])
  BY ReadyKeeps, FetchFailsKeeps DEF Build
<1>2. /\ pc = "build" /\ pc' = "gate" /\ bundle' \in {pointed, Never}
      /\ UNCHANGED <<cursor, coin, flat, pointed, waited, memory, holding, broken>>
  BY DEF Build
<1>3. TypeInv'
  BY <1>1, <1>2 DEF TypeInv, ChiefTypeOK, memory, holding
<1>4. Booking' /\ Scored' /\ Gated' /\ Aimed'
  BY <1>2 DEF Booking, Scored, Gated, Aimed, IsOut, memory, holding
<1> QED BY <1>3, <1>4

LEMMA FinishKeeps ==
  ASSUME TypeInv, NEW signalled, Finish(signalled)
  PROVE  /\ decided' = [decided EXCEPT ![coin] = 0]
         /\ decided' \in [Coin -> 0..Interval \cup {Never}]
         /\ pc' = "idle" /\ flat' = TRUE /\ bundle' = Never /\ waited' = 0
  BY Assumed DEF Finish, Completed, TypeInv, ChiefTypeOK

LEMMA RefusalStep ==
  ASSUME Inv, Refuse \/ DecisionFails
  PROVE  Inv'
<1> USE Assumed DEF Inv
<1>1. /\ Finish(FALSE)
      /\ UNCHANGED <<cursor, coin, pointed, entered, candles, holding, broken>>
  BY DEF Refuse, DecisionFails
<1>2. /\ decided' = [decided EXCEPT ![coin] = 0]
      /\ decided' \in [Coin -> 0..Interval \cup {Never}]
      /\ pc' = "idle" /\ flat' = TRUE /\ waited' = 0
  BY <1>1, FinishKeeps
<1>3. TypeInv'
  BY <1>1, <1>2 DEF TypeInv, ChiefTypeOK, IsFetch, IsCandle, candles, holding
<1>4. Scored' /\ Gated' /\ Aimed'
  BY <1>2 DEF Scored, Gated, Aimed
<1>5. Booking'
  BY <1>1, <1>2 DEF Booking, TypeInv, ChiefTypeOK, holding
<1> QED BY <1>3, <1>4, <1>5

LEMMA AskModelStep ==
  ASSUME Inv, AskModel
  PROVE  Inv'
<1> USE Assumed DEF Inv
<1>1. /\ pc = "gate" /\ pc' = "llm" /\ MayDecide(coin)
      /\ UNCHANGED <<cursor, coin, flat, pointed, bundle, waited, memory, candles, holding,
                     broken, mishaps>>
  BY DEF AskModel
<1>2. TypeInv'
  BY <1>1 DEF TypeInv, ChiefTypeOK, IsFetch, IsCandle, memory, candles, holding
<1>3. Booking' /\ Scored' /\ Aimed'
  BY <1>1 DEF Booking, Scored, Aimed, MayDecide, memory, holding
<1>4. flat /\ position[coin] = 0
  BY <1>1 DEF MayDecide, Gated, IsOut
<1>5. Gated'
  BY <1>1, <1>4 DEF Gated, IsOut, holding
<1> QED BY <1>2, <1>3, <1>5

LEMMA DecideStep ==
  ASSUME Inv, NEW action, NEW accepted \in BOOLEAN, Decide(action, accepted)
  PROVE  Inv'
<1> USE Assumed DEF Inv
<1> DEFINE enters == Alias(action) \in {"LONG", "SHORT"}
           fills  == accepted /\ enters /\ (Alias(action) = "SHORT" => coin \in PerpCoin)
<1>1. /\ pc = "llm"
      /\ entered' = IF enters THEN [entered EXCEPT ![coin] = waited] ELSE entered
      /\ IF ~fills THEN UNCHANGED holding
         ELSE IF coin \in PerpCoin
              THEN position' = [position EXCEPT ![coin] = @ + 1] /\ UNCHANGED pending
              ELSE pending' = [pending EXCEPT ![coin] = 0] /\ UNCHANGED position
      /\ Finish(enters)
      /\ UNCHANGED <<cursor, coin, pointed, candles, broken, mishaps>>
  BY DEF Decide
<1> HIDE DEF enters, fills
<1>2. /\ decided' = [decided EXCEPT ![coin] = 0]
      /\ decided' \in [Coin -> 0..Interval \cup {Never}]
      /\ pc' = "idle" /\ flat' = TRUE /\ waited' = 0
  BY <1>1, FinishKeeps
<1>3. coin \in Coin /\ position[coin] = 0 /\ pending[coin] = Never
  BY <1>1 DEF Gated, Booking, IsOut, TypeInv, ChiefTypeOK
<1>4. /\ position' \in [Coin -> Nat] /\ pending' \in [Coin -> 0..SettleTime \cup {Never}]
  <2>1. position \in [Coin -> Nat] /\ pending \in [Coin -> 0..SettleTime \cup {Never}]
    BY DEF TypeInv, ChiefTypeOK
  <2>2. [position EXCEPT ![coin] = @ + 1] \in [Coin -> Nat]
    BY <1>3, <2>1
  <2>3. [pending EXCEPT ![coin] = 0] \in [Coin -> 0..SettleTime \cup {Never}]
    <3>1. 0 \in 0..SettleTime
      OBVIOUS
    <3> QED BY <2>1, <3>1
  <2>4. \/ UNCHANGED <<position, pending>>
        \/ position' = [position EXCEPT ![coin] = @ + 1] /\ UNCHANGED pending
        \/ pending' = [pending EXCEPT ![coin] = 0] /\ UNCHANGED position
    BY <1>1 DEF holding
  <2> QED BY <2>1, <2>2, <2>3, <2>4
<1>5. entered' \in [Coin -> 0..Cooldown \cup {Never}]
  BY <1>1 DEF TypeInv, ChiefTypeOK
<1>6. TypeInv'
  <2>1. UNCHANGED <<cursor, coin, pointed, fetch, cache>>
    BY <1>1 DEF candles
  <2>2. ChiefTypeOK'
    BY <2>1, <1>2, <1>4, <1>5 DEF TypeInv, ChiefTypeOK
  <2>3. waited' \in 0..Cooldown
    BY <1>2
  <2>4. /\ DOMAIN fetch' = Who /\ \A w \in Who : IsFetch(fetch'[w])
        /\ DOMAIN cache' = Coin /\ \A c \in Coin : IsCandle(cache'[c])
    BY <2>1 DEF TypeInv
  <2> QED BY <2>2, <2>3, <2>4, <1>2, <1>4 DEF TypeInv, IsFetch, IsCandle
<1>7. Scored' /\ Gated' /\ Aimed'
  BY <1>2 DEF Scored, Gated, Aimed
<1>8. Booking'
  BY <1>1, <1>2, <1>3 DEF Booking, TypeInv, ChiefTypeOK, holding
<1> QED BY <1>6, <1>7, <1>8

LEMMA ClockStep ==
  ASSUME Inv, Clock
  PROVE  Inv'
<1> USE Assumed DEF Inv
<1>1. /\ DOMAIN fetch' = Who /\ \A v \in Who : IsFetch(fetch'[v])
      /\ DOMAIN cache' = Coin /\ \A d \in Coin : IsCandle(cache'[d])
      /\ fetch["trader"] # Never =>
           fetch'["trader"] # Never /\ fetch'["trader"].asked = fetch["trader"].asked + 1
  BY ClockKeeps
<1>2. /\ pc \in {"score", "build"} => fetch["trader"] # Never
      /\ UNCHANGED <<cursor, pc, coin, flat, pointed, bundle, position, broken, mishaps>>
      /\ waited' \in 0..Cooldown
  BY DEF Clock, Older, TypeInv
<1>3. ASSUME NEW c \in Coin
      PROVE  /\ decided[c] \in 0..Interval \cup {Never} /\ decided'[c] = Older(decided[c], Interval)
             /\ entered[c] \in 0..Cooldown \cup {Never} /\ entered'[c] = Older(entered[c], Cooldown)
             /\ pending[c] \in 0..SettleTime \cup {Never} /\ pending[c] # SettleTime
             /\ pending'[c] = Older(pending[c], SettleTime)
  BY DEF Clock, TypeInv, ChiefTypeOK
<1>4. ASSUME NEW c \in Coin
      PROVE  /\ decided'[c] \in 0..Interval \cup {Never}
             /\ (decided'[c] = Never <=> decided[c] = Never)
             /\ decided[c] # Never => decided'[c] <= decided[c] + 1
             /\ entered'[c] \in 0..Cooldown \cup {Never}
             /\ pending'[c] \in 0..SettleTime \cup {Never}
             /\ (pending'[c] = Never <=> pending[c] = Never)
             /\ pending[c] # Never => pending'[c] = pending[c] + 1
  BY <1>3, OlderKeeps DEF Older
<1>5. /\ decided' \in [Coin -> 0..Interval \cup {Never}]
      /\ entered' \in [Coin -> 0..Cooldown \cup {Never}]
      /\ pending' \in [Coin -> 0..SettleTime \cup {Never}]
  BY <1>4 DEF Clock
<1>6. TypeInv'
  BY <1>1, <1>2, <1>5 DEF TypeInv, ChiefTypeOK
<1>7. Booking'
  BY <1>2, <1>3, <1>4 DEF Booking
<1>8. Gated' /\ Aimed'
  BY <1>2, <1>4 DEF Gated, Aimed, IsOut, TypeInv, ChiefTypeOK
<1>9. pc = "score" => Waiting' = Waiting + 1 /\ Waiting \in Nat
  BY <1>1, <1>2 DEF Waiting, TypeInv, IsFetch, Fetched, Who
<1>10. Scored'
  BY <1>2, <1>3, <1>4, <1>9 DEF Scored, IsOut, TypeInv, ChiefTypeOK
<1> QED BY <1>6, <1>7, <1>8, <1>10

LEMMA SettleStep ==
  ASSUME Inv, NEW c \in Coin, Settle(c)
  PROVE  Inv'
<1> USE Assumed DEF Inv
<1>1. /\ pending[c] # Never
      /\ pending' = [pending EXCEPT ![c] = Never]
      /\ position' = [position EXCEPT ![c] = @ + 1]
      /\ UNCHANGED <<cursor, tick, memory, candles, broken, mishaps>>
  BY DEF Settle
<1>2. TypeInv'
  BY <1>1 DEF TypeInv, ChiefTypeOK, IsFetch, IsCandle, tick, memory, candles
<1>3. Booking'
  BY <1>1 DEF Booking, TypeInv, ChiefTypeOK, memory
<1>4. Waiting' = Waiting /\ Waiting \in Nat
  BY <1>1 DEF Waiting, candles, TypeInv, IsFetch, Fetched, Who
<1>5. c \notin PerpCoin /\ decided[c] # Never /\ decided[c] <= SettleTime + Waiting
  BY <1>1, <1>4 DEF Booking, TypeInv, ChiefTypeOK
<1>6. Scored'
  BY <1>1, <1>4, <1>5 DEF Scored, IsOut, TypeInv, ChiefTypeOK, tick, memory
<1>7. Gated' /\ Aimed'
  BY <1>1, <1>5 DEF Gated, Aimed, IsOut, TypeInv, ChiefTypeOK, tick
<1> QED BY <1>2, <1>3, <1>6, <1>7

LEMMA CloseStep ==
  ASSUME Inv, NEW c \in Coin, Close(c)
  PROVE  Inv'
<1> USE Assumed DEF Inv
<1>1. /\ pc = "idle"
      /\ position' = [position EXCEPT ![c] = 0]
      /\ UNCHANGED <<cursor, tick, memory, candles, pending, broken, mishaps>>
  BY DEF Close
<1>2. TypeInv'
  BY <1>1 DEF TypeInv, ChiefTypeOK, IsFetch, IsCandle, tick, memory, candles
<1>3. Booking' /\ Scored' /\ Gated' /\ Aimed'
  BY <1>1 DEF Booking, Scored, Gated, Aimed, TypeInv, ChiefTypeOK, tick, memory
<1> QED BY <1>2, <1>3

LEMMA RestartStep ==
  ASSUME Inv, ChiefRestarts
  PROVE  Inv'
<1> USE Assumed DEF Inv
<1>1. /\ position' = [c \in Coin |-> IF pending[c] = Never THEN position[c] ELSE position[c] + 1]
      /\ pending' = Nothing /\ decided' = Nothing /\ entered' = Nothing
      /\ cursor' = 1 /\ pc' = "idle" /\ coin' = symbols[1] /\ flat' = TRUE
      /\ pointed' = symbols[1] /\ waited' = 0
      /\ fetch' = [w \in Who |-> Never] /\ cache' = Nothing
  BY DEF ChiefRestarts
<1>2. 1 \in 1..Len(symbols) /\ symbols[1] \in Coin
  BY TurnInRange
<1>3. TypeInv'
  BY <1>1, <1>2 DEF TypeInv, ChiefTypeOK, IsFetch, IsCandle, Nothing
<1>4. Booking'
  BY <1>1 DEF Booking, Nothing, TypeInv
<1>5. Scored' /\ Gated' /\ Aimed'
  BY <1>1 DEF Scored, Gated, Aimed
<1> QED BY <1>3, <1>4, <1>5

LEMMA ChiefStep == Inv /\ [ChiefNext]_chiefVars => Inv'
<1> SUFFICES ASSUME Inv, [ChiefNext]_chiefVars PROVE Inv'
  OBVIOUS
<1>1. CASE ChiefNext
  BY <1>1, CandleSteps, TurnStep, ScoreStep, BuildStep, RefusalStep, AskModelStep, DecideStep,
     ClockStep, SettleStep, CloseStep, RestartStep
  DEF ChiefNext, TickStep
<1>2. CASE UNCHANGED chiefVars
  BY <1>2
  DEF chiefVars, tick, memory, candles, holding, Inv, TypeInv, ChiefTypeOK, IsFetch, IsCandle,
      Booking, Scored, Waiting, Gated, Aimed, IsOut
<1> QED BY <1>1, <1>2

-----------------------------------------------------------------------------
\* A coin is entered once, until its position is closed: the interval between two decisions,
\* which the code keeps in memory, outlasts the way of an entry to the books.
THEOREM OneEntryPerCoin == ChiefInit /\ [][ChiefNext]_chiefVars => []NoPyramiding
<1>1. Inv => NoPyramiding
  BY Assumed DEF Inv, Booking, NoPyramiding, TypeInv, ChiefTypeOK
<1> QED BY <1>1, ChiefInitial, ChiefStep, PTL

\* The model is shown the evidence of the coin it is asked about, and no candles out of the
\* cache that are older than its time to live.
THEOREM EvidenceOfTheCoin == ChiefInit /\ [][ChiefNext]_chiefVars => []InputsAreOfTheCoin
<1>1. Inv => InputsAreOfTheCoin
  BY Assumed
  DEF Inv, Aimed, TypeInv, IsCandle, IsCached, InputsAreOfTheCoin, EvidenceIsOfTheCoin, CandlesAreFresh
<1> QED BY <1>1, ChiefInitial, ChiefStep, PTL

-----------------------------------------------------------------------------
(* The calls of the model: called is what happened, decided is what the    *)
(* throttle looks at.                                                      *)

Spaced ==
  /\ called \in [Coin -> 0..Interval \cup {Never}]
  /\ \A c \in Coin : called[c] # Never => decided[c] # Never /\ decided[c] <= called[c]
  /\ pc \in {"build", "gate"} => called[coin] \in {Never, Interval}

LEMMA SpacedInitial == ChiefInit => Spaced
BY DEF ChiefInit, Spaced, Nothing

LEMMA SpacedFinish ==
  ASSUME Inv, Spaced, NEW signalled, Finish(signalled), UNCHANGED coin
  PROVE  Spaced'
<1>1. /\ decided' = [decided EXCEPT ![coin] = 0] /\ pc' = "idle"
      /\ called' = IF pc = "llm" THEN [called EXCEPT ![coin] = 0] ELSE called
  BY DEF Finish, Completed
<1>2. coin \in Coin /\ decided \in [Coin -> 0..Interval \cup {Never}] /\ Interval \in Nat /\ Never \notin Nat
  BY Assumed DEF Inv, TypeInv, ChiefTypeOK
<1>3. called' \in [Coin -> 0..Interval \cup {Never}]
  BY <1>1, <1>2 DEF Spaced
<1>4. ASSUME NEW c \in Coin, called'[c] # Never PROVE decided'[c] # Never /\ decided'[c] <= called'[c]
  <2>1. CASE c = coin
    <3>1. decided'[c] = 0 /\ called'[c] \in 0..Interval
      BY <1>1, <1>2, <1>3, <1>4, <2>1
    <3> QED BY <1>2, <3>1
  <2>2. CASE c # coin
    BY <1>1, <1>2, <1>4, <2>2 DEF Spaced
  <2> QED BY <2>1, <2>2
<1> QED BY <1>1, <1>3, <1>4 DEF Spaced

LEMMA SpacedClock ==
  ASSUME Inv, Spaced, Clock
  PROVE  Spaced'
<1>1. /\ decided' = [c \in Coin |-> Older(decided[c], Interval)]
      /\ called' = [c \in Coin |-> Older(called[c], Interval)]
      /\ pc' = pc /\ coin' = coin
  BY DEF Clock
<1>2. coin \in Coin /\ decided \in [Coin -> 0..Interval \cup {Never}] /\ Interval \in Nat /\ Never \notin Nat
  BY Assumed DEF Inv, TypeInv, ChiefTypeOK
<1>3. ASSUME NEW c \in Coin
      PROVE  /\ called'[c] \in 0..Interval \cup {Never}
             /\ called'[c] # Never => decided'[c] # Never /\ decided'[c] <= called'[c]
             /\ called[c] \in {Never, Interval} => called'[c] = called[c]
  <2>1. called'[c] = Older(called[c], Interval) /\ decided'[c] = Older(decided[c], Interval)
    BY <1>1
  <2>2. /\ called[c] \in 0..Interval \cup {Never} /\ decided[c] \in 0..Interval \cup {Never}
        /\ called[c] # Never => decided[c] # Never /\ decided[c] <= called[c]
    BY <1>2 DEF Spaced
  <2> QED BY <1>2, <2>1, <2>2 DEF Older
<1>4. called' \in [Coin -> 0..Interval \cup {Never}]
  BY <1>1, <1>3
<1> QED BY <1>1, <1>2, <1>3, <1>4 DEF Spaced

LEMMA SpacedStep == Inv /\ Spaced /\ [ChiefNext]_chiefVars => Spaced'
<1> SUFFICES ASSUME Inv, Spaced, [ChiefNext]_chiefVars PROVE Spaced'
  OBVIOUS
<1>1. coin \in Coin /\ decided \in [Coin -> 0..Interval \cup {Never}] /\ Interval \in Nat /\ Never \notin Nat
  BY Assumed DEF Inv, TypeInv, ChiefTypeOK
<1>2. CASE UNCHANGED <<decided, called, coin>> /\ (pc' \in {"build", "gate"} => pc \in {"build", "gate"})
  BY <1>2 DEF Spaced
<1>3. CASE Turn
  <2>1. pc' \notin {"build", "gate"} /\ UNCHANGED <<decided, called>>
    BY <1>3 DEF Turn, memory
  <2> QED BY <2>1 DEF Spaced
<1>4. CASE Score
  <2>1. /\ pc' = IF IsThrottled(coin) THEN "idle" ELSE "build"
        /\ UNCHANGED <<decided, called, coin>>
    BY <1>4 DEF Score, memory
  <2>2. ~IsThrottled(coin) => called[coin] \in {Never, Interval}
    <3>1. /\ called[coin] \in 0..Interval \cup {Never} /\ decided[coin] \in 0..Interval \cup {Never}
          /\ called[coin] # Never => decided[coin] # Never /\ decided[coin] <= called[coin]
      BY <1>1 DEF Spaced
    <3> QED BY <1>1, <3>1 DEF IsThrottled
  <2> QED BY <2>1, <2>2 DEF Spaced
<1>5. CASE Refuse \/ DecisionFails
  BY <1>5, SpacedFinish DEF Refuse, DecisionFails
<1>6. ASSUME NEW action, NEW accepted, Decide(action, accepted) PROVE Spaced'
  BY <1>6, SpacedFinish DEF Decide
<1>7. CASE ChiefRestarts
  BY <1>7 DEF ChiefRestarts, Spaced, Nothing
<1>8. CASE Clock
  BY <1>8, SpacedClock
<1>9. CASE Build \/ AskModel \/ Ask
  BY <1>2, <1>9 DEF Build, AskModel, Ask, tick, memory
<1>10. CASE PageShows \/ (\E w \in Who : Answer(w)) \/ \E c \in Coin : Settle(c) \/ Close(c) \/ PageAsks(c)
  BY <1>2, <1>10 DEF PageShows, Answer, Settle, Close, PageAsks, tick, memory
<1>11. CASE UNCHANGED chiefVars
  BY <1>2, <1>11 DEF chiefVars, tick, memory
<1> QED BY <1>3, <1>4, <1>5, <1>6, <1>7, <1>8, <1>9, <1>10, <1>11 DEF ChiefNext, TickStep

\* The model is asked about a coin once per interval, whatever an earlier decision came to and
\* however long it took: behind the throttle the last call is as old as the last decision at
\* least, and a coin that was let through stays the one that was looked at.
THEOREM ModelIsAskedSparingly == ChiefInit /\ [][ChiefNext]_chiefVars => CallsAreSpaced
<1>1. ASSUME Spaced, [ChiefNext]_chiefVars
      PROVE  [pc = "gate" /\ pc' = "llm" => called[coin] \in {Never, Interval}]_chiefVars
  BY <1>1 DEF Spaced
<1> QED BY <1>1, ChiefInitial, ChiefStep, SpacedInitial, SpacedStep, PTL DEF CallsAreSpaced

-----------------------------------------------------------------------------
(* The gateway.                                                            *)

GatewayNext == CallsNext \/ \E o \in Operator : SettingsNext(o)

IsTables(t) == t = [providers |-> t.providers, routes |-> t.routes]

Stage == {"idle", "save", "delete", "routes", "reload", "providers", "routing"}

Shape ==
  /\ DOMAIN operator = Operator
  /\ \A o \in Operator : DOMAIN operator[o] = DOMAIN Asleep /\ operator[o].stage \in Stage
  /\ IsTables(db) /\ IsTables(config)

ReadsNow(o) == operator[o].stage \in {"providers", "routing"}

\* Only the holder of the lock is between the reads of a reload.
Locked == \A o \in Operator : ReadsNow(o) => lock = o

ReloadDue == \E o \in Operator : operator[o].stage = "reload"

\* Without another reload to come the one under way has read the last commit, or will.
Followed ==
  \/ ReloadDue
  \/ /\ \A o \in Operator :
          /\ operator[o].stage = "providers" => operator[o].read = db.providers
          /\ operator[o].stage = "routing"   => operator[o].read = db.routes
     /\ config.providers = db.providers \/ \E o \in Operator : operator[o].stage = "providers"
     /\ config.routes = db.routes \/ \E o \in Operator : ReadsNow(o)

GatewayInv == Shape /\ Locked /\ Followed

-----------------------------------------------------------------------------
LEMMA GatewayInitial == GatewayInit => GatewayInv
<1> SUFFICES ASSUME GatewayInit PROVE GatewayInv
  OBVIOUS
<1>1. IsTables(db) /\ config = db
  BY DEF GatewayInit, IsTables
<1>2. DOMAIN operator = Operator /\ \A o \in Operator : operator[o] = Asleep
  BY DEF GatewayInit
<1> QED
  BY <1>1, <1>2 DEF GatewayInv, Shape, Locked, Followed, ReadsNow, Asleep, Stage

\* A record of a request has the fields of Asleep.
LEMMA RequestShape ==
  ASSUME NEW r, DOMAIN r = DOMAIN Asleep, NEW stage, NEW read
  PROVE  /\ DOMAIN [r EXCEPT !.stage = stage] = DOMAIN Asleep
         /\ [r EXCEPT !.stage = stage].stage = stage
         /\ DOMAIN [r EXCEPT !.stage = stage, !.read = read] = DOMAIN Asleep
         /\ [r EXCEPT !.stage = stage, !.read = read].stage = stage
         /\ [r EXCEPT !.stage = stage, !.read = read].read = read
  BY DEF Asleep

LEMMA BeginKept ==
  ASSUME GatewayInv, NEW o \in Operator, NEW request, Edit(o, request),
         DOMAIN request = DOMAIN Asleep, request.stage \in {"save", "delete", "routes"},
         UNCHANGED <<db, config, lock>>
  PROVE  GatewayInv'
<1>1. /\ operator[o].stage = "idle" /\ operator' = [operator EXCEPT ![o] = request]
  BY DEF Edit
<1>2. \A q \in Operator : q # o => operator'[q] = operator[q]
  BY <1>1 DEF GatewayInv, Shape
<1>3. operator'[o] = request
  BY <1>1 DEF GatewayInv, Shape
<1>4. Shape'
  BY <1>1, <1>2, <1>3 DEF GatewayInv, Shape, Stage
<1>5. Locked'
  BY <1>2, <1>3 DEF GatewayInv, Locked, ReadsNow
<1>6. Followed'
  BY <1>1, <1>2, <1>3 DEF GatewayInv, Followed, ReloadDue, ReadsNow
<1> QED BY <1>4, <1>5, <1>6 DEF GatewayInv

LEMMA CommitKept ==
  ASSUME GatewayInv, NEW o \in Operator, NEW tables, IsTables(tables),
         operator[o].stage \in {"save", "delete", "routes"}, Commit(o, tables)
  PROVE  GatewayInv'
<1> DEFINE r == [Asleep EXCEPT !.stage = "reload"]
<1>1. /\ operator' = [operator EXCEPT ![o] = r] /\ db' = tables
      /\ UNCHANGED <<config, lock>>
  BY DEF Commit
<1>2. DOMAIN r = DOMAIN Asleep /\ r.stage = "reload"
  BY DEF Asleep
<1> HIDE DEF r
<1>3. operator'[o] = r /\ \A q \in Operator : q # o => operator'[q] = operator[q]
  BY <1>1 DEF GatewayInv, Shape
<1>4. Shape'
  BY <1>1, <1>2, <1>3 DEF GatewayInv, Shape, Stage
<1>5. Locked'
  BY <1>1, <1>2, <1>3 DEF GatewayInv, Locked, ReadsNow
<1>6. Followed'
  BY <1>2, <1>3 DEF Followed, ReloadDue
<1> QED BY <1>4, <1>5, <1>6 DEF GatewayInv

\* The reads of a reload: the lock keeps every other reload out.
LEMMA ReadProvidersKept ==
  ASSUME GatewayInv, NEW o \in Operator, ReadProviders(o)
  PROVE  GatewayInv'
<1>1. /\ operator[o].stage = "reload" /\ lock = None /\ lock' = o
      /\ operator' = [operator EXCEPT ![o].stage = "providers", ![o].read = db.providers]
      /\ UNCHANGED <<db, keys, config>>
  BY DEF ReadProviders, LockIsFree
<1>2. DOMAIN operator[o] = DOMAIN Asleep
  BY DEF GatewayInv, Shape
<1>3. /\ DOMAIN operator'[o] = DOMAIN Asleep
      /\ operator'[o].stage = "providers" /\ operator'[o].read = db.providers
      /\ \A q \in Operator : q # o => operator'[q] = operator[q]
      /\ DOMAIN operator' = Operator
  BY <1>1, <1>2 DEF GatewayInv, Shape, Asleep
<1>4. \A q \in Operator : ~ReadsNow(q)
  BY <1>1, GatewayAssumption DEF GatewayInv, Locked
<1>5. Shape'
  BY <1>1, <1>3 DEF GatewayInv, Shape, Stage
<1>6. Locked'
  BY <1>1, <1>3, <1>4 DEF Locked, ReadsNow
<1>7. Followed'
  BY <1>1, <1>3, <1>4 DEF Followed, ReadsNow
<1> QED BY <1>5, <1>6, <1>7 DEF GatewayInv

LEMMA ReadRoutesKept ==
  ASSUME GatewayInv, NEW o \in Operator, ReadRoutes(o)
  PROVE  GatewayInv'
<1>1. /\ operator[o].stage = "providers"
      /\ config' = [config EXCEPT !.providers = operator[o].read]
      /\ operator' = [operator EXCEPT ![o].stage = "routing", ![o].read = db.routes]
      /\ UNCHANGED <<db, keys, lock>>
  BY DEF ReadRoutes
<1>2. DOMAIN operator[o] = DOMAIN Asleep
  BY DEF GatewayInv, Shape
<1>3. /\ DOMAIN operator'[o] = DOMAIN Asleep
      /\ operator'[o].stage = "routing" /\ operator'[o].read = db.routes
      /\ \A q \in Operator : q # o => operator'[q] = operator[q]
      /\ DOMAIN operator' = Operator
  BY <1>1, <1>2 DEF GatewayInv, Shape, Asleep
<1>4. lock = o /\ \A q \in Operator : q # o => ~ReadsNow(q)
  BY <1>1 DEF GatewayInv, Locked, ReadsNow
<1>5. /\ config'.providers = operator[o].read /\ config'.routes = config.routes
      /\ IsTables(config')
  BY <1>1 DEF GatewayInv, Shape, IsTables
<1>6. Shape'
  BY <1>1, <1>3, <1>5 DEF GatewayInv, Shape, Stage
<1>7. Locked'
  BY <1>1, <1>3, <1>4 DEF Locked, ReadsNow
<1>8. ASSUME ReloadDue PROVE Followed'
  <2>1. PICK q \in Operator : operator[q].stage = "reload"
    BY <1>8 DEF ReloadDue
  <2>2. operator'[q].stage = "reload"
    BY <1>1, <1>3, <2>1
  <2> QED BY <2>2 DEF ReloadDue, Followed
<1>9. ASSUME ~ReloadDue PROVE Followed'
  <2>1. operator[o].read = db.providers
    BY <1>1, <1>9 DEF GatewayInv, Followed
  <2>2. \A q \in Operator : operator'[q].stage \notin {"providers", "routing"} \/ q = o
    BY <1>3, <1>4 DEF ReadsNow
  <2> QED BY <1>1, <1>3, <1>5, <2>1, <2>2 DEF Followed, ReadsNow
<1> QED BY <1>6, <1>7, <1>8, <1>9 DEF GatewayInv

LEMMA FinishReloadKept ==
  ASSUME GatewayInv, NEW o \in Operator, FinishReload(o)
  PROVE  GatewayInv'
<1>1. /\ operator[o].stage = "routing"
      /\ config' = [config EXCEPT !.routes = operator[o].read]
      /\ lock' = None
      /\ operator' = [operator EXCEPT ![o] = Asleep]
      /\ UNCHANGED <<db, keys>>
  BY DEF FinishReload
<1>2. /\ operator'[o] = Asleep /\ DOMAIN operator' = Operator
      /\ \A q \in Operator : q # o => operator'[q] = operator[q]
  BY <1>1 DEF GatewayInv, Shape
<1>3. \A q \in Operator : q # o => ~ReadsNow(q)
  BY <1>1 DEF GatewayInv, Locked, ReadsNow
<1>4. \A q \in Operator : operator'[q].stage \notin {"providers", "routing"}
  BY <1>2, <1>3 DEF ReadsNow, Asleep
<1>5. /\ config'.routes = operator[o].read /\ config'.providers = config.providers
      /\ IsTables(config')
  BY <1>1 DEF GatewayInv, Shape, IsTables
<1>6. Shape'
  BY <1>1, <1>2, <1>5 DEF GatewayInv, Shape, Stage, Asleep
<1>7. Locked'
  BY <1>4 DEF Locked, ReadsNow
<1>8. ASSUME ReloadDue PROVE Followed'
  <2>1. PICK q \in Operator : operator[q].stage = "reload"
    BY <1>8 DEF ReloadDue
  <2>2. operator'[q].stage = "reload"
    BY <1>1, <1>2, <2>1
  <2> QED BY <2>2 DEF ReloadDue, Followed
<1>9. ASSUME ~ReloadDue PROVE Followed'
  <2>1. operator[o].read = db.routes /\ config.providers = db.providers
    BY <1>1, <1>3, <1>9 DEF GatewayInv, Followed, ReadsNow
  <2> QED BY <1>1, <1>4, <1>5, <2>1 DEF Followed
<1> QED BY <1>6, <1>7, <1>8, <1>9 DEF GatewayInv

LEMMA GatewayStep == GatewayInv /\ [GatewayNext]_gatewayVars => GatewayInv'
<1> SUFFICES ASSUME GatewayInv, [GatewayNext]_gatewayVars PROVE GatewayInv'
  OBVIOUS
<1>1. CASE UNCHANGED configVars
  BY <1>1 DEF configVars, GatewayInv, Shape, Locked, Followed, ReadsNow, ReloadDue
<1>2. CallsNext => UNCHANGED configVars
  BY DEF CallsNext, CallerStep, Elapse, Unconfigured, Declined, Begin, Succeed, WriteUsage,
         Retry, Fail, Raise, UsageFails
<1>3. ASSUME NEW o \in Operator, NEW p \in Provider, NEW status \in {"enabled", "disabled"},
             NEW withKey \in BOOLEAN, BeginSave(o, p, status, withKey)
      PROVE  GatewayInv'
  <2> DEFINE request == [Asleep EXCEPT !.stage = "save", !.provider = p, !.status = status]
  <2>1. Edit(o, request) /\ UNCHANGED <<db, config, lock>>
    BY <1>3 DEF BeginSave
  <2>2. DOMAIN request = DOMAIN Asleep /\ request.stage = "save"
    BY DEF Asleep
  <2> QED BY <2>1, <2>2, BeginKept
<1>4. ASSUME NEW o \in Operator, NEW p \in Provider, BeginDelete(o, p)
      PROVE  GatewayInv'
  <2> DEFINE request == [Asleep EXCEPT !.stage = "delete", !.provider = p]
  <2>1. Edit(o, request) /\ UNCHANGED <<db, config, lock>>
    BY <1>4 DEF BeginDelete
  <2>2. DOMAIN request = DOMAIN Asleep /\ request.stage = "delete"
    BY DEF Asleep
  <2> QED BY <2>1, <2>2, BeginKept
<1>5. ASSUME NEW o \in Operator, NEW p \in Provider, NEW r \in Route, BeginRoutes(o, r, p)
      PROVE  GatewayInv'
  <2> DEFINE request == [Asleep EXCEPT !.stage = "routes", !.routes = [NoRoute EXCEPT ![r] = p]]
  <2>1. Edit(o, request) /\ UNCHANGED <<db, config, lock>>
    BY <1>5 DEF BeginRoutes
  <2>2. DOMAIN request = DOMAIN Asleep /\ request.stage = "routes"
    BY DEF Asleep
  <2> QED BY <2>1, <2>2, BeginKept
<1>6. ASSUME NEW o \in Operator, CommitSave(o) \/ CommitDelete(o) \/ CommitRoutes(o)
      PROVE  GatewayInv'
  <2>1. IsTables(db)
    BY DEF GatewayInv, Shape
  <2>2. CASE CommitSave(o)
    <3> DEFINE t == [db EXCEPT !.providers[operator[o].provider] = operator[o].status]
    <3>1. IsTables(t)
      BY <2>1 DEF IsTables
    <3>2. operator[o].stage = "save" /\ Commit(o, t)
      BY <2>2 DEF CommitSave
    <3> QED BY <3>1, <3>2, CommitKept
  <2>3. CASE CommitDelete(o)
    BY <2>3, CommitKept DEF CommitDelete, IsTables
  <2>4. CASE CommitRoutes(o)
    <3> DEFINE t == [db EXCEPT !.routes = [r \in Route |-> IF operator[o].routes[r] # None
                                                           THEN operator[o].routes[r] ELSE db.routes[r]]]
    <3>1. IsTables(t)
      BY <2>1 DEF IsTables
    <3>2. operator[o].stage = "routes" /\ Commit(o, t)
      BY <2>4 DEF CommitRoutes
    <3> QED BY <3>1, <3>2, CommitKept
  <2> QED BY <1>6, <2>2, <2>3, <2>4
<1>7. CASE \E o \in Operator : SettingsNext(o)
  BY <1>3, <1>4, <1>5, <1>6, <1>7, ReadProvidersKept, ReadRoutesKept, FinishReloadKept
  DEF SettingsNext, OperatorStep
<1> QED BY <1>1, <1>2, <1>7 DEF GatewayNext, gatewayVars

-----------------------------------------------------------------------------
\* When the requests of the settings page are over, the gateway works with what the tables
\* hold, however they overlapped (LLMGateway.reload under _config_lock).
THEOREM CopyFollowsTables == GatewayInit /\ [][GatewayNext]_gatewayVars => []ConfigSettles
<1>1. ASSUME GatewayInv, \A o \in Operator : operator[o].stage = "idle"
      PROVE  config = db
  <2>1. config.providers = db.providers /\ config.routes = db.routes
    BY <1>1 DEF GatewayInv, Followed, ReloadDue, ReadsNow
  <2>2. IsTables(config) /\ IsTables(db)
    BY <1>1 DEF GatewayInv, Shape
  <2> QED BY <2>1, <2>2 DEF IsTables
<1>2. GatewayInv => ConfigSettles
  BY <1>1 DEF ConfigSettles
<1> QED BY <1>2, GatewayInitial, GatewayStep, PTL

-----------------------------------------------------------------------------
(* The calls to a provider whose circuit is open.                          *)

\* What the invocations under way may still try.
Remaining(p) ==
  {x \in Caller \X (1..MaxRetries) :
     /\ caller[x[1]].stage = "call" /\ caller[x[1]].provider = p
     /\ caller[x[1]].attempt < x[2]}

Most == (Cardinality(Caller) - 1) * MaxRetries

Bounded(p) == IF IsOpen(p) THEN late[p] + Cardinality(Remaining(p)) <= Most ELSE late[p] = 0

CallShape ==
  /\ keys \subseteq Provider
  /\ circuit \in [Provider -> [failures : Nat, opened : {"no", "recent", "elapsed"}]]
  /\ late \in [Provider -> Nat]
  /\ DOMAIN caller = Caller
  /\ \A c \in Caller :
       /\ DOMAIN caller[c] = DOMAIN Resting
       /\ caller[c].stage = "call" => caller[c].provider \in Provider /\ caller[c].attempt \in 0..MaxRetries

LateInv == CallShape /\ \A p \in Provider : Bounded(p)

LEMMA MostIs ==
  /\ Most \in Nat /\ Cardinality(Caller) \in Nat \ {0}
  /\ \A c \in Caller : \A S \in SUBSET ((Caller \ {c}) \X (1..MaxRetries)) :
       IsFiniteSet(S) /\ Cardinality(S) <= Most
<1>1. IsFiniteSet(Caller) /\ Caller # {} /\ MaxRetries \in Nat
  BY GatewayAssumption
<1>2. Cardinality(Caller) \in Nat \ {0}
  BY <1>1, FS_CardinalityType, FS_EmptySet
<1>3. PICK n \in Nat \ {0} : n = Cardinality(Caller)
  BY <1>2
<1>4. PICK m \in Nat : m = MaxRetries
  BY <1>1
<1>5. Most = (n - 1) * m /\ (n - 1) * m \in Nat
  <2>1. PICK k \in Nat : k = n - 1
    OBVIOUS
  <2>2. k * m \in Nat
    OBVIOUS
  <2> QED BY <1>3, <1>4, <2>1, <2>2 DEF Most
<1>6. IsFiniteSet(1..m) /\ Cardinality(1..m) = m
  <2>1. PICK o \in Int : o = 1
    OBVIOUS
  <2>2. IsFiniteSet(o..m) /\ Cardinality(o..m) = IF o > m THEN 0 ELSE m - o + 1
    BY FS_Interval
  <2> QED BY <2>1, <2>2
<1>7. ASSUME NEW c \in Caller, NEW S \in SUBSET ((Caller \ {c}) \X (1..m))
      PROVE  IsFiniteSet(S) /\ Cardinality(S) <= (n - 1) * m
  <2>1. PICK T : T = Caller \ {c}
    OBVIOUS
  <2>2. IsFiniteSet(T) /\ Cardinality(T) = n - 1
    BY <1>1, <1>3, <2>1, FS_RemoveElement
  <2>3. IsFiniteSet(T \X (1..m)) /\ Cardinality(T \X (1..m)) = Cardinality(T) * Cardinality(1..m)
    BY <1>6, <2>2, FS_Product
  <2>4. S \in SUBSET (T \X (1..m))
    BY <2>1
  <2>5. IsFiniteSet(S) /\ Cardinality(S) <= Cardinality(T \X (1..m))
    BY <2>3, <2>4, FS_Subset
  <2> QED BY <1>6, <2>2, <2>3, <2>5
<1> QED BY <1>2, <1>4, <1>5, <1>7

LEMMA RemainingFinite ==
  ASSUME NEW p
  PROVE  IsFiniteSet(Remaining(p)) /\ Cardinality(Remaining(p)) \in Nat
<1>1. PICK A, B : A = Caller /\ B = 1..MaxRetries
  OBVIOUS
<1>2. IsFiniteSet(A) /\ IsFiniteSet(B)
  <2>1. PICK o \in Int, m \in Int : o = 1 /\ m = MaxRetries
    BY GatewayAssumption
  <2>2. IsFiniteSet(o..m)
    BY FS_Interval
  <2> QED BY <1>1, <2>1, <2>2, GatewayAssumption
<1>3. IsFiniteSet(A \X B)
  BY <1>2, FS_Product
<1>4. Remaining(p) \in SUBSET (A \X B)
  BY <1>1 DEF Remaining
<1>5. IsFiniteSet(Remaining(p))
  BY <1>3, <1>4, FS_Subset
<1> QED BY <1>5, FS_CardinalityType

LEMMA BoundedKept ==
  ASSUME LateInv, NEW p \in Provider, late'[p] = late[p],
         circuit'[p].opened = circuit[p].opened, Remaining(p)' \subseteq Remaining(p)
  PROVE  Bounded(p)'
<1>1. PICK R, Q : R = Remaining(p) /\ Q = Remaining(p)'
  OBVIOUS
<1>2. IsFiniteSet(R) /\ Cardinality(R) \in Nat /\ Q \in SUBSET R
  BY <1>1, RemainingFinite
<1>3. Cardinality(Q) \in Nat /\ Cardinality(Q) <= Cardinality(R)
  <2>1. IsFiniteSet(Q) /\ Cardinality(Q) <= Cardinality(R)
    BY <1>2, FS_Subset
  <2> QED BY <2>1, FS_CardinalityType
<1>4. late[p] \in Nat /\ Bounded(p)
  BY DEF LateInv, CallShape
<1>5. PICK b \in Nat : b = Most
  BY MostIs
<1> QED BY <1>1, <1>2, <1>3, <1>4, <1>5 DEF Bounded, IsOpen, Most

\* An invocation that is not a call, or not one of p, has no retries of p to come.
LEMMA RemainingShrinks ==
  ASSUME CallShape, NEW c \in Caller, NEW r, caller' = [caller EXCEPT ![c] = r], NEW p,
         r.stage # "call" \/ r.provider # p
  PROVE  Remaining(p)' \subseteq Remaining(p)
<1>1. \A d \in Caller : d # c => caller'[d] = caller[d]
  BY DEF CallShape
<1>2. caller'[c] = r
  BY DEF CallShape
<1> QED BY <1>1, <1>2 DEF Remaining

LEMMA ShapeKept ==
  ASSUME CallShape, NEW c \in Caller, NEW r, caller' = [caller EXCEPT ![c] = r],
         DOMAIN r = DOMAIN Resting,
         r.stage = "call" => r.provider \in Provider /\ r.attempt \in 0..MaxRetries
  PROVE  /\ DOMAIN caller' = Caller
         /\ \A d \in Caller :
              /\ DOMAIN caller'[d] = DOMAIN Resting
              /\ caller'[d].stage = "call" =>
                   caller'[d].provider \in Provider /\ caller'[d].attempt \in 0..MaxRetries
BY DEF CallShape

LEMMA LateInitial == GatewayInit => LateInv
BY DEF GatewayInit, LateInv, CallShape, Bounded, IsOpen, Resting, Closed

\* An invocation that ends, or does not begin, without a word to the circuit.
LEMMA QuietStep ==
  ASSUME LateInv, NEW c \in Caller, NEW r, caller' = [caller EXCEPT ![c] = r],
         DOMAIN r = DOMAIN Resting, r.stage # "call", UNCHANGED <<keys, circuit, late>>
  PROVE  LateInv'
<1>1. CallShape'
  BY ShapeKept DEF LateInv, CallShape
<1>2. ASSUME NEW p \in Provider PROVE Bounded(p)'
  BY BoundedKept, RemainingShrinks DEF LateInv
<1> QED BY <1>1, <1>2 DEF LateInv

LEMMA BeginStep ==
  ASSUME LateInv, NEW c \in Caller, Begin(c)
  PROVE  LateInv'
<1>1. PICK p : p = config.routes[RouteOf[c]]
  OBVIOUS
<1>2. PICK r : r = [Resting EXCEPT !.stage = "call", !.provider = p]
  OBVIOUS
<1>3. DOMAIN r = DOMAIN Resting /\ r.stage = "call" /\ r.provider = p /\ r.attempt = 0
  BY <1>2 DEF Resting
<1>4. /\ p \in keys /\ ~IsOpen(p) /\ caller' = [caller EXCEPT ![c] = r] /\ keys' = keys
      /\ circuit' = [circuit EXCEPT ![p] = IF @.opened = "no" THEN @ ELSE Closed]
      /\ late' = [late EXCEPT ![p] = IF IsOpen(p) THEN @ + 1 ELSE @]
  BY <1>1, <1>2 DEF Begin, Usable, _circuit_open, Begun, configVars
<1>5. CallShape /\ p \in Provider /\ 0 \in 0..MaxRetries
  BY <1>4, GatewayAssumption DEF LateInv, CallShape
<1>6. late' = late
  BY <1>4, <1>5 DEF CallShape
<1>7. circuit' \in [Provider -> [failures : Nat, opened : {"no", "recent", "elapsed"}]]
      /\ circuit'[p].opened = "no" /\ \A q \in Provider : q # p => circuit'[q] = circuit[q]
  BY <1>4, <1>5 DEF CallShape, Closed
<1>8. CallShape'
  BY <1>3, <1>4, <1>5, <1>6, <1>7, ShapeKept DEF CallShape
<1>9. ASSUME NEW q \in Provider PROVE Bounded(q)'
  <2>1. CASE q = p
    BY <1>4, <1>5, <1>6, <1>7, <2>1 DEF Bounded, IsOpen, LateInv
  <2>2. CASE q # p
    <3>1. Remaining(q)' \subseteq Remaining(q)
      <4>1. r.provider # q
        BY <1>3, <2>2
      <4> QED BY <1>4, <1>5, <4>1, RemainingShrinks
    <3>2. late'[q] = late[q] /\ circuit'[q].opened = circuit[q].opened
      BY <1>6, <1>7, <2>2
    <3> QED BY <3>1, <3>2, BoundedKept
  <2> QED BY <2>1, <2>2
<1> QED BY <1>8, <1>9 DEF LateInv

LEMMA SucceedStep ==
  ASSUME LateInv, NEW c \in Caller, Succeed(c)
  PROVE  LateInv'
<1>1. PICK p : p = caller[c].provider
  OBVIOUS
<1>2. PICK r : r = [caller[c] EXCEPT !.stage = "usage", !.ok = TRUE]
  OBVIOUS
<1>3. CallShape /\ caller[c].stage = "call" /\ p \in Provider
  BY <1>1 DEF Succeed, LateInv, CallShape
<1>4. DOMAIN r = DOMAIN Resting /\ r.stage = "usage"
  BY <1>2, <1>3 DEF CallShape, Resting
<1>5. /\ caller' = [caller EXCEPT ![c] = r] /\ keys' = keys
      /\ circuit' = [circuit EXCEPT ![p] = Closed] /\ late' = [late EXCEPT ![p] = 0]
  BY <1>1, <1>2, <1>3 DEF Succeed, Done, configVars, CallShape
<1>6. CallShape'
  <2>1. circuit' \in [Provider -> [failures : Nat, opened : {"no", "recent", "elapsed"}]]
    BY <1>3, <1>5 DEF CallShape, Closed
  <2>2. late' \in [Provider -> Nat]
    BY <1>3, <1>5 DEF CallShape
  <2> QED BY <1>3, <1>4, <1>5, <2>1, <2>2, ShapeKept DEF CallShape
<1>7. ASSUME NEW q \in Provider PROVE Bounded(q)'
  <2>1. CASE q = p
    BY <1>3, <1>5, <2>1 DEF Bounded, IsOpen, Closed, CallShape
  <2>2. CASE q # p
    <3>1. circuit'[q] = circuit[q] /\ late'[q] = late[q]
      BY <1>3, <1>5, <2>2 DEF CallShape
    <3> QED BY <1>3, <1>4, <1>5, <3>1, BoundedKept, RemainingShrinks
  <2> QED BY <2>1, <2>2
<1> QED BY <1>6, <1>7 DEF LateInv

LEMMA RetryStep ==
  ASSUME LateInv, NEW c \in Caller, Retry(c)
  PROVE  LateInv'
<1>1. PICK p : p = caller[c].provider
  OBVIOUS
<1>2. PICK r : r = [caller[c] EXCEPT !.attempt = @ + 1]
  OBVIOUS
<1>3. /\ CallShape /\ caller[c].stage = "call" /\ p \in Provider /\ caller[c].attempt < MaxRetries
      /\ caller[c].attempt \in Nat
  BY <1>1, GatewayAssumption DEF Retry, MayRetry, LateInv, CallShape
<1>4. PICK k \in Nat : k = caller[c].attempt
  BY <1>3
<1>5. DOMAIN r = DOMAIN Resting /\ r.stage = "call" /\ r.provider = p /\ r.attempt = k + 1
  BY <1>1, <1>2, <1>3, <1>4 DEF CallShape, Resting
<1>6. /\ caller' = [caller EXCEPT ![c] = r] /\ keys' = keys /\ circuit' = circuit
      /\ late' = [late EXCEPT ![p] = IF IsOpen(p) THEN @ + 1 ELSE @]
  BY <1>1, <1>2, <1>3 DEF Retry, configVars, CallShape
<1>7. CallShape'
  <2>1. late' \in [Provider -> Nat]
    BY <1>3, <1>6 DEF CallShape
  <2>2. k + 1 \in 0..MaxRetries
    BY <1>3, <1>4, GatewayAssumption
  <2> QED BY <1>3, <1>5, <1>6, <2>1, <2>2, ShapeKept DEF CallShape
<1>8. /\ \A d \in Caller : d # c => caller'[d] = caller[d]
      /\ caller'[c] = r
  BY <1>3, <1>6 DEF CallShape
<1>9. Remaining(p)' = Remaining(p) \ {<<c, k + 1>>} /\ <<c, k + 1>> \in Remaining(p)
  <2>1. ASSUME NEW d \in Caller, NEW n \in 1..MaxRetries
        PROVE  <<d, n>> \in Remaining(p)' <=> <<d, n>> \in Remaining(p) /\ <<d, n>> # <<c, k + 1>>
    <3>1. CASE d = c
      <4>1. <<d, n>> \in Remaining(p) <=> k < n
        BY <1>1, <1>3, <1>4, <3>1 DEF Remaining
      <4>2. <<d, n>> \in Remaining(p)' <=> k + 1 < n
        BY <1>5, <1>8, <3>1 DEF Remaining
      <4> QED BY <3>1, <4>1, <4>2
    <3>2. CASE d # c
      BY <1>8, <3>2 DEF Remaining
    <3> QED BY <3>1, <3>2
  <2>2. Remaining(p) \subseteq Caller \X (1..MaxRetries) /\ Remaining(p)' \subseteq Caller \X (1..MaxRetries)
    BY DEF Remaining
  <2>3. k + 1 \in 1..MaxRetries
    BY <1>3, <1>4, GatewayAssumption
  <2>4. <<c, k + 1>> \in Remaining(p)
    BY <1>1, <1>3, <1>4, <2>3 DEF Remaining
  <2>5. ASSUME NEW x PROVE x \in Remaining(p)' <=> x \in Remaining(p) \ {<<c, k + 1>>}
    <3>1. CASE x \in Caller \X (1..MaxRetries)
      <4>1. PICK d \in Caller, n \in 1..MaxRetries : x = <<d, n>>
        BY <3>1
      <4> QED BY <2>1, <4>1
    <3>2. CASE x \notin Caller \X (1..MaxRetries)
      BY <2>2, <3>2
    <3> QED BY <3>1, <3>2
  <2> QED BY <2>4, <2>5
<1>10. ASSUME NEW q \in Provider PROVE Bounded(q)'
  <2>1. CASE q = p
    <3>1. PICK R, Q : R = Remaining(p) /\ Q = Remaining(p)' /\ Q = R \ {<<c, k + 1>>}
      BY <1>9
    <3>2. IsFiniteSet(R) /\ Cardinality(R) \in Nat
      BY <3>1, RemainingFinite
    <3>3. Cardinality(Q) = Cardinality(R) - 1
      <4>1. PICK y : y = <<c, k + 1>>
        OBVIOUS
      <4>2. y \in R /\ Q = R \ {y}
        BY <1>9, <3>1, <4>1
      <4>3. Cardinality(R \ {y}) = Cardinality(R) - 1
        <5>1. Cardinality(R \ {y}) = IF y \in R THEN Cardinality(R) - 1 ELSE Cardinality(R)
          BY ONLY <3>2, FS_RemoveElement
        <5> QED BY ONLY <4>2, <5>1
      <4> QED BY <4>2, <4>3
    <3>4. PICK b \in Nat : b = Most
      BY MostIs
    <3>5. late[p] \in Nat /\ Bounded(p) /\ late'[p] = IF IsOpen(p) THEN late[p] + 1 ELSE late[p]
      BY <1>3, <1>6 DEF LateInv, CallShape
    <3> QED BY <1>6, <2>1, <3>1, <3>2, <3>3, <3>4, <3>5 DEF Bounded, IsOpen, Most
  <2>2. CASE q # p
    <3>1. late'[q] = late[q]
      BY <1>3, <1>6, <2>2 DEF CallShape
    <3> QED BY <1>3, <1>5, <1>6, <2>2, <3>1, BoundedKept, RemainingShrinks
  <2> QED BY <2>1, <2>2
<1> QED BY <1>7, <1>10 DEF LateInv

\* The failure that opens a circuit leaves the other callers at most, with all their retries.
LEMMA FailStep ==
  ASSUME LateInv, NEW c \in Caller, Fail(c)
  PROVE  LateInv'
<1>1. PICK p : p = caller[c].provider
  OBVIOUS
<1>2. PICK r : r = [caller[c] EXCEPT !.stage = "usage", !.ok = FALSE]
  OBVIOUS
<1>3. CallShape /\ caller[c].stage = "call" /\ p \in Provider
  BY <1>1 DEF Fail, LateInv, CallShape
<1>4. DOMAIN r = DOMAIN Resting /\ r.stage = "usage"
  BY <1>2, <1>3 DEF CallShape, Resting
<1>5. caller' = [caller EXCEPT ![c] = r] /\ keys' = keys /\ late' = late /\ _record_failure(p)
  BY <1>1, <1>2, <1>3 DEF Fail, Done, configVars, CallShape
<1>6. /\ circuit' \in [Provider -> [failures : Nat, opened : {"no", "recent", "elapsed"}]]
      /\ circuit'[p].opened \in {"recent", circuit[p].opened}
      /\ \A q \in Provider : q # p => circuit'[q] = circuit[q]
  <2>1. PICK n : n = IF circuit[p].failures < Threshold THEN circuit[p].failures + 1 ELSE Threshold
    OBVIOUS
  <2>2. circuit' = [circuit EXCEPT ![p] =
          [failures |-> n, opened |-> IF n >= Threshold THEN "recent" ELSE circuit[p].opened]]
    BY <1>3, <1>5, <2>1 DEF _record_failure, CallShape
  <2>3. n \in Nat /\ circuit[p].opened \in {"no", "recent", "elapsed"}
    BY <1>3, <2>1, GatewayAssumption DEF CallShape
  <2> QED BY <1>3, <2>2, <2>3 DEF CallShape
<1>7. CallShape'
  BY <1>3, <1>4, <1>5, <1>6, ShapeKept DEF CallShape
<1>8. \A q : Remaining(q)' \subseteq Remaining(q)
  BY <1>3, <1>4, <1>5, RemainingShrinks
<1>9. ASSUME NEW q \in Provider PROVE Bounded(q)'
  <2>1. CASE circuit'[q].opened = circuit[q].opened
    BY <1>5, <1>8, <2>1, BoundedKept
  <2>2. CASE circuit'[q].opened # circuit[q].opened
    <3>1. q = p /\ ~IsOpen(p) /\ circuit'[p].opened = "recent"
      BY <1>6, <2>2 DEF IsOpen
    <3>2. late'[p] = 0
      BY <1>3, <1>5, <3>1 DEF LateInv, Bounded
    <3>3. PICK Q : Q = Remaining(p)'
      OBVIOUS
    <3>4. Q \in SUBSET ((Caller \ {c}) \X (1..MaxRetries))
      <4>1. caller'[c] = r
        BY <1>3, <1>5 DEF CallShape
      <4> QED BY <1>4, <3>3, <4>1 DEF Remaining
    <3>5. Cardinality(Q) <= Most /\ Cardinality(Q) \in Nat
      <4>1. IsFiniteSet(Q) /\ Cardinality(Q) <= Most
        BY <3>4, MostIs
      <4> QED BY <4>1, FS_CardinalityType
    <3> QED BY <3>1, <3>2, <3>3, <3>5, MostIs DEF Bounded, Most
  <2> QED BY <2>1, <2>2
<1> QED BY <1>7, <1>9 DEF LateInv

LEMMA LateStep == LateInv /\ [GatewayNext]_gatewayVars => LateInv'
<1> SUFFICES ASSUME LateInv, [GatewayNext]_gatewayVars PROVE LateInv'
  OBVIOUS
<1>1. ASSUME keys' \subseteq Provider, UNCHANGED <<circuit, caller, late>> PROVE LateInv'
  <2>1. CallShape' /\ \A p \in Provider : Remaining(p)' = Remaining(p)
    BY <1>1 DEF LateInv, CallShape, Remaining
  <2> QED BY <1>1, <2>1, BoundedKept DEF LateInv
<1>2. keys \subseteq Provider /\ CallShape
  BY DEF LateInv, CallShape
<1>3. ASSUME NEW o \in Operator, SettingsNext(o) PROVE LateInv'
  <2>1. UNCHANGED <<circuit, caller, late>>
    BY <1>3 DEF SettingsNext, OperatorStep, BeginSave, BeginDelete, BeginRoutes, Edit, callVars
  <2>2. keys' \subseteq Provider
    BY <1>2, <1>3 DEF SettingsNext, OperatorStep, BeginSave, BeginDelete, BeginRoutes,
       CommitSave, CommitDelete, CommitRoutes, Commit, ReadProviders, ReadRoutes, FinishReload
  <2> QED BY <1>1, <2>1, <2>2
<1>4. ASSUME NEW p \in Provider, Elapse(p) PROVE LateInv'
  <2>1. /\ circuit' = [circuit EXCEPT ![p].opened = "elapsed"] /\ late' = [late EXCEPT ![p] = 0]
        /\ caller' = caller /\ keys' = keys
    BY <1>4 DEF Elapse, configVars
  <2>2. CallShape' /\ \A q : Remaining(q)' = Remaining(q)
    BY <1>2, <2>1 DEF CallShape, Remaining
  <2>3. ASSUME NEW q \in Provider PROVE Bounded(q)'
    <3>1. CASE q = p
      BY <1>2, <2>1, <3>1 DEF CallShape, Bounded, IsOpen
    <3>2. CASE q # p
      BY <1>2, <2>1, <2>2, <3>2, BoundedKept DEF CallShape
    <3> QED BY <3>1, <3>2
  <2> QED BY <2>2, <2>3 DEF LateInv
<1>5. ASSUME NEW c \in Caller, Unconfigured(c) \/ Declined(c) PROVE LateInv'
  <2>1. PICK r : /\ caller' = [caller EXCEPT ![c] = r] /\ DOMAIN r = DOMAIN Resting
                 /\ r.stage = "usage" /\ UNCHANGED <<keys, circuit, late>>
    BY <1>5 DEF Unconfigured, Declined, Begun, configVars, Resting
  <2> QED BY <2>1, QuietStep
<1>6. ASSUME NEW c \in Caller, Raise(c) \/ WriteUsage(c) \/ UsageFails(c) PROVE LateInv'
  <2>1. caller' = [caller EXCEPT ![c] = Resting] /\ UNCHANGED <<keys, circuit, late>>
    BY <1>6 DEF Raise, WriteUsage, UsageFails, Begun, configVars
  <2>2. Resting.stage # "call"
    BY DEF Resting
  <2> QED BY <2>1, <2>2, QuietStep
<1>7. CASE UNCHANGED gatewayVars
  BY <1>1, <1>2, <1>7 DEF gatewayVars, configVars, callVars
<1> QED
  BY <1>3, <1>4, <1>5, <1>6, <1>7, BeginStep, SucceedStep, RetryStep, FailStep
  DEF GatewayNext, CallsNext, CallerStep

\* _circuit_open and _record_failure: of a provider whose circuit is open only the invocations
\* that were under way when it opened still ask something, and only their retries: a circuit
\* that opens leaves all callers but the one whose failure opened it, and no further
\* invocation begins until it closes.
THEOREM LateCallsAreFew == GatewayInit /\ [][GatewayNext]_gatewayVars => []FewLateCalls
<1>1. ASSUME LateInv PROVE FewLateCalls
  <2> SUFFICES ASSUME NEW p \in Provider PROVE late[p] <= Most
    BY DEF FewLateCalls, Most
  <2>1. PICK b \in Nat : b = Most
    BY MostIs
  <2>2. late[p] \in Nat /\ Bounded(p) /\ Cardinality(Remaining(p)) \in Nat
    BY <1>1, RemainingFinite DEF LateInv, CallShape
  <2> QED BY <2>1, <2>2 DEF Bounded, Most
<1> QED BY <1>1, LateInitial, LateStep, PTL
=============================================================================
