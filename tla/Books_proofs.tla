----------------------------- MODULE Books_proofs -----------------------------
(***************************************************************************)
(* The exchange, the journal and the projection agree on a holding, and    *)
(* the three accounts of a margin on its amount, for every price, fee,     *)
(* leverage and funding rate and any number of operations and crashes.     *)
(*                                                                         *)
(* The argument: (1) what each kind of transaction posts, and that it      *)
(* balances; (2) the replays treat cash apart from the holding, so the two *)
(* replays of the journal never differ on the holding; (3) the exchange is *)
(* ahead of the journal by the fills on their way and the ones dropped, in *)
(* cash and in lots, and while none was dropped replaying the ones on      *)
(* their way on top of the journal gives the exchange's own books.         *)
(***************************************************************************)
EXTENDS Books, TLAPS

Side == {"BUY", "SELL"}

TradeType   == [type : {"TRADE"}, side : Side, price : Prices, released : Int]
DepositType == [type : {"DEPOSIT"}, amount : Int]
OpenType    == [type : {"OPEN"}, side : {"LONG", "SHORT"}, qty : {1}, price : Prices,
                margin : Nat]
CloseType   == [type : {"CLOSE"}, side : {"LONG", "SHORT"}, qty : Nat \ {0}, entry : Nat,
                pnl : Int, margin : Nat]
FundingType == [type : {"FUNDING"}, amount : Int]

FuturesEntry == OpenType \cup CloseType \cup FundingType
Entry        == TradeType \cup DepositType \cup FuturesEntry

-----------------------------------------------------------------------------
(* Arithmetic.                                                             *)

LEMMA MaxOfTwo ==
  ASSUME NEW a \in Int, NEW b \in Int
  PROVE  Max({a, b}) = IF a >= b THEN a ELSE b
<1> DEFINE m == IF a >= b THEN a ELSE b
<1>1. m \in {a, b} /\ \A y \in {a, b} : m >= y
  OBVIOUS
<1>2. \A x \in {a, b} : (\A y \in {a, b} : x >= y) => x = m
  OBVIOUS
<1> QED BY <1>1, <1>2 DEF Max

LEMMA MinOfTwo ==
  ASSUME NEW a \in Int, NEW b \in Int
  PROVE  Min({a, b}) = IF a <= b THEN a ELSE b
<1> DEFINE m == IF a <= b THEN a ELSE b
<1>1. m \in {a, b} /\ \A y \in {a, b} : m <= y
  OBVIOUS
<1>2. \A x \in {a, b} : (\A y \in {a, b} : x <= y) => x = m
  OBVIOUS
<1> QED BY <1>1, <1>2 DEF Min

\* A share of an amount: no more than the amount, and all of it for the whole.
LEMMA ShareOf ==
  ASSUME NEW m \in Nat, NEW q \in Nat \ {0}, NEW k \in 0..q
  PROVE  /\ (m * k) \div q \in 0..m
         /\ (m * q) \div q = m
  OBVIOUS

\* An average is no more than the sum.
LEMMA AverageOf ==
  ASSUME NEW c \in Nat, NEW q \in Nat \ {0}
  PROVE  c \div q \in 0..c /\ c \div 1 = c
  OBVIOUS

-----------------------------------------------------------------------------
(* What a transaction posts.                                               *)

LEMMA MoneySum ==
  ASSUME NEW p, \A a \in Account : p[a] \in Int,
         p["EQUITY"] = 0, p["MARGIN"] = 0,
         p["FUTURES_POSITION_ASSET"] = 0, p["FUTURES_POSITION_LIABILITY"] = 0,
         p["FUTURES_TRADING_FEE"] = 0, p["FUTURES_REALIZED_PNL"] = 0,
         p["FUNDING_RECEIPT"] = 0, p["FUNDING_PAYMENT"] = 0,
         p["CASH"] + p["POSITION_ASSET"] + p["FEE_EXPENSE"] + p["REALIZED_PNL"] = 0
  PROVE  TrialBalance(p) = 0
<1>1. p["CASH"] \in Int /\ p["POSITION_ASSET"] \in Int /\ p["FEE_EXPENSE"] \in Int
      /\ p["REALIZED_PNL"] \in Int
  BY DEF Account
<1> QED BY <1>1 DEF TrialBalance

LEMMA TradePosts ==
  ASSUME NEW t \in TradeType
  PROVE  /\ Balanced(t)
         /\ Posted(t, "MARGIN") = 0
         /\ Posted(t, "CASH") = IF t.side = "BUY" THEN -(t.price + Fee) ELSE t.price - Fee
         /\ Posted(t, "POSITION_ASSET") = IF t.side = "BUY" THEN t.price ELSE -t.released
         /\ \A a \in Account : Posted(t, a) \in Int
<1>1. /\ Postings(t) = TradePostings(t) /\ t.price \in Int /\ t.released \in Int
      /\ t.side \in Side /\ Fee \in Int
  BY PricesAssumption, AmountsAssumption DEF TradeType, Postings
<1> DEFINE p == TradePostings(t)
<1>2. CASE t.side = "BUY"
  <2>1. p = [NoPosting EXCEPT !["POSITION_ASSET"] = t.price, !["FEE_EXPENSE"] = Fee,
                              !["CASH"] = -(t.price + Fee)]
    BY <1>2 DEF TradePostings
  <2>2. \A a \in Account : p[a] = CASE a = "POSITION_ASSET" -> t.price
                                    [] a = "FEE_EXPENSE" -> Fee
                                    [] a = "CASH" -> -(t.price + Fee)
                                    [] OTHER -> 0
    BY <2>1 DEF NoPosting, Account
  <2> HIDE DEF p
  <2>3. /\ p["CASH"] + p["POSITION_ASSET"] + p["FEE_EXPENSE"] + p["REALIZED_PNL"] = 0
        /\ \A a \in Account : p[a] \in Int
    BY <2>2, <1>1 DEF Account
  <2>4. TrialBalance(p) = 0
    BY <2>2, <2>3, MoneySum DEF Account
  <2> QED BY <1>1, <1>2, <2>2, <2>3, <2>4 DEF Balanced, Posted, Account, p
<1>3. CASE t.side = "SELL"
  <2>1. p = [NoPosting EXCEPT !["CASH"] = t.price - Fee, !["POSITION_ASSET"] = -t.released,
                              !["FEE_EXPENSE"] = Fee,
                              !["REALIZED_PNL"] = -(t.price - t.released)]
    BY <1>3 DEF TradePostings
  <2>2. \A a \in Account : p[a] = CASE a = "POSITION_ASSET" -> -t.released
                                    [] a = "FEE_EXPENSE" -> Fee
                                    [] a = "CASH" -> t.price - Fee
                                    [] a = "REALIZED_PNL" -> -(t.price - t.released)
                                    [] OTHER -> 0
    BY <2>1 DEF NoPosting, Account
  <2> HIDE DEF p
  <2>3. /\ p["CASH"] + p["POSITION_ASSET"] + p["FEE_EXPENSE"] + p["REALIZED_PNL"] = 0
        /\ \A a \in Account : p[a] \in Int
    BY <2>2, <1>1 DEF Account
  <2>4. TrialBalance(p) = 0
    BY <2>2, <2>3, MoneySum DEF Account
  <2> QED BY <1>1, <1>3, <2>2, <2>3, <2>4 DEF Balanced, Posted, Account, p
<1> QED BY <1>1, <1>2, <1>3 DEF Side

LEMMA DepositPosts ==
  ASSUME NEW t \in DepositType
  PROVE  /\ Balanced(t)
         /\ Posted(t, "MARGIN") = 0 /\ Posted(t, "POSITION_ASSET") = 0
         /\ \A a \in Account : Posted(t, a) \in Int
<1> DEFINE p == DepositPostings(t)
<1>1. Postings(t) = p /\ t.amount \in Int
  BY DEF DepositType, Postings
<1>2. \A a \in Account : p[a] = CASE a = "CASH" -> t.amount
                                  [] a = "EQUITY" -> -t.amount
                                  [] OTHER -> 0
  BY DEF NoPosting, Account, DepositPostings
<1> HIDE DEF p
<1>3. TrialBalance(p) = 0 /\ \A a \in Account : p[a] \in Int
  BY <1>1, <1>2 DEF TrialBalance, Account
<1> QED BY <1>1, <1>2, <1>3 DEF Balanced, Posted, Account

\* Only an opening and a closing touch the MARGIN account, and no perpetual entry
\* the POSITION_ASSET account.
LEMMA FuturesPosts ==
  ASSUME NEW t \in FuturesEntry
  PROVE  /\ Posted(t, "MARGIN") = CASE t.type = "OPEN" -> t.margin
                                    [] t.type = "CLOSE" -> -t.margin
                                    [] t.type = "FUNDING" -> 0
         /\ Posted(t, "POSITION_ASSET") = 0
         /\ \A a \in Account : Posted(t, a) \in Int
<1>0. Fee \in Int /\ \A price \in Prices : price \in Int
  BY PricesAssumption, AmountsAssumption
<1>1. CASE t \in OpenType
  <2>1. Postings(t) = OpenPostings(t) /\ t.qty * t.price \in Int /\ t.margin \in Int
        /\ t.type = "OPEN"
    BY <1>0, <1>1 DEF OpenType, Postings
  <2> DEFINE notional == t.qty * t.price
  <2> HIDE DEF notional
  <2> QED BY <1>0, <2>1 DEF OpenPostings, NoPosting, Account, Posted
<1>2. CASE t \in CloseType
  <2>1. Postings(t) = ClosePostings(t) /\ t.qty * t.entry \in Int /\ t.margin \in Int
        /\ t.pnl \in Int /\ t.type = "CLOSE"
    BY <1>2 DEF CloseType, Postings
  <2> QED BY <1>0, <2>1 DEF ClosePostings, NoPosting, Account, Posted
<1>3. CASE t \in FundingType
  <2>1. Postings(t) = FundingPostings(t) /\ t.amount \in Int /\ t.type = "FUNDING"
    BY <1>3 DEF FundingType, Postings
  <2> QED BY <2>1 DEF FundingPostings, NoPosting, Account, Posted
<1> QED BY <1>1, <1>2, <1>3 DEF FuturesEntry

-----------------------------------------------------------------------------
(* The spot replay: what it holds does not depend on the perpetual entries. *)

Holding(b) == <<b.qty, b.cost, b.known, b.ok, b.funded>>

\* What a replay can return: never below zero lots, and a position behind them.
Replay == {b \in BooksType : b.qty \in Nat /\ (b.qty # 0 => b.known)}

LEMMA ReplayTyped ==
  ASSUME NEW b \in Replay, NEW t \in Entry
  PROVE  /\ ApplyTransaction(b, t) \in Replay
         /\ ApplyTransaction(b, t).ok => b.ok /\ ApplyTransaction(b, t).funded
         /\ b.funded => ApplyTransaction(b, t).funded
<1> DEFINE m == MoveBalance(b, t)
<1> USE DEF Replay
<1>0. t \in TradeType \/ t \in DepositType \/ t \in FuturesEntry
  BY DEF Entry
<1>1. Posted(t, "CASH") \in Int /\ Posted(t, "MARGIN") \in Int
  <2>1. \A account \in Account : Posted(t, account) \in Int
    BY <1>0, TradePosts, DepositPosts, FuturesPosts, Zenon
  <2> QED BY <2>1 DEF Account
<1>2. m = [cash |-> b.cash + Posted(t, "CASH") + Posted(t, "MARGIN"), funded |-> TRUE,
           known |-> b.known, qty |-> b.qty, cost |-> b.cost, ok |-> b.ok]
  <2> DEFINE cash == b.cash + Posted(t, "CASH") + Posted(t, "MARGIN")
  <2>1. m = [b EXCEPT !.cash = cash, !.funded = TRUE]
    BY DEF MoveBalance
  <2> HIDE DEF cash
  <2>2. m = [cash |-> cash, funded |-> TRUE, known |-> b.known, qty |-> b.qty,
             cost |-> b.cost, ok |-> b.ok]
    BY <2>1 DEF BooksType
  <2> QED BY <2>2 DEF cash
<1>3. m \in Replay
  BY <1>1, <1>2 DEF BooksType
<1> HIDE DEF m
<1>4. t.type = "TRADE" => t.price \in Nat
  BY <1>0, PricesAssumption
     DEF FuturesEntry, TradeType, DepositType, OpenType, CloseType, FundingType
<1>5. ASSUME b.ok, t.type = "TRADE"
      PROVE  /\ ApplyTransaction(b, t) \in Replay
             /\ ApplyTransaction(b, t).funded
  <2>1. ApplyTransaction(b, t) = ApplyTrade(m, t)
    BY <1>5 DEF ApplyTransaction, m
  <2>2. m.qty \in Nat /\ m.cost \in Nat /\ m.funded
    BY <1>2 DEF BooksType
  <2>3. CASE t.side = "BUY"
    <3>1. ApplyTrade(m, t) = [m EXCEPT !.qty = @ + 1, !.cost = @ + t.price, !.known = TRUE]
      BY <2>3 DEF ApplyTrade
    <3>2. m.qty + 1 \in Nat /\ m.cost + t.price \in Nat
      BY <1>4, <1>5, <2>2
    <3>3. ApplyTrade(m, t) = [cash |-> m.cash, funded |-> m.funded, known |-> TRUE,
                              qty |-> m.qty + 1, cost |-> m.cost + t.price, ok |-> m.ok]
      BY <1>3, <3>1 DEF BooksType
    <3> QED BY <1>3, <2>1, <2>2, <3>2, <3>3 DEF BooksType
  <2>4. CASE t.side # "BUY" /\ m.qty < 1
    <3>1. ApplyTrade(m, t) = [m EXCEPT !.ok = FALSE]
      BY <2>4 DEF ApplyTrade
    <3>2. ApplyTrade(m, t) = [cash |-> m.cash, funded |-> m.funded, known |-> m.known,
                              qty |-> m.qty, cost |-> m.cost, ok |-> FALSE]
      BY <1>3, <3>1 DEF BooksType
    <3> QED BY <1>3, <2>1, <2>2, <3>2 DEF BooksType
  <2>5. CASE t.side # "BUY" /\ m.qty >= 1
    <3>1. Average(m) \in 0..m.cost
      BY <2>2, <2>5, AverageOf DEF Average
    <3>2. Max({m.cost - Average(m), 0}) \in Nat
      BY <3>1, <2>2, MaxOfTwo
    <3> DEFINE cost == IF m.qty = 1 THEN 0 ELSE Max({m.cost - Average(m), 0})
    <3>0. ~(m.qty < 1)
      BY <2>2, <2>5
    <3>3. ApplyTrade(m, t) = [m EXCEPT !.qty = @ - 1, !.cost = cost]
      BY <2>5, <3>0 DEF ApplyTrade
    <3>5. ApplyTrade(m, t) = [cash |-> m.cash, funded |-> m.funded, known |-> m.known,
                              qty |-> m.qty - 1, cost |-> cost, ok |-> m.ok]
      BY <1>3, <3>3 DEF BooksType
    <3>4. m.qty - 1 \in Nat /\ cost \in Nat
      BY <2>2, <2>5, <3>2
    <3> HIDE DEF cost
    <3> QED BY <1>3, <2>1, <2>2, <3>4, <3>5 DEF BooksType
  <2> QED BY <2>2, <2>3, <2>4, <2>5
<1>6. ASSUME b.ok, t.type # "TRADE"
      PROVE  ApplyTransaction(b, t) = m
  BY <1>6 DEF ApplyTransaction, m
<1>7. ~b.ok => ApplyTransaction(b, t) = b
  BY DEF ApplyTransaction
<1>8. CASE ~b.ok
  BY <1>7, <1>8
<1>9. CASE b.ok /\ t.type = "TRADE"
  BY <1>5, <1>9
<1>10. CASE b.ok /\ t.type # "TRADE"
  <2>1. ApplyTransaction(b, t) = m /\ m.qty = b.qty /\ m.funded
    BY <1>2, <1>6, <1>10
  <2> QED BY <1>3, <1>10, <2>1
<1> QED BY <1>8, <1>9, <1>10

\* The two replays hold the same after the same trade or deposit.
LEMMA ReplayHolds ==
  ASSUME NEW a \in BooksType, NEW b \in BooksType, Holding(a) = Holding(b),
         NEW t \in Entry
  PROVE  Holding(ApplyTransaction(a, t)) = Holding(ApplyTransaction(b, t))
<1> DEFINE ma == MoveBalance(a, t)
           mb == MoveBalance(b, t)
<1>1. /\ ma.qty = a.qty /\ ma.cost = a.cost /\ ma.known = a.known /\ ma.ok = a.ok
      /\ mb.qty = b.qty /\ mb.cost = b.cost /\ mb.known = b.known /\ mb.ok = b.ok
      /\ ma.funded /\ mb.funded
      /\ DOMAIN ma = DOMAIN EmptyBooks /\ DOMAIN mb = DOMAIN EmptyBooks
  BY DEF MoveBalance, BooksType, EmptyBooks
<1>2. ma.funded = TRUE /\ mb.funded = TRUE
  BY DEF MoveBalance, BooksType
<1> HIDE DEF ma, mb
<1>3. Holding(ma) = Holding(mb)
  BY <1>1, <1>2 DEF Holding
<1>4. Holding(ApplyTrade(ma, t)) = Holding(ApplyTrade(mb, t))
  <2>1. Average(ma) = Average(mb)
    BY <1>3 DEF Holding, Average
  <2>2. CASE t.side = "BUY"
    BY <1>1, <1>2, <1>3, <2>2 DEF Holding, ApplyTrade, EmptyBooks
  <2>3. CASE t.side # "BUY" /\ ma.qty < 1
    BY <1>1, <1>2, <1>3, <2>3 DEF Holding, ApplyTrade, EmptyBooks
  <2>4. CASE t.side # "BUY" /\ ~(ma.qty < 1)
    BY <1>1, <1>2, <1>3, <2>1, <2>4 DEF Holding, ApplyTrade, EmptyBooks
  <2> QED BY <2>2, <2>3, <2>4
<1> QED BY <1>3, <1>4 DEF Holding, ApplyTransaction, ma, mb

\* A transaction that is no trade moves cash alone.
LEMMA OnlyCash ==
  ASSUME NEW b \in BooksType, NEW t, t.type # "TRADE"
  PROVE  /\ ApplyTransaction(b, t).qty = b.qty /\ ApplyTransaction(b, t).cost = b.cost
         /\ ApplyTransaction(b, t).known = b.known /\ ApplyTransaction(b, t).ok = b.ok
         /\ b.funded = TRUE => Holding(ApplyTransaction(b, t)) = Holding(b)
  BY DEF ApplyTransaction, MoveBalance, Holding, BooksType

-----------------------------------------------------------------------------
(* The exchange executes what the replay will read.                        *)

VenueType == [cash : Int, base : Int, qty : Int, cost : Nat, listed : BOOLEAN]

\* The books b are those of the exchange v, unless a sale of too much has ended
\* their replay.
AreBooksOf(b, v) ==
  b.ok =>
    /\ b.cash = v.cash /\ b.qty = v.qty /\ b.cost = v.cost
    /\ v.base # 0 => b.known /\ v.listed
    /\ ~v.listed => b.qty = 0

\* What the settlement of a fill writes, but for the cost released, which no
\* replay of a holding looks at.
FillEntry(fill) == Trade(fill.side, fill.price, 0)

FillType == [side : Side, price : Prices]

LEMMA FillIsTrade ==
  ASSUME NEW fill \in FillType, NEW released \in Int
  PROVE  Trade(fill.side, fill.price, released) \in TradeType
  BY DEF FillType, TradeType, Trade

LEMMA ReleasedIsIgnored ==
  ASSUME NEW b \in BooksType, NEW fill \in FillType, NEW released \in Int
  PROVE  ApplyTransaction(b, Trade(fill.side, fill.price, released))
           = ApplyTransaction(b, FillEntry(fill))
<1> DEFINE t == Trade(fill.side, fill.price, released)
           u == FillEntry(fill)
<1>1. /\ t \in TradeType /\ u \in TradeType
      /\ t.side = u.side /\ t.price = u.price /\ t.type = "TRADE" /\ u.type = "TRADE"
  BY FillIsTrade DEF FillEntry, Trade
<1> HIDE DEF t, u
<1>2. Posted(t, "CASH") = Posted(u, "CASH") /\ Posted(t, "MARGIN") = Posted(u, "MARGIN")
  BY <1>1, TradePosts
<1>3. MoveBalance(b, t) = MoveBalance(b, u)
  BY <1>2 DEF MoveBalance
<1>4. ApplyTrade(MoveBalance(b, t), t) = ApplyTrade(MoveBalance(b, u), u)
  BY <1>1, <1>3 DEF ApplyTrade
<1> QED BY <1>1, <1>4 DEF ApplyTransaction, t, u

LEMMA VenueTyped ==
  ASSUME venue \in VenueType, NEW fill \in FillType
  PROVE  Moved(fill.side, fill.price) \in VenueType
<1>1. fill.price \in Nat /\ Fee \in Nat /\ venue.cost \in Nat
  BY PricesAssumption, AmountsAssumption DEF FillType, VenueType
<1> DEFINE avg == IF venue.qty > 0 THEN venue.cost \div venue.qty ELSE 0
<1>2. avg \in Nat
  BY <1>1, AverageOf DEF VenueType
<1> HIDE DEF avg
<1>3. Max({venue.cost - avg, 0}) \in Nat
  BY <1>1, <1>2, MaxOfTwo
<1> QED BY <1>1, <1>3 DEF Moved, VenueType, avg

LEMMA Executes ==
  ASSUME venue \in VenueType, NEW b \in Replay, NEW fill \in FillType,
         AreBooksOf(b, venue)
  PROVE  AreBooksOf(ApplyTransaction(b, FillEntry(fill)), Moved(fill.side, fill.price))
<1> USE DEF Replay
<1> DEFINE t == FillEntry(fill)
           m == MoveBalance(b, t)
           v == Moved(fill.side, fill.price)
           p == fill.price
<1>1. t \in TradeType /\ t.side = fill.side /\ t.price = p /\ t.type = "TRADE"
      /\ p \in Int /\ Fee \in Int /\ fill.side \in Side
  <2>1. t \in TradeType
    BY FillIsTrade DEF FillEntry
  <2>2. t.side = fill.side /\ t.price = p /\ t.type = "TRADE"
    BY DEF FillEntry, Trade
  <2>3. p \in Nat /\ Fee \in Nat /\ fill.side \in Side
    BY PricesAssumption, AmountsAssumption DEF FillType
  <2> QED BY <2>1, <2>2, <2>3
<1>2. Posted(t, "MARGIN") = 0
      /\ Posted(t, "CASH") = IF fill.side = "BUY" THEN -(p + Fee) ELSE p - Fee
  BY <1>1, TradePosts
<1> SUFFICES AreBooksOf(ApplyTransaction(b, t), v)
  OBVIOUS
<1> DEFINE move == IF fill.side = "BUY" THEN -(p + Fee) ELSE p - Fee
<1> HIDE DEF t, p, move
<1>3. m \in BooksType /\ m.qty = b.qty /\ m.cost = b.cost /\ m.known = b.known
      /\ m.ok = b.ok /\ m.funded = TRUE
      /\ m.cash = b.cash + move
  <2>1. move \in Int
    BY <1>1 DEF move
  <2>2. m = [b EXCEPT !.cash = b.cash + move, !.funded = TRUE]
    <3>1. b.cash + move + 0 = b.cash + move
      BY <2>1 DEF BooksType
    <3> QED BY <1>2, <3>1 DEF MoveBalance, move
  <2>3. m = [cash |-> b.cash + move, funded |-> TRUE, known |-> b.known, qty |-> b.qty,
             cost |-> b.cost, ok |-> b.ok]
    <3> DEFINE cash == b.cash + move
    <3> HIDE DEF cash
    <3>1. m = [b EXCEPT !.cash = cash, !.funded = TRUE]
      BY <2>2 DEF cash
    <3> HIDE DEF m
    <3>2. m = [cash |-> cash, funded |-> TRUE, known |-> b.known, qty |-> b.qty,
               cost |-> b.cost, ok |-> b.ok]
      BY <3>1 DEF BooksType
    <3> QED BY <3>2 DEF cash
  <2> HIDE DEF m
  <2> QED BY <2>1, <2>3 DEF BooksType
<1> HIDE DEF m, v
<1>4. ApplyTransaction(b, t) = IF ~b.ok THEN b ELSE ApplyTrade(m, t)
  BY <1>1 DEF ApplyTransaction, m
<1>5. CASE ~b.ok
  <2>1. ApplyTransaction(b, t) = b
    BY <1>4, <1>5
  <2> QED BY <1>5, <2>1 DEF AreBooksOf
<1> SUFFICES ASSUME b.ok PROVE AreBooksOf(ApplyTrade(m, t), v)
  BY <1>4, <1>5
<1>6. /\ b.cash = venue.cash /\ b.qty = venue.qty /\ b.cost = venue.cost
      /\ venue.base # 0 => b.known /\ venue.listed
      /\ ~venue.listed => b.qty = 0
  BY DEF AreBooksOf
<1>7. CASE fill.side = "BUY"
  <2>1. v = [cash |-> venue.cash - p - Fee, base |-> venue.base + 1, qty |-> venue.qty + 1,
             cost |-> venue.cost + p, listed |-> TRUE]
    BY <1>7 DEF Moved, v, p
  <2>2. ApplyTrade(m, t) = [m EXCEPT !.qty = @ + 1, !.cost = @ + p, !.known = TRUE]
    BY <1>1, <1>7 DEF ApplyTrade
  <2>3. /\ ApplyTrade(m, t).cash = m.cash /\ ApplyTrade(m, t).qty = m.qty + 1
        /\ ApplyTrade(m, t).cost = m.cost + p /\ ApplyTrade(m, t).known
    BY <1>3, <2>2 DEF BooksType
  <2>4. venue.cash - p - Fee = b.cash + (-(p + Fee))
    BY <1>1, <1>6 DEF VenueType, BooksType
  <2> QED BY <1>3, <1>6, <1>7, <2>1, <2>3, <2>4 DEF move, AreBooksOf
<1>8. CASE fill.side = "SELL"
  <2>1. CASE m.qty < 1
    BY <1>1, <1>3, <1>8, <2>1 DEF ApplyTrade, AreBooksOf, BooksType
  <2>2. CASE ~(m.qty < 1)
    <3> DEFINE cost == IF b.qty = 1 THEN 0 ELSE Max({b.cost - (b.cost \div b.qty), 0})
    <3>1. b.qty > 0 /\ b.known /\ venue.listed
      BY <1>3, <1>6, <2>2 DEF BooksType
    <3>2. v = [cash |-> venue.cash + p - Fee, base |-> venue.base - 1,
               qty |-> venue.qty - 1, cost |-> cost, listed |-> TRUE]
      BY <1>6, <1>8, <3>1 DEF Moved, v, p
    <3>3. ApplyTrade(m, t) = [m EXCEPT !.qty = @ - 1, !.cost = cost]
      BY <1>1, <1>3, <1>8, <2>2, <3>1 DEF ApplyTrade, Average
    <3> HIDE DEF cost
    <3>4. /\ ApplyTrade(m, t).cash = m.cash /\ ApplyTrade(m, t).qty = m.qty - 1
          /\ ApplyTrade(m, t).cost = cost /\ ApplyTrade(m, t).known = m.known
      BY <1>3, <3>3 DEF BooksType
    <3>5. venue.cash + p - Fee = b.cash + move
      BY <1>1, <1>6, <1>8 DEF VenueType, BooksType, move
    <3> QED BY <1>3, <1>6, <3>1, <3>2, <3>4, <3>5 DEF AreBooksOf
  <2> QED BY <2>1, <2>2
<1> QED BY <1>1, <1>7, <1>8 DEF Side

-----------------------------------------------------------------------------
(* The invariant.                                                          *)

\* A flat position carries no margin, and no margin is held but the position's.
FuturesSound(f) ==
  /\ f \in FuturesType
  /\ f.margin = f.pos.margin
  /\ f.pos.qty = 0 => f.pos.margin = 0
  /\ f.pos.side = "FLAT" <=> f.pos.qty = 0

JournalSound ==
  /\ journal \in [total : [Account -> Int], all : Replay, spot : Replay,
                  futures : FuturesType]
  /\ Holding(journal.all) = Holding(journal.spot)
  /\ FuturesSound(journal.futures)
  /\ journal.total["MARGIN"] = journal.futures.margin

SameLots(a, b) == a.qty = b.qty /\ a.cost = b.cost

\* Between the record of a fill and the refresh that ends its settlement the table
\* is behind, and the view that will replace it is not.
TableSound ==
  Replayable =>
    /\ torn # "open" /\ settle.stage \in {"idle", "booked"} => SameLots(table, journal.all)
    /\ settle.stage = "replayed" => SameLots(settle.view, journal.all)
    /\ torn = "never" => journal.total["POSITION_ASSET"] = journal.all.cost

PhaseSound ==
  /\ phase # "running" => queue = <<>> /\ settle = NoFill /\ lost = NothingLost
  /\ phase # "down" => journal.spot.funded
  /\ settle.stage = "booked" => settle.price \in Prices
  /\ {table, settle.view} \subseteq Replay

\* The spot books once the fill between order row and journal is recorded, and
\* once the fills in the queue have followed it: those of the exchange.
Pending == IF settle.stage = "booked" THEN ApplyTransaction(journal.spot, FillEntry(Booked))
           ELSE journal.spot

CatchesUp(books) ==
  /\ books[0] = Pending
  /\ \A i \in 1..Len(queue) :
       books[i] = ApplyTransaction(books[i - 1], FillEntry(queue[i]))
  /\ AreBooksOf(books[Len(queue)], venue)

VenueSound ==
  phase = "running" /\ lost.fills = 0 =>
    \E books \in [0..Len(queue) -> Replay] : CatchesUp(books)

\* The cash and the lots of the journal, with what was dropped and what the event
\* loop has taken off the queue; the fills in the queue lead from there to those of
\* the exchange.
InHand(move)  == IF settle.stage = "booked" THEN move ELSE 0
CashSoFar     == journal.spot.cash + lost.cash + InHand(Paid(Booked))
LotsSoFar     == journal.spot.qty + lost.qty + InHand(Lots(Booked))

CountsUp(cash, lots) ==
  /\ cash[0] = CashSoFar /\ lots[0] = LotsSoFar
  /\ \A i \in 1..Len(queue) :
       cash[i] = cash[i - 1] + Paid(queue[i]) /\ lots[i] = lots[i - 1] + Lots(queue[i])
  /\ cash[Len(queue)] = venue.cash /\ lots[Len(queue)] = venue.qty

GapSound ==
  phase = "running" /\ Replayable =>
    \E cash, lots \in [0..Len(queue) -> Int] : CountsUp(cash, lots)

BooksInv ==
  TypeOK /\ JournalSound /\ TableSound /\ PhaseSound /\ VenueSound /\ GapSound

-----------------------------------------------------------------------------
(* A transaction keeps the journal sound.                                  *)

\* An opening adds to its own side or opens a flat position; a closing gives back
\* a part of the margin, and all of it with the last lot.
Fits(f, t) ==
  /\ t.type = "OPEN" => f.pos.side \in {"FLAT", t.side}
  /\ t.type = "CLOSE" =>
       /\ 1 <= f.pos.qty /\ t.qty <= f.pos.qty /\ t.margin <= f.pos.margin
       /\ t.qty = f.pos.qty => t.margin = f.pos.margin

LEMMA OpenSound ==
  ASSUME NEW f, FuturesSound(f), NEW t \in OpenType, Fits(f, t)
  PROVE  FuturesSound(ApplyOpen(f, t)) /\ ApplyOpen(f, t).margin = f.margin + t.margin
<1>1. /\ t.type = "OPEN" /\ t.side \in {"LONG", "SHORT"} /\ t.qty = 1 /\ t.price \in Nat
      /\ t.margin \in Nat
  BY PricesAssumption DEF OpenType
<1>2. /\ f.pos.qty \in Nat /\ f.pos.avg \in Nat /\ f.pos.margin \in Nat /\ f.margin \in Nat
      /\ f.pos \in [side : {"FLAT", "LONG", "SHORT"}, qty : Nat, avg : Nat, margin : Nat]
  BY DEF FuturesSound, FuturesType
<1>3. f.margin = f.pos.margin /\ (f.pos.qty = 0 => f.pos.margin = 0)
      /\ (f.pos.side = "FLAT" <=> f.pos.qty = 0)
  BY DEF FuturesSound
<1> DEFINE pos == ApplyOpen(f, t).pos
<1>4. ApplyOpen(f, t) = [pos |-> pos, margin |-> f.margin + t.margin]
  BY DEF ApplyOpen
<1>5. CASE f.pos.qty = 0
  <2>1. pos = [side |-> t.side, qty |-> 1, avg |-> t.price, margin |-> t.margin]
    BY <1>1, <1>5 DEF ApplyOpen
  <2> HIDE DEF pos
  <2> QED BY <1>1, <1>2, <1>3, <1>4, <1>5, <2>1 DEF FuturesSound, FuturesType
<1>6. CASE f.pos.qty # 0
  <2>1. f.pos.side = t.side
    BY <1>1, <1>3, <1>6 DEF Fits
  <2> DEFINE avg == (f.pos.avg * f.pos.qty + t.price * t.qty) \div (f.pos.qty + t.qty)
  <2>2. pos = [f.pos EXCEPT !.qty = f.pos.qty + t.qty, !.margin = @ + t.margin, !.avg = avg]
    BY <1>6, <2>1 DEF ApplyOpen
  <2>3. avg \in Nat
    <3>1. f.pos.avg * f.pos.qty \in Nat /\ t.price * t.qty \in Nat
      BY <1>1, <1>2
    <3>2. f.pos.avg * f.pos.qty + t.price * t.qty \in Nat /\ f.pos.qty + t.qty \in Nat \ {0}
      BY <1>1, <1>2, <3>1
    <3> QED BY <3>2, AverageOf
  <2> HIDE DEF pos, avg
  <2>4. pos = [side |-> f.pos.side, qty |-> f.pos.qty + 1, avg |-> avg,
               margin |-> f.pos.margin + t.margin]
    BY <1>1, <1>2, <2>2
  <2>5. pos \in [side : {"FLAT", "LONG", "SHORT"}, qty : Nat, avg : Nat, margin : Nat]
    BY <1>1, <1>2, <2>3, <2>4
  <2> QED BY <1>1, <1>2, <1>3, <1>4, <1>6, <2>4, <2>5 DEF FuturesSound, FuturesType
<1> QED BY <1>5, <1>6

LEMMA CloseSound ==
  ASSUME NEW f, FuturesSound(f), NEW t \in CloseType, Fits(f, t)
  PROVE  FuturesSound(ApplyClose(f, t)) /\ ApplyClose(f, t).margin = f.margin - t.margin
<1>1. /\ t.type = "CLOSE" /\ t.qty \in Nat \ {0} /\ t.margin \in Nat
  BY DEF CloseType
<1>2. /\ f.pos.qty \in Nat /\ f.pos.avg \in Nat /\ f.pos.margin \in Nat /\ f.margin \in Nat
      /\ f.pos \in [side : {"FLAT", "LONG", "SHORT"}, qty : Nat, avg : Nat, margin : Nat]
  BY DEF FuturesSound, FuturesType
<1>3. f.margin = f.pos.margin /\ (f.pos.qty = 0 => f.pos.margin = 0)
      /\ (f.pos.side = "FLAT" <=> f.pos.qty = 0)
  BY DEF FuturesSound
<1>4. /\ 1 <= f.pos.qty /\ t.qty <= f.pos.qty /\ t.margin <= f.pos.margin
      /\ t.qty = f.pos.qty => t.margin = f.pos.margin
  BY <1>1 DEF Fits
<1>5. Max({f.margin - t.margin, 0}) = f.margin - t.margin
      /\ Max({f.pos.margin - t.margin, 0}) = f.pos.margin - t.margin
  BY <1>1, <1>2, <1>3, <1>4, MaxOfTwo
<1> DEFINE left == f.margin - t.margin
           pos  == ApplyClose(f, t).pos
<1>6. left \in Nat
  BY <1>1, <1>2, <1>3, <1>4
<1>7. ApplyClose(f, t) = [pos |-> pos, margin |-> left]
  BY <1>2, <1>4, <1>5 DEF ApplyClose
<1>8. CASE f.pos.qty = t.qty
  <2>1. pos = Flat
    BY <1>2, <1>4, <1>8 DEF ApplyClose
  <2> HIDE DEF pos
  <2> QED BY <1>1, <1>2, <1>3, <1>4, <1>6, <1>7, <1>8, <2>1
          DEF FuturesSound, FuturesType, Flat
<1>9. CASE f.pos.qty # t.qty
  <2>1. ~(f.pos.qty <= t.qty) /\ f.pos.qty # 0
    BY <1>1, <1>2, <1>4, <1>9
  <2>2. pos = [f.pos EXCEPT !.qty = @ - t.qty, !.margin = Max({@ - t.margin, 0})]
    BY <2>1 DEF ApplyClose
  <2>3. f.pos.margin - t.margin = left
    BY <1>3
  <2> HIDE DEF pos, left
  <2>4. pos = [side |-> f.pos.side, qty |-> f.pos.qty - t.qty, avg |-> f.pos.avg,
               margin |-> left]
    BY <1>2, <1>5, <2>2, <2>3
  <2>5. f.pos.qty - t.qty \in Nat \ {0}
    BY <1>1, <1>2, <1>4, <1>9
  <2>6. pos \in [side : {"FLAT", "LONG", "SHORT"}, qty : Nat, avg : Nat, margin : Nat]
    BY <1>2, <1>6, <2>4, <2>5
  <2>7. FuturesSound(ApplyClose(f, t))
    BY <1>2, <1>3, <1>4, <1>6, <1>7, <2>4, <2>5, <2>6 DEF FuturesSound, FuturesType
  <2> QED BY <1>7, <2>7 DEF left
<1> QED BY <1>8, <1>9

LEMMA RecordSound ==
  ASSUME JournalSound, NEW t \in Entry, Fits(journal.futures, t), Record(t),
         t \in FuturesEntry => journal.spot.funded
  PROVE  /\ JournalSound'
         /\ journal.spot.funded \/ (t \in DepositType /\ Balanced(t) /\ journal.spot.ok)
              => journal'.spot.funded
         /\ journal'.all.ok => journal.all.ok
         /\ t.type # "TRADE" =>
              /\ SameLots(journal'.all, journal.all)
              /\ journal'.total["POSITION_ASSET"] = journal.total["POSITION_ASSET"]
         /\ t \in FuturesEntry => journal'.spot = journal.spot
<1> DEFINE total == [a \in Account |-> journal.total[a] + Posted(t, a)]
           all   == ApplyTransaction(journal.all, t)
           spot  == IF InSpotScope(t) THEN ApplyTransaction(journal.spot, t) ELSE journal.spot
           fut   == ApplyFutures(journal.futures, t)
<1>0. t \in TradeType \/ t \in DepositType \/ t \in FuturesEntry
  BY DEF Entry
<1>1. /\ journal.total \in [Account -> Int] /\ journal.all \in Replay
      /\ journal.spot \in Replay /\ journal.futures \in FuturesType
      /\ Holding(journal.all) = Holding(journal.spot) /\ FuturesSound(journal.futures)
      /\ journal.total["MARGIN"] = journal.futures.margin
  BY DEF JournalSound
<1>2. CASE ~Balanced(t)
  <2>1. journal' = journal
    BY <1>2 DEF Record
  <2> QED BY <1>1, <1>2, <2>1 DEF JournalSound, SameLots
<1> SUFFICES ASSUME Balanced(t)
    PROVE /\ JournalSound'
          /\ journal.spot.funded \/ (t \in DepositType /\ Balanced(t) /\ journal.spot.ok)
              => journal'.spot.funded
          /\ journal'.all.ok => journal.all.ok
          /\ t.type # "TRADE" =>
               /\ SameLots(journal'.all, journal.all)
               /\ journal'.total["POSITION_ASSET"] = journal.total["POSITION_ASSET"]
          /\ t \in FuturesEntry => journal'.spot = journal.spot
  BY <1>2
<1>3. journal' = [total |-> total, all |-> all, spot |-> spot, futures |-> fut]
  BY DEF Record
<1>4. \A a \in Account : Posted(t, a) \in Int
  BY <1>0, TradePosts, DepositPosts, FuturesPosts, Zenon
<1>5. total \in [Account -> Int]
  BY <1>1, <1>4
<1>6. all \in Replay /\ spot \in Replay /\ (all.ok => journal.all.ok)
  BY <1>1, ReplayTyped
<1>7. t \in FuturesEntry => t.type \in FuturesTypes
  BY DEF FuturesEntry, OpenType, CloseType, FundingType, FuturesTypes
<1>8. t \in TradeType \/ t \in DepositType => t.type \notin FuturesTypes
  BY DEF TradeType, DepositType, FuturesTypes
<1>9. Holding(all) = Holding(spot)
  <2>1. CASE InSpotScope(t)
    BY <1>1, <2>1, ReplayHolds DEF Replay
  <2>2. CASE ~InSpotScope(t)
    <3>1. t \in FuturesEntry /\ t.type # "TRADE"
      BY <1>0, <1>8, <2>2 DEF InSpotScope, FuturesTypes
    <3>2. journal.all.funded = TRUE
      BY <1>1, <3>1 DEF Holding, Replay, BooksType
    <3>3. Holding(all) = Holding(journal.all)
      BY <1>1, <3>1, <3>2, OnlyCash DEF Replay
    <3> QED BY <1>1, <2>2, <3>3
  <2> QED BY <2>1, <2>2
<1>10. FuturesSound(fut) /\ total["MARGIN"] = fut.margin
  <2>0. "MARGIN" \in Account
    BY DEF Account
  <2>1. CASE t \in OpenType
    <3>1. fut = ApplyOpen(journal.futures, t) /\ t.type = "OPEN" /\ t \in FuturesEntry
      BY <2>1 DEF ApplyFutures, OpenType, FuturesEntry
    <3>2. Posted(t, "MARGIN") = t.margin
      BY <3>1, FuturesPosts
    <3> QED BY <1>1, <2>0, <2>1, <3>1, <3>2, OpenSound
  <2>2. CASE t \in CloseType
    <3>1. fut = ApplyClose(journal.futures, t) /\ t.type = "CLOSE" /\ t \in FuturesEntry
      BY <2>2 DEF ApplyFutures, CloseType, FuturesEntry
    <3>2. Posted(t, "MARGIN") = -t.margin /\ t.margin \in Nat
      BY <2>2, <3>1, FuturesPosts DEF CloseType
    <3>3. journal.futures.margin \in Nat
      BY <1>1 DEF FuturesType
    <3> QED BY <1>1, <2>0, <2>2, <3>1, <3>2, <3>3, CloseSound
  <2>3. CASE t \notin OpenType /\ t \notin CloseType
    <3>1. t \in FundingType \/ t \in TradeType \/ t \in DepositType
      BY <1>0, <2>3 DEF FuturesEntry
    <3>2. t.type \notin {"OPEN", "CLOSE"}
      BY <3>1 DEF FundingType, TradeType, DepositType
    <3>3. fut = journal.futures
      BY <3>2 DEF ApplyFutures
    <3>4. Posted(t, "MARGIN") = 0
      <4>1. t \in FundingType => t \in FuturesEntry /\ t.type = "FUNDING"
        BY DEF FuturesEntry, FundingType
      <4> QED BY <3>1, <4>1, TradePosts, DepositPosts, FuturesPosts
    <3>5. journal.total["MARGIN"] \in Int
      BY <1>1, <2>0
    <3> QED BY <1>1, <2>0, <3>3, <3>4, <3>5
  <2> QED BY <2>1, <2>2, <2>3
<1>11. t.type # "TRADE" =>
         SameLots(all, journal.all) /\ total["POSITION_ASSET"] = journal.total["POSITION_ASSET"]
  <2> SUFFICES ASSUME t.type # "TRADE"
      PROVE SameLots(all, journal.all)
            /\ total["POSITION_ASSET"] = journal.total["POSITION_ASSET"]
    OBVIOUS
  <2>1. SameLots(all, journal.all)
    BY <1>1, OnlyCash DEF Replay, SameLots
  <2>2. Posted(t, "POSITION_ASSET") = 0
    <3>1. t \notin TradeType
      BY DEF TradeType
    <3> QED BY <1>0, <3>1, DepositPosts, FuturesPosts
  <2>3. "POSITION_ASSET" \in Account /\ journal.total["POSITION_ASSET"] \in Int
    BY <1>1 DEF Account
  <2> QED BY <2>1, <2>2, <2>3
<1>12. t \in FuturesEntry => spot = journal.spot
  BY <1>7 DEF InSpotScope
<1>13. journal.spot.funded \/ (t \in DepositType /\ journal.spot.ok) => spot.funded
  <2>1. journal.spot.funded => spot.funded
    BY <1>1, ReplayTyped
  <2>2. ASSUME t \in DepositType, journal.spot.ok PROVE spot.funded
    <3>1. t.type # "TRADE" /\ spot = ApplyTransaction(journal.spot, t)
      BY <1>8, <2>2 DEF InSpotScope, DepositType
    <3>2. spot.ok = journal.spot.ok
      BY <1>1, <3>1, OnlyCash DEF Replay
    <3>3. ApplyTransaction(journal.spot, t).ok => ApplyTransaction(journal.spot, t).funded
      BY <1>1, ReplayTyped
    <3> QED BY <2>2, <3>1, <3>2, <3>3
  <2> QED BY <2>1, <2>2
<1> HIDE DEF total, all, spot, fut
<1> QED BY <1>3, <1>5, <1>6, <1>9, <1>10, <1>11, <1>12, <1>13 DEF JournalSound, FuturesSound

-----------------------------------------------------------------------------
(* Every action keeps the invariant.                                       *)

LEMMA JournalTyped ==
  ASSUME NEW j \in [total : [Account -> Int], all : Replay, spot : Replay,
                    futures : FuturesType]
  PROVE  /\ j \in [total : [Account -> Int], all : BooksType, spot : BooksType,
                   futures : FuturesType]
         /\ j.all.qty \in Nat /\ j.spot.qty \in Nat
  BY DEF Replay

\* A step that neither executes, books nor records a fill.
LEMMA VenueKept ==
  ASSUME VenueSound, UNCHANGED <<venue, queue, phase>>, Pending' = Pending,
         lost'.fills = 0 => lost.fills = 0
  PROVE  VenueSound'
  BY DEF VenueSound, CatchesUp

LEMMA GapKept ==
  ASSUME GapSound, UNCHANGED <<venue, queue, phase>>, Replayable' => Replayable,
         Replayable' => CashSoFar' = CashSoFar /\ LotsSoFar' = LotsSoFar
  PROVE  GapSound'
  BY DEF GapSound, CountsUp

\* A fill moves the cash and the lots of the exchange, of a replay that takes it and
\* of what was dropped alike.
LEMMA FillMoves ==
  ASSUME NEW fill \in FillType
  PROVE  /\ Paid(fill) \in Int /\ Lots(fill) \in Int
         /\ venue \in VenueType =>
              /\ Moved(fill.side, fill.price).cash = venue.cash + Paid(fill)
              /\ Moved(fill.side, fill.price).qty = venue.qty + Lots(fill)
<1>1. fill.price \in Nat /\ Fee \in Nat /\ fill.side \in Side
  BY PricesAssumption, AmountsAssumption DEF FillType
<1>2. Paid(fill) \in Int /\ Lots(fill) \in Int
  BY <1>1 DEF Paid, Lots
<1>3. ASSUME venue \in VenueType
      PROVE  /\ Moved(fill.side, fill.price).cash = venue.cash + Paid(fill)
             /\ Moved(fill.side, fill.price).qty = venue.qty + Lots(fill)
  <2>1. venue.cash \in Int /\ venue.qty \in Int
    BY <1>3 DEF VenueType
  <2>2. CASE fill.side = "BUY"
    BY <1>1, <2>1, <2>2 DEF Moved, Paid, Lots
  <2>3. CASE fill.side = "SELL"
    BY <1>1, <2>1, <2>3 DEF Moved, Paid, Lots
  <2> QED BY <1>1, <2>2, <2>3 DEF Side
<1> QED BY <1>2, <1>3

LEMMA TradeMoves ==
  ASSUME NEW b \in Replay, NEW fill \in FillType, NEW released \in Int, b.ok,
         ApplyTransaction(b, Trade(fill.side, fill.price, released)).ok
  PROVE  /\ ApplyTransaction(b, Trade(fill.side, fill.price, released)).cash
              = b.cash + Paid(fill)
         /\ ApplyTransaction(b, Trade(fill.side, fill.price, released)).qty
              = b.qty + Lots(fill)
<1> DEFINE t == Trade(fill.side, fill.price, released)
           m == MoveBalance(b, t)
<1>1. t \in TradeType /\ t.type = "TRADE" /\ t.side = fill.side /\ t.price = fill.price
  BY FillIsTrade DEF Trade
<1>2. Posted(t, "MARGIN") = 0 /\ Posted(t, "CASH") = Paid(fill)
  BY <1>1, TradePosts DEF Paid
<1>3. ApplyTransaction(b, t) = ApplyTrade(m, t)
  BY <1>1 DEF ApplyTransaction
<1>4. Paid(fill) \in Int /\ b.cash \in Int /\ b.qty \in Nat
      /\ DOMAIN b = DOMAIN EmptyBooks
  BY FillMoves DEF Replay, BooksType, EmptyBooks
<1>5. m.qty = b.qty /\ m.cash = b.cash + Paid(fill) /\ DOMAIN m = DOMAIN EmptyBooks
  BY <1>2, <1>4 DEF MoveBalance, EmptyBooks
<1> HIDE DEF t, m
<1>6. CASE fill.side = "BUY"
  BY <1>1, <1>3, <1>4, <1>5, <1>6 DEF ApplyTrade, EmptyBooks, Lots, t
<1>7. CASE fill.side # "BUY"
  <2>1. CASE m.qty < 1
    BY <1>1, <1>3, <1>5, <1>7, <2>1 DEF ApplyTrade, EmptyBooks, t
  <2>2. CASE ~(m.qty < 1)
    BY <1>1, <1>3, <1>4, <1>5, <1>7, <2>2 DEF ApplyTrade, EmptyBooks, Lots, t
  <2> QED BY <2>1, <2>2
<1> QED BY <1>6, <1>7

\* The event loop takes the head of the queue: into its hands or among the dropped.
LEMMA HeadTaken ==
  ASSUME GapSound, queue \in Seq(FillType), queue # <<>>, queue' = Tail(queue),
         UNCHANGED <<venue, phase>>, Replayable' => Replayable,
         CashSoFar' = CashSoFar + Paid(Head(queue)),
         LotsSoFar' = LotsSoFar + Lots(Head(queue))
  PROVE  GapSound'
<1> DEFINE n == Len(queue)
<1>1. /\ n \in Nat \ {0} /\ Head(queue) = queue[1] /\ Len(queue') = n - 1
      /\ \A i \in 1..n - 1 : queue'[i] = queue[i + 1]
  OBVIOUS
<1> SUFFICES ASSUME phase = "running", Replayable
             PROVE  \E cash, lots \in [0..n - 1 -> Int] : CountsUp(cash, lots)'
  BY <1>1 DEF GapSound
<1>2. PICK cash \in [0..n -> Int] : \E lots \in [0..n -> Int] : CountsUp(cash, lots)
  BY DEF GapSound
<1>3. PICK lots \in [0..n -> Int] : CountsUp(cash, lots)
  BY <1>2
<1>9. PICK c \in [0..n - 1 -> Int] : \A i \in 0..n - 1 : c[i] = cash[i + 1]
  <2>1. [i \in 0..n - 1 |-> cash[i + 1]] \in [0..n - 1 -> Int]
    BY <1>1
  <2> QED BY <2>1
<1>10. PICK l \in [0..n - 1 -> Int] : \A i \in 0..n - 1 : l[i] = lots[i + 1]
  <2>1. [i \in 0..n - 1 |-> lots[i + 1]] \in [0..n - 1 -> Int]
    BY <1>1
  <2> QED BY <2>1
<1>4. /\ c \in [0..n - 1 -> Int] /\ \A i \in 0..n - 1 : c[i] = cash[i + 1]
      /\ l \in [0..n - 1 -> Int] /\ \A i \in 0..n - 1 : l[i] = lots[i + 1]
  BY <1>9, <1>10
<1>5. c[0] = CashSoFar' /\ l[0] = LotsSoFar'
  <2>1. /\ cash[1] = cash[0] + Paid(queue[1]) /\ lots[1] = lots[0] + Lots(queue[1])
        /\ cash[0] = CashSoFar /\ lots[0] = LotsSoFar
    BY <1>1, <1>3 DEF CountsUp
  <2> QED BY <1>1, <1>4, <2>1
<1>6. ASSUME NEW i \in 1..n - 1
      PROVE  c[i] = c[i - 1] + Paid(queue'[i]) /\ l[i] = l[i - 1] + Lots(queue'[i])
  <2>1. i + 1 \in 1..n /\ i \in 0..n - 1 /\ i - 1 \in 0..n - 1 /\ i - 1 + 1 = i
        /\ i + 1 - 1 = i
    BY <1>1
  <2>2. cash[i + 1] = cash[i] + Paid(queue[i + 1]) /\ lots[i + 1] = lots[i] + Lots(queue[i + 1])
    BY <1>3, <2>1 DEF CountsUp
  <2> QED BY <1>1, <1>4, <2>1, <2>2
<1>7. c[n - 1] = venue'.cash /\ l[n - 1] = venue'.qty
  <2>1. n - 1 \in 0..n - 1 /\ n - 1 + 1 = n
    BY <1>1
  <2> QED BY <1>3, <1>4, <2>1 DEF CountsUp
<1>8. CountsUp(c, l)'
  BY <1>1, <1>5, <1>6, <1>7 DEF CountsUp
<1> QED BY <1>4, <1>8

LEMMA EmptyIsReplay == EmptyBooks \in Replay
  BY DEF EmptyBooks, Replay, BooksType

LEMMA RebuiltIsReplay ==
  ASSUME journal.all \in Replay, initial \in Int
  PROVE  Rebuilt \in Replay /\ SameLots(Rebuilt, journal.all)
<1> DEFINE cash == journal.all.cash + initial
<1>1. cash \in Int
  BY DEF Replay, BooksType
<1>2. Rebuilt = [journal.all EXCEPT !.cash = cash]
  BY DEF Rebuilt
<1> HIDE DEF cash
<1> QED BY <1>1, <1>2 DEF Replay, BooksType, SameLots

LEMMA BooksInitial == Init => BooksInv
<1> SUFFICES ASSUME Init PROVE BooksInv
  OBVIOUS
<1>1. /\ journal = EmptyJournal /\ table = EmptyBooks /\ venue = NewVenue /\ queue = <<>>
      /\ settle = NoFill /\ recon = NoRound /\ phase = "down" /\ initial = 0
      /\ halted = FALSE /\ ended = {} /\ orders = 0 /\ crashes = 0 /\ faults = 0
      /\ lost = NothingLost /\ torn = "never"
  BY DEF Init
<1>2. NoPosting \in [Account -> Int] /\ NoPosting["MARGIN"] = 0
      /\ NoPosting["POSITION_ASSET"] = 0
  BY DEF NoPosting, Account
<1>3. FuturesSound(EmptyFutures) /\ EmptyFutures.margin = 0
  BY DEF FuturesSound, EmptyFutures, Flat, FuturesType
<1>4. JournalSound
  BY <1>1, <1>2, <1>3, EmptyIsReplay DEF JournalSound, EmptyJournal, FuturesSound
<1>5. TypeOK
  <2>1. journal \in [total : [Account -> Int], all : BooksType, spot : BooksType,
                     futures : FuturesType]
        /\ journal.all.qty \in Nat /\ journal.spot.qty \in Nat
    BY <1>4, JournalTyped DEF JournalSound
  <2>2. EmptyBooks \in BooksType /\ EmptyBooks.qty \in Nat
    BY EmptyIsReplay DEF Replay
  <2>3. venue \in [cash : Int, base : Int, qty : Int, cost : Nat, listed : BOOLEAN]
    BY <1>1, AmountsAssumption DEF NewVenue
  <2>4. 0 \in 0..MaxOrders /\ 0 \in 0..MaxCrashes /\ 0 \in 0..MaxFaults
    BY BoundsAssumption
  <2>5. queue \in Seq([side : {"BUY", "SELL"}, price : Prices])
    BY <1>1
  <2>6. settle \in [stage : {"idle", "booked", "recorded", "replayed"}, side : {"BUY", "SELL"},
                    price : Prices \cup {0}, view : BooksType]
        /\ recon \in [stage : {"idle", "read", "compared"}, local : BooksType, alarm : BOOLEAN]
    BY <1>1, <2>2 DEF NoFill, NoRound
  <2>7. table \in BooksType /\ initial \in Int
        /\ {journal.all.qty, journal.spot.qty, table.qty} \subseteq Nat
    BY <1>1, <2>1, <2>2
  <2>8. /\ halted \in BOOLEAN /\ ended \subseteq {"tick", "recon"}
        /\ phase \in {"down", "seeding", "seeded", "running"}
        /\ orders \in 0..MaxOrders /\ crashes \in 0..MaxCrashes /\ faults \in 0..MaxFaults
    BY <1>1, <2>4
  <2>9. /\ lost \in [fills : Nat, cash : Int, qty : Int, listed : BOOLEAN]
        /\ torn \in {"never", "open", "mended"}
    BY <1>1 DEF NothingLost
  <2> QED BY <2>1, <2>3, <2>5, <2>6, <2>7, <2>8, <2>9, Zenon DEF TypeOK
<1>6. TableSound
  BY <1>1, <1>2 DEF TableSound, SameLots, EmptyJournal, NoFill, EmptyBooks
<1>7. PhaseSound
  BY <1>1, EmptyIsReplay DEF PhaseSound, NoFill
<1>8. VenueSound /\ GapSound
  BY <1>1 DEF VenueSound, GapSound
<1> QED BY <1>4, <1>5, <1>6, <1>7, <1>8 DEF BooksInv

LEMMA SeedKept == BooksInv /\ Seed => BooksInv'
<1> SUFFICES ASSUME BooksInv, Seed PROVE BooksInv'
  OBVIOUS
<1> USE DEF BooksInv
<1>1. /\ phase = "down" /\ Replayable
      /\ UNCHANGED <<table, venue, loops, history, bounds>>
      /\ UNCHANGED <<queue, settle, recon, halted, ended, lost, torn, orders, crashes, faults>>
  BY DEF Seed, loops, history, bounds
<1>2. queue = <<>> /\ settle = NoFill /\ lost = NothingLost
  BY <1>1 DEF PhaseSound
<1>3. CASE journal.all.funded
  <2>1. initial' = journal.all.cash /\ phase' = "seeded" /\ journal' = journal
    BY <1>3 DEF Seed
  <2>2. journal.all.cash \in Int
    BY DEF JournalSound, Replay, BooksType
  <2>3. TypeOK'
    BY <1>1, <2>1, <2>2 DEF TypeOK
  <2>4. journal.spot.funded
    BY <1>3 DEF JournalSound, Holding
  <2> QED BY <1>1, <1>2, <2>1, <2>3, <2>4
          DEF JournalSound, TableSound, PhaseSound, VenueSound, GapSound, Replayable
<1>4. CASE ~journal.all.funded
  <2> DEFINE t == Funds(venue.cash)
  <2>1. initial' = venue.cash /\ phase' = "seeding" /\ Record(t)
    BY <1>4 DEF Seed
  <2>2. venue.cash \in Int
    BY DEF TypeOK
  <2>3. t \in DepositType /\ t \in Entry /\ t.type = "DEPOSIT"
    BY <2>2 DEF DepositType, Entry, Funds
  <2>4. t \notin FuturesEntry
    BY <2>3 DEF FuturesEntry, OpenType, CloseType, FundingType
  <2> HIDE DEF t
  <2>5. Balanced(t)
    BY <2>3, DepositPosts
  <2>6. journal.spot.ok
    BY <1>1 DEF JournalSound, Holding, Replayable
  <2>7. /\ JournalSound'
        /\ journal.spot.funded \/ (t \in DepositType /\ Balanced(t) /\ journal.spot.ok)
             => journal'.spot.funded
        /\ journal'.all.ok => journal.all.ok
        /\ t.type # "TRADE" =>
             /\ SameLots(journal'.all, journal.all)
             /\ journal'.total["POSITION_ASSET"] = journal.total["POSITION_ASSET"]
    BY <2>1, <2>3, <2>4, RecordSound DEF Fits
  <2>8. TypeOK'
    <3>1. /\ journal' \in [total : [Account -> Int], all : BooksType, spot : BooksType,
                            futures : FuturesType]
          /\ journal'.all.qty \in Nat /\ journal'.spot.qty \in Nat
      BY <2>7, JournalTyped DEF JournalSound
    <3> QED BY <1>1, <2>1, <2>2, <3>1 DEF TypeOK
  <2>9. TableSound'
    BY <1>1, <2>3, <2>7 DEF TableSound, SameLots, Replayable
  <2>10. PhaseSound'
    BY <1>1, <1>2, <2>1, <2>3, <2>5, <2>6, <2>7 DEF PhaseSound
  <2> QED BY <2>1, <2>7, <2>8, <2>9, <2>10 DEF VenueSound, GapSound
<1> QED BY <1>3, <1>4

LEMMA SeedRefreshKept == BooksInv /\ SeedRefresh => BooksInv'
<1> SUFFICES ASSUME BooksInv, SeedRefresh PROVE BooksInv'
  OBVIOUS
<1> USE DEF BooksInv
<1>1. /\ phase = "seeding" /\ table' = Rebuilt /\ phase' = "seeded"
      /\ UNCHANGED <<journal, initial, venue, queue, settle, recon, halted, ended, lost, torn,
                     orders, crashes, faults>>
  BY DEF SeedRefresh, loops, history, bounds
<1>2. Rebuilt \in Replay /\ SameLots(Rebuilt, journal.all)
  BY RebuiltIsReplay DEF JournalSound, TypeOK
<1>3. TypeOK'
  BY <1>1, <1>2 DEF TypeOK, Replay
<1>4. JournalSound'
  BY <1>1 DEF JournalSound
<1>5. TableSound'
  BY <1>1, <1>2 DEF TableSound, PhaseSound, NoFill, Replayable
<1> QED BY <1>1, <1>2, <1>3, <1>4, <1>5 DEF PhaseSound, VenueSound, GapSound

LEMMA HydrateKept == BooksInv /\ Hydrate => BooksInv'
<1> SUFFICES ASSUME BooksInv, Hydrate PROVE BooksInv'
  OBVIOUS
<1> USE DEF BooksInv
<1>1. /\ phase = "seeded" /\ phase' = "running" /\ venue' = Hydrated(journal.spot)
      /\ UNCHANGED <<journal, table, initial, queue, settle, recon, halted, ended, lost, torn,
                     orders, crashes, faults>>
  BY DEF Hydrate, loops, history, bounds
<1>2. queue = <<>> /\ settle = NoFill /\ journal.spot.funded /\ journal.spot \in Replay
      /\ lost = NothingLost
  BY <1>1 DEF PhaseSound, JournalSound
<1>3. venue' = [cash |-> journal.spot.cash, base |-> 0, qty |-> journal.spot.qty,
                cost |-> journal.spot.cost, listed |-> journal.spot.qty # 0]
  BY <1>1, <1>2 DEF Hydrated
<1>4. venue' \in [cash : Int, base : Int, qty : Int, cost : Nat, listed : BOOLEAN]
  BY <1>2, <1>3 DEF Replay, BooksType
<1>5. TypeOK'
  BY <1>1, <1>4 DEF TypeOK
<1>6. JournalSound' /\ TableSound' /\ PhaseSound'
  BY <1>1, <1>2 DEF JournalSound, TableSound, PhaseSound, Replayable
<1>7. VenueSound'
  <2>1. Len(queue') = 0 /\ Pending' = journal.spot
    BY <1>1, <1>2 DEF Pending, NoFill
  <2>2. PICK books \in [0..Len(queue') -> Replay] : books[0] = journal.spot
    <3>1. [i \in 0..0 |-> journal.spot] \in [0..Len(queue') -> Replay]
      BY <1>2, <2>1
    <3>2. [i \in 0..0 |-> journal.spot][0] = journal.spot
      OBVIOUS
    <3> QED BY <3>1, <3>2
  <2>3. AreBooksOf(journal.spot, venue')
    BY <1>3 DEF AreBooksOf
  <2>4. CatchesUp(books)'
    BY <2>1, <2>2, <2>3 DEF CatchesUp
  <2> QED BY <2>2, <2>4 DEF VenueSound
<1>8. GapSound'
  <2>1. /\ Len(queue') = 0 /\ CashSoFar' = journal.spot.cash /\ LotsSoFar' = journal.spot.qty
        /\ journal.spot.cash \in Int /\ journal.spot.qty \in Int
    BY <1>1, <1>2 DEF CashSoFar, LotsSoFar, InHand, NoFill, NothingLost, Replay, BooksType
  <2>2. PICK cash \in [0..0 -> Int] : cash[0] = journal.spot.cash
    <3>1. [i \in 0..0 |-> journal.spot.cash] \in [0..0 -> Int]
      BY <2>1
    <3>2. [i \in 0..0 |-> journal.spot.cash][0] = journal.spot.cash
      OBVIOUS
    <3> QED BY <3>1, <3>2
  <2>3. PICK lots \in [0..0 -> Int] : lots[0] = journal.spot.qty
    <3>1. [i \in 0..0 |-> journal.spot.qty] \in [0..0 -> Int]
      BY <2>1
    <3>2. [i \in 0..0 |-> journal.spot.qty][0] = journal.spot.qty
      OBVIOUS
    <3> QED BY <3>1, <3>2
  <2>4. CountsUp(cash, lots)'
    BY <1>3, <2>1, <2>2, <2>3 DEF CountsUp
  <2> QED BY <2>1, <2>2, <2>3, <2>4 DEF GapSound
<1> QED BY <1>5, <1>6, <1>7, <1>8

LEMMA CrashKept == BooksInv /\ Crash => BooksInv'
<1> SUFFICES ASSUME BooksInv, Crash PROVE BooksInv'
  OBVIOUS
<1> USE DEF BooksInv
<1>1. /\ crashes < MaxCrashes /\ crashes' = crashes + 1 /\ phase' = "down"
      /\ venue' = NewVenue /\ initial' = 0 /\ queue' = <<>> /\ settle' = NoFill
      /\ recon' = NoRound /\ halted' = FALSE /\ ended' = {} /\ lost' = NothingLost
      /\ torn' = (IF Unrefreshed THEN "open" ELSE torn)
      /\ UNCHANGED <<journal, table, orders, faults>>
  BY DEF Crash
<1>2. crashes' \in 0..MaxCrashes
  BY <1>1, BoundsAssumption DEF TypeOK
<1>3. TypeOK'
  <2>1. /\ queue' \in Seq([side : {"BUY", "SELL"}, price : Prices])
        /\ venue' \in [cash : Int, base : Int, qty : Int, cost : Nat, listed : BOOLEAN]
    BY <1>1, AmountsAssumption DEF NewVenue
  <2>2. EmptyBooks \in BooksType
    BY EmptyIsReplay DEF Replay
  <2>3. settle' \in [stage : {"idle", "booked", "recorded", "replayed"}, side : {"BUY", "SELL"},
                     price : Prices \cup {0}, view : BooksType]
        /\ recon' \in [stage : {"idle", "read", "compared"}, local : BooksType, alarm : BOOLEAN]
    BY <1>1, <2>2 DEF NoFill, NoRound
  <2>4. initial' \in Int /\ ended' \subseteq {"tick", "recon"}
        /\ phase' \in {"down", "seeding", "seeded", "running"}
    BY <1>1
  <2>6. halted' \in BOOLEAN
    BY <1>1
  <2>5. journal' = journal /\ table' = table /\ orders' = orders /\ faults' = faults
    BY <1>1
  <2>7. /\ lost' \in [fills : Nat, cash : Int, qty : Int, listed : BOOLEAN]
        /\ torn' \in {"never", "open", "mended"}
    BY <1>1 DEF NothingLost, TypeOK
  <2> QED BY <1>2, <2>1, <2>3, <2>4, <2>5, <2>6, <2>7 DEF TypeOK
<1>4. JournalSound'
  BY <1>1 DEF JournalSound
<1>6. TableSound'
  <2>1. settle'.stage = "idle"
    BY <1>1 DEF NoFill
  <2>2. ASSUME torn' # "open" PROVE torn' = torn /\ settle.stage \in {"idle", "booked"}
    BY <1>1, <2>2 DEF TypeOK, Unrefreshed
  <2>3. torn' = "never" => torn = "never"
    BY <1>1
  <2> QED BY <1>1, <2>1, <2>2, <2>3 DEF TableSound, Replayable
<1>5. PhaseSound' /\ VenueSound' /\ GapSound'
  BY <1>1, EmptyIsReplay DEF PhaseSound, VenueSound, GapSound, NoFill
<1> QED BY <1>3, <1>4, <1>5, <1>6

LEMMA SpotOrderKept ==
  ASSUME BooksInv, NEW side \in Side, NEW price \in Prices, SpotOrder(side, price)
  PROVE  BooksInv'
<1> USE DEF BooksInv
<1> DEFINE fill == [side |-> side, price |-> price]
<1>1. /\ phase = "running" /\ Replayable /\ orders < MaxOrders
      /\ venue' = Moved(side, price) /\ queue' = Append(queue, fill) /\ orders' = orders + 1
      /\ UNCHANGED <<journal, table, initial, settle, recon, halted, ended, phase, lost, torn,
                     crashes, faults>>
  BY DEF SpotOrder, Ticking, history
<1>2. fill \in FillType /\ fill.side = side /\ fill.price = price
  BY DEF FillType
<1>3. venue \in VenueType /\ queue \in Seq(FillType)
  BY DEF TypeOK, VenueType, FillType, Side
<1> HIDE DEF fill
<1>4. venue' \in VenueType
  BY <1>1, <1>2, <1>3, VenueTyped
<1>5. /\ queue' \in Seq(FillType) /\ Len(queue') = Len(queue) + 1
      /\ queue'[Len(queue) + 1] = fill
      /\ \A i \in 1..Len(queue) : queue'[i] = queue[i]
  BY <1>1, <1>2, <1>3
<1>6. TypeOK'
  <2>1. orders' \in 0..MaxOrders
    BY <1>1, BoundsAssumption DEF TypeOK
  <2>2. /\ venue' \in [cash : Int, base : Int, qty : Int, cost : Nat, listed : BOOLEAN]
        /\ queue' \in Seq([side : {"BUY", "SELL"}, price : Prices])
    BY <1>4, <1>5 DEF VenueType, FillType, Side
  <2> QED BY <1>1, <2>1, <2>2 DEF TypeOK
<1>7. JournalSound' /\ TableSound' /\ PhaseSound'
  BY <1>1 DEF JournalSound, TableSound, PhaseSound, Replayable
<1>8. VenueSound'
  <2> SUFFICES ASSUME lost.fills = 0
               PROVE  \E books \in [0..Len(queue') -> Replay] : CatchesUp(books)'
    BY <1>1 DEF VenueSound
  <2>1. PICK books \in [0..Len(queue) -> Replay] : CatchesUp(books)
    BY <1>1 DEF VenueSound
  <2> DEFINE n    == Len(queue)
             last == ApplyTransaction(books[n], FillEntry(fill))
  <2>2. n \in Nat /\ books[n] \in Replay
    BY <1>3
  <2>3. last \in Replay
    <3>1. FillEntry(fill) \in Entry
      BY <1>2, FillIsTrade DEF FillEntry, Entry
    <3> QED BY <2>2, <3>1, ReplayTyped
  <2>4. AreBooksOf(last, venue')
    <3>1. AreBooksOf(books[n], venue)
      BY <2>1 DEF CatchesUp
    <3> QED BY <1>1, <1>2, <1>3, <2>2, <3>1, Executes
  <2> HIDE DEF last
  <2>5. PICK more \in [0..n + 1 -> Replay] :
          more[n + 1] = last /\ \A i \in 0..n : more[i] = books[i]
    <3> DEFINE f == [i \in 0..n + 1 |-> IF i = n + 1 THEN last ELSE books[i]]
    <3>1. f \in [0..n + 1 -> Replay]
      BY <2>2, <2>3
    <3>2. f[n + 1] = last /\ \A i \in 0..n : f[i] = books[i]
      BY <2>2
    <3> QED BY <3>1, <3>2
  <2>6. Pending' = Pending
    BY <1>1 DEF Pending, Booked
  <2>7. CatchesUp(more)'
    <3>1. more[0] = Pending'
      BY <2>1, <2>2, <2>5, <2>6 DEF CatchesUp
    <3>2. ASSUME NEW i \in 1..Len(queue')
          PROVE  more[i] = ApplyTransaction(more[i - 1], FillEntry(queue'[i]))
      <4>1. CASE i = n + 1
        <5>1. more[i - 1] = books[n]
          BY <2>2, <2>5, <4>1
        <5> QED BY <1>5, <2>5, <4>1, <5>1 DEF last
      <4>2. CASE i # n + 1
        <5>1. i \in 1..n /\ i - 1 \in 0..n
          BY <1>5, <2>2, <4>2
        <5>2. books[i] = ApplyTransaction(books[i - 1], FillEntry(queue[i]))
          BY <2>1, <5>1 DEF CatchesUp
        <5> QED BY <1>5, <2>2, <2>5, <5>1, <5>2
      <4> QED BY <4>1, <4>2
    <3>3. AreBooksOf(more[Len(queue')], venue')
      BY <1>5, <2>4, <2>5
    <3> QED BY <3>1, <3>2, <3>3 DEF CatchesUp
  <2> QED BY <1>5, <2>5, <2>7
<1>9. GapSound'
  <2> DEFINE n == Len(queue)
  <2>1. PICK cash \in [0..n -> Int] : \E lots \in [0..n -> Int] : CountsUp(cash, lots)
    BY <1>1 DEF GapSound
  <2>2. PICK lots \in [0..n -> Int] : CountsUp(cash, lots)
    BY <2>1
  <2>3. n \in Nat /\ Paid(fill) \in Int /\ Lots(fill) \in Int
        /\ venue'.cash = venue.cash + Paid(fill) /\ venue'.qty = venue.qty + Lots(fill)
    BY <1>1, <1>2, <1>3, FillMoves
  <2>4. venue'.cash \in Int /\ venue'.qty \in Int
    BY <1>4 DEF VenueType
  <2>9. PICK c \in [0..n + 1 -> Int] :
          c[n + 1] = venue'.cash /\ \A i \in 0..n : c[i] = cash[i]
    <3> DEFINE f == [i \in 0..n + 1 |-> IF i = n + 1 THEN venue'.cash ELSE cash[i]]
    <3>1. f \in [0..n + 1 -> Int]
      BY <2>3, <2>4
    <3>2. f[n + 1] = venue'.cash /\ \A i \in 0..n : f[i] = cash[i]
      BY <2>3
    <3> QED BY <3>1, <3>2
  <2>10. PICK l \in [0..n + 1 -> Int] :
          l[n + 1] = venue'.qty /\ \A i \in 0..n : l[i] = lots[i]
    <3> DEFINE f == [i \in 0..n + 1 |-> IF i = n + 1 THEN venue'.qty ELSE lots[i]]
    <3>1. f \in [0..n + 1 -> Int]
      BY <2>3, <2>4
    <3>2. f[n + 1] = venue'.qty /\ \A i \in 0..n : f[i] = lots[i]
      BY <2>3
    <3> QED BY <3>1, <3>2
  <2>5. /\ c \in [0..n + 1 -> Int] /\ c[n + 1] = venue'.cash /\ \A i \in 0..n : c[i] = cash[i]
        /\ l \in [0..n + 1 -> Int] /\ l[n + 1] = venue'.qty /\ \A i \in 0..n : l[i] = lots[i]
    BY <2>9, <2>10
  <2>6. c[0] = CashSoFar' /\ l[0] = LotsSoFar'
    <3>1. CashSoFar' = CashSoFar /\ LotsSoFar' = LotsSoFar
      BY <1>1 DEF CashSoFar, LotsSoFar, InHand, Booked
    <3> QED BY <2>2, <2>3, <2>5, <3>1 DEF CountsUp
  <2>7. ASSUME NEW i \in 1..n + 1
        PROVE  c[i] = c[i - 1] + Paid(queue'[i]) /\ l[i] = l[i - 1] + Lots(queue'[i])
    <3>1. CASE i = n + 1
      <4>1. n \in 0..n /\ i - 1 = n
        BY <2>3, <3>1
      <4>2. cash[n] = venue.cash /\ lots[n] = venue.qty
        BY <2>2 DEF CountsUp
      <4> QED BY <1>5, <2>3, <2>5, <3>1, <4>1, <4>2
    <3>2. CASE i # n + 1
      <4>1. i \in 1..n /\ i \in 0..n /\ i - 1 \in 0..n
        BY <2>3, <3>2
      <4>2. cash[i] = cash[i - 1] + Paid(queue[i]) /\ lots[i] = lots[i - 1] + Lots(queue[i])
        BY <2>2, <4>1 DEF CountsUp
      <4> QED BY <1>5, <2>5, <4>1, <4>2
    <3> QED BY <3>1, <3>2
  <2>8. CountsUp(c, l)'
    BY <1>5, <2>5, <2>6, <2>7 DEF CountsUp
  <2> QED BY <1>5, <2>5, <2>8 DEF GapSound
<1> QED BY <1>6, <1>7, <1>8, <1>9

\* A perpetual entry: the spot view is left alone, and the holding with it.
LEMMA FuturesKept ==
  ASSUME BooksInv, NEW t \in FuturesEntry, Fits(journal.futures, t), FuturesOperation(t)
  PROVE  BooksInv'
<1> USE DEF BooksInv
<1>1. /\ phase = "running" /\ orders < MaxOrders /\ Record(t) /\ orders' = orders + 1
      /\ UNCHANGED <<table, initial, venue, queue, settle, recon, halted, ended, phase, lost, torn,
                     crashes, faults>>
  BY DEF FuturesOperation, Ticking, loops, history
<1>2. t \in Entry /\ t.type # "TRADE"
  BY DEF Entry, FuturesEntry, OpenType, CloseType, FundingType
<1>3. journal.spot.funded
  BY <1>1 DEF PhaseSound
<1>4. /\ JournalSound' /\ (journal'.all.ok => journal.all.ok)
      /\ SameLots(journal'.all, journal.all)
      /\ journal'.total["POSITION_ASSET"] = journal.total["POSITION_ASSET"]
      /\ journal'.spot = journal.spot
  BY <1>1, <1>2, <1>3, RecordSound
<1>5. TypeOK'
  <2>1. orders' \in 0..MaxOrders
    BY <1>1, BoundsAssumption DEF TypeOK
  <2>2. /\ journal' \in [total : [Account -> Int], all : BooksType, spot : BooksType,
                          futures : FuturesType]
        /\ journal'.all.qty \in Nat /\ journal'.spot.qty \in Nat
    BY <1>4, JournalTyped DEF JournalSound
  <2> QED BY <1>1, <2>1, <2>2 DEF TypeOK
<1>6. TableSound' /\ PhaseSound'
  BY <1>1, <1>4 DEF TableSound, PhaseSound, SameLots, Replayable
<1>7. VenueSound'
  <2>1. Pending' = Pending
    BY <1>1, <1>4 DEF Pending, Booked
  <2> QED BY <1>1, <2>1, VenueKept
<1>8. GapSound'
  <2>1. CashSoFar' = CashSoFar /\ LotsSoFar' = LotsSoFar
    BY <1>1, <1>4 DEF CashSoFar, LotsSoFar, InHand, Booked
  <2> QED BY <1>1, <1>4, <2>1, GapKept DEF Replayable
<1> QED BY <1>4, <1>5, <1>6, <1>7, <1>8

LEMMA OpenPositionKept ==
  ASSUME BooksInv, NEW side \in {"LONG", "SHORT"}, NEW price \in Prices,
         OpenPosition(side, price)
  PROVE  BooksInv'
<1> DEFINE t == Opened(side, price)
<1>1. t \in OpenType /\ t.type = "OPEN" /\ t.side = side
  <2>1. price \in Nat /\ Leverage \in Nat \ {0}
    BY PricesAssumption, AmountsAssumption
  <2>2. price \div Leverage \in Nat
    BY <2>1, AverageOf
  <2> QED BY <2>2 DEF Opened, OpenType
<1>2. FuturesOperation(t) /\ journal.futures.pos.side \in {"FLAT", side}
  BY DEF OpenPosition, Position
<1> HIDE DEF t
<1>3. Fits(journal.futures, t)
  BY <1>1, <1>2 DEF Fits
<1> QED BY <1>1, <1>2, <1>3, FuturesKept DEF FuturesEntry

\* The margin released is the share of the lots closed.
LEMMA ClosedFits ==
  ASSUME BooksInv, NEW qty \in 1..Position.qty, NEW mark \in Prices, Position.qty > 0,
         NEW t, FuturesOperation(t),
         t \in {Closed(Position, qty, mark), [Closed(Position, qty, mark) EXCEPT !.pnl = 0]}
  PROVE  BooksInv'
<1> DEFINE f == journal.futures
           c == Closed(Position, qty, mark)
<1>1. /\ f.pos \in [side : {"FLAT", "LONG", "SHORT"}, qty : Nat, avg : Nat, margin : Nat]
      /\ f.pos.side = "FLAT" <=> f.pos.qty = 0
  BY DEF BooksInv, JournalSound, FuturesSound, FuturesType
<1>2. /\ f.pos.qty \in Nat \ {0} /\ f.pos.margin \in Nat /\ f.pos.avg \in Nat
      /\ f.pos.side \in {"LONG", "SHORT"} /\ qty \in Nat \ {0} /\ qty \in 0..f.pos.qty
      /\ mark \in Nat
  BY <1>1, PricesAssumption DEF Position
<1>3. c = [type |-> "CLOSE", side |-> f.pos.side, qty |-> qty, entry |-> f.pos.avg,
           pnl |-> Gain(f.pos, mark, qty), margin |-> (f.pos.margin * qty) \div f.pos.qty]
  BY DEF Closed, Position
<1>4. /\ (f.pos.margin * qty) \div f.pos.qty \in 0..f.pos.margin
      /\ (f.pos.margin * f.pos.qty) \div f.pos.qty = f.pos.margin
  BY <1>2, ShareOf
<1>5. Gain(f.pos, mark, qty) \in Int
  <2>1. mark - f.pos.avg \in Int /\ f.pos.avg - mark \in Int
    BY <1>2
  <2> QED BY <1>2, <2>1 DEF Gain
<1>6. c \in CloseType
  BY <1>2, <1>3, <1>4, <1>5 DEF CloseType
<1>7. Fits(f, c)
  BY <1>2, <1>3, <1>4 DEF Fits
<1> HIDE DEF c
<1>8. t \in CloseType /\ t.type = c.type /\ t.qty = c.qty /\ t.margin = c.margin
  <2>1. CASE t = c
    BY <1>6, <2>1
  <2>2. CASE t = [c EXCEPT !.pnl = 0]
    BY <1>6, <2>2 DEF CloseType
  <2> QED BY <2>1, <2>2 DEF c
<1>9. Fits(f, t)
  <2>1. c.type = "CLOSE"
    BY <1>6 DEF CloseType
  <2> QED BY <1>7, <1>8, <2>1 DEF Fits
<1> QED BY <1>8, <1>9, FuturesKept DEF FuturesEntry

LEMMA ClosePositionKept ==
  ASSUME BooksInv, NEW qty \in 1..MaxLots, NEW price \in Prices, ClosePosition(qty, price)
  PROVE  BooksInv'
<1>1. Position.qty \in Nat /\ Position.qty > 0
  BY DEF ClosePosition, Position, BooksInv, JournalSound, FuturesSound, FuturesType
<1>2. Min({qty, Position.qty}) \in 1..Position.qty
  BY <1>1, BoundsAssumption, MinOfTwo
<1> QED BY <1>1, <1>2, ClosedFits DEF ClosePosition

LEMMA LiquidateKept ==
  ASSUME BooksInv, NEW mark \in Prices, Liquidate(mark)
  PROVE  BooksInv'
<1>1. Position.qty \in Nat /\ Position.qty > 0
  BY DEF Liquidate, Position, BooksInv, JournalSound, FuturesSound, FuturesType
<1>2. Position.qty \in 1..Position.qty
  BY <1>1
<1> QED BY <1>1, <1>2, ClosedFits DEF Liquidate

LEMMA ApplyFundingKept ==
  ASSUME BooksInv, NEW rate \in Rates, ApplyFunding(rate)
  PROVE  BooksInv'
<1> DEFINE amount == (IF Position.side = "LONG" THEN -rate ELSE rate) * Position.qty
           t == Funding(amount)
<1>1. FuturesOperation(t)
  BY DEF ApplyFunding
<1>2. amount \in Int
  <2>1. Position.qty \in Int /\ rate \in Int
    BY RatesAssumption DEF Position, BooksInv, JournalSound, FuturesSound, FuturesType
  <2> QED BY <2>1
<1> HIDE DEF amount
<1>3. t \in FundingType /\ t.type = "FUNDING"
  BY <1>2 DEF Funding, FundingType
<1> HIDE DEF t
<1>4. Fits(journal.futures, t)
  BY <1>3 DEF Fits
<1> QED BY <1>1, <1>3, <1>4, FuturesKept DEF FuturesEntry

LEMMA BookFillKept == BooksInv /\ BookFill => BooksInv'
<1> SUFFICES ASSUME BooksInv, BookFill PROVE BooksInv'
  OBVIOUS
<1> USE DEF BooksInv
<1>1. /\ phase = "running" /\ settle.stage = "idle" /\ queue # <<>>
      /\ settle' = [NoFill EXCEPT !.stage = "booked", !.side = Head(queue).side,
                                  !.price = Head(queue).price]
      /\ queue' = Tail(queue)
      /\ UNCHANGED <<journal, table, initial, venue, recon, halted, ended, phase, lost, torn,
                     orders, crashes, faults>>
  BY DEF BookFill, Settling, history, bounds
<1>2. queue \in Seq(FillType)
  BY DEF TypeOK, FillType, Side
<1> DEFINE n == Len(queue)
<1>3. /\ n \in Nat \ {0} /\ Head(queue) = queue[1] /\ queue[1] \in FillType
      /\ queue' \in Seq(FillType) /\ Len(queue') = n - 1
      /\ \A i \in 1..n - 1 : queue'[i] = queue[i + 1]
  BY <1>1, <1>2
<1>4. settle' = [stage |-> "booked", side |-> queue[1].side, price |-> queue[1].price,
                 view |-> EmptyBooks]
  BY <1>1, <1>3 DEF NoFill
<1>5. TypeOK'
  <2>1. EmptyBooks \in BooksType
    BY EmptyIsReplay DEF Replay
  <2>2. settle' \in [stage : {"idle", "booked", "recorded", "replayed"}, side : {"BUY", "SELL"},
                     price : Prices \cup {0}, view : BooksType]
        /\ queue' \in Seq([side : {"BUY", "SELL"}, price : Prices])
    BY <1>3, <1>4, <2>1 DEF FillType, Side
  <2> QED BY <1>1, <2>2 DEF TypeOK
<1>6. JournalSound' /\ TableSound'
  <2>1. settle'.stage = "booked"
    BY <1>4
  <2> QED BY <1>1, <2>1 DEF JournalSound, TableSound, Replayable
<1>7. PhaseSound'
  <2>1. settle'.price \in Prices /\ settle'.view \in Replay
    BY <1>3, <1>4, EmptyIsReplay DEF FillType
  <2> QED BY <1>1, <2>1 DEF PhaseSound
<1>8. VenueSound'
  <2> SUFFICES ASSUME lost.fills = 0
               PROVE  \E books \in [0..Len(queue') -> Replay] : CatchesUp(books)'
    BY <1>1 DEF VenueSound
  <2>1. PICK books \in [0..n -> Replay] : CatchesUp(books)
    BY <1>1 DEF VenueSound
  <2>2. PICK later \in [0..n - 1 -> Replay] : \A i \in 0..n - 1 : later[i] = books[i + 1]
    <3> DEFINE f == [i \in 0..n - 1 |-> books[i + 1]]
    <3>1. f \in [0..n - 1 -> Replay] /\ \A i \in 0..n - 1 : f[i] = books[i + 1]
      BY <1>3
    <3> QED BY <3>1
  <2>3. Booked' = queue[1]
    BY <1>3, <1>4 DEF Booked, FillType
  <2>4. books[0] = journal.spot
    BY <1>1, <2>1 DEF CatchesUp, Pending
  <2>5. books[1] = ApplyTransaction(journal.spot, FillEntry(queue[1]))
    BY <1>3, <2>1, <2>4 DEF CatchesUp
  <2>6. later[0] = Pending'
    <3>1. Pending' = ApplyTransaction(journal.spot, FillEntry(queue[1]))
      BY <1>1, <1>4, <2>3 DEF Pending
    <3> QED BY <1>3, <2>2, <2>5, <3>1
  <2>7. CatchesUp(later)'
    <3>1. ASSUME NEW i \in 1..Len(queue')
          PROVE  later[i] = ApplyTransaction(later[i - 1], FillEntry(queue'[i]))
      <4>1. i \in 1..n - 1 /\ i + 1 \in 1..n
        BY <1>3
      <4>2. books[i + 1] = ApplyTransaction(books[i], FillEntry(queue[i + 1]))
        BY <2>1, <4>1 DEF CatchesUp
      <4>3. later[i] = books[i + 1] /\ later[i - 1] = books[i]
        BY <2>2, <4>1
      <4> QED BY <1>3, <4>1, <4>2, <4>3
    <3>2. AreBooksOf(later[Len(queue')], venue')
      BY <1>1, <1>3, <2>1, <2>2 DEF CatchesUp
    <3> QED BY <2>6, <3>1, <3>2 DEF CatchesUp
  <2> QED BY <1>3, <2>2, <2>7
<1>9. GapSound'
  <2>1. Booked' = queue[1] /\ settle'.stage = "booked"
    BY <1>3, <1>4 DEF Booked, FillType
  <2>2. /\ journal.spot.cash \in Int /\ journal.spot.qty \in Int
        /\ lost.cash \in Int /\ lost.qty \in Int
        /\ Paid(queue[1]) \in Int /\ Lots(queue[1]) \in Int
    BY <1>3, FillMoves DEF TypeOK, BooksType
  <2>3. /\ CashSoFar' = CashSoFar + Paid(Head(queue))
        /\ LotsSoFar' = LotsSoFar + Lots(Head(queue))
    BY <1>1, <1>3, <2>1, <2>2 DEF CashSoFar, LotsSoFar, InHand
  <2> QED BY <1>1, <1>2, <2>3, HeadTaken DEF Replayable
<1> QED BY <1>5, <1>6, <1>7, <1>8, <1>9

\* A fault uses up one of the faults and leaves the money alone.
LEMMA FaultTyped ==
  ASSUME TypeOK, Fault
  PROVE  faults' \in 0..MaxFaults
  BY BoundsAssumption DEF TypeOK, Fault

LEMMA LostTyped ==
  ASSUME TypeOK, NEW fill \in FillType, NEW listed \in BOOLEAN
  PROVE  /\ LostToo(fill, listed) \in [fills : Nat, cash : Int, qty : Int, listed : BOOLEAN]
         /\ LostToo(fill, listed).fills # 0
         /\ LostToo(fill, listed).cash = lost.cash + Paid(fill)
         /\ LostToo(fill, listed).qty = lost.qty + Lots(fill)
<1>1. Paid(fill) \in Int /\ Lots(fill) \in Int
  BY FillMoves
<1>2. lost.fills \in Nat /\ lost.cash \in Int /\ lost.qty \in Int
  BY DEF TypeOK
<1> QED BY <1>1, <1>2 DEF LostToo

LEMMA DropFillKept == BooksInv /\ DropFill => BooksInv'
<1> SUFFICES ASSUME BooksInv, DropFill PROVE BooksInv'
  OBVIOUS
<1> USE DEF BooksInv
<1>1. /\ phase = "running" /\ settle.stage = "idle" /\ queue # <<>> /\ queue' = Tail(queue)
      /\ lost' = LostToo(Head(queue), TRUE) /\ Fault
      /\ UNCHANGED <<journal, table, initial, venue, settle, recon, halted, ended, phase, torn,
                     orders, crashes>>
  BY DEF DropFill, Settling, Fault
<1>2. queue \in Seq(FillType)
  BY DEF TypeOK, FillType, Side
<1>3. Head(queue) \in FillType /\ queue' \in Seq(FillType)
  BY <1>1, <1>2
<1>4. /\ lost' \in [fills : Nat, cash : Int, qty : Int, listed : BOOLEAN] /\ lost'.fills # 0
      /\ lost'.cash = lost.cash + Paid(Head(queue))
      /\ lost'.qty = lost.qty + Lots(Head(queue))
  BY <1>1, <1>3, LostTyped
<1>5. TypeOK'
  <2>1. queue' \in Seq([side : {"BUY", "SELL"}, price : Prices])
    BY <1>3 DEF FillType, Side
  <2>2. faults' \in 0..MaxFaults
    BY <1>1, FaultTyped
  <2> QED BY <1>1, <1>4, <2>1, <2>2 DEF TypeOK
<1>6. JournalSound' /\ TableSound' /\ PhaseSound' /\ VenueSound'
  BY <1>1, <1>4 DEF JournalSound, TableSound, PhaseSound, VenueSound, Replayable
<1>7. GapSound'
  <2>1. /\ journal.spot.cash \in Int /\ journal.spot.qty \in Int
        /\ lost.cash \in Int /\ lost.qty \in Int
        /\ Paid(Head(queue)) \in Int /\ Lots(Head(queue)) \in Int
    BY <1>3, FillMoves DEF TypeOK, BooksType
  <2>2. /\ CashSoFar' = CashSoFar + Paid(Head(queue))
        /\ LotsSoFar' = LotsSoFar + Lots(Head(queue))
    <3>1. /\ CashSoFar = journal.spot.cash + lost.cash
          /\ LotsSoFar = journal.spot.qty + lost.qty
      BY <1>1, <2>1 DEF CashSoFar, LotsSoFar, InHand
    <3>2. /\ CashSoFar' = journal.spot.cash + (lost.cash + Paid(Head(queue))) + 0
          /\ LotsSoFar' = journal.spot.qty + (lost.qty + Lots(Head(queue))) + 0
      <4>1. settle'.stage # "booked" /\ journal' = journal
        BY <1>1
      <4>2. CashSoFar' = journal'.spot.cash + lost'.cash + 0
            /\ LotsSoFar' = journal'.spot.qty + lost'.qty + 0
        BY <4>1 DEF CashSoFar, LotsSoFar, InHand
      <4> QED BY <1>4, <4>1, <4>2
    <3> QED BY <2>1, <3>1, <3>2
  <2> QED BY <1>1, <1>2, <2>2, HeadTaken DEF Replayable
<1> QED BY <1>5, <1>6, <1>7

LEMMA AbandonFillKept == BooksInv /\ AbandonFill => BooksInv'
<1> SUFFICES ASSUME BooksInv, AbandonFill PROVE BooksInv'
  OBVIOUS
<1> USE DEF BooksInv
<1>1. /\ phase = "running" /\ settle.stage = "booked" /\ settle' = NoFill
      /\ lost' = LostToo(Booked, lost.listed) /\ Fault
      /\ UNCHANGED <<journal, table, initial, venue, queue, recon, halted, ended, phase, torn,
                     orders, crashes>>
  BY DEF AbandonFill, Settling, Fault
<1>2. Booked \in FillType /\ lost.listed \in BOOLEAN
  BY <1>1 DEF PhaseSound, TypeOK, Booked, FillType, Side
<1>3. /\ lost' \in [fills : Nat, cash : Int, qty : Int, listed : BOOLEAN] /\ lost'.fills # 0
      /\ lost'.cash = lost.cash + Paid(Booked) /\ lost'.qty = lost.qty + Lots(Booked)
  BY <1>1, <1>2, LostTyped
<1>4. TypeOK'
  <2>1. EmptyBooks \in BooksType
    BY EmptyIsReplay DEF Replay
  <2>2. settle' \in [stage : {"idle", "booked", "recorded", "replayed"}, side : {"BUY", "SELL"},
                     price : Prices \cup {0}, view : BooksType]
    BY <1>1, <2>1 DEF NoFill
  <2>3. faults' \in 0..MaxFaults
    BY <1>1, FaultTyped
  <2> QED BY <1>1, <1>3, <2>2, <2>3 DEF TypeOK
<1>5. JournalSound' /\ TableSound' /\ PhaseSound' /\ VenueSound'
  BY <1>1, <1>3, EmptyIsReplay
     DEF JournalSound, TableSound, PhaseSound, VenueSound, Replayable, NoFill
<1>6. GapSound'
  <2>1. /\ journal.spot.cash \in Int /\ journal.spot.qty \in Int
        /\ lost.cash \in Int /\ lost.qty \in Int
        /\ Paid(Booked) \in Int /\ Lots(Booked) \in Int
    BY <1>2, FillMoves DEF TypeOK, BooksType
  <2>2. settle'.stage = "idle"
    BY <1>1 DEF NoFill
  <2>3. CashSoFar' = CashSoFar /\ LotsSoFar' = LotsSoFar
    BY <1>1, <1>3, <2>1, <2>2 DEF CashSoFar, LotsSoFar, InHand
  <2> QED BY <1>1, <2>3, GapKept DEF Replayable
<1> QED BY <1>4, <1>5, <1>6

LEMMA TearFillKept == BooksInv /\ TearFill => BooksInv'
<1> SUFFICES ASSUME BooksInv, TearFill PROVE BooksInv'
  OBVIOUS
<1> USE DEF BooksInv
<1>1. /\ settle.stage \in {"recorded", "replayed"} /\ settle' = NoFill /\ torn' = "open" /\ Fault
      /\ UNCHANGED <<journal, table, initial, venue, queue, recon, halted, ended, phase, lost,
                     orders, crashes>>
  BY DEF TearFill, Unrefreshed, Fault
<1>2. TypeOK'
  <2>1. EmptyBooks \in BooksType
    BY EmptyIsReplay DEF Replay
  <2>2. settle' \in [stage : {"idle", "booked", "recorded", "replayed"}, side : {"BUY", "SELL"},
                     price : Prices \cup {0}, view : BooksType]
    BY <1>1, <2>1 DEF NoFill
  <2>3. faults' \in 0..MaxFaults
    BY <1>1, FaultTyped
  <2> QED BY <1>1, <2>2, <2>3 DEF TypeOK
<1>3. JournalSound' /\ TableSound' /\ PhaseSound'
  BY <1>1, EmptyIsReplay DEF JournalSound, TableSound, PhaseSound, Replayable, NoFill
<1>4. VenueSound' /\ GapSound'
  <2>1. Pending' = Pending /\ CashSoFar' = CashSoFar /\ LotsSoFar' = LotsSoFar
    BY <1>1 DEF Pending, CashSoFar, LotsSoFar, InHand, NoFill
  <2> QED BY <1>1, <2>1, VenueKept, GapKept DEF Replayable
<1> QED BY <1>2, <1>3, <1>4

\* The cost of a sale is released at the average the replay will compute, as the
\* table is up to date when a settlement begins.
LEMMA TradeCost ==
  ASSUME NEW b \in Replay, NEW fill \in FillType, NEW released \in Int, b.ok,
         fill.side = "SELL" /\ b.qty > 0 => released = Average(b),
         ApplyTransaction(b, Trade(fill.side, fill.price, released)).ok
  PROVE  ApplyTransaction(b, Trade(fill.side, fill.price, released)).cost
           = b.cost + Posted(Trade(fill.side, fill.price, released), "POSITION_ASSET")
<1> DEFINE t == Trade(fill.side, fill.price, released)
           m == MoveBalance(b, t)
<1>1. t \in TradeType /\ t.type = "TRADE" /\ t.side = fill.side /\ t.price = fill.price
      /\ t.released = released
  BY FillIsTrade DEF Trade
<1>2. Posted(t, "POSITION_ASSET") = IF t.side = "BUY" THEN t.price ELSE -t.released
  BY <1>1, TradePosts
<1>3. ApplyTransaction(b, t) = ApplyTrade(m, t)
  BY <1>1 DEF ApplyTransaction
<1>4. m.qty = b.qty /\ m.cost = b.cost /\ b.qty \in Nat /\ b.cost \in Nat
      /\ DOMAIN m = DOMAIN EmptyBooks
  BY DEF MoveBalance, Replay, BooksType, EmptyBooks
<1> HIDE DEF m
<1>5. CASE fill.side = "BUY"
  BY <1>1, <1>2, <1>3, <1>4, <1>5 DEF ApplyTrade, EmptyBooks
<1>6. CASE fill.side # "BUY"
  <2>0. fill.side = "SELL"
    BY <1>6 DEF FillType, Side
  <2>1. CASE b.qty < 1
    BY <1>1, <1>3, <1>4, <1>6, <2>1 DEF ApplyTrade, EmptyBooks
  <2>2. CASE b.qty >= 1
    <3>1. released = b.cost \div b.qty /\ released \in 0..b.cost
      BY <1>4, <2>0, <2>2, AverageOf DEF Average
    <3>2. Average(m) = released
      BY <1>4, <2>2, <3>1 DEF Average
    <3>3. Max({b.cost - released, 0}) = b.cost - released
      BY <1>4, <3>1, MaxOfTwo
    <3>4. b.qty = 1 => b.cost - released = 0
      BY <1>4, <3>1, AverageOf
    <3>5. ApplyTrade(m, t).cost = b.cost - released
      BY <1>1, <1>4, <1>6, <2>2, <3>2, <3>3, <3>4 DEF ApplyTrade, EmptyBooks
    <3> QED BY <1>1, <1>2, <1>3, <1>4, <1>6, <3>1, <3>5
  <2> QED BY <1>4, <2>1, <2>2
<1> QED BY <1>5, <1>6

LEMMA RecordFillKept == BooksInv /\ RecordFill => BooksInv'
<1> SUFFICES ASSUME BooksInv, RecordFill PROVE BooksInv'
  OBVIOUS
<1> USE DEF BooksInv
<1> DEFINE released == ReleasedCost
           t == Trade(settle.side, settle.price, released)
<1>1. /\ phase = "running" /\ settle.stage = "booked" /\ Record(t)
      /\ settle' = [settle EXCEPT !.stage = "recorded"]
      /\ UNCHANGED <<table, initial, venue, queue, recon, halted, ended, phase, lost, torn, orders,
                     crashes, faults>>
  BY DEF RecordFill, Settling, history, bounds
<1>2. Booked \in FillType /\ Booked.side = settle.side /\ Booked.price = settle.price
  BY <1>1 DEF PhaseSound, TypeOK, Booked, FillType, Side
<1>3. released \in Int
  <2>1. table.qty \in Nat /\ table.cost \in Nat /\ settle.price \in Int
    BY <1>1, PricesAssumption DEF PhaseSound, Replay, BooksType
  <2>2. CASE table.qty > 0
    BY <2>1, <2>2, AverageOf DEF ReleasedCost, Average
  <2> QED BY <2>1, <2>2 DEF ReleasedCost
<1>4. t = Trade(Booked.side, Booked.price, released)
  BY <1>2
<1>5. t \in TradeType /\ t \in Entry /\ t.type = "TRADE"
  BY <1>2, <1>3, <1>4, FillIsTrade DEF Entry, Trade
<1>6. t \notin FuturesEntry /\ Fits(journal.futures, t) /\ InSpotScope(t)
  BY <1>5 DEF FuturesEntry, OpenType, CloseType, FundingType, Fits, InSpotScope, FuturesTypes
<1> HIDE DEF t, released
<1>7. Balanced(t)
  BY <1>5, TradePosts
<1>8. JournalSound' /\ (journal.spot.funded => journal'.spot.funded)
      /\ (journal'.all.ok => journal.all.ok)
  <2>1. JournalSound
    OBVIOUS
  <2>2. Record(t) /\ t \in Entry /\ Fits(journal.futures, t) /\ t \notin FuturesEntry
    BY <1>1, <1>5, <1>6
  <2> HIDE DEF BooksInv
  <2>3. JournalSound'
    BY <2>1, <2>2, RecordSound
  <2>4. journal.spot.funded => journal'.spot.funded
    BY <2>1, <2>2, RecordSound
  <2>5. journal'.all.ok => journal.all.ok
    BY <2>1, <2>2, RecordSound
  <2> QED BY <2>3, <2>4, <2>5
<1>9. /\ journal'.all = ApplyTransaction(journal.all, t)
      /\ journal'.spot = ApplyTransaction(journal.spot, t)
      /\ journal'.total = [a \in Account |-> journal.total[a] + Posted(t, a)]
  BY <1>1, <1>6, <1>7 DEF Record
<1>10. /\ settle'.stage = "recorded" /\ settle'.side = settle.side
       /\ settle'.price = settle.price /\ settle'.view = settle.view
       /\ settle' \in [stage : {"idle", "booked", "recorded", "replayed"}, side : {"BUY", "SELL"},
                       price : Prices \cup {0}, view : BooksType]
  BY <1>1 DEF TypeOK
<1>11. TypeOK'
  <2>1. /\ journal' \in [total : [Account -> Int], all : BooksType, spot : BooksType,
                          futures : FuturesType]
        /\ journal'.all.qty \in Nat /\ journal'.spot.qty \in Nat
    BY <1>8, JournalTyped DEF JournalSound
  <2> QED BY <1>1, <1>10, <2>1 DEF TypeOK
<1>12. TableSound'
  <2> SUFFICES ASSUME torn = "never", journal'.all.ok
               PROVE  journal'.total["POSITION_ASSET"] = journal'.all.cost
    BY <1>1, <1>10 DEF TableSound, Replayable
  <2>1. journal.all.ok /\ SameLots(table, journal.all)
        /\ journal.total["POSITION_ASSET"] = journal.all.cost
    BY <1>1, <1>8 DEF TableSound, Replayable
  <2>2. settle.side = "SELL" /\ journal.all.qty > 0 => released = Average(journal.all)
    BY <2>1 DEF released, ReleasedCost, SameLots, Average
  <2>3. journal.all \in Replay
    BY DEF JournalSound
  <2>4. journal'.all.cost = journal.all.cost + Posted(t, "POSITION_ASSET")
    BY <1>2, <1>3, <1>4, <1>9, <2>1, <2>2, <2>3, TradeCost
  <2> QED BY <1>9, <2>1, <2>4 DEF Account
<1>13. PhaseSound'
  BY <1>1, <1>8, <1>10 DEF PhaseSound
<1>14. VenueSound'
  <2>1. journal.spot \in BooksType
    BY DEF JournalSound, Replay
  <2>2. Pending' = Pending
    <3>1. Pending = ApplyTransaction(journal.spot, FillEntry(Booked))
      BY <1>1 DEF Pending
    <3>2. Pending' = ApplyTransaction(journal.spot, t)
      BY <1>9, <1>10 DEF Pending
    <3> QED BY <1>2, <1>3, <1>4, <2>1, <3>1, <3>2, ReleasedIsIgnored
  <2> QED BY <1>1, <2>2, VenueKept
<1>15. GapSound'
  <2>1. Replayable' => Replayable
    BY <1>8 DEF Replayable
  <2>2. ASSUME Replayable' PROVE CashSoFar' = CashSoFar /\ LotsSoFar' = LotsSoFar
    <3>1. journal.spot \in Replay /\ journal.spot.ok /\ journal'.spot.ok
      BY <1>8, <2>1, <2>2 DEF JournalSound, Holding, Replayable
    <3>2. /\ journal'.spot.cash = journal.spot.cash + Paid(Booked)
          /\ journal'.spot.qty = journal.spot.qty + Lots(Booked)
      BY <1>2, <1>3, <1>4, <1>9, <3>1, TradeMoves
    <3>3. /\ journal.spot.cash \in Int /\ journal.spot.qty \in Int
          /\ lost.cash \in Int /\ lost.qty \in Int
          /\ Paid(Booked) \in Int /\ Lots(Booked) \in Int
      BY <1>2, FillMoves DEF TypeOK, BooksType
    <3> QED BY <1>1, <1>10, <3>2, <3>3 DEF CashSoFar, LotsSoFar, InHand
  <2> QED BY <1>1, <2>1, <2>2, GapKept
<1> QED BY <1>8, <1>11, <1>12, <1>13, <1>14, <1>15

LEMMA ReadJournalKept == BooksInv /\ ReadJournal => BooksInv'
<1> SUFFICES ASSUME BooksInv, ReadJournal PROVE BooksInv'
  OBVIOUS
<1> USE DEF BooksInv
<1>1. /\ phase = "running" /\ settle.stage = "recorded"
      /\ settle' = IF Replayable THEN [settle EXCEPT !.stage = "replayed", !.view = Rebuilt]
                   ELSE NoFill
      /\ UNCHANGED <<journal, table, initial, venue, queue, recon, halted, ended, phase, lost,
                     torn, orders, crashes, faults>>
  BY DEF ReadJournal, Settling, history, bounds
<1>2. Rebuilt \in Replay /\ SameLots(Rebuilt, journal.all)
  BY RebuiltIsReplay DEF JournalSound, TypeOK
<1>3. /\ settle' \in [stage : {"idle", "booked", "recorded", "replayed"}, side : {"BUY", "SELL"},
                      price : Prices \cup {0}, view : BooksType]
      /\ settle'.stage \in {"idle", "replayed"} /\ settle'.view \in Replay
      /\ Replayable => settle'.stage = "replayed" /\ settle'.view = Rebuilt
  <2>1. CASE Replayable
    BY <1>1, <1>2, <2>1 DEF TypeOK, Replay
  <2>2. CASE ~Replayable
    BY <1>1, <2>2, EmptyIsReplay DEF NoFill, Replay
  <2> QED BY <2>1, <2>2
<1>4. TypeOK'
  BY <1>1, <1>3 DEF TypeOK
<1>5. JournalSound' /\ TableSound'
  BY <1>1, <1>2, <1>3 DEF JournalSound, TableSound, Replayable
<1>6. PhaseSound'
  BY <1>1, <1>3 DEF PhaseSound
<1>7. VenueSound' /\ GapSound'
  <2>1. Pending' = Pending /\ CashSoFar' = CashSoFar /\ LotsSoFar' = LotsSoFar
    BY <1>1, <1>3 DEF Pending, CashSoFar, LotsSoFar, InHand
  <2> QED BY <1>1, <2>1, VenueKept, GapKept DEF Replayable
<1> QED BY <1>4, <1>5, <1>6, <1>7

LEMMA ReplaceTableKept == BooksInv /\ ReplaceTable => BooksInv'
<1> SUFFICES ASSUME BooksInv, ReplaceTable PROVE BooksInv'
  OBVIOUS
<1> USE DEF BooksInv
<1>1. /\ phase = "running" /\ settle.stage = "replayed" /\ table' = settle.view
      /\ settle' = NoFill /\ torn' = (IF torn = "open" THEN "mended" ELSE torn)
      /\ UNCHANGED <<journal, initial, venue, queue, recon, halted, ended, phase, lost, orders,
                     crashes, faults>>
  BY DEF ReplaceTable, Settling, bounds
<1>2. settle.view \in Replay
  BY DEF PhaseSound
<1>3. TypeOK'
  <2>1. EmptyBooks \in BooksType
    BY EmptyIsReplay DEF Replay
  <2>2. settle' \in [stage : {"idle", "booked", "recorded", "replayed"}, side : {"BUY", "SELL"},
                     price : Prices \cup {0}, view : BooksType]
    BY <1>1, <2>1 DEF NoFill
  <2> QED BY <1>1, <1>2, <2>2 DEF TypeOK, Replay
<1>4. JournalSound' /\ TableSound' /\ PhaseSound'
  BY <1>1, <1>2, EmptyIsReplay DEF JournalSound, TableSound, PhaseSound, Replayable, NoFill
<1>5. VenueSound' /\ GapSound'
  <2>1. Pending' = Pending /\ CashSoFar' = CashSoFar /\ LotsSoFar' = LotsSoFar
    BY <1>1 DEF Pending, CashSoFar, LotsSoFar, InHand, NoFill
  <2> QED BY <1>1, <2>1, VenueKept, GapKept DEF Replayable
<1> QED BY <1>3, <1>4, <1>5

\* The reconciliation reads; the end of the tick changes no money.
LEMMA ReconciliationKept == BooksInv /\ (ReconLoop \/ TickFails) => BooksInv'
<1> SUFFICES ASSUME BooksInv, ReconLoop \/ TickFails PROVE BooksInv'
  OBVIOUS
<1> USE DEF BooksInv
<1>1. UNCHANGED <<journal, table, initial, venue, queue, settle, phase, lost, torn, orders, crashes,
                  faults>>
  BY DEF ReconLoop, ReadLedger, Compare, Publish, TickFails, history, bounds
<1>2. JournalSound' /\ TableSound' /\ PhaseSound'
  BY <1>1 DEF JournalSound, TableSound, PhaseSound, Replayable
<1>3. VenueSound' /\ GapSound'
  <2>1. Pending' = Pending /\ CashSoFar' = CashSoFar /\ LotsSoFar' = LotsSoFar
    BY <1>1 DEF Pending, CashSoFar, LotsSoFar, InHand, Booked
  <2> QED BY <1>1, <2>1, VenueKept, GapKept DEF Replayable
<1>4. /\ recon' \in [stage : {"idle", "read", "compared"}, local : BooksType, alarm : BOOLEAN]
      /\ halted' \in BOOLEAN /\ ended' \subseteq {"tick", "recon"}
  <2>1. /\ recon \in [stage : {"idle", "read", "compared"}, local : BooksType, alarm : BOOLEAN]
        /\ halted \in BOOLEAN /\ ended \subseteq {"tick", "recon"}
        /\ journal.spot \in BooksType
    BY DEF TypeOK
  <2>2. CASE ReadLedger
    BY <2>1, <2>2 DEF ReadLedger
  <2>3. CASE Compare
    <3>1. Mismatch(recon.local) \in BOOLEAN
      BY DEF Mismatch
    <3> QED BY <2>1, <2>3, <3>1 DEF Compare
  <2>4. CASE Publish
    <3>1. NoRound \in [stage : {"idle", "read", "compared"}, local : BooksType, alarm : BOOLEAN]
      BY EmptyIsReplay DEF NoRound, Replay
    <3>2. recon.alarm \in BOOLEAN
      BY <2>1
    <3> QED BY <2>1, <2>4, <3>1, <3>2 DEF Publish
  <2>5. CASE TickFails
    BY <2>1, <2>5 DEF TickFails
  <2> QED BY <2>2, <2>3, <2>4, <2>5 DEF ReconLoop
<1>5. TypeOK'
  BY <1>1, <1>4 DEF TypeOK
<1> QED BY <1>2, <1>3, <1>5

LEMMA BooksStep == BooksInv /\ [Next]_vars => BooksInv'
<1> SUFFICES ASSUME BooksInv, [Next]_vars PROVE BooksInv'
  OBVIOUS
<1>1. CASE Start
  BY <1>1, SeedKept, SeedRefreshKept, HydrateKept DEF Start
<1>2. CASE Crash
  BY <1>2, CrashKept
<1>3. CASE Tick
  <2>1. ASSUME NEW side \in {"BUY", "SELL"}, NEW price \in Prices, SpotOrder(side, price)
        PROVE  BooksInv'
    BY <2>1, SpotOrderKept DEF Side
  <2> QED BY <1>3, <2>1, ReconciliationKept, OpenPositionKept, ClosePositionKept,
             ApplyFundingKept, LiquidateKept DEF Tick
<1>4. CASE EventLoop
  BY <1>4, BookFillKept, RecordFillKept, ReadJournalKept, ReplaceTableKept, DropFillKept,
     AbandonFillKept, TearFillKept DEF EventLoop
<1>5. CASE ReconLoop
  BY <1>5, ReconciliationKept
<1>6. CASE UNCHANGED vars
  <2>1. UNCHANGED <<journal, table, initial, venue, queue, settle, recon, halted, ended, phase,
                    lost, torn, orders, crashes, faults>>
    BY <1>6 DEF vars, loops, history, bounds
  <2>3. Pending' = Pending /\ CashSoFar' = CashSoFar /\ LotsSoFar' = LotsSoFar
    BY <2>1 DEF Pending, CashSoFar, LotsSoFar, InHand, Booked
  <2>2. VenueSound' /\ GapSound'
    BY <2>1, <2>3, VenueKept, GapKept DEF BooksInv, Replayable
  <2> QED BY <2>1, <2>2
          DEF BooksInv, TypeOK, JournalSound, TableSound, PhaseSound, Replayable
<1> QED BY <1>1, <1>2, <1>3, <1>4, <1>5, <1>6 DEF Next

-----------------------------------------------------------------------------
(* The theorems.                                                           *)

\* LedgerService, ProjectionBuilder and the paper exchange: every state of the
\* money has its shape, and the invariant behind the theorems holds of it.
THEOREM BooksTyped == Spec => []TypeOK
<1>1. BooksInv => TypeOK
  BY DEF BooksInv
<1> QED BY <1>1, BooksInitial, BooksStep, PTL DEF Spec

\* _settle_fill, replayed by ProjectionBuilder, repeats the arithmetic of the paper
\* exchange, over crashes and hydrate_from_ledger too: with no fill on its way the
\* exchange is ahead of the journal by the fills process_exchange_event dropped or
\* gave up, to the cent and the lot; with none of these it agrees with the journal,
\* and a reconciliation that starts then raises no alarm; and the replay and the
\* POSITION_ASSET account agree while no record was cut off from its refresh.
THEOREM AccountsAlwaysAgree == Spec => []AccountsAgree
<1>1. BooksInv => AccountsAgree
  <2> SUFFICES ASSUME BooksInv PROVE AccountsAgree
    OBVIOUS
  <2>1. PositionAccountIsCost
    BY DEF BooksInv, TableSound, PositionAccountIsCost
  <2>2. BooksMatchVenue
    <3> SUFFICES ASSUME Quiet, Replayable
        PROVE LET b == journal.spot IN
              /\ venue.cash = b.cash + lost.cash /\ venue.qty = b.qty + lost.qty
              /\ lost.fills = 0 => venue.cost = b.cost /\ ~Mismatch(b)
      BY DEF BooksMatchVenue
    <3>1. phase = "running" /\ settle.stage = "idle" /\ Len(queue) = 0
      BY DEF Quiet
    <3>2. venue.cash = journal.spot.cash + lost.cash /\ venue.qty = journal.spot.qty + lost.qty
      <4>1. PICK cash \in [0..0 -> Int] : \E lots \in [0..0 -> Int] : CountsUp(cash, lots)
        BY <3>1 DEF BooksInv, GapSound
      <4>2. CashSoFar = venue.cash /\ LotsSoFar = venue.qty
        BY <3>1, <4>1 DEF CountsUp
      <4>3. /\ journal.spot.cash \in Int /\ journal.spot.qty \in Int
            /\ lost.cash \in Int /\ lost.qty \in Int
        BY DEF BooksInv, TypeOK, BooksType
      <4> QED BY <3>1, <4>2, <4>3 DEF CashSoFar, LotsSoFar, InHand
    <3>3. ASSUME lost.fills = 0 PROVE venue.cost = journal.spot.cost /\ ~Mismatch(journal.spot)
      <4>1. PICK books \in [0..Len(queue) -> Replay] : CatchesUp(books)
        BY <3>1, <3>3 DEF BooksInv, VenueSound
      <4>2. AreBooksOf(journal.spot, venue)
        BY <3>1, <4>1 DEF CatchesUp, Pending
      <4>3. journal.spot.ok
        BY DEF BooksInv, JournalSound, Holding, Replayable
      <4> QED BY <4>2, <4>3 DEF AreBooksOf, Mismatch, Covered
    <3> QED BY <3>2, <3>3
  <2> QED BY <2>1, <2>2 DEF AccountsAgree
<1> QED BY <1>1, BooksInitial, BooksStep, PTL DEF Spec

\* FuturesLedger, rebuild_futures_projection and close_position round the margin of
\* a part of a position the same way: the MARGIN account, margin_balance and the
\* margin of the open position are one number, and no margin stays behind.
THEOREM MarginIsAlwaysOneNumber == Spec => []MarginIsOneNumber
<1>1. BooksInv => MarginIsOneNumber
  BY DEF BooksInv, JournalSound, FuturesSound, MarginIsOneNumber, Position
<1> QED BY <1>1, BooksInitial, BooksStep, PTL DEF Spec

\* rebuild_projections reads late and replaces the table later still, and yet no
\* fill is lost between the two; a settlement cut short leaves the table behind only
\* until the next one is through.
THEOREM TableAlwaysFollows == Spec => []TableFollowsJournal
<1>1. BooksInv => TableFollowsJournal
  BY DEF BooksInv, TableSound, TableFollowsJournal, Quiet, SameLots
<1> QED BY <1>1, BooksInitial, BooksStep, PTL DEF Spec

=============================================================================
