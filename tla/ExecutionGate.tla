---------------------------- MODULE ExecutionGate ----------------------------
(***************************************************************************)
(* The gates between a signal and an order: process_signal reads the       *)
(* position, the price and the number of open orders, RiskEngine.check     *)
(* judges them, and after two more database calls ExecutionAuthority       *)
(* judges the state of the system.  The event loop settles fills in        *)
(* between, in two steps, and so does the recovery that a call runs whose  *)
(* submission got no answer.  The tick calls process_signal; a supervisor  *)
(* that is started would call it beside the tick, on readings of its own.  *)
(*                                                                         *)
(* One spot symbol and one perpetual, traded long: an open buys, an exit   *)
(* sells, reduce-only for the perpetual.  Quantities are in lots.          *)
(***************************************************************************)
EXTENDS Integers, FiniteSets, Functions

CONSTANTS
  Caller,             \* the tasks that call process_signal
  Lots,               \* quantities of a signal
  Price,              \* prices of the reference book; 0 is no book
  Gate,               \* conditions of AuthorizationContext that come and go
  max_order_notional, max_symbol_exposure, max_open_orders,
  MaxOrders           \* bound: orders of a behaviour

ASSUME GateAssumption ==
  /\ {max_order_notional, max_symbol_exposure, max_open_orders, MaxOrders} \subseteq Nat
  /\ Lots \subseteq Nat \ {0} /\ Price \subseteq Nat
  /\ IsFiniteSet(Caller) /\ Caller # {}

VARIABLES
  held,   \* settled: market -> lots
  cost,   \* cost basis of the spot position, and notional opened of the perpetual
  open_orders,   \* spot orders that are not settled: number -> order
  settling,      \* those of them whose fill is committed, and not yet in the positions
  caller, \* caller -> its call of process_signal
  made    \* orders made

gateVars == <<held, cost, open_orders, settling, caller, made>>

Waiting == [stage |-> "idle"]
Exposed == {"spot", "perpetual"}

\* The orders that list_open lists, and the callers whose task may be recovering.
list_open == DOMAIN open_orders \ settling
Free   == {c \in Caller : caller[c].stage = "idle"}

\* The signals; a spot sell is an exit.
Signals == {[market |-> m, side |-> s, lots |-> n, reduce_only |-> m = "perpetual" /\ s = "SELL"] :
              m \in Exposed, s \in {"BUY", "SELL"}, n \in Lots}

TotalOf(orders) == FoldFunctionOnSet(LAMBDA o, sum : o.lots * o.price + sum, 0, open_orders, orders)
OpenBuys == TotalOf({i \in DOMAIN open_orders : open_orders[i].side = "BUY"})

GateInit ==
  /\ held = [m \in Exposed |-> 0] /\ cost = [m \in Exposed |-> 0]
  /\ open_orders = <<>> /\ settling = {}
  /\ caller = [c \in Caller |-> Waiting] /\ made = 0

-----------------------------------------------------------------------------
(* RiskEngine.                                                             *)

\* Long or flat: a sell may take no more than is there.
check_no_reversal(signal, signed) ==
  (signal.reduce_only \/ signal.side = "SELL") => signal.lots <= signed

\* get_positions knows the spot positions only; the perpetual's cost is never counted.
symbol_notional(signal, seen) == IF signal.market = "spot" THEN seen.cost ELSE 0

\* Variant: what is held does not count.
NewOrdersOnly(signal, seen, signed) ==
  LET notional == signal.lots * seen.price
  IN  IF seen.price = 0 THEN "INVALID_PRICE"
      ELSE IF ~check_no_reversal(signal, signed) THEN "REVERSAL"
      ELSE IF notional > max_order_notional THEN "MAX_ORDER_NOTIONAL"
      ELSE IF seen.orders >= max_open_orders THEN "MAX_OPEN_ORDERS"
      ELSE IF signal.side = "BUY" /\ notional > max_symbol_exposure
           THEN "MAX_SYMBOL_EXPOSURE" ELSE "RISK_PASS"

\* The account's limits coincide with the symbol's where there is one symbol of a market.
risk_check(signal, seen, signed) ==
  LET notional == signal.lots * seen.price
  IN  IF seen.price = 0 THEN "INVALID_PRICE"
      ELSE IF ~check_no_reversal(signal, signed) THEN "REVERSAL"
      ELSE IF notional > max_order_notional THEN "MAX_ORDER_NOTIONAL"
      ELSE IF seen.orders >= max_open_orders THEN "MAX_OPEN_ORDERS"
      ELSE IF signal.side = "BUY" /\ symbol_notional(signal, seen) + notional > max_symbol_exposure
           THEN "MAX_SYMBOL_EXPOSURE" ELSE "RISK_PASS"

-----------------------------------------------------------------------------
(* process_signal.                                                         *)

At(c, stage) == caller[c].stage = stage

\* get_positions, by a caller whose recovery is over; the signal's exit sells what it knows.
ReadsPositions(c) ==
  /\ At(c, "idle") /\ Cardinality(settling) <= Cardinality(Free)
  /\ made + Cardinality(Caller \ Free) < MaxOrders
  /\ \E s \in Signals :
       caller' = [caller EXCEPT ![c] = [stage |-> "read", signal |-> s, held |-> held["spot"],
                                        cost |-> cost["spot"]]]
  /\ UNCHANGED <<held, cost, open_orders, settling, made>>

\* The book's mid price as it is now, then count_open.
ReadsMarket(c) ==
  /\ At(c, "read")
  /\ \E mid \in Price :
       caller' = [caller EXCEPT ![c] = [stage |-> "priced", signal |-> @.signal, held |-> @.held,
                                        cost |-> @.cost, price |-> mid,
                                        orders |-> Cardinality(list_open)]]
  /\ UNCHANGED <<held, cost, open_orders, settling, made>>

\* _current_signed_quantity reads the perpetual afresh, and the spot as it was read before.
Checks(c) ==
  /\ At(c, "priced")
  /\ LET seen   == caller[c]
         signed == IF seen.signal.market = "spot" THEN seen.held ELSE held["perpetual"]
     IN  caller' = [caller EXCEPT ![c] =
           IF risk_check(seen.signal, seen, signed) = "RISK_PASS"
           THEN [stage |-> "approved", signal |-> seen.signal, price |-> seen.price, signed |-> signed]
           ELSE Waiting]
  /\ UNCHANGED <<held, cost, open_orders, settling, made>>

\* authorize: the gates that fail now (the lease, the kill switch, the reconciliation halt,
\* freshness, the connection), and the no-reversal rule once more with the position that the
\* check saw.
authorized(c, shut) == shut = {} /\ check_no_reversal(caller[c].signal, caller[c].signed)

Refused(c) ==
  /\ At(c, "approved") /\ \E shut \in SUBSET Gate : ~authorized(c, shut)
  /\ caller' = [caller EXCEPT ![c] = Waiting]
  /\ UNCHANGED <<held, cost, open_orders, settling, made>>

SpotOrdered(c) ==
  /\ At(c, "approved") /\ authorized(c, {}) /\ caller[c].signal.market = "spot"
  /\ made' = made + 1
  /\ open_orders' = [i \in DOMAIN open_orders \cup {made'} |->
                IF i = made' THEN [side |-> caller[c].signal.side, lots |-> caller[c].signal.lots,
                                   price |-> caller[c].price] ELSE open_orders[i]]
  /\ caller' = [caller EXCEPT ![c] = Waiting]
  /\ UNCHANGED <<held, cost, settling>>

\* _execute_perpetual_order fills at once, at the price that was read; close_position takes no
\* more than there is.
PerpetualExecuted(c) ==
  LET s == caller[c].signal
      n == IF s.lots <= held["perpetual"] THEN s.lots ELSE held["perpetual"]
  IN  /\ At(c, "approved") /\ authorized(c, {}) /\ s.market = "perpetual"
      /\ made' = made + 1
      /\ IF s.side = "BUY"
         THEN /\ held' = [held EXCEPT !["perpetual"] = @ + s.lots]
              /\ cost' = [cost EXCEPT !["perpetual"] = @ + s.lots * caller[c].price]
         ELSE /\ held' = [held EXCEPT !["perpetual"] = @ - n]
              /\ cost' = [cost EXCEPT !["perpetual"] = IF n = held["perpetual"] THEN 0
                                                       ELSE @ - (@ * n) \div held["perpetual"]]
      /\ caller' = [caller EXCEPT ![c] = Waiting]
      /\ UNCHANGED <<open_orders, settling>>

-----------------------------------------------------------------------------
(* The exchange and the system around.                                     *)

\* The commit of a fill takes the order off the list.  The event loop settles one fill at a
\* time, and each recovery one.
Commits ==
  /\ Cardinality(settling) <= Cardinality(Free)
  /\ \E i \in list_open : settling' = settling \cup {i}
  /\ UNCHANGED <<held, cost, open_orders, caller, made>>

\* The settlement callback moves the position; a sell releases its share of the cost. What is
\* sold without being there does not settle.
Settles ==
  /\ \E i \in settling :
       LET o == open_orders[i]
       IN  /\ settling' = settling \ {i}
           /\ open_orders' = [j \in DOMAIN open_orders \ {i} |-> open_orders[j]]
           /\ IF o.side = "BUY"
              THEN /\ held' = [held EXCEPT !["spot"] = @ + o.lots]
                   /\ cost' = [cost EXCEPT !["spot"] = @ + o.lots * o.price]
              ELSE IF o.lots <= held["spot"]
              THEN /\ held' = [held EXCEPT !["spot"] = @ - o.lots]
                   /\ cost' = [cost EXCEPT !["spot"] = @ - (@ * o.lots) \div held["spot"]]
              ELSE UNCHANGED <<held, cost>>
  /\ UNCHANGED <<caller, made>>

GateNext ==
  \/ \E c \in Caller : \/ ReadsPositions(c) \/ ReadsMarket(c) \/ Checks(c)
                       \/ Refused(c) \/ SpotOrdered(c) \/ PerpetualExecuted(c)
  \/ Commits \/ Settles

-----------------------------------------------------------------------------

\* The gates' share of the type invariant.
GateTypeOK ==
  /\ \A m \in Exposed : held[m] \in Nat /\ cost[m] \in Nat
  /\ settling \subseteq DOMAIN open_orders /\ DOMAIN open_orders \subseteq 1..made /\ made \in 0..MaxOrders
  /\ \A c \in Caller : caller[c].stage \in {"idle", "read", "priced", "approved"}

\* The limit on open orders is read before the order is made, so that every other caller may
\* add one order to it, and no more.
OpenOrdersBounded == Cardinality(list_open) <= max_open_orders + Cardinality(Caller) - 1

\* Orders in flight are not part of the exposure. What is bought, filled and on order exceeds
\* the limit by the orders that may be listed, by the one fill that is neither listed nor in
\* the positions when they are read, and by two for each other caller: one that it counted
\* before the last was made, and one whose exposure it read before the last was settled.
SpotOvershootBounded ==
  cost["spot"] + OpenBuys
    <= max_symbol_exposure
         + (max_open_orders + 1 + 2 * (Cardinality(Caller) - 1)) * max_order_notional

\* Section 8 of SPAC.md: no symbol is exposed beyond its limit.
PerpetualWithinLimit == cost["perpetual"] <= max_symbol_exposure

\* A sale of what is held, which over-exposure limits must never block, fails no check but the
\* number of open orders and the price.
ExitIsNotTooLarge ==
  \A c \in Caller : At(c, "priced") /\ caller[c].signal.side = "SELL" =>
    risk_check(caller[c].signal, caller[c], IF caller[c].signal.market = "spot" THEN caller[c].held
                                       ELSE held["perpetual"]) # "MAX_ORDER_NOTIONAL"
=============================================================================
