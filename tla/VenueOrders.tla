----------------------------- MODULE VenueOrders -----------------------------
(***************************************************************************)
(* The order calls of OKXAdapter and BinanceAdapter, as the engine and its *)
(* recovery use them: a request may reach the venue and lose its answer, a *)
(* request without an answer is sent again, and an order is looked up by   *)
(* the identifier the caller has.  Assumed of the venues, which are not in *)
(* the repository: OKX never opens a second order of a client order id;    *)
(* on Binance an id is taken only while an order of that id is open.       *)
(***************************************************************************)
EXTENDS Integers, FiniteSets

CONSTANTS
  VenueOrder,    \* client order ids
  MaxAttempts,   \* attempts of _request at one call
  MaxCalls       \* bound: submissions and recoveries

ASSUME VenueAssumption == MaxAttempts \in Nat \ {0} /\ MaxCalls \in Nat

Adapter == {"okx", "binance"}

\* What the venue says of an order.
VenueState == {"live", "partially_filled", "filled", "canceled", "mmp_canceled"}

\* The status the adapters make of it.
status_map == [s \in VenueState |->
  CASE s = "live"             -> "OPEN"
    [] s = "partially_filled" -> "PARTIALLY_FILLED"
    [] s = "filled"           -> "FILLED"
    [] s = "canceled"         -> "CANCELLED"
    [] OTHER                  -> "UNKNOWN"]

VARIABLES
  adapter,   \* which one is configured
  local,     \* order -> status in the order store
  known,     \* order -> whose exchange_order_id is stored: an attempt's, or 0
  attempt,   \* order -> attempt of the request under way, 0: none
  flying,    \* order -> attempts whose request may still arrive
  venue,     \* order -> attempt -> what the venue has opened for it, or absent
  calls

venueVars == <<adapter, local, known, attempt, flying, venue, calls>>

Attempt == 1..MaxAttempts
Absent  == [n \in Attempt |-> "absent"]

Final == {"FILLED", "CANCELLED", "REJECTED"}

VenueInit ==
  /\ adapter \in Adapter
  /\ local = [o \in VenueOrder |-> "CREATED"] /\ known = [o \in VenueOrder |-> 0]
  /\ attempt = [o \in VenueOrder |-> 0] /\ flying = [o \in VenueOrder |-> {}]
  /\ venue = [o \in VenueOrder |-> Absent]
  /\ calls = 0

Call == calls < MaxCalls /\ calls' = calls + 1

-----------------------------------------------------------------------------
(* The venue (external).                                                   *)

\* The attempts of o for which the venue has opened an order, and those that trade.
Placed(o)  == {n \in Attempt : venue[o][n] # "absent"}
Working(o) == {n \in Attempt : venue[o][n] \in {"live", "partially_filled"}}

\* The id of an attempt: OKX is sent a digest of the client order id, Binance the id itself.
_cl_ord_id(o, n) == o

IdIsFresh(o, n) ==
  \A k \in IF adapter = "okx" THEN Placed(o) ELSE Working(o) : _cl_ord_id(o, k) # _cl_ord_id(o, n)

Arrive(o) ==
  /\ \E n \in flying[o] :
       /\ flying' = [flying EXCEPT ![o] = @ \ {n}]
       /\ IF IdIsFresh(o, n)
          THEN \E s \in {"live", "filled"} : venue' = [venue EXCEPT ![o][n] = s]
          ELSE UNCHANGED venue
  /\ UNCHANGED <<adapter, local, known, attempt, calls>>

Trade(o) ==
  /\ \E n \in Working(o), s \in VenueState \ {"live"} : venue' = [venue EXCEPT ![o][n] = s]
  /\ UNCHANGED <<adapter, local, known, attempt, flying, calls>>

-----------------------------------------------------------------------------
(* submit_order, and what the engine makes of its outcome.                 *)

Submit(o) ==
  /\ Call /\ local[o] = "CREATED"
  /\ local' = [local EXCEPT ![o] = "SUBMITTED"]
  /\ attempt' = [attempt EXCEPT ![o] = 1] /\ flying' = [flying EXCEPT ![o] = {1}]
  /\ UNCHANGED <<adapter, known, venue>>

Returned(o, status) ==
  /\ local' = [local EXCEPT ![o] = status] /\ attempt' = [attempt EXCEPT ![o] = 0]

\* The answer to a request that opened an order: an exchange id, on OKX without a state.
Acknowledged(o) ==
  /\ attempt[o] \in Placed(o)
  /\ Returned(o, "OPEN") /\ known' = [known EXCEPT ![o] = attempt[o]]
  /\ UNCHANGED <<adapter, flying, venue, calls>>

\* An answer that is an error: a refusal, an id in use, or a gateway that gives up on a
\* request that goes on.  Every ExchangeError leaves UNKNOWN.
Erroneous(o) ==
  /\ attempt[o] > 0
  /\ Returned(o, "UNKNOWN")
  /\ UNCHANGED <<adapter, known, flying, venue, calls>>

\* No answer: the request is sent again, and the last time the call raises.
Unanswered(o) ==
  /\ attempt[o] > 0
  /\ \/ /\ attempt[o] < MaxAttempts
        /\ attempt' = [attempt EXCEPT ![o] = @ + 1]
        /\ flying' = [flying EXCEPT ![o] = @ \cup {attempt[o] + 1}]
        /\ UNCHANGED local
     \/ /\ attempt[o] = MaxAttempts
        /\ Returned(o, "UNKNOWN")
        /\ UNCHANGED flying
  /\ UNCHANGED <<adapter, known, venue, calls>>

\* A request that has been lost on its way.
Lose(o) ==
  /\ \E n \in flying[o] : flying' = [flying EXCEPT ![o] = @ \ {n}]
  /\ UNCHANGED <<adapter, local, known, attempt, venue, calls>>

\* The process ends; what it has stored stays.
CrashAndRestart ==
  /\ \E o \in VenueOrder : attempt[o] > 0
  /\ attempt' = [o \in VenueOrder |-> 0]
  /\ UNCHANGED <<adapter, local, known, flying, venue, calls>>

-----------------------------------------------------------------------------
(* get_order, as recover() calls it: by the exchange id, or else by the    *)
(* client id.  OKX is asked for ordId, Binance for origClientOrderId.      *)

\* The orders that the venue knows under that identifier.
Found(o) ==
  IF adapter = "okx" THEN {known[o]} \ {0} ELSE IF known[o] = 0 THEN Placed(o) ELSE {}

get_order(o) ==
  \E n \in Found(o) :
    /\ local' = [local EXCEPT ![o] =
                   IF status_map[venue[o][n]] = "UNKNOWN" THEN @ ELSE status_map[venue[o][n]]]
    /\ known' = [known EXCEPT ![o] =
                   IF @ = 0 /\ venue[o][n] \in {"live", "partially_filled", "filled"} THEN n ELSE @]

\* Binance names the order that is not there; OKX answers with a code that raises another
\* error, which ends the recovery.
NotFound(o) ==
  /\ adapter = "binance" /\ Found(o) = {}
  /\ local' = [local EXCEPT ![o] = "REJECTED"]
  /\ UNCHANGED known

Recover(o) ==
  /\ Call /\ attempt[o] = 0 /\ local[o] \notin Final \cup {"CREATED"}
  /\ get_order(o) \/ NotFound(o)
  /\ UNCHANGED <<adapter, attempt, flying, venue>>

VenueNext ==
  \/ \E o \in VenueOrder :
       \/ Submit(o) \/ Arrive(o) \/ Lose(o) \/ Trade(o) \/ Recover(o)
       \/ Acknowledged(o) \/ Erroneous(o) \/ Unanswered(o)
  \/ CrashAndRestart

-----------------------------------------------------------------------------

\* The adapters' share of the type invariant.
VenueTypeOK ==
  /\ adapter \in Adapter
  /\ local \in [VenueOrder -> {"CREATED", "SUBMITTED", "OPEN", "PARTIALLY_FILLED", "UNKNOWN"} \cup Final]
  /\ known \in [VenueOrder -> 0..MaxAttempts] /\ attempt \in [VenueOrder -> 0..MaxAttempts]
  /\ flying \in [VenueOrder -> SUBSET Attempt] /\ calls \in 0..MaxCalls
  /\ venue \in [VenueOrder -> [Attempt -> VenueState \cup {"absent"}]]

\* However often the request is sent, and whenever its copies arrive, the venue never works
\* two orders of one id, as both adapters name it the same at every attempt; OKX opens one
\* at all.  (Binance may open a second once the first is filled or canceled.)
OneOrderPerId ==
  \A o \in VenueOrder :
    Cardinality(IF adapter = "okx" THEN Placed(o) ELSE Working(o)) <= 1

\* A fill is stored only of an order that the venue has filled, and its exchange id with it,
\* and a cancellation of one that it has canceled: a state without an entry in status_map
\* never ends an order.
FinalIsTheVenues ==
  \A o \in VenueOrder :
    /\ local[o] = "FILLED" => known[o] \in Placed(o) /\ venue[o][known[o]] = "filled"
    /\ local[o] = "CANCELLED" => \E n \in Attempt : venue[o][n] = "canceled"

\* recovery.py, lines 54-55: an order it rejects "never reached the exchange or was fully
\* purged" there.
RejectedIsAbsent == \A o \in VenueOrder : local[o] = "REJECTED" => Placed(o) = {}

\* SPAC.md, line 83: an order without an answer is looked up, "never blind resubmit".  Not
\* even on Binance is there a second order of an id.
NeverSentTwice == \A o \in VenueOrder : Cardinality(Placed(o)) <= 1
=============================================================================
