-------------------------- MODULE OrderStateMachine --------------------------
(***************************************************************************)
(* The order state machine of crypto_trader/order/state_machine.py: a pure *)
(* function of the current status and an event.  In that table every event *)
(* leads to the status of the same name (ORDER_ACKNOWLEDGED to             *)
(* ACKNOWLEDGED, ORDER_OPENED to OPEN, ...), so an event is named here by  *)
(* the status it announces and the table reduces to a successor relation.  *)
(***************************************************************************)

\* OrderStatus, domain/enums.py.
Status == {"CREATED", "VALIDATED", "SUBMITTING", "SUBMITTED", "ACKNOWLEDGED",
           "OPEN", "PARTIALLY_FILLED", "FILLED", "CANCEL_PENDING",
           "CANCELLED", "REJECTED", "EXPIRED", "UNKNOWN"}

\* A client order id nobody has persisted an order for yet.
Absent == "ABSENT"

\* TERMINAL_ORDER_STATUSES.
Terminal == {"FILLED", "CANCELLED", "REJECTED", "EXPIRED"}

\* _TRANSITIONS: the events that move an order out of (or re-enter) a status.
Successors ==
  [CREATED          |-> {"VALIDATED", "REJECTED"},
   VALIDATED        |-> {"SUBMITTING", "REJECTED"},
   SUBMITTING       |-> {"SUBMITTED", "ACKNOWLEDGED", "OPEN",
                         "PARTIALLY_FILLED", "FILLED", "REJECTED", "UNKNOWN"},
   SUBMITTED        |-> {"ACKNOWLEDGED", "OPEN", "PARTIALLY_FILLED", "FILLED",
                         "REJECTED", "UNKNOWN"},
   ACKNOWLEDGED     |-> {"OPEN", "PARTIALLY_FILLED", "FILLED",
                         "CANCEL_PENDING", "REJECTED", "UNKNOWN"},
   OPEN             |-> {"PARTIALLY_FILLED", "FILLED", "CANCEL_PENDING",
                         "REJECTED", "EXPIRED", "UNKNOWN"},
   PARTIALLY_FILLED |-> {"PARTIALLY_FILLED", "FILLED", "CANCEL_PENDING",
                         "REJECTED", "EXPIRED", "UNKNOWN"},
   FILLED           |-> {},
   CANCEL_PENDING   |-> {"CANCELLED", "PARTIALLY_FILLED", "FILLED"},
   CANCELLED        |-> {"PARTIALLY_FILLED", "FILLED"},
   REJECTED         |-> {},
   EXPIRED          |-> {},
   UNKNOWN          |-> {"ACKNOWLEDGED", "OPEN", "PARTIALLY_FILLED", "FILLED",
                         "CANCELLED", "REJECTED", "EXPIRED"}]

\* _NOOP_EVENTS: late or repeated events that are recorded without a move.
Late ==
  {<<"ACKNOWLEDGED", "ACKNOWLEDGED">>,
   <<"OPEN", "ACKNOWLEDGED">>, <<"OPEN", "OPEN">>,
   <<"PARTIALLY_FILLED", "ACKNOWLEDGED">>, <<"PARTIALLY_FILLED", "OPEN">>,
   <<"FILLED", "ACKNOWLEDGED">>, <<"FILLED", "OPEN">>, <<"FILLED", "FILLED">>,
   <<"CANCELLED", "CANCELLED">>, <<"REJECTED", "REJECTED">>,
   <<"EXPIRED", "EXPIRED">>}

\* transition(current, event) returns (anything else raises
\* InvalidStateTransition) ...
Accepts(s, e) == e \in Successors[s] \/ <<s, e>> \in Late

\* ... and the status it returns.
After(s, e) == IF e \in Successors[s] THEN e ELSE s

=============================================================================
