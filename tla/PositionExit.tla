----------------------------- MODULE PositionExit -----------------------------
(***************************************************************************)
(* How positions are left: AIPositionRuntimeBridge.evaluate_active_        *)
(* positions (runtime/ai_position_bridge.py), called at the end of every   *)
(* tick of the engine, with the parts of process_signal,                   *)
(* _execute_perpetual_order and the fill settlement that it races with.    *)
(*                                                                         *)
(* A perpetual order moves the position in the tick task itself, one       *)
(* ledger transaction and then one fill row.  A spot order is executed by  *)
(* the exchange and settled later by the event loop: first the fill row,   *)
(* with the order FILLED, then the posting that moves the position.        *)
(*                                                                         *)
(* The brain holds every position it is shown (nothing sets its overrides),*)
(* so the time stop is what closes them.  Ages count ticks of a clock and  *)
(* stop at the threshold they are compared with; an entry is one unit.     *)
(***************************************************************************)
EXTENDS Integers

CONSTANTS
  Symbol,     \* the execution symbols
  Perp,       \* those of them that are perpetual contracts
  Entry,      \* the entries the strategy may make, <<symbol, side>>
  None,       \* no age, no order, no intent
  TimeStop,   \* time_stop_seconds
  Grace,      \* the window a symbol is absent before its age is forgotten
  MaxOrders,  \* bound: orders that are not final at one time
  Faults      \* bound: what may fail: one crash or one partial "read" per
              \* behaviour, list_open ("list") at any time

ASSUME PerpAssumption == Perp \subseteq Symbol
ASSUME EntryAssumption ==
  /\ Entry \subseteq Symbol \X {-1, 1}
  /\ \A e \in Entry : e[2] = -1 => e[1] \in Perp
ASSUME BoundsAssumption == TimeStop \in Nat \ {0} /\ Grace \in Nat /\ MaxOrders \in Nat
ASSUME FaultAssumption == Faults \subseteq {"crash", "read", "list"}
ASSUME NoneAssumption ==
  /\ None \notin [symbol : Symbol, delta : Int, exit : BOOLEAN]
  /\ None \notin [symbol : Symbol, delta : Int, exit : BOOLEAN,
                 status : {"submitted", "open", "filled"}]

VARIABLES
  position,   \* symbol -> signed position in the ledger
  held,       \* symbol -> age of that position
  lastFill,   \* symbol -> side -> age of the newest row of fills
  orders,     \* slot -> an order that is not final yet, or None
  firstSeen,  \* symbol -> age the bridge has on record (_first_seen_open)
  missing,    \* symbol -> age of its absence (_missing_since)
  inflight,   \* _exit_in_flight
  pc,         \* where the tick task is; "dead" when an exception ended it,
              \* "down" between a crash and the next start
  snap,       \* the candidates of this round: symbol -> quantity
  todo,       \* those not evaluated yet
  intent,     \* the signal process_signal works on
  fault       \* the fault that has happened, or None

ledger == <<position, held, lastFill>>
bridge == <<firstSeen, missing, inflight>>
round  == <<snap, todo>>
vars   == <<ledger, orders, bridge, pc, round, intent, fault>>

Slot   == 1..MaxOrders
Signal == [symbol : Symbol, delta : Int, exit : BOOLEAN]
Order  == [symbol : Symbol, delta : Int, exit : BOOLEAN,
           status : {"submitted", "open", "filled"}]
Age(n) == 0..n \cup {None}
NoSnap == [s \in Symbol |-> 0]

TypeOK ==
  /\ position \in [Symbol -> Int]
  /\ held \in [Symbol -> 0..TimeStop]
  /\ lastFill \in [Symbol -> [{-1, 1} -> Age(TimeStop)]]
  /\ orders \in [Slot -> Order \cup {None}]
  /\ firstSeen \in [Symbol -> Age(TimeStop)]
  /\ missing \in [Symbol -> Age(Grace)]
  /\ inflight \subseteq Symbol
  /\ pc \in {"strategies", "bridge", "list", "evaluate", "gate", "row", "send", "move",
             "fill", "dead", "down"}
  /\ snap \in [Symbol -> Int]
  /\ todo \subseteq Symbol
  /\ intent \in Signal \cup {None}
  /\ fault \in Faults \cup {None}

Init ==
  /\ position = NoSnap
  /\ held = [s \in Symbol |-> 0]
  /\ lastFill = [s \in Symbol |-> [d \in {-1, 1} |-> None]]
  /\ orders = [i \in Slot |-> None]
  /\ firstSeen = [s \in Symbol |-> None]
  /\ missing = [s \in Symbol |-> None]
  /\ inflight = {}
  /\ pc = "strategies"
  /\ snap = NoSnap
  /\ todo = {}
  /\ intent = None
  /\ fault = None

Sign(n) == IF n < 0 THEN -1 ELSE 1
Abs(n)  == IF n < 0 THEN -n ELSE n

Outstanding(s) == {i \in Slot : orders[i] # None /\ orders[i].symbol = s}

\* The order of a slot with another status.
WithStatus(i, status) ==
  [orders EXCEPT ![i] = [symbol |-> orders[i].symbol, delta |-> orders[i].delta,
                         exit |-> orders[i].exit, status |-> status]]

\* One fault, of a kind that may happen.
Happens(kind) == kind \in Faults /\ fault = None /\ fault' = kind

\* list_open, narrowed to the reduce-only orders of a symbol.
ListedExit(s) ==
  \E i \in Outstanding(s) : orders[i].exit /\ orders[i].status # "filled"

-----------------------------------------------------------------------------
(* The tick: strategies first, then the bridge.                            *)

\* Variant: the strategy does not look at the position.
MayAlwaysEnter(s) == Outstanding(s) = {}

\* Where an entry may go: the strategy looks at the position and does not
\* stack; one entry per symbol is out at a time (its cooldown is minutes).
MayEnter(s) == position[s] = 0 /\ Outstanding(s) = {}

Enter(s, d) ==
  /\ pc = "strategies"
  /\ <<s, d>> \in Entry /\ MayEnter(s)
  /\ intent' = [symbol |-> s, delta |-> d, exit |-> FALSE]
  /\ pc' = "gate"
  /\ UNCHANGED <<ledger, orders, bridge, round, fault>>

\* Both kinds of positions are read before anything is submitted.
ReadPositions(S) ==
  /\ pc \in {"strategies", "bridge"}
  /\ snap' = [s \in Symbol |-> IF s \in S THEN position[s] ELSE 0]
  /\ todo' = {s \in S : position[s] # 0}
  /\ pc' = IF inflight # {} /\ todo' # {} THEN "list" ELSE "evaluate"
  /\ UNCHANGED <<ledger, orders, bridge, intent>>

Snapshot == ReadPositions(Symbol) /\ UNCHANGED fault

\* The perpetual positions cannot be read: the round goes on without them.
PartialSnapshot == ReadPositions(Symbol \ Perp) /\ Happens("read")

\* What list_open returns; an error is taken for an empty list.
Listings ==
  {{s \in Symbol : ListedExit(s)}} \cup (IF "list" \in Faults THEN {{}} ELSE {})

\* Variant: what is in flight stays in flight.
NeverRearmed(listed) == inflight

\* An exit whose order is no longer outstanding is to be tried again.
Rearmed(listed) == inflight \cap listed

ListOpen ==
  /\ pc = "list"
  /\ \E listed \in Listings : inflight' = Rearmed(listed)
  /\ pc' = "evaluate"
  /\ UNCHANGED <<ledger, orders, firstSeen, missing, round, intent, fault>>

\* The age of a position: on record, or that of the newest fill on its entry
\* side, or from now on.
AgeOf(s) ==
  IF firstSeen[s] # None THEN firstSeen[s]
  ELSE IF lastFill[s][Sign(snap[s])] # None THEN lastFill[s][Sign(snap[s])]
  ELSE 0

\* Variant: the exit is not marked.
Unmarked(s) == inflight

\* The exit is marked in flight before it is submitted.
Marked(s) == inflight \cup {s}

Evaluate(s) ==
  /\ pc = "evaluate" /\ s \in todo
  /\ todo' = todo \ {s}
  /\ IF s \in inflight
     THEN UNCHANGED <<firstSeen, inflight, pc, intent>>
     ELSE /\ firstSeen' = [firstSeen EXCEPT ![s] = AgeOf(s)]
          /\ IF AgeOf(s) >= TimeStop
             THEN /\ inflight' = Marked(s)
                  /\ intent' = [symbol |-> s, delta |-> -snap[s], exit |-> TRUE]
                  /\ pc' = "gate"
             ELSE UNCHANGED <<inflight, pc, intent>>
  /\ UNCHANGED <<ledger, orders, missing, snap, fault>>

\* Absent for longer than the grace window.
Forgotten(s) ==
  snap[s] = 0 /\ missing[s] # None /\ missing[s] >= Grace

\* The end of the round.
EndRound ==
  /\ pc = "evaluate" /\ todo = {}
  /\ firstSeen' = [s \in Symbol |-> IF Forgotten(s) THEN None ELSE firstSeen[s]]
  /\ missing' = [s \in Symbol |->
                   IF snap[s] # 0 \/ firstSeen[s] = None \/ Forgotten(s) THEN None
                   ELSE IF missing[s] = None THEN 0 ELSE missing[s]]
  /\ inflight' = {s \in inflight : snap[s] # 0}
  /\ snap' = NoSnap
  /\ pc' = "strategies"
  /\ UNCHANGED <<ledger, orders, todo, intent, fault>>

-----------------------------------------------------------------------------
(* process_signal.                                                         *)

\* The signal has been dealt with: an exit came from the bridge, an entry from
\* the one strategy, which emits one signal a tick.
Back == IF intent.exit THEN "evaluate" ELSE "bridge"

\* check_no_reversal: an exit is at most the position, on the other side.
NoReversal(i) ==
  i.exit => /\ position[i.symbol] # 0
            /\ Sign(i.delta) = -Sign(position[i.symbol])
            /\ Abs(i.delta) <= Abs(position[i.symbol])

\* A gate says no, whatever its reason: the bridge may try again.
Refuse ==
  /\ pc = "gate"
  /\ inflight' = IF intent.exit THEN inflight \ {intent.symbol} ELSE inflight
  /\ pc' = Back
  /\ intent' = None
  /\ UNCHANGED <<ledger, orders, firstSeen, missing, round, fault>>

\* The gates agree, with the position as it is now.
Approve ==
  /\ pc = "gate"
  /\ NoReversal(intent)
  /\ pc' = "row"
  /\ UNCHANGED <<ledger, orders, bridge, round, intent, fault>>

\* The row of the order is SUBMITTED.
Submit ==
  /\ pc = "row"
  /\ \E i \in Slot :
       /\ orders[i] = None /\ \A j \in 1..i-1 : orders[j] # None
       /\ orders' = [orders EXCEPT ![i] =
                       [symbol |-> intent.symbol, delta |-> intent.delta,
                        exit |-> intent.exit, status |-> "submitted"]]
  /\ pc' = IF intent.symbol \in Perp THEN "move" ELSE "send"
  /\ UNCHANGED <<ledger, bridge, round, intent, fault>>

\* The order the tick task is working on.
Mine == CHOOSE i \in Slot : orders[i] # None /\ orders[i].status = "submitted"

\* The position of a symbol changes, in one ledger transaction.
Moves(s, d) ==
  /\ position' = [position EXCEPT ![s] = @ + d]
  /\ held' = [held EXCEPT ![s] = 0]

Filled(s, d) == lastFill' = [lastFill EXCEPT ![s][Sign(d)] = 0]

\* Spot: the exchange executes the order and queues its events.
Send ==
  /\ pc = "send"
  /\ orders' = WithStatus(Mine, "open")
  /\ pc' = Back
  /\ intent' = None
  /\ UNCHANGED <<ledger, bridge, round, fault>>

\* Perpetual: record_open or record_close.
Move ==
  /\ pc = "move"
  /\ Moves(intent.symbol, intent.delta)
  /\ pc' = "fill"
  /\ UNCHANGED <<lastFill, orders, bridge, round, intent, fault>>

\* Perpetual: the fill row, and with it the order is FILLED; its settlement
\* callback has nothing to do.
FillPerpetual ==
  /\ pc = "fill"
  /\ Filled(intent.symbol, intent.delta)
  /\ orders' = [orders EXCEPT ![Mine] = None]
  /\ pc' = Back
  /\ intent' = None
  /\ UNCHANGED <<position, held, bridge, round, fault>>

\* The memory of the bridge and of the round is gone.
Forget ==
  /\ firstSeen' = [s \in Symbol |-> None]
  /\ missing' = [s \in Symbol |-> None]
  /\ inflight' = {}
  /\ snap' = NoSnap /\ todo' = {} /\ intent' = None

\* A database error that nobody handles ends the tick task, and nothing reads
\* what it remembered any more.
Raise ==
  /\ pc \in {"strategies", "bridge", "gate", "row", "send", "move", "fill"}
  /\ pc' = "dead"
  /\ Forget
  /\ UNCHANGED <<ledger, orders, fault>>

-----------------------------------------------------------------------------
(* The event loop, one event at a time; the clock; a crash.                *)

FillRow(i) ==
  /\ pc # "down"
  /\ orders[i] # None /\ orders[i].status = "open"
  /\ \A j \in Slot : orders[j] # None => orders[j].status # "filled"
  /\ orders' = WithStatus(i, "filled")
  /\ Filled(orders[i].symbol, orders[i].delta)
  /\ UNCHANGED <<position, held, bridge, pc, round, intent, fault>>

\* _settle_fill: the ledger and the portfolio.
Settle(i) ==
  /\ pc # "down"
  /\ orders[i] # None /\ orders[i].status = "filled"
  /\ Moves(orders[i].symbol, orders[i].delta)
  /\ orders' = [orders EXCEPT ![i] = None]
  /\ UNCHANGED <<lastFill, bridge, pc, round, intent, fault>>

Older(age, n) == IF age = None THEN None ELSE IF age < n THEN age + 1 ELSE n

Clock ==
  /\ held' = [s \in Symbol |-> IF position[s] = 0 THEN 0 ELSE Older(held[s], TimeStop)]
  /\ lastFill' = [s \in Symbol |-> [d \in {-1, 1} |-> Older(lastFill[s][d], TimeStop)]]
  /\ firstSeen' = [s \in Symbol |-> Older(firstSeen[s], TimeStop)]
  /\ missing' = [s \in Symbol |-> Older(missing[s], Grace)]
  /\ UNCHANGED <<position, orders, inflight, pc, round, intent, fault>>

\* What is in memory is lost, the simulated exchange with it.
Crash ==
  /\ pc # "down" /\ Happens("crash")
  /\ pc' = "down"
  /\ Forget
  /\ UNCHANGED <<ledger, orders>>

\* Recovery does not find the open orders at the exchange and rejects them; a
\* FILLED order is not looked at again.
Restart ==
  /\ pc = "down"
  /\ orders' = [i \in Slot |-> None]
  /\ pc' = "strategies"
  /\ UNCHANGED <<ledger, bridge, round, intent, fault>>

TickTask ==
  \/ \E s \in Symbol, d \in {-1, 1} : Enter(s, d)
  \/ Snapshot \/ PartialSnapshot \/ ListOpen \/ EndRound
  \/ \E s \in Symbol : Evaluate(s)
  \/ Refuse \/ Approve \/ Submit \/ Send \/ Move \/ FillPerpetual \/ Raise

EventLoop == \E i \in Slot : FillRow(i) \/ Settle(i)

Next == TickTask \/ EventLoop \/ Clock \/ Crash \/ Restart

Spec == Init /\ [][Next]_vars

\* The tick and event loops run, time passes, and a gate that is asked again
\* and again to let an exit of a symbol through does not refuse for ever.
FairSpec ==
  /\ Spec
  /\ WF_vars(Snapshot \/ ListOpen \/ EndRound \/ \E s \in Symbol : Evaluate(s))
  /\ WF_vars(pc = "gate" /\ (Refuse \/ Approve))
  /\ WF_vars(Submit \/ Send \/ Move \/ FillPerpetual)
  /\ WF_vars(EventLoop)
  /\ WF_vars(Clock)
  /\ \A s \in Symbol : SF_vars(Approve /\ intent.exit /\ intent.symbol = s)

-----------------------------------------------------------------------------
(* Properties.                                                             *)

\* The row of an exit of this symbol is written in this step.
Exits(s) ==
  pc = "row" /\ pc' \in {"move", "send"} /\ intent.exit /\ intent.symbol = s

\* No exit of a symbol is submitted while an earlier one is still listed as
\* outstanding (the purpose of _exit_in_flight), across crashes, refusals and
\* partial reads, as long as list_open itself does not fail.
NoSecondListedExit ==
  [][\A s \in Symbol : ListedExit(s) => ~Exits(s)]_vars

\* A perpetual position is one entry: never stacked, never reversed by an
\* exit, whatever crash or error comes between its ledger transaction and its
\* fill row.
PerpIsOneEntry == \A s \in Perp : Abs(position[s]) <= 1

\* A position that stays open is closed by the time stop, unless an exception
\* has ended the tick task or the process is down.
OpenIsClosed ==
  \A s \in Symbol : position[s] # 0 ~> position[s] = 0 \/ pc \in {"dead", "down"}

\* The time stop closes only positions held for at least as long as it says.
StopsOnlyWhatIsDue ==
  [][\A s \in Symbol :
       pc = "evaluate" /\ pc' = "gate" /\ s \in todo \ todo' => held[s] >= TimeStop]_vars

\* While the exit of a symbol has not settled, no other is submitted.
NoExitBeforeSettled ==
  [][\A s \in Symbol : Exits(s) => \A i \in Outstanding(s) : ~orders[i].exit]_vars
=============================================================================
