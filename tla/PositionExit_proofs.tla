------------------------- MODULE PositionExit_proofs -------------------------
(***************************************************************************)
(* Proofs about PositionExit: type correctness, that a perpetual position  *)
(* is never stacked or reversed, and that no exit is submitted beside a    *)
(* listed one.                                                             *)
(***************************************************************************)
EXTENDS PositionExit, TLAPS

-----------------------------------------------------------------------------
(* The invariants.                                                         *)

\* Order i is outstanding for a symbol of the spot market.
SpotOrder(i, s) == i \in Outstanding(s) /\ s \notin Perp

\* A round of the bridge, or the exit it has called for, is under way.
InRound == pc \in {"list", "evaluate"} \/ (intent # None /\ intent.exit)

\* The tick task works on a signal exactly between the gates and the end of
\* the submission, and on a submitted order from its row on; only there a
\* perpetual order exists, and it is never executed by the exchange.
Working ==
  /\ intent # None <=> pc \in {"gate", "row", "send", "move", "fill"}
  /\ pc = "send" => intent.symbol \notin Perp
  /\ pc \in {"move", "fill"} => intent.symbol \in Perp
  /\ pc \in {"send", "move", "fill"} =>
       \E i \in Slot : /\ orders[i] # None
                       /\ orders[i].status = "submitted"
                       /\ orders[i].symbol = intent.symbol
  /\ \A i \in Slot : orders[i] # None /\ orders[i].status = "submitted" =>
       /\ pc \in {"send", "move", "fill", "dead", "down"}
       /\ pc \in {"send", "move", "fill"} =>
            \A j \in Slot : orders[j] # None /\ orders[j].status = "submitted" => i = j
  /\ \A i \in Slot : orders[i] # None /\ orders[i].symbol \in Perp =>
       orders[i].status = "submitted"

TypeInv == TypeOK /\ Working

\* A perpetual position is what the gates saw until the order moves it.
Entered ==
  intent # None /\ ~intent.exit /\ pc \in {"gate", "row", "move"} =>
    /\ Abs(intent.delta) = 1
    /\ intent.symbol \in Perp => position[intent.symbol] = 0

\* A perpetual exit past the gates still is what they let through.
Reducing ==
  intent # None /\ intent.exit /\ pc \in {"row", "move"} /\ intent.symbol \in Perp =>
    NoReversal(intent)

PerpInv == TypeInv /\ Entered /\ Reducing /\ PerpIsOneEntry

IsFilled(i) == orders[i] # None /\ orders[i].status = "filled"

\* The event loop settles one fill before it takes the next.
OneFilled == \A i, j \in Slot : IsFilled(i) /\ IsFilled(j) => i = j

\* Of a spot symbol one order at most is not executed yet.
OneUnfilled ==
  \A s \in Symbol : \A i, j \in Slot :
    SpotOrder(i, s) /\ SpotOrder(j, s) /\ ~IsFilled(i) /\ ~IsFilled(j) => i = j

\* An entry is alone, on a flat symbol.
EntryAlone ==
  \A s \in Symbol : \A i \in Slot : SpotOrder(i, s) /\ ~orders[i].exit =>
    position[s] = 0 /\ Outstanding(s) = {i}

\* Beside the listed exit of a flat symbol no other order waits to be settled.
ListedOnFlat ==
  \A s \in Symbol \ Perp : ListedExit(s) /\ position[s] = 0 =>
    \A i \in Outstanding(s) : orders[i].status # "filled"

\* The signal at the gates has no listed exit beside it.
Pending ==
  pc \in {"gate", "row"} =>
    IF intent.exit
    THEN /\ intent.symbol \in inflight
         /\ snap[intent.symbol] # 0
         /\ ~ListedExit(intent.symbol)
    ELSE Outstanding(intent.symbol) = {} /\ position[intent.symbol] = 0

\* A spot exit past the gates has only executed exits beside it, and none when
\* one of them has closed the position meanwhile.
PendingRow ==
  pc = "row" /\ intent.exit /\ intent.symbol \notin Perp =>
    /\ \A i \in Outstanding(intent.symbol) : orders[i].exit /\ orders[i].status = "filled"
    /\ position[intent.symbol] = 0 => Outstanding(intent.symbol) = {}

\* A listed exit is in flight, unless the symbol is flat and not in the round.
InFlight ==
  pc \notin {"dead", "down"} =>
    \A s \in Symbol \ Perp : ListedExit(s) /\ s \notin inflight =>
      position[s] = 0 /\ snap[s] = 0

\* A symbol with a listed exit that the round did not see is flat.
AbsentIsFlat ==
  InRound => \A s \in Symbol \ Perp : ListedExit(s) /\ snap[s] = 0 => position[s] = 0

\* Only symbols with a position are evaluated.
Candidates == \A s \in todo : snap[s] # 0

OrdersInv == OneFilled /\ OneUnfilled /\ EntryAlone /\ ListedOnFlat
RoundInv  == Pending /\ PendingRow /\ InFlight /\ AbsentIsFlat /\ Candidates
ExitInv   == TypeInv /\ OrdersInv /\ RoundInv

-----------------------------------------------------------------------------
(* Types.                                                                  *)

\* A tick of the clock leaves an age an age.
LEMMA OlderAge ==
  ASSUME NEW n \in Nat, NEW age \in Age(n)
  PROVE  Older(age, n) \in Age(n)
  BY DEF Older, Age

\* A fill row leaves the ages of the newest fills ages.
LEMMA FilledAge ==
  ASSUME TypeOK, NEW s \in Symbol, NEW d \in Int, Filled(s, d)
  PROVE  lastFill' \in [Symbol -> [{-1, 1} -> Age(TimeStop)]]
  <1>1. Sign(d) \in {-1, 1} /\ 0 \in Age(TimeStop)
    BY BoundsAssumption DEF Sign, Age
  <1>2. [lastFill[s] EXCEPT ![Sign(d)] = 0] \in [{-1, 1} -> Age(TimeStop)]
    BY <1>1 DEF TypeOK
  <1>3. lastFill' = [lastFill EXCEPT ![s] = [lastFill[s] EXCEPT ![Sign(d)] = 0]]
    BY DEF Filled
  <1> QED
    BY <1>2, <1>3 DEF TypeOK

\* While the tick task submits, its order is the one in SUBMITTED.
LEMMA MineIsSubmitted ==
  ASSUME TypeInv, pc \in {"send", "move", "fill"}
  PROVE  /\ Mine \in Slot /\ orders[Mine] \in Order
         /\ orders[Mine] # None /\ orders[Mine].status = "submitted"
         /\ orders[Mine].symbol = intent.symbol
  <1>1. PICK i \in Slot : /\ orders[i] # None /\ orders[i].status = "submitted"
                          /\ orders[i].symbol = intent.symbol
    BY DEF TypeInv, Working
  <1>2. Mine \in Slot /\ orders[Mine] # None /\ orders[Mine].status = "submitted"
    BY <1>1 DEF Mine
  <1>3. Mine = i
    BY <1>1, <1>2 DEF TypeInv, Working
  <1> QED
    BY <1>1, <1>2, <1>3 DEF TypeInv, TypeOK

\* What setting the status of an order changes.
LEMMA StatusIsSet ==
  ASSUME TypeOK, NEW i \in Slot, orders[i] # None,
         NEW status \in {"submitted", "open", "filled"},
         orders' = WithStatus(i, status)
  PROVE  /\ orders' \in [Slot -> Order \cup {None}]
         /\ orders'[i] \in Order
         /\ orders'[i].symbol = orders[i].symbol /\ orders'[i].delta = orders[i].delta
         /\ orders'[i].exit = orders[i].exit /\ orders'[i].status = status
         /\ \A j \in Slot : j # i => orders'[j] = orders[j]
  BY DEF TypeOK, WithStatus, Order

LEMMA TypeInit == Init => TypeInv
  BY BoundsAssumption DEF Init, TypeInv, TypeOK, Working, NoSnap, Age

LEMMA TypeNext == TypeInv /\ [Next]_vars => TypeInv'
  <1> SUFFICES ASSUME TypeInv, [Next]_vars PROVE TypeInv'
    OBVIOUS
  <1> USE DEF TypeInv, TypeOK
  <1>1. ASSUME NEW s \in Symbol, NEW d \in {-1, 1}, Enter(s, d) PROVE TypeInv'
    <2>1. [symbol |-> s, delta |-> d, exit |-> FALSE] \in Signal
      BY DEF Signal
    <2>2. TypeOK'
      BY <1>1, <2>1 DEF Enter, ledger, bridge, round
    <2>3. Working'
      BY <1>1, <2>1, NoneAssumption DEF Enter, ledger, bridge, round, Working, Signal
    <2> QED BY <2>2, <2>3
  <1>2. CASE Snapshot
    BY <1>2 DEF Snapshot, ReadPositions, Working, ledger, bridge
  <1>3. CASE PartialSnapshot
    BY <1>3 DEF PartialSnapshot, ReadPositions, Happens, Working, ledger, bridge
  <1>4. CASE ListOpen
    BY <1>4 DEF ListOpen, Rearmed, Working, ledger, round
  <1>5. CASE EndRound
    BY <1>5, BoundsAssumption DEF EndRound, Working, ledger, NoSnap, Age
  <1>6. ASSUME NEW s \in Symbol, Evaluate(s) PROVE TypeInv'
    <2>1. AgeOf(s) \in Age(TimeStop)
      BY BoundsAssumption DEF AgeOf, Age, Sign
    <2> DEFINE exit == [symbol |-> s, delta |-> -snap[s], exit |-> TRUE]
    <2>2. exit \in Signal /\ exit # None
      <3>1. -snap[s] \in Int
        OBVIOUS
      <3>2. exit \in Signal
        BY <3>1 DEF Signal
      <3> QED
        BY <3>2, NoneAssumption DEF Signal
    <2>3. TypeOK'
      BY <1>6, <2>1, <2>2 DEF Evaluate, Marked, ledger
    <2>4. Working'
      BY <1>6, <2>2 DEF Evaluate, Working, ledger
    <2> QED BY <2>3, <2>4
  <1>7. CASE Refuse
    BY <1>7 DEF Refuse, Back, Working, ledger, round
  <1>8. CASE Approve
    BY <1>8 DEF Approve, Working, ledger, bridge, round
  <1>9. CASE Submit
    <2> PICK i \in Slot :
          /\ orders[i] = None
          /\ orders' = [orders EXCEPT ![i] =
                         [symbol |-> intent.symbol, delta |-> intent.delta,
                          exit |-> intent.exit, status |-> "submitted"]]
      BY <1>9 DEF Submit
    <2>1. intent \in Signal
      BY <1>9 DEF Submit, Working
    <2>2. TypeOK'
      BY <1>9, <2>1 DEF Submit, ledger, bridge, round, Signal, Order
    <2>3. Working'
      BY <1>9, <2>1, NoneAssumption DEF Submit, ledger, bridge, round, Signal, Order, Working
    <2> QED BY <2>2, <2>3
  <1>10. CASE Send
    <2>1. /\ Mine \in Slot /\ orders[Mine] # None /\ orders[Mine].status = "submitted"
          /\ orders[Mine].symbol = intent.symbol
      BY <1>10, MineIsSubmitted DEF Send
    <2>2. /\ orders' \in [Slot -> Order \cup {None}]
          /\ orders'[Mine].symbol = orders[Mine].symbol /\ orders'[Mine].status = "open"
          /\ \A j \in Slot : j # Mine => orders'[j] = orders[j]
      BY <1>10, <2>1, StatusIsSet DEF Send
    <2>3. TypeOK'
      BY <1>10, <2>2 DEF Send, Back, ledger, bridge, round
    <2>4. Working'
      BY <1>10, <2>1, <2>2 DEF Send, Back, ledger, bridge, round, Working
    <2> QED BY <2>3, <2>4
  <1>11. CASE Move
    <2>1. intent \in Signal
      BY <1>11 DEF Move, Working
    <2>2. TypeOK'
      BY <1>11, <2>1, BoundsAssumption DEF Move, Moves, bridge, round, Signal
    <2>3. Working'
      BY <1>11 DEF Move, Moves, bridge, round, Working
    <2> QED BY <2>2, <2>3
  <1>12. CASE FillPerpetual
    <2>1. /\ Mine \in Slot /\ orders[Mine] # None /\ orders[Mine].status = "submitted"
      BY <1>12, MineIsSubmitted DEF FillPerpetual
    <2>2. TypeOK'
      <3>1. intent \in Signal
        BY <1>12 DEF FillPerpetual, Working
      <3>2. lastFill' \in [Symbol -> [{-1, 1} -> Age(TimeStop)]]
        BY <1>12, <3>1, FilledAge DEF FillPerpetual, Signal
      <3> QED
        BY <1>12, <3>2 DEF FillPerpetual, Back, bridge, round
    <2>3. Working'
      BY <1>12, <2>1 DEF FillPerpetual, Back, bridge, round, Working
    <2> QED BY <2>2, <2>3
  <1>13. CASE Raise
    BY <1>13 DEF Raise, Forget, NoSnap, Working, ledger, Age
  <1>14. ASSUME NEW i \in Slot, FillRow(i) PROVE TypeInv'
    <2>1. /\ orders' \in [Slot -> Order \cup {None}]
          /\ orders'[i].symbol = orders[i].symbol /\ orders'[i].status = "filled"
          /\ \A j \in Slot : j # i => orders'[j] = orders[j]
      BY <1>14, StatusIsSet DEF FillRow
    <2>2. TypeOK'
      <3>1. orders[i] \in Order
        BY <1>14 DEF FillRow
      <3>2. lastFill' \in [Symbol -> [{-1, 1} -> Age(TimeStop)]]
        BY <1>14, <3>1, FilledAge DEF FillRow, Order
      <3> QED
        BY <1>14, <2>1, <3>2 DEF FillRow, bridge, round
    <2>3. Working'
      BY <1>14, <2>1 DEF FillRow, bridge, round, Working
    <2> QED BY <2>2, <2>3
  <1>15. ASSUME NEW i \in Slot, Settle(i) PROVE TypeInv'
    <2>1. orders[i] \in Order
      BY <1>15 DEF Settle
    <2>2. TypeOK'
      BY <1>15, <2>1, BoundsAssumption DEF Settle, Moves, bridge, round, Order
    <2>3. Working'
      BY <1>15 DEF Settle, Moves, bridge, round, Working
    <2> QED BY <2>2, <2>3
  <1>16. CASE Clock
    <2>1. held' \in [Symbol -> 0..TimeStop]
      BY <1>16, BoundsAssumption DEF Clock, Older
    <2>2. lastFill' \in [Symbol -> [{-1, 1} -> Age(TimeStop)]]
      BY <1>16, OlderAge, BoundsAssumption DEF Clock
    <2>3. firstSeen' \in [Symbol -> Age(TimeStop)] /\ missing' \in [Symbol -> Age(Grace)]
      BY <1>16, OlderAge, BoundsAssumption DEF Clock
    <2> QED
      BY <1>16, <2>1, <2>2, <2>3, BoundsAssumption DEF Clock, Working, round
  <1>17. CASE Crash
    BY <1>17 DEF Crash, Happens, Forget, NoSnap, Working, ledger, Age
  <1>18. CASE Restart
    BY <1>18 DEF Restart, Working, ledger, bridge, round
  <1>19. CASE UNCHANGED vars
    BY <1>19 DEF vars, ledger, bridge, round, Working
  <1> QED
    BY <1>1, <1>2, <1>3, <1>4, <1>5, <1>6, <1>7, <1>8, <1>9, <1>10, <1>11, <1>12,
       <1>13, <1>14, <1>15, <1>16, <1>17, <1>18, <1>19
       DEF Next, TickTask, EventLoop

LEMMA TypeAlways == Spec => []TypeInv
  BY TypeInit, TypeNext, PTL DEF Spec

\* Every variable of the model keeps its type: the three dictionaries of the
\* bridge, the positions, the orders and the steps of the tick task.
THEOREM TypeCorrect == Spec => []TypeOK
  BY TypeAlways, PTL DEF TypeInv

-----------------------------------------------------------------------------
(* A perpetual position is one entry.                                      *)

\* An exit that passes the reversal gate does not make the position larger.
LEMMA ExitReduces ==
  ASSUME NEW p \in Int, NEW d \in Int,
         p # 0, Sign(d) = -Sign(p), Abs(d) <= Abs(p)
  PROVE  Abs(p + d) <= Abs(p)
  BY DEF Sign, Abs

\* An entry is one unit.
LEMMA EntryIsOne ==
  ASSUME NEW d \in Int, Abs(d) = 1
  PROVE  Abs(0 + d) <= 1
  BY DEF Abs

LEMMA PerpInit == Init => PerpInv
  <1> SUFFICES ASSUME Init PROVE PerpInv
    OBVIOUS
  <1>1. TypeInv
    BY TypeInit
  <1>2. Entered /\ Reducing
    BY DEF Init, Entered, Reducing
  <1>3. PerpIsOneEntry
    <2>1. \A s \in Perp : position[s] = 0
      BY PerpAssumption DEF Init, NoSnap
    <2> QED
      BY <2>1 DEF PerpIsOneEntry, Abs
  <1> QED
    BY <1>1, <1>2, <1>3 DEF PerpInv

\* Only Move changes a perpetual position, and it does what the gates saw.
LEMMA PerpNext == PerpInv /\ [Next]_vars => PerpInv'
  <1> SUFFICES ASSUME PerpInv, [Next]_vars PROVE (Entered /\ Reducing /\ PerpIsOneEntry)'
    BY TypeNext DEF PerpInv
  <1> USE DEF PerpInv
  <1>0. CASE UNCHANGED <<position, intent, pc>>
    BY <1>0 DEF Entered, Reducing, PerpIsOneEntry, NoReversal
  <1>a. CASE UNCHANGED position /\ intent' = None
    BY <1>a DEF Entered, Reducing, PerpIsOneEntry
  <1>1. ASSUME NEW s \in Symbol, NEW d \in {-1, 1}, Enter(s, d)
        PROVE  (Entered /\ Reducing /\ PerpIsOneEntry)'
    <2>1. UNCHANGED position /\ position[s] = 0 /\ pc' = "gate"
          /\ intent' = [symbol |-> s, delta |-> d, exit |-> FALSE]
      BY <1>1 DEF Enter, MayEnter, ledger
    <2>2. Abs(d) = 1
      BY DEF Abs
    <2> QED
      BY <2>1, <2>2 DEF Entered, Reducing, PerpIsOneEntry
  <1>2. CASE Snapshot \/ PartialSnapshot \/ ListOpen \/ EndRound
    <2>1. UNCHANGED <<position, intent>> /\ pc' \notin {"gate", "row", "move"}
      BY <1>2 DEF Snapshot, PartialSnapshot, ReadPositions, ListOpen, EndRound, ledger, bridge, round
    <2> QED
      BY <2>1 DEF Entered, Reducing, PerpIsOneEntry
  <1>3. ASSUME NEW s \in Symbol, Evaluate(s)
        PROVE  (Entered /\ Reducing /\ PerpIsOneEntry)'
    <2>1. UNCHANGED position
      BY <1>3 DEF Evaluate, ledger
    <2>2. UNCHANGED <<pc, intent>> \/ (pc' = "gate" /\ intent'.exit)
      BY <1>3 DEF Evaluate
    <2> QED
      BY <2>1, <2>2, <1>0 DEF Entered, Reducing, PerpIsOneEntry
  <1>4. CASE Refuse \/ Send \/ FillPerpetual
    <2>1. UNCHANGED position /\ intent' = None
      BY <1>4 DEF Refuse, Send, FillPerpetual, ledger
    <2> QED BY <2>1, <1>a
  <1>5. CASE Approve
    <2>1. UNCHANGED <<position, intent>> /\ NoReversal(intent) /\ pc = "gate" /\ pc' = "row"
      BY <1>5 DEF Approve, ledger
    <2> QED
      BY <2>1 DEF Entered, Reducing, PerpIsOneEntry, NoReversal
  <1>6. CASE Submit
    <2>1. UNCHANGED <<position, intent>> /\ pc = "row" /\ pc' \in {"move", "send"}
      BY <1>6 DEF Submit, ledger
    <2> QED
      BY <2>1 DEF Entered, Reducing, PerpIsOneEntry, NoReversal
  <1>7. CASE Move
    <2> DEFINE s == intent.symbol
    <2>1. intent \in Signal /\ s \in Perp /\ s \in Symbol /\ position \in [Symbol -> Int]
      BY <1>7, PerpAssumption DEF Move, TypeInv, Working, TypeOK
    <2>2. /\ position' = [position EXCEPT ![s] = position[s] + intent.delta]
          /\ pc = "move" /\ pc' = "fill"
      BY <1>7 DEF Move, Moves
    <2>3. Abs(position[s] + intent.delta) <= 1
      <3>1. position[s] \in Int /\ intent.delta \in Int /\ intent # None /\ Abs(position[s]) <= 1
        BY <2>1, <2>2 DEF Signal, PerpIsOneEntry, TypeInv, Working
      <3>2. CASE intent.exit
        <4>1. /\ position[s] # 0 /\ Sign(intent.delta) = -Sign(position[s])
              /\ Abs(intent.delta) <= Abs(position[s])
          BY <2>1, <2>2, <3>1, <3>2 DEF Reducing, NoReversal
        <4>2. Abs(position[s] + intent.delta) <= Abs(position[s])
          BY <3>1, <4>1, ExitReduces
        <4> QED
          BY <3>1, <4>2 DEF Abs
      <3>3. CASE ~intent.exit
        <4>1. Abs(intent.delta) = 1 /\ position[s] = 0
          BY <2>1, <2>2, <3>1, <3>3 DEF Entered
        <4> QED
          BY <3>1, <4>1, EntryIsOne
      <3> QED BY <3>2, <3>3
    <2>4. PerpIsOneEntry'
      BY <2>1, <2>2, <2>3, PerpAssumption DEF PerpIsOneEntry
    <2> QED
      BY <2>2, <2>4 DEF Entered, Reducing
  <1>8. CASE Raise \/ Crash
    <2>1. UNCHANGED position /\ intent' = None
      BY <1>8 DEF Raise, Crash, Forget, ledger
    <2> QED BY <2>1, <1>a
  <1>9. ASSUME NEW i \in Slot, FillRow(i)
        PROVE  (Entered /\ Reducing /\ PerpIsOneEntry)'
    BY <1>9, <1>0 DEF FillRow
  <1>10. ASSUME NEW i \in Slot, Settle(i)
         PROVE  (Entered /\ Reducing /\ PerpIsOneEntry)'
    <2>1. orders[i] \in Order /\ orders[i].symbol \notin Perp
      BY <1>10 DEF Settle, TypeInv, TypeOK, Working
    <2>2. UNCHANGED <<pc, intent>> /\ \A s \in Perp : position'[s] = position[s]
      BY <1>10, <2>1, PerpAssumption DEF Settle, Moves, TypeInv, TypeOK
    <2>3. intent # None /\ pc \in {"gate", "row", "move"} => intent.symbol \in Symbol
      BY DEF TypeInv, TypeOK, Signal
    <2> QED
      BY <2>2, <2>3 DEF Entered, Reducing, PerpIsOneEntry, NoReversal
  <1>11. CASE Clock \/ Restart \/ UNCHANGED vars
    <2>1. UNCHANGED <<position, intent>> /\ (pc' = pc \/ pc' = "strategies")
      BY <1>11 DEF Clock, Restart, vars, ledger, round
    <2> QED
      BY <2>1 DEF Entered, Reducing, PerpIsOneEntry, NoReversal
  <1> QED
    BY <1>1, <1>2, <1>3, <1>4, <1>5, <1>6, <1>7, <1>8, <1>9, <1>10, <1>11
       DEF Next, TickTask, EventLoop

\* A perpetual position is one entry, never stacked and never reversed by an
\* exit, wherever an error or a crash cuts _execute_perpetual_order short.
THEOREM PerpetualIsOneEntry == Spec => []PerpIsOneEntry
  BY PerpInit, PerpNext, PTL DEF Spec, PerpInv

-----------------------------------------------------------------------------
(* No exit beside a listed one.                                            *)

LEMMA ExitInit == Init => ExitInv
  <1> SUFFICES ASSUME Init PROVE ExitInv
    OBVIOUS
  <1>1. \A i \in Slot : orders[i] = None
    BY DEF Init
  <1>2. OrdersInv
    BY <1>1 DEF OrdersInv, OneFilled, OneUnfilled, EntryAlone, ListedOnFlat, IsFilled,
                SpotOrder, Outstanding, ListedExit
  <1>3. RoundInv
    BY <1>1 DEF Init, RoundInv, Pending, PendingRow, InFlight, AbsentIsFlat, Candidates,
                Outstanding, ListedExit
  <1> QED
    BY <1>2, <1>3, TypeInit DEF ExitInv

\* What the invariant says of orders and positions depends on nothing else.
LEMMA SameOrders ==
  ASSUME OrdersInv, UNCHANGED <<orders, position>>
  PROVE  OrdersInv'
  BY DEF OrdersInv, OneFilled, OneUnfilled, EntryAlone, ListedOnFlat, IsFilled,
         SpotOrder, Outstanding, ListedExit

\* A new row does: an entry finds no order, an exit no listed one.
LEMMA NewOrder ==
  ASSUME ExitInv, UNCHANGED position,
         NEW i \in Slot, orders[i] = None, orders'[i] # None,
         orders'[i].symbol = intent.symbol, orders'[i].exit = intent.exit,
         orders'[i].status = "submitted",
         \A j \in Slot : j # i => orders'[j] = orders[j],
         pc = "row"
  PROVE  OrdersInv'
  <1> USE DEF ExitInv, OrdersInv, RoundInv, Outstanding, SpotOrder, IsFilled
  <1>1. OneFilled'
    BY DEF OneFilled
  <1>2. OneUnfilled'
    BY DEF OneUnfilled, Pending, PendingRow, ListedExit
  <1>3. EntryAlone'
    BY DEF EntryAlone, Pending, PendingRow
  <1>4. ListedOnFlat'
    BY DEF ListedOnFlat, Pending, PendingRow, ListedExit
  <1> QED BY <1>1, <1>2, <1>3, <1>4

\* FillRow keeps what the invariant says of orders and positions.
LEMMA Execution ==
  ASSUME ExitInv, NEW i \in Slot, FillRow(i)
  PROVE  OrdersInv'
  <1>1. /\ orders'[i] # None /\ orders'[i].symbol = orders[i].symbol
        /\ orders'[i].exit = orders[i].exit /\ orders'[i].status = "filled"
        /\ \A j \in Slot : j # i => orders'[j] = orders[j]
        /\ orders[i] # None /\ orders[i].status = "open" /\ UNCHANGED position
        /\ \A j \in Slot : orders[j] # None => orders[j].status # "filled"
    BY StatusIsSet, NoneAssumption DEF FillRow, ExitInv, TypeInv, Order
  <1> USE DEF ExitInv, OrdersInv, Outstanding, SpotOrder, IsFilled
  <1>2. OneFilled'
    BY <1>1 DEF OneFilled
  <1>3. OneUnfilled'
    BY <1>1 DEF OneUnfilled
  <1>4. EntryAlone'
    BY <1>1 DEF EntryAlone
  <1>5. ListedOnFlat'
    BY <1>1 DEF ListedOnFlat, OneUnfilled, ListedExit
  <1> QED BY <1>2, <1>3, <1>4, <1>5

\* So does Settle: a listed exit keeps a flat symbol flat.
LEMMA Settlement ==
  ASSUME ExitInv, NEW i \in Slot, Settle(i)
  PROVE  OrdersInv'
  <1>1. /\ orders'[i] = None /\ \A j \in Slot : j # i => orders'[j] = orders[j]
        /\ orders[i] # None /\ orders[i].status = "filled" /\ orders[i].symbol \in Symbol
        /\ \A s \in Symbol : s # orders[i].symbol => position'[s] = position[s]
    BY DEF Settle, Moves, ExitInv, TypeInv, TypeOK, Order
  <1> USE DEF ExitInv, OrdersInv, Outstanding, SpotOrder, IsFilled
  <1>2. OneFilled'
    BY <1>1 DEF OneFilled
  <1>3. OneUnfilled'
    BY <1>1 DEF OneUnfilled
  <1>4. EntryAlone'
    BY <1>1 DEF EntryAlone
  <1>5. ListedOnFlat'
    BY <1>1 DEF ListedOnFlat, OneFilled, ListedExit
  <1> QED BY <1>2, <1>3, <1>4, <1>5

\* Every step keeps the invariant as long as list_open answers.
LEMMA ExitNext == "list" \notin Faults /\ ExitInv /\ [Next]_vars => ExitInv'
  <1> SUFFICES ASSUME "list" \notin Faults, ExitInv, [Next]_vars
               PROVE  OrdersInv' /\ RoundInv'
    BY TypeNext DEF ExitInv
  <1> USE DEF ExitInv, RoundInv
  <1>1. ASSUME NEW s \in Symbol, NEW d \in {-1, 1}, Enter(s, d)
        PROVE  OrdersInv' /\ RoundInv'
    <2>1. /\ UNCHANGED <<orders, position, snap, todo, inflight>>
          /\ pc = "strategies" /\ pc' = "gate"
          /\ intent' = [symbol |-> s, delta |-> d, exit |-> FALSE]
          /\ Outstanding(s) = {} /\ position[s] = 0
      BY <1>1 DEF Enter, MayEnter, ledger, bridge, round
    <2>2. RoundInv'
      BY <2>1 DEF Pending, PendingRow, InFlight, AbsentIsFlat, Candidates, InRound,
                  Outstanding, ListedExit
    <2> QED BY <2>1, <2>2, SameOrders
  <1>2. CASE Snapshot \/ PartialSnapshot
    <2>1. /\ UNCHANGED <<orders, position, inflight, intent>>
          /\ pc \in {"strategies", "bridge"} /\ pc' \in {"list", "evaluate"}
          /\ \A s \in Symbol \ Perp : snap'[s] = position[s]
          /\ \A s \in todo' : snap'[s] # 0
      BY <1>2 DEF Snapshot, PartialSnapshot, ReadPositions, ledger, bridge
    <2>2. RoundInv'
      BY <2>1 DEF Pending, PendingRow, InFlight, AbsentIsFlat, Candidates, InRound,
                  Outstanding, ListedExit, TypeInv, Working, TypeOK
    <2> QED BY <2>1, <2>2, SameOrders
  <1>3. CASE ListOpen
    <2>1. /\ UNCHANGED <<orders, position, snap, todo, intent>>
          /\ pc = "list" /\ pc' = "evaluate"
          /\ inflight' = inflight \cap {s \in Symbol : ListedExit(s)}
      BY <1>3 DEF ListOpen, Listings, Rearmed, ledger, round
    <2>2. RoundInv'
      BY <2>1 DEF Pending, PendingRow, InFlight, AbsentIsFlat, Candidates, InRound,
                  ListedExit, Outstanding
    <2> QED BY <2>1, <2>2, SameOrders
  <1>4. ASSUME NEW s \in Symbol, Evaluate(s)
        PROVE  OrdersInv' /\ RoundInv'
    <2>1. /\ UNCHANGED <<orders, position, snap>> /\ todo' = todo \ {s}
          /\ pc = "evaluate" /\ s \in todo
      BY <1>4 DEF Evaluate, ledger
    <2>2. \/ UNCHANGED <<pc, intent, inflight>>
          \/ /\ pc' = "gate" /\ inflight' = inflight \cup {s} /\ s \notin inflight
             /\ intent' = [symbol |-> s, delta |-> -snap[s], exit |-> TRUE]
      BY <1>4 DEF Evaluate, Marked
    <2>3. s \notin inflight => ~ListedExit(s)
      <3>1. CASE s \in Perp
        BY <2>1, <3>1 DEF TypeInv, Working, ListedExit, Outstanding
      <3>2. CASE s \notin Perp
        BY <2>1, <3>2 DEF InFlight, Candidates
      <3> QED BY <3>1, <3>2
    <2>4. RoundInv'
      BY <2>1, <2>2, <2>3 DEF Pending, PendingRow, InFlight, AbsentIsFlat, Candidates,
                              InRound, ListedExit, Outstanding
    <2> QED BY <2>1, <2>4, SameOrders
  <1>5. CASE EndRound
    <2>1. /\ UNCHANGED <<orders, position, intent>>
          /\ pc = "evaluate" /\ pc' = "strategies" /\ todo' = {}
          /\ inflight' = {s \in inflight : snap[s] # 0}
          /\ \A s \in Symbol : snap'[s] = 0
      BY <1>5 DEF EndRound, ledger, NoSnap
    <2>2. RoundInv'
      BY <2>1 DEF Pending, PendingRow, InFlight, AbsentIsFlat, Candidates, InRound,
                  ListedExit, Outstanding, TypeInv, Working
    <2> QED BY <2>1, <2>2, SameOrders
  <1>6. CASE Refuse
    <2>1. /\ UNCHANGED <<orders, position, snap, todo>>
          /\ pc = "gate" /\ intent' = None
          /\ IF intent.exit THEN inflight' = inflight \ {intent.symbol} /\ pc' = "evaluate"
             ELSE inflight' = inflight /\ pc' = "bridge"
      BY <1>6 DEF Refuse, Back, ledger, round
    <2>2. intent # None
      BY <2>1 DEF TypeInv, Working
    <2>3. RoundInv'
      BY <2>1, <2>2 DEF Pending, PendingRow, InFlight, AbsentIsFlat, Candidates, InRound,
                        ListedExit, Outstanding
    <2> QED BY <2>1, <2>3, SameOrders
  <1>7. CASE Approve
    <2>1. /\ UNCHANGED <<orders, position, snap, todo, inflight, intent>>
          /\ pc = "gate" /\ pc' = "row" /\ NoReversal(intent)
      BY <1>7 DEF Approve, ledger, bridge, round
    <2>2. intent \in Signal /\ intent # None
      BY <2>1 DEF TypeInv, TypeOK, Working
    <2>3. PendingRow'
      BY <2>1, <2>2 DEF PendingRow, Pending, OrdersInv, EntryAlone, SpotOrder, NoReversal,
                        ListedExit, Outstanding, Signal
    <2>4. RoundInv'
      BY <2>1, <2>3 DEF Pending, InFlight, AbsentIsFlat, Candidates, InRound, ListedExit,
                        Outstanding
    <2> QED BY <2>1, <2>4, SameOrders
  <1>8. CASE Submit
    <2>1. PICK i \in Slot :
            /\ orders[i] = None
            /\ orders' = [orders EXCEPT ![i] =
                           [symbol |-> intent.symbol, delta |-> intent.delta,
                            exit |-> intent.exit, status |-> "submitted"]]
      BY <1>8 DEF Submit
    <2>2. /\ UNCHANGED <<position, snap, todo, inflight, intent>>
          /\ pc = "row" /\ pc' \in {"move", "send"} /\ intent \in Signal /\ intent # None
      BY <1>8 DEF Submit, ledger, bridge, round, TypeInv, TypeOK, Working
    <2>3. /\ orders'[i] # None /\ orders'[i].symbol = intent.symbol
          /\ orders'[i].exit = intent.exit /\ orders'[i].status = "submitted"
          /\ \A j \in Slot : j # i => orders'[j] = orders[j]
      BY <2>1, <2>2, NoneAssumption DEF TypeInv, TypeOK, Signal
    <2>4. OrdersInv'
      BY <2>1, <2>2, <2>3, NewOrder
    <2>5. \A s \in Symbol : ListedExit(s)' => ListedExit(s) \/ (intent.exit /\ intent.symbol = s)
      BY <2>3 DEF ListedExit, Outstanding
    <2>6. RoundInv'
      BY <2>2, <2>5 DEF Pending, PendingRow, InFlight, AbsentIsFlat, Candidates, InRound
    <2> QED BY <2>4, <2>6
  <1>9. CASE Send
    <2>1. /\ Mine \in Slot /\ orders[Mine] # None /\ orders[Mine].status = "submitted"
          /\ orders[Mine].symbol = intent.symbol /\ intent # None
      BY <1>9, MineIsSubmitted DEF Send, TypeInv, Working
    <2>2. /\ orders'[Mine] # None
          /\ orders'[Mine].symbol = orders[Mine].symbol /\ orders'[Mine].status = "open"
          /\ orders'[Mine].exit = orders[Mine].exit
          /\ \A j \in Slot : j # Mine => orders'[j] = orders[j]
      BY <1>9, <2>1, StatusIsSet, NoneAssumption DEF Send, TypeInv, Order
    <2>3. /\ UNCHANGED <<position, snap, todo, inflight>> /\ intent' = None
          /\ pc = "send" /\ pc' = Back
      BY <1>9 DEF Send, ledger, bridge, round
    <2>4. /\ \A s \in Symbol : Outstanding(s)' = Outstanding(s)
          /\ \A i \in Slot : orders[i] # None => orders'[i].exit = orders[i].exit
                                                 /\ (IsFilled(i)' <=> IsFilled(i))
          /\ \A i \in Slot : orders'[i] # None <=> orders[i] # None
      BY <2>1, <2>2 DEF Outstanding, IsFilled
    <2>5. OrdersInv'
      BY <2>3, <2>4 DEF OrdersInv, OneFilled, OneUnfilled, EntryAlone, ListedOnFlat,
                        IsFilled, SpotOrder, Outstanding, ListedExit
    <2>6. \A s \in Symbol : ListedExit(s)' <=> ListedExit(s)
      BY <2>1, <2>2 DEF ListedExit, Outstanding
    <2>7. RoundInv'
      BY <2>1, <2>3, <2>6 DEF Back, Pending, PendingRow, InFlight, AbsentIsFlat, Candidates,
                              InRound
    <2> QED BY <2>5, <2>7
  <1>10. CASE Move
    <2>1. intent \in Signal /\ intent # None /\ intent.symbol \in Perp
      BY <1>10 DEF Move, TypeInv, TypeOK, Working
    <2>2. /\ UNCHANGED <<orders, snap, todo, inflight, intent>>
          /\ pc = "move" /\ pc' = "fill"
          /\ \A s \in Symbol \ Perp : position'[s] = position[s]
      BY <1>10, <2>1 DEF Move, Moves, bridge, round, TypeInv, TypeOK
    <2>3. OrdersInv'
      BY <2>2 DEF OrdersInv, OneFilled, OneUnfilled, EntryAlone, ListedOnFlat, IsFilled,
                  SpotOrder, Outstanding, ListedExit
    <2>4. RoundInv'
      BY <2>2 DEF Pending, PendingRow, InFlight, AbsentIsFlat, Candidates, InRound,
                  ListedExit, Outstanding
    <2> QED BY <2>3, <2>4
  <1>11. CASE FillPerpetual
    <2>1. /\ Mine \in Slot /\ orders[Mine] # None /\ orders[Mine].symbol \in Perp
          /\ orders[Mine].status = "submitted" /\ intent # None
      BY <1>11, MineIsSubmitted DEF FillPerpetual, TypeInv, Working
    <2>2. /\ UNCHANGED <<position, snap, todo, inflight>> /\ intent' = None
          /\ pc = "fill" /\ pc' = Back
          /\ orders'[Mine] = None /\ \A j \in Slot : j # Mine => orders'[j] = orders[j]
      BY <1>11, <2>1 DEF FillPerpetual, bridge, round, TypeInv, TypeOK
    <2>3. \A s \in Symbol \ Perp : /\ Outstanding(s)' = Outstanding(s)
                                   /\ ListedExit(s)' <=> ListedExit(s)
      BY <2>1, <2>2 DEF Outstanding, ListedExit
    <2>4. OrdersInv'
      BY <2>1, <2>2 DEF OrdersInv, OneFilled, OneUnfilled, EntryAlone, ListedOnFlat, IsFilled,
                        SpotOrder, Outstanding, ListedExit
    <2>5. RoundInv'
      BY <2>1, <2>2, <2>3 DEF Back, Pending, PendingRow, InFlight, AbsentIsFlat, Candidates,
                              InRound
    <2> QED BY <2>4, <2>5
  <1>12. CASE Raise \/ Crash
    <2>1. /\ UNCHANGED <<orders, position>> /\ pc' \in {"dead", "down"}
          /\ intent' = None /\ todo' = {}
      BY <1>12 DEF Raise, Crash, Forget, ledger
    <2>2. RoundInv'
      BY <2>1 DEF Pending, PendingRow, InFlight, AbsentIsFlat, Candidates, InRound
    <2> QED BY <2>1, <2>2, SameOrders
  <1>13. ASSUME NEW i \in Slot, FillRow(i) PROVE OrdersInv' /\ RoundInv'
    <2>1. /\ orders'[i] # None /\ orders'[i].symbol = orders[i].symbol
          /\ orders'[i].exit = orders[i].exit /\ orders'[i].status = "filled"
          /\ \A j \in Slot : j # i => orders'[j] = orders[j]
          /\ orders[i] # None /\ orders[i].status = "open"
          /\ UNCHANGED <<position, inflight, pc, snap, todo, intent>>
      BY <1>13, StatusIsSet, NoneAssumption DEF FillRow, TypeInv, Order, bridge, round
    <2>2. \A s \in Symbol : /\ Outstanding(s)' = Outstanding(s)
                            /\ ListedExit(s)' => ListedExit(s)
      BY <2>1 DEF Outstanding, ListedExit
    <2>3. pc \in {"gate", "row"} => intent \in Signal
      BY DEF TypeInv, TypeOK, Working
    <2>4. RoundInv'
      BY <2>1, <2>2, <2>3 DEF Pending, PendingRow, InFlight, AbsentIsFlat, Candidates,
                              InRound, Signal, Outstanding
    <2> QED BY <1>13, <2>4, Execution
  <1>14. ASSUME NEW i \in Slot, Settle(i) PROVE OrdersInv' /\ RoundInv'
    <2>1. /\ orders'[i] = None /\ \A j \in Slot : j # i => orders'[j] = orders[j]
          /\ orders[i] # None /\ orders[i].status = "filled"
          /\ orders[i].symbol \in Symbol /\ orders[i].symbol \notin Perp
          /\ \A s \in Symbol : s # orders[i].symbol => position'[s] = position[s]
          /\ UNCHANGED <<inflight, pc, snap, todo, intent>>
      BY <1>14 DEF Settle, Moves, TypeInv, TypeOK, Working, Order, bridge, round
    <2>2. \A s \in Symbol : /\ Outstanding(s)' = Outstanding(s) \ {i}
                            /\ ListedExit(s)' <=> ListedExit(s)
      BY <2>1 DEF Outstanding, ListedExit
    <2>3. i \in Outstanding(orders[i].symbol)
      BY <2>1 DEF Outstanding
    <2>4. pc \in {"gate", "row"} => intent \in Signal
      BY DEF TypeInv, TypeOK, Working
    <2>5. Pending'
      BY <2>1, <2>2, <2>3, <2>4 DEF Pending, Signal
    <2>6. PendingRow'
      BY <2>1, <2>2, <2>3, <2>4 DEF PendingRow, OrdersInv, OneFilled, IsFilled, Outstanding,
                                    Signal
    <2>7. \A s \in Symbol \ Perp : ListedExit(s) /\ position[s] = 0 => position'[s] = 0
      BY <2>1, <2>3 DEF OrdersInv, ListedOnFlat
    <2>8. InFlight' /\ AbsentIsFlat' /\ Candidates'
      BY <2>1, <2>2, <2>7 DEF InFlight, AbsentIsFlat, Candidates, InRound
    <2> QED BY <1>14, <2>5, <2>6, <2>8, Settlement
  <1>15. CASE Restart
    <2>1. /\ \A i \in Slot : orders'[i] = None
          /\ UNCHANGED <<todo, snap>> /\ pc' = "strategies"
      BY <1>15 DEF Restart, round
    <2>2. OrdersInv'
      BY <2>1 DEF OrdersInv, OneFilled, OneUnfilled, EntryAlone, ListedOnFlat, IsFilled,
                  SpotOrder, Outstanding, ListedExit
    <2>3. RoundInv'
      BY <2>1 DEF Pending, PendingRow, InFlight, AbsentIsFlat, Candidates, Outstanding,
                  ListedExit
    <2> QED BY <2>2, <2>3
  <1>16. CASE Clock \/ UNCHANGED vars
    <2>1. UNCHANGED <<orders, position, inflight, pc, snap, todo, intent>>
      BY <1>16 DEF Clock, vars, ledger, bridge, round
    <2>2. RoundInv'
      BY <2>1 DEF Pending, PendingRow, InFlight, AbsentIsFlat, Candidates, InRound,
                  ListedExit, Outstanding
    <2> QED BY <2>1, <2>2, SameOrders
  <1> QED
    BY <1>1, <1>2, <1>3, <1>4, <1>5, <1>6, <1>7, <1>8, <1>9, <1>10, <1>11, <1>12,
       <1>13, <1>14, <1>15, <1>16
       DEF Next, TickTask, EventLoop

\* No exit of a symbol is submitted while an earlier one is listed by
\* list_open, through refusals, crashes and partial reads of the positions, as
\* long as list_open does not fail.
THEOREM ExitsAreNotDoubled ==
  "list" \notin Faults /\ Spec => NoSecondListedExit
  <1> SUFFICES ASSUME "list" \notin Faults PROVE Spec => NoSecondListedExit
    OBVIOUS
  <1> DEFINE Step == \A s \in Symbol : ListedExit(s) => ~Exits(s)
  <1>1. ExitInv /\ [Next]_vars => ExitInv'
    BY ExitNext
  <1>2. ExitInv => Step
    BY DEF ExitInv, RoundInv, Pending, Exits
  <1>3. Spec => [][Step]_vars
    <2> HIDE DEF Step
    <2> QED
      BY <1>1, <1>2, ExitInit, PTL DEF Spec
  <1> QED
    BY <1>3 DEF NoSecondListedExit
=============================================================================
