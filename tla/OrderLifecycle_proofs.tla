------------------------ MODULE OrderLifecycle_proofs ------------------------
(***************************************************************************)
(* Proofs about OrderLifecycle, for every number of clients, workers, lots *)
(* and duplicates and for every set of submission outcomes.                *)
(***************************************************************************)
EXTENDS OrderLifecycle, FiniteSetTheorems, FunctionTheorems,
        WellFoundedInduction, TLAPS

\* The events of an execution are the elements of a sequence over a set S
\* when the originals are: emitting repeats them, Copies times each.
LEMMA EmitSeq ==
  ASSUME NEW S, NEW events \in Seq(S)
  PROVE  Emit(events) \in Seq(S)
<1> DEFINE L == Len(events)
<1>1. L \in Nat /\ Copies \in Nat \ {0} /\ Copies * L \in Nat
  BY CopiesAssumption
<1>2. ASSUME NEW i \in 1..Copies * L
      PROVE  ((i - 1) \div Copies) + 1 \in 1..L
  <2> DEFINE q == (i - 1) \div Copies
  <2>1. q \in Nat /\ Copies * q <= i - 1
    BY <1>1, <1>2
  <2>2. q < L
    <3>1. SUFFICES ASSUME q >= L PROVE FALSE
      BY <1>1, <2>1
    <3>2. Copies * q >= Copies * L
      BY <1>1, <2>1, <3>1
    <3> QED
      BY <1>1, <2>1, <3>2
  <2> QED
    BY <1>1, <2>1, <2>2
<1>3. \A i \in 1..Copies * L : events[((i - 1) \div Copies) + 1] \in S
  BY <1>2
<1> QED
  BY <1>1, <1>3 DEF Emit

-----------------------------------------------------------------------------
(* Types.                                                                  *)

BeforeSubmit == {"create", "validate", "submitting", "submitted"}

\* A worker on its way to the submission has an order, and an operation in
\* progress has the order of its fill.
WellFormed ==
  /\ \A w \in Worker : pc[w] \in BeforeSubmit \cup {"send"} => job[w] \in Client
  /\ \A a \in Actor : call[a].stage # "none" =>
       /\ call[a].client \in Client
       /\ call[a].fill # None => call[a].fill.id.client = call[a].client

TypeInv == TypeOK /\ WellFormed

ControlOK ==
  /\ phase \in {"down", "recovering", "running"}
  /\ pc \in [Worker -> WorkerStep]
  /\ job \in [Worker -> Client \cup {None}]
  /\ todo \in [Worker -> SUBSET Snapshot]

\* An operation is idle, or belongs to an order and to that of its fill.
CallOK(k) ==
  /\ k \in Call
  /\ k.stage # "none" => /\ k.client \in Client
                         /\ k.fill # None => k.fill.id.client = k.client

USE DEF BeforeSubmit

LEMMA StatusFacts ==
  /\ {"CREATED", "VALIDATED", "SUBMITTING", "SUBMITTED", "ACKNOWLEDGED",
      "OPEN", "PARTIALLY_FILLED", "FILLED", "REJECTED", "UNKNOWN"} \subseteq Status
  /\ Absent \notin Status
BY DEF Status, Absent

LEMMA NoCallOK == NoRow \in Row /\ CallOK(NoCall) /\ NoCall.stage = "none"
BY QtyAssumption, StatusFacts DEF NoRow, Row, NoCall, Call, CallOK

LEMMA TransitionCallOK ==
  ASSUME NEW c \in Client \cup {None}, NEW event \in Status,
         NEW origin \in Notice \cup {None}, NEW bind \in BOOLEAN
  PROVE  LET k == TransitionCall(c, event, origin, bind)
         IN /\ k \in Call /\ k.client = c /\ k.fill = None /\ k.stage = "read"
            /\ k.event = event
            /\ c \in Client => CallOK(k)
BY NoCallOK DEF TransitionCall, NoCall, Call, CallOK, Status

LEMMA FillCallOK ==
  ASSUME NEW f \in Fill
  PROVE  /\ CallOK(FillCall(f)) /\ FillCall(f).fill = f
         /\ FillCall(f).stage = "read" /\ FillCall(f).client = f.id.client
BY NoCallOK DEF FillCall, NoCall, Call, CallOK, Fill, FillId, Status

LEMMA CallStep ==
  ASSUME TypeInv, NEW a \in Actor, NEW k, CallOK(k),
         call' = [call EXCEPT ![a] = k]
  PROVE  /\ call' \in [Actor -> Call]
         /\ \A b \in Actor : CallOK(call'[b])
BY DEF TypeInv, TypeOK, WellFormed, CallOK

LEMMA Kept ==
  ASSUME TypeInv, UNCHANGED control, \A b \in Actor : CallOK(call'[b])
  PROVE  ControlOK' /\ WellFormed'
BY DEF TypeInv, TypeOK, WellFormed, ControlOK, CallOK, control

LEMMA ReturnOK ==
  ASSUME TypeInv, NEW a \in Actor, Return(a)
  PROVE  /\ ControlOK' /\ call' \in [Actor -> Call] /\ WellFormed'
<1>1. call' = [call EXCEPT ![a] = NoCall]
  BY DEF Return
<1>2. call' \in [Actor -> Call] /\ \A b \in Actor : CallOK(call'[b])
  BY <1>1, NoCallOK, CallStep
<1>3. ControlOK'
  BY DEF Return, ControlOK, TypeInv, TypeOK, Goto, control, WorkerStep
<1>4. \A w \in Worker : pc'[w] \in BeforeSubmit \cup {"send"} => job'[w] \in Client
  BY DEF Return, TypeInv, TypeOK, WellFormed, Goto, control
<1> QED
  BY <1>2, <1>3, <1>4 DEF WellFormed, CallOK

LEMMA RaiseOK ==
  ASSUME TypeInv, NEW a \in Actor, Raise(a)
  PROVE  /\ ControlOK' /\ call' \in [Actor -> Call] /\ WellFormed'
<1>1. call' = [call EXCEPT ![a] = NoCall]
  BY DEF Raise
<1>2. call' \in [Actor -> Call] /\ \A b \in Actor : CallOK(call'[b])
  BY <1>1, NoCallOK, CallStep
<1>3. a = Stream \/ a \in Worker
  BY DEF Actor
<1>4. ControlOK'
  BY <1>3 DEF Raise, ControlOK, TypeInv, TypeOK, Goto, control, WorkerStep
<1>5. \A w \in Worker : pc'[w] \in BeforeSubmit \cup {"send"} => job'[w] \in Client
  BY <1>3 DEF Raise, TypeInv, TypeOK, WellFormed, Goto, control
<1> QED
  BY <1>2, <1>4, <1>5 DEF WellFormed, CallOK

LEMMA SendingOK ==
  ASSUME TypeInv, NEW w \in Worker, NEW outcome, Sending(w, outcome)
  PROVE  /\ job[w] \in Client
         /\ sends' \in [Client -> Nat]
         /\ answer' \in [Client -> Answer \cup {None}]
BY AnswersAssumption DEF Sending, TypeInv, TypeOK, WellFormed

LEMMA CallsOK ==
  ASSUME TypeInv, NEW w \in Worker, job[w] \in Client, NEW event \in Status,
         NEW bind \in BOOLEAN, NEW label \in {"ack", "failed", "query"},
         Calls(w, label, event, bind), job' = job
  PROVE  /\ call' \in [Actor -> Call] /\ WellFormed'
         /\ pc' \in [Worker -> WorkerStep]
<1> DEFINE k == TransitionCall(job[w], event, None, bind)
<1>1. call' = [call EXCEPT ![w] = k] /\ w \in Actor
  BY DEF Calls, Actor
<1>2. CallOK(k)
  BY TransitionCallOK
<1>3. call' \in [Actor -> Call] /\ \A b \in Actor : CallOK(call'[b])
  BY <1>1, <1>2, CallStep
<1>4. pc' \in [Worker -> WorkerStep]
      /\ \A v \in Worker : pc'[v] \in BeforeSubmit \cup {"send"} => job'[v] \in Client
  BY DEF Calls, Goto, TypeInv, TypeOK, WellFormed, WorkerStep
<1> QED
  BY <1>3, <1>4 DEF WellFormed, CallOK

LEMMA ExecOK ==
  ASSUME NEW c \in Client, NEW n \in 1..Qty, NEW q \in 1..Qty
  PROVE  Exec(c, n, q) \in Report /\ Exec(c, n, q).client = c
BY QtyAssumption DEF Exec, Report, Fill, FillId

EventOf(c) == {e \in Event : e.client = c}

LEMMA TradesOK ==
  ASSUME NEW c \in Client, NEW m \in 0..Qty, NEW trades \in Trades(c, m)
  PROVE  trades \in Seq(EventOf(c))
<1>1. CASE m = 0
  BY <1>1 DEF Trades
<1>2. CASE m # 0
  <2>1. m \in 1..Qty /\ 1 \in 1..Qty /\ m \in Nat /\ 1..m \subseteq 1..Qty
    BY <1>2, QtyAssumption
  <2>2. \A n, q \in 1..Qty : Exec(c, n, q) \in EventOf(c)
    BY ExecOK DEF EventOf, Event
  <2>3. <<Exec(c, 1, m)>> \in Seq(EventOf(c))
    BY <2>1, <2>2
  <2>4. [i \in 1..m |-> Exec(c, i, 1)] \in Seq(EventOf(c))
    <3>1. \A i \in 1..m : Exec(c, i, 1) \in EventOf(c)
      BY <2>1, <2>2
    <3> QED
      BY <2>1, <3>1
  <2> QED
    BY <1>2, <2>3, <2>4 DEF Trades
<1> QED
  BY <1>1, <1>2

\* What one accepted submission puts on the queue.
LEMMA EmittedOK ==
  ASSUME NEW c \in Client, NEW m \in 0..Qty, NEW trades \in Trades(c, m),
         NEW events,
         LET ack  == [client |-> c, kind |-> "ACKNOWLEDGED"]
             open == [client |-> c, kind |-> "OPEN"]
         IN events \in {<<ack, open>> \o trades, trades \o <<ack>>}
  PROVE  Emit(events) \in Seq(EventOf(c))
<1> DEFINE ack  == [client |-> c, kind |-> "ACKNOWLEDGED"]
           open == [client |-> c, kind |-> "OPEN"]
<1>1. ack \in EventOf(c) /\ open \in EventOf(c)
  BY DEF EventOf, Event, Notice
<1>2. trades \in Seq(EventOf(c))
  BY TradesOK
<1>3. <<ack, open>> \in Seq(EventOf(c)) /\ <<ack>> \in Seq(EventOf(c))
  BY <1>1
<1>4. events \in Seq(EventOf(c))
  <2>1. events = <<ack, open>> \o trades \/ events = trades \o <<ack>>
    OBVIOUS
  <2>2. \A s, t \in Seq(EventOf(c)) : s \o t \in Seq(EventOf(c))
    OBVIOUS
  <2> HIDE DEF ack, open
  <2> QED
    BY <1>2, <1>3, <2>1, <2>2
<1> QED
  BY <1>4, EmitSeq

\* SendAccepted only appends events of its own order to the queue.
LEMMA Enqueued ==
  ASSUME NEW w \in Worker, job[w] \in Client, SendAccepted(w)
  PROVE  \E emitted \in Seq(EventOf(job[w])) : queue' = queue \o emitted
<1> DEFINE c == job[w]
           ack  == [client |-> c, kind |-> "ACKNOWLEDGED"]
           open == [client |-> c, kind |-> "OPEN"]
<1>1. PICK m \in 0..Qty : \E trades \in Trades(c, m) :
        \E events \in {<<ack, open>> \o trades, trades \o <<ack>>} :
          queue' = queue \o Emit(events)
  BY DEF SendAccepted
<1>2. PICK trades \in Trades(c, m) :
        \E events \in {<<ack, open>> \o trades, trades \o <<ack>>} :
          queue' = queue \o Emit(events)
  BY <1>1
<1>3. PICK events \in {<<ack, open>> \o trades, trades \o <<ack>>} :
        queue' = queue \o Emit(events)
  BY <1>2
<1>4. Emit(events) \in Seq(EventOf(c))
  BY <1>3, EmittedOK
<1> QED
  BY <1>3, <1>4

LEMMA AfterOK ==
  ASSUME NEW s \in Status \cup {Absent}, NEW e \in Status
  PROVE  After(s, e) \in Status \cup {Absent}
BY DEF After

LEMMA RemedyOK ==
  ASSUME TypeInv, NEW c \in Client, NEW row \in Row
  PROVE  CallOK(Remedy(c, row))
<1> DEFINE x == exch[c]
           missing == Missing(c, row)
<1>1. x.filled \in 0..Qty /\ row.filled \in 0..Qty /\ Qty \in Nat
      /\ x.status \in Status \cup {Absent}
  BY QtyAssumption DEF TypeInv, TypeOK, Row
<1>2. CallOK(TransitionCall(c, "REJECTED", None, FALSE))
      /\ CallOK(TransitionCall(c, "ACKNOWLEDGED", None, TRUE))
  BY TransitionCallOK, StatusFacts
<1>3. missing > 0 => missing \in 1..Qty
  BY <1>1 DEF Missing
<1>4. missing > 0 => /\ CallOK(RecoveryFill(c, "recovery", x.filled, missing))
                     /\ CallOK(RecoveryFill(c, "partial", 0, missing))
  <2>1. ASSUME NEW t \in {"recovery", "partial"}, NEW n \in 0..Qty,
               NEW q \in 1..Qty
        PROVE  CallOK(RecoveryFill(c, t, n, q))
    <3>1. [id |-> [client |-> c, tag |-> t, n |-> n], qty |-> q] \in Fill
      BY DEF Fill, FillId
    <3> QED
      BY <3>1, FillCallOK DEF RecoveryFill
  <2>2. 0 \in 0..Qty
    BY <1>1
  <2> QED
    BY <1>1, <1>3, <2>1, <2>2
<1> HIDE DEF missing
<1> QED
  BY <1>2, <1>4, NoCallOK DEF Remedy, missing

LEMMA TypeStep == TypeInv /\ [Next]_vars => TypeInv'
<1> SUFFICES ASSUME TypeInv, [Next]_vars PROVE TypeInv'
  OBVIOUS
<1> USE DEF TypeInv
<1>1. ASSUME NEW w \in Worker, NEW c \in Client, Dispatch(w, c)
      PROVE  TypeInv'
  BY <1>1 DEF Dispatch, Goto, TypeOK, WellFormed, WorkerStep, db, venue
<1>2. ASSUME NEW w \in Worker, NEW c \in Client, Retry(w, c)
      PROVE  TypeInv'
  BY <1>2 DEF Retry, vars, db, venue, control, TypeOK, WellFormed
<1>3. ASSUME NEW w \in Worker,
             Create(w) \/ Validate(w) \/ Submitting(w) \/ Submitted(w)
      PROVE  TypeInv'
  <2>1. PICK from \in BeforeSubmit, event \in Status,
             to \in {"validate", "submitting", "submitted", "send"} :
               Advance(w, from, event, to)
    BY <1>3, StatusFacts DEF Create, Validate, Submitting, Submitted
  <2>2. order' \in [Client -> Row]
    BY <2>1 DEF Advance, TypeOK, Row
  <2> QED
    BY <2>1, <2>2 DEF Advance, Goto, TypeOK, WellFormed, WorkerStep, venue
<1>4. ASSUME NEW w \in Worker, SendAccepted(w)
      PROVE  TypeInv'
  <2> DEFINE c == job[w]
  <2>1. Sending(w, "accepted") /\ Calls(w, "ack", "ACKNOWLEDGED", TRUE)
    BY <1>4 DEF SendAccepted
  <2>2. /\ c \in Client /\ sends' \in [Client -> Nat]
        /\ answer' \in [Client -> Answer \cup {None}]
    BY <2>1, SendingOK
  <2>3. /\ call' \in [Actor -> Call] /\ WellFormed'
        /\ pc' \in [Worker -> WorkerStep]
    BY <2>1, <2>2, CallsOK, StatusFacts DEF Sending
  <2>4. exch' \in [Client -> [status : Status \cup {Absent}, filled : 0..Qty]]
    <3>1. PICK m \in 0..Qty :
            exch' = [exch EXCEPT ![c] = [status |-> StatusAt(m), filled |-> m]]
      BY <1>4 DEF SendAccepted
    <3>2. StatusAt(m) \in Status
      BY StatusFacts DEF StatusAt
    <3>3. exch \in [Client -> [status : Status \cup {Absent}, filled : 0..Qty]]
      BY DEF TypeOK
    <3> QED
      BY <3>1, <3>2, <3>3
  <2>5. queue' \in Seq(Event)
    <3>1. PICK emitted \in Seq(EventOf(c)) : queue' = queue \o emitted
      BY <1>4, <2>2, Enqueued
    <3>2. queue \in Seq(Event) /\ emitted \in Seq(Event)
      BY <3>1 DEF TypeOK, EventOf
    <3> QED
      BY <3>1, <3>2
  <2> QED
    BY <2>1, <2>2, <2>3, <2>4, <2>5 DEF Sending, TypeOK, db
<1>5. ASSUME NEW w \in Worker, SendUnknown(w) \/ SendFailed(w)
      PROVE  TypeInv'
  <2>1. PICK outcome \in Answer, label \in {"query", "failed"} :
          /\ Sending(w, outcome)
          /\ Calls(w, label, "UNKNOWN", FALSE)
          /\ exch' = exch \/ exch' = [exch EXCEPT ![job[w]].status = "ACKNOWLEDGED"]
          /\ queue' = queue
    BY <1>5 DEF SendUnknown, SendFailed, Answer
  <2>2. /\ job[w] \in Client /\ sends' \in [Client -> Nat]
        /\ answer' \in [Client -> Answer \cup {None}]
    BY <2>1, SendingOK
  <2>3. /\ call' \in [Actor -> Call] /\ WellFormed'
        /\ pc' \in [Worker -> WorkerStep]
    <3>1. job' = job /\ "UNKNOWN" \in Status
      BY <2>1, StatusFacts DEF Sending
    <3> QED
      BY <2>1, <2>2, <3>1, CallsOK
  <2>4. exch' \in [Client -> [status : Status \cup {Absent}, filled : 0..Qty]]
    <3>1. exch \in [Client -> [status : Status \cup {Absent}, filled : 0..Qty]]
          /\ "ACKNOWLEDGED" \in Status
      BY StatusFacts DEF TypeOK
    <3> QED
      BY <2>1, <3>1
  <2> QED
    BY <2>1, <2>2, <2>3, <2>4 DEF Sending, TypeOK, db
<1>6. ASSUME NEW w \in Worker, SendDisconnected(w)
      PROVE  TypeInv'
  BY <1>6 DEF SendDisconnected, Goto, TypeOK, WellFormed, WorkerStep, db, venue
<1>7. ASSUME NEW a \in Actor, ReadTransition(a)
      PROVE  TypeInv'
  <2> DEFINE k == call[a]
             row == order[k.client]
             next == [row EXCEPT !.status = After(@, k.event)]
  <2>1. CallOK(k) /\ k.stage = "read" /\ k.client \in Client
    BY <1>7 DEF ReadTransition, Transitioning, TypeOK, WellFormed, CallOK
  <2>2. ControlOK' /\ call' \in [Actor -> Call] /\ WellFormed'
    <3>1. CASE Raise(a)
      BY <3>1, RaiseOK
    <3>2. CASE /\ call' = [call EXCEPT ![a].stage = "write", ![a].next = next]
               /\ UNCHANGED control
      <4>1. row \in Row /\ k.event \in Status
        BY <2>1 DEF TypeOK, CallOK, Call
      <4>2. next \in Row
        BY <4>1, AfterOK DEF Row
      <4>3. call' = [call EXCEPT ![a] =
                       [k EXCEPT !.stage = "write", !.next = next]]
        BY <3>2 DEF TypeOK
      <4>4. CallOK([k EXCEPT !.stage = "write", !.next = next])
        BY <2>1, <4>2 DEF CallOK, Call
      <4> QED
        BY <3>2, <4>3, <4>4, CallStep, Kept
    <3> QED
      BY <1>7, <3>1, <3>2 DEF ReadTransition
  <2> QED
    BY <1>7, <2>2 DEF ReadTransition, TypeOK, ControlOK, db, venue
<1>8. ASSUME NEW a \in Actor, WriteTransition(a)
      PROVE  TypeInv'
  <2>1. ControlOK' /\ call' \in [Actor -> Call] /\ WellFormed'
    BY <1>8, ReturnOK DEF WriteTransition
  <2>2. call[a] \in Call /\ call[a].client \in Client
    BY <1>8 DEF WriteTransition, Transitioning, TypeOK, WellFormed
  <2>3. order' \in [Client -> Row]
    <3>1. order \in [Client -> Row] /\ call[a].next \in Row
          /\ call[a].bind \in BOOLEAN
      BY <2>2 DEF TypeOK, Call
    <3> QED
      BY <1>8, <2>2, <3>1 DEF WriteTransition, Row
  <2>4. seen' \subseteq Notice
    BY <1>8, <2>2 DEF WriteTransition, TypeOK, Call
  <2> QED
    BY <1>8, <2>1, <2>3, <2>4 DEF WriteTransition, TypeOK, ControlOK, venue
<1>9. ASSUME NEW a \in Actor, ReadFill(a)
      PROVE  TypeInv'
  <2> DEFINE k == call[a]
             f == k.fill
             row == order[f.id.client]
             event == FillEvent(row, f)
             next == [status |-> After(row.status, event),
                      filled |-> Total(row, f), bound |-> TRUE]
  <2>1. CallOK(k) /\ k.stage = "read" /\ k.client \in Client /\ f \in Fill
    BY <1>9 DEF ReadFill, Filling, TypeOK, WellFormed, CallOK, Call
  <2>2. ControlOK' /\ call' \in [Actor -> Call] /\ WellFormed'
    <3>1. CASE Raise(a)
      BY <3>1, RaiseOK
    <3>2. CASE Return(a)
      BY <3>2, ReturnOK
    <3>3. CASE /\ Fits(row, f)
               /\ call' = [call EXCEPT ![a].stage = "write", ![a].next = next]
               /\ UNCHANGED control
      <4>1. row \in Row /\ event \in Status
        BY <2>1, StatusFacts DEF TypeOK, Fill, FillId, FillEvent
      <4>2. Total(row, f) \in 0..Qty
        BY <2>1, <3>3, <4>1, QtyAssumption DEF Fits, Total, Fill, Row
      <4>3. After(row.status, event) \in Status \cup {Absent}
        BY <4>1, AfterOK DEF Row
      <4>4. next \in Row
        BY <4>2, <4>3 DEF Row
      <4>5. call' = [call EXCEPT ![a] =
                       [k EXCEPT !.stage = "write", !.next = next]]
        BY <3>3 DEF TypeOK
      <4>6. CallOK([k EXCEPT !.stage = "write", !.next = next])
        BY <2>1, <4>4 DEF CallOK, Call
      <4> QED
        BY <3>3, <4>5, <4>6, CallStep, Kept
    <3> QED
      BY <1>9, <3>1, <3>2, <3>3 DEF ReadFill
  <2> QED
    BY <1>9, <2>2 DEF ReadFill, TypeOK, ControlOK, db, venue
<1>10. ASSUME NEW a \in Actor, WriteFill(a)
       PROVE  TypeInv'
  <2> DEFINE k == call[a]
             f == k.fill
  <2>1. CallOK(k) /\ k.stage = "write" /\ k.client \in Client /\ f \in Fill
    BY <1>10 DEF WriteFill, Filling, TypeOK, WellFormed, CallOK, Call
  <2>2. ControlOK' /\ call' \in [Actor -> Call] /\ WellFormed'
    <3>1. CASE Return(a)
      BY <3>1, ReturnOK
    <3>2. CASE call' = [call EXCEPT ![a].stage = "settle"] /\ UNCHANGED control
      <4>1. call' = [call EXCEPT ![a] = [k EXCEPT !.stage = "settle"]]
        BY <3>2 DEF TypeOK
      <4>2. CallOK([k EXCEPT !.stage = "settle"])
        BY <2>1 DEF CallOK, Call
      <4> QED
        BY <3>2, <4>1, <4>2, CallStep, Kept
    <3> QED
      BY <1>10, <3>1, <3>2 DEF WriteFill
  <2>3. order' \in [Client -> Row] /\ fills' \in [FillId -> 0..Qty]
    <3>1. k.next \in Row /\ f.id \in FillId /\ f.qty \in 0..Qty
      BY <2>1, QtyAssumption DEF CallOK, Call, Fill
    <3> QED
      BY <1>10, <3>1 DEF WriteFill, TypeOK, FillId
  <2> QED
    BY <1>10, <2>2, <2>3 DEF WriteFill, TypeOK, ControlOK, venue
<1>11. ASSUME NEW a \in Actor, Settle(a)
       PROVE  TypeInv'
  <2>1. ControlOK' /\ call' \in [Actor -> Call] /\ WellFormed'
    BY <1>11, ReturnOK DEF Settle
  <2>2. posted' \in [FillId -> Nat]
    <3>1. posted \in [FillId -> Nat]
      BY DEF TypeOK
    <3>2. posted' = [posted EXCEPT ![call[a].fill.id] = @ + 1]
      BY <1>11 DEF Settle
    <3>3. call[a].fill.id \in FillId
      BY <1>11 DEF Settle, Filling, TypeOK, Call, Fill
    <3>4. \A i \in FillId : posted[i] \in Nat /\ posted[i] + 1 \in Nat
      BY <3>1
    <3> QED
      BY <3>1, <3>2, <3>3, <3>4
  <2> QED
    BY <1>11, <2>1, <2>2 DEF Settle, TypeOK, ControlOK, venue
<1>12. CASE Deliver
  <2> DEFINE e == Head(queue)
  <2>1. e \in Event /\ queue' \in Seq(Event)
    BY <1>12 DEF Deliver, TypeOK
  <2>2. call' = call
        \/ \E k : CallOK(k) /\ call' = [call EXCEPT ![Stream] = k]
    <3>1. CASE e \in Report
      <4>1. CallOK(FillCall(e.fill)) /\ e.kind = "fill"
        BY <3>1, FillCallOK DEF Report
      <4> QED
        BY <1>12, <4>1 DEF Deliver
    <3>2. CASE e \in Notice
      <4>1. e.kind # "fill" /\ e.kind \in Status /\ e.client \in Client
        BY <3>2, StatusFacts DEF Notice
      <4>2. CallOK(TransitionCall(e.client, e.kind, e, e.kind = "ACKNOWLEDGED"))
        BY <3>2, <4>1, TransitionCallOK
      <4> QED
        BY <1>12, <4>1, <4>2 DEF Deliver
    <3> QED
      BY <2>1, <3>1, <3>2 DEF Event
  <2>3. call' \in [Actor -> Call] /\ WellFormed'
    BY <1>12, <2>2, CallStep, Kept DEF Deliver, Actor, TypeOK, CallOK, WellFormed
  <2> QED
    BY <1>12, <2>1, <2>3 DEF Deliver, TypeOK, db, venue, control
<1>13. ASSUME NEW w \in Worker, ListOpen(w)
       PROVE  TypeInv'
  <2>1. todo' \in [Worker -> SUBSET Snapshot]
    BY <1>13 DEF ListOpen, TypeOK, Snapshot
  <2> QED
    BY <1>13, <2>1 DEF ListOpen, Goto, TypeOK, WellFormed, WorkerStep, db, venue
<1>14. ASSUME NEW w \in Worker, Recover(w)
       PROVE  TypeInv'
  <2>1. PICK s \in todo[w] :
          /\ todo' = [todo EXCEPT ![w] = @ \ {s}]
          /\ call' = [call EXCEPT ![w] = Remedy(s.client, s.row)]
    BY <1>14 DEF Recover
  <2>2. s.client \in Client /\ s.row \in Row /\ w \in Actor
    BY <2>1 DEF TypeOK, Snapshot, Actor
  <2>3. call' \in [Actor -> Call] /\ \A b \in Actor : CallOK(call'[b])
    BY <2>1, <2>2, RemedyOK, CallStep
  <2>4. todo' \in [Worker -> SUBSET Snapshot]
    BY <2>1 DEF TypeOK
  <2> QED
    BY <1>14, <2>3, <2>4 DEF Recover, TypeOK, WellFormed, CallOK, db, venue
<1>15. ASSUME NEW w \in Worker, Recovered(w)
       PROVE  TypeInv'
  BY <1>15 DEF Recovered, Goto, TypeOK, WellFormed, WorkerStep, db, venue
<1>16. CASE Start
  BY <1>16, StarterAssumption DEF Start, TypeOK, WellFormed, WorkerStep, db, venue
<1>17. CASE Crash
  <2>1. call' \in [Actor -> Call]
        /\ \A a \in Actor : call'[a].stage = "none"
    BY <1>17, NoCallOK DEF Crash, CallOK
  <2>2. exch' \in [Client -> [status : Status \cup {Absent}, filled : 0..Qty]]
    BY <1>17, QtyAssumption DEF Crash, TypeOK
  <2>3. crashes' \in 0..MaxCrashes
    BY <1>17, MaxCrashesAssumption DEF Crash, TypeOK
  <2> QED
    BY <1>17, <2>1, <2>2, <2>3 DEF Crash, TypeOK, WellFormed, WorkerStep, db
<1>18. CASE UNCHANGED vars
  BY <1>18 DEF vars, db, venue, control, TypeOK, WellFormed
<1> QED
  BY <1>1, <1>2, <1>3, <1>4, <1>5, <1>6, <1>7, <1>8, <1>9, <1>10, <1>11, <1>12,
     <1>13, <1>14, <1>15, <1>16, <1>17, <1>18
  DEF Next, Submission, Operation, Recovery

LEMMA TypeStart == Init => TypeInv
<1> SUFFICES ASSUME Init PROVE TypeInv
  OBVIOUS
<1>1. order \in [Client -> Row] /\ call \in [Actor -> Call]
      /\ \A a \in Actor : call[a].stage = "none"
  BY NoCallOK DEF Init, CallOK
<1> QED
  BY <1>1, QtyAssumption, MaxCrashesAssumption
  DEF Init, TypeInv, TypeOK, WellFormed, WorkerStep

\* Every variable always has its type.
THEOREM TypeCorrect == Spec => []TypeOK
<1>1. Spec => []TypeInv
  BY TypeStart, TypeStep, PTL DEF Spec
<1>2. TypeInv => TypeOK
  BY DEF TypeInv
<1> QED
  BY <1>1, <1>2, PTL

-----------------------------------------------------------------------------
(* The inductive invariant.  Nobody but its own worker touches an order    *)
(* before it is SUBMITTED: every event, operation and recovery row is      *)
(* about an order that was recorded, and every fill about one that was     *)
(* sent.  That is why a worker finds its order unsent when it sends it.    *)

Recorded(c) == order[c].status \notin Unsent

\* No two workers have the same order.
OwnOrder == \A v, w \in Worker : v # w => job[v] = None \/ job[v] # job[w]

\* The order of a worker is unrecorded until it is SUBMITTED, and unsent
\* until it is sent.
NotYetSent ==
  \A w \in Worker :
    /\ pc[w] \in BeforeSubmit => ~Recorded(job[w]) /\ sends[job[w]] = 0
    /\ pc[w] = "send" => Recorded(job[w]) /\ sends[job[w]] = 0

\* Sent once, after being recorded; the exchange has no other orders.
SentOnce ==
  \A c \in Client :
    /\ sends[c] <= 1
    /\ sends[c] > 0 => Recorded(c)
    /\ exch[c].status # Absent => sends[c] > 0

\* Operations, queued events and rows to recover are about such orders.
Concerned ==
  /\ \A a \in Actor : call[a].stage # "none" =>
       /\ Recorded(call[a].client)
       /\ call[a].stage = "write" => call[a].next.status \notin Unsent
       /\ call[a].fill # None => sends[call[a].client] > 0
  /\ \A w \in Worker : \A s \in todo[w] : Recorded(s.client)
  /\ \A i \in DOMAIN queue : sends[queue[i].client] > 0

\* A fill between its commit and its settlement is in one task's hands only.
Unsettled ==
  /\ \A a \in Actor : call[a].stage = "settle" =>
       /\ call[a].fill # None
       /\ fills[call[a].fill.id] > 0 /\ posted[call[a].fill.id] = 0
  /\ \A a, b \in Actor :
       a # b /\ call[a].stage = "settle" /\ call[b].stage = "settle" =>
         call[a].fill.id # call[b].fill.id

Inv == /\ OwnOrder /\ NotYetSent /\ SentOnce /\ Concerned
       /\ SettledOnce /\ Unsettled

\* Steps that leave orders, sends, the venue and the calls alone.
LEMMA InvFrame ==
  ASSUME TypeInv, Inv, UNCHANGED <<order, fills, posted, exch, sends, call>>,
         OwnOrder', NotYetSent',
         \A w \in Worker : \A s \in todo'[w] : Recorded(s.client),
         \A i \in DOMAIN queue' : sends[queue'[i].client] > 0
  PROVE  Inv'
BY DEF Inv, SentOnce, Concerned, SettledOnce, Unsettled, Recorded

LEMMA InvStart == Init => Inv
BY QtyAssumption
DEF Init, Inv, OwnOrder, NotYetSent, SentOnce, Concerned, SettledOnce,
    Unsettled, NoCall, NoRow, Absent

LEMMA StaysRecorded ==
  ASSUME NEW s \in Status \ Unsent, NEW e \in Status, Accepts(s, e)
  PROVE  After(s, e) \notin Unsent
BY DEF After, Successors, Unsent, Status, Absent

\* An order in somebody's operation is a recorded one: its row exists.
LEMMA CallFacts ==
  ASSUME TypeInv, Inv, NEW a \in Actor, call[a].stage # "none"
  PROVE  /\ call[a] \in Call /\ call[a].client \in Client
         /\ order[call[a].client] \in Row
         /\ order[call[a].client].status \in Status \ Unsent
         /\ call[a].fill # None =>
              /\ call[a].fill \in Fill /\ call[a].fill.id \in FillId
              /\ call[a].fill.id.client = call[a].client
              /\ call[a].fill.qty > 0
              /\ sends[call[a].client] = 1
<1>1. /\ call[a] \in Call /\ call[a].client \in Client
      /\ call[a].fill # None => call[a].fill.id.client = call[a].client
  BY DEF TypeInv, TypeOK, WellFormed
<1>2. order[call[a].client] \in Row /\ sends[call[a].client] \in Nat
  BY <1>1 DEF TypeInv, TypeOK
<1>3. order[call[a].client].status \in Status \ Unsent
  BY <1>1, <1>2 DEF Inv, Concerned, Recorded, Row, Unsent
<1>4. call[a].fill # None => /\ call[a].fill \in Fill
                             /\ call[a].fill.id \in FillId
                             /\ call[a].fill.qty > 0
  BY <1>1, QtyAssumption DEF Call, Fill
<1>5. call[a].fill # None => sends[call[a].client] = 1
  BY <1>1, <1>2 DEF Inv, Concerned, SentOnce
<1> QED
  BY <1>1, <1>2, <1>3, <1>4, <1>5

\* The caller goes on, or fails: nobody gets an order by that.
LEMMA InvControl ==
  ASSUME TypeInv, Inv, NEW a \in Actor, Return(a) \/ Raise(a)
  PROVE  /\ OwnOrder'
         /\ \A w \in Worker :
              pc'[w] \in BeforeSubmit \cup {"send"} =>
                pc'[w] = pc[w] /\ job'[w] = job[w]
         /\ \A w \in Worker : todo'[w] \subseteq todo[w]
         /\ call' = [call EXCEPT ![a] = NoCall]
<1>1. CASE Return(a)
  BY <1>1 DEF Return, TypeInv, TypeOK, Inv, OwnOrder, Goto, control
<1>2. CASE Raise(a)
  BY <1>2 DEF Raise, TypeInv, TypeOK, Inv, OwnOrder, Goto, control
<1> QED
  BY <1>1, <1>2

\* The steps of operations, deliveries and recoveries: they neither record
\* nor send an order, and hand only recorded orders on.
LEMMA InvOperation ==
  ASSUME TypeInv, Inv, NEW a \in Actor, NEW k,
         call' = [call EXCEPT ![a] = k],
         k.stage # "none" =>
           /\ k.client \in Client /\ Recorded(k.client)
           /\ k.stage = "write" => k.next.status \notin Unsent
           /\ k.fill # None => sends[k.client] > 0,
         \A c \in Client : order'[c].status \notin Unsent <=> Recorded(c),
         UNCHANGED <<exch, sends>>,
         \A i \in DOMAIN queue' : sends[queue'[i].client] > 0,
         OwnOrder',
         \A w \in Worker : pc'[w] \in BeforeSubmit \cup {"send"} =>
                              pc'[w] = pc[w] /\ job'[w] = job[w],
         \A w \in Worker : todo'[w] \subseteq todo[w],
         SettledOnce', Unsettled'
  PROVE  Inv'
<1>1. NotYetSent'
  <2>1. \A w \in Worker : pc[w] \in BeforeSubmit \cup {"send"} => job[w] \in Client
    BY DEF TypeInv, WellFormed
  <2> QED
    BY <2>1 DEF Inv, NotYetSent, Recorded
<1>2. SentOnce'
  BY DEF Inv, SentOnce, Recorded
<1>3. \A b \in Actor : call'[b].stage # "none" =>
        /\ order'[call'[b].client].status \notin Unsent
        /\ call'[b].stage = "write" => call'[b].next.status \notin Unsent
        /\ call'[b].fill # None => sends'[call'[b].client] > 0
  <2> SUFFICES ASSUME NEW b \in Actor, call'[b].stage # "none"
               PROVE  /\ order'[call'[b].client].status \notin Unsent
                      /\ call'[b].stage = "write" => call'[b].next.status \notin Unsent
                      /\ call'[b].fill # None => sends'[call'[b].client] > 0
    OBVIOUS
  <2>1. CASE b = a
    BY <2>1 DEF TypeInv, TypeOK, Recorded
  <2>2. CASE b # a
    <3>1. call'[b] = call[b]
      BY <2>2 DEF TypeInv, TypeOK
    <3>2. call[b].client \in Client
      BY <3>1 DEF TypeInv, WellFormed
    <3> QED
      BY <3>1, <3>2 DEF Inv, Concerned, Recorded
  <2> QED
    BY <2>1, <2>2
<1>4. \A w \in Worker : \A r \in todo'[w] : order'[r.client].status \notin Unsent
  <2>1. \A w \in Worker : \A r \in todo[w] : r.client \in Client
    BY DEF TypeInv, TypeOK, Snapshot
  <2> QED
    BY <2>1 DEF Inv, Concerned, Recorded
<1>5. Concerned'
  BY <1>3, <1>4 DEF Concerned, Recorded
<1> QED
  BY <1>1, <1>2, <1>5 DEF Inv

\* Unless something is settled, only the call of one actor matters there.
LEMMA SettlementFrame ==
  ASSUME TypeInv, Inv, NEW a \in Actor, NEW k, k.stage # "settle",
         call' = [call EXCEPT ![a] = k], UNCHANGED <<fills, posted>>
  PROVE  SettledOnce' /\ Unsettled'
BY DEF TypeInv, TypeOK, Inv, SettledOnce, Unsettled

LEMMA InvStep == TypeInv /\ Inv /\ [Next]_vars => Inv'
<1> SUFFICES ASSUME TypeInv, Inv, [Next]_vars PROVE Inv'
  OBVIOUS
<1>0. /\ \A i \in DOMAIN queue : sends[queue[i].client] > 0
      /\ \A w \in Worker : \A s \in todo[w] : Recorded(s.client)
      /\ OwnOrder
  BY DEF Inv, Concerned
<1>1. ASSUME NEW w \in Worker, NEW c \in Client, Dispatch(w, c)
      PROVE  Inv'
  <2>1. OwnOrder'
    BY <1>1 DEF Dispatch, Inv, OwnOrder, TypeInv, TypeOK
  <2>2. NotYetSent'
    <3>1. ~Recorded(c) /\ sends[c] = 0
      BY <1>1 DEF Dispatch, IsNew, Recorded, Unsent, Inv, SentOnce, TypeInv, TypeOK
    <3> QED
      BY <1>1, <3>1
      DEF Dispatch, Goto, db, venue, Recorded, Inv, NotYetSent, TypeInv, TypeOK
  <2> QED
    BY <1>0, <1>1, <2>1, <2>2, InvFrame DEF Dispatch, db, venue
<1>2. ASSUME NEW w \in Worker, NEW c \in Client, Retry(w, c)
      PROVE  Inv'
  BY <1>2
  DEF Retry, vars, db, venue, control, Inv, OwnOrder, NotYetSent, SentOnce,
      Concerned, SettledOnce, Unsettled, Recorded
<1>3. ASSUME NEW w \in Worker,
             Create(w) \/ Validate(w) \/ Submitting(w) \/ Submitted(w)
      PROVE  Inv'
  <2>1. PICK from \in BeforeSubmit, event \in Status,
             to \in {"validate", "submitting", "submitted", "send"} :
               /\ Advance(w, from, event, to)
               /\ to = "send" <=> event \notin Unsent
    BY <1>3, StatusFacts DEF Create, Validate, Submitting, Submitted, Unsent, Absent
  <2> DEFINE c == job[w]
  <2>2. c \in Client /\ ~Recorded(c) /\ sends[c] = 0
    BY <2>1 DEF Advance, TypeInv, TypeOK, WellFormed, Inv, NotYetSent
  <2>3. /\ order'[c].status = event
        /\ \A d \in Client : d # c => order'[d] = order[d]
    BY <2>1, <2>2 DEF Advance, TypeInv, TypeOK, Row
  <2>4. OwnOrder'
    BY <2>1 DEF Advance, Inv, OwnOrder
  <2>5. NotYetSent'
    <3>1. SUFFICES ASSUME NEW v \in Worker, pc'[v] \in BeforeSubmit \cup {"send"}
                   PROVE  /\ pc'[v] \in BeforeSubmit =>
                               order'[job'[v]].status \in Unsent /\ sends'[job'[v]] = 0
                          /\ pc'[v] = "send" =>
                               order'[job'[v]].status \notin Unsent /\ sends'[job'[v]] = 0
      BY DEF NotYetSent, Recorded
    <3>2. CASE v = w
      BY <2>1, <2>2, <2>3, <3>2 DEF Advance, Goto, TypeInv, TypeOK, venue
    <3>3. CASE v # w
      <4>1. pc'[v] = pc[v] /\ job'[v] = job[v] /\ job[v] \in Client
        BY <2>1, <3>1, <3>3 DEF Advance, Goto, TypeInv, TypeOK, WellFormed
      <4>2. job[v] # c
        BY <2>2, <3>3, <4>1, NoneAssumption DEF Inv, OwnOrder
      <4> QED
        BY <2>1, <2>3, <3>1, <4>1, <4>2
        DEF Advance, Inv, NotYetSent, Recorded, venue
    <3> QED
      BY <3>2, <3>3
  <2>6. SentOnce'
    BY <2>1, <2>2, <2>3 DEF Advance, Inv, SentOnce, Recorded, venue
  <2>7. Concerned'
    <3>1. \A d \in Client : Recorded(d) => order'[d].status \notin Unsent
      BY <2>2, <2>3 DEF Recorded
    <3>2. /\ \A a \in Actor : call[a].stage # "none" => call[a].client \in Client
          /\ \A v \in Worker : \A s \in todo[v] : s.client \in Client
      BY DEF TypeInv, TypeOK, WellFormed, Snapshot
    <3> QED
      BY <2>1, <3>1, <3>2 DEF Advance, Inv, Concerned, Recorded, venue
  <2>8. SettledOnce' /\ Unsettled'
    BY <2>1 DEF Advance, Inv, SettledOnce, Unsettled
  <2> QED
    BY <2>4, <2>5, <2>6, <2>7, <2>8 DEF Inv
<1>4. ASSUME NEW w \in Worker,
             SendAccepted(w) \/ SendUnknown(w) \/ SendFailed(w)
      PROVE  Inv'
  <2> DEFINE c == job[w]
  <2>1. PICK outcome \in Answer, label \in {"ack", "query", "failed"},
             event \in Status, bind \in BOOLEAN :
          Sending(w, outcome) /\ Calls(w, label, event, bind)
    BY <1>4, StatusFacts DEF SendAccepted, SendUnknown, SendFailed, Answer
  <2>2. c \in Client /\ Recorded(c) /\ sends[c] = 0
    BY <2>1 DEF Sending, TypeInv, WellFormed, Inv, NotYetSent
  <2>3. /\ sends'[c] = 1
        /\ \A d \in Client : d # c => sends'[d] = sends[d]
        /\ \A d \in Client : sends[d] > 0 => sends'[d] > 0
    BY <2>1, <2>2 DEF Sending, TypeInv, TypeOK
  <2>4. \A d \in Client : d # c => exch'[d].status = exch[d].status
    BY <1>4, <2>2
    DEF SendAccepted, SendUnknown, SendFailed, TypeInv, TypeOK
  <2>5. \A i \in DOMAIN queue' : sends'[queue'[i].client] > 0
    <3>1. \A i \in DOMAIN queue : sends'[queue[i].client] > 0
      <4>1. \A i \in DOMAIN queue : queue[i].client \in Client
        BY DEF TypeInv, TypeOK, Event, Notice, Report
      <4> QED
        BY <1>0, <2>3, <4>1
    <3>2. CASE queue' = queue
      BY <3>1, <3>2
    <3>3. CASE \E emitted \in Seq(EventOf(c)) : queue' = queue \o emitted
      <4>1. PICK emitted \in Seq(EventOf(c)) : queue' = queue \o emitted
        BY <3>3
      <4>2. \A i \in 1..Len(emitted) : emitted[i].client = c
        BY <4>1 DEF EventOf
      <4>3. queue \in Seq(Event)
        BY DEF TypeInv, TypeOK
      <4>4. ASSUME NEW i \in DOMAIN queue'
            PROVE  sends'[queue'[i].client] > 0
        <5>1. CASE i \in DOMAIN queue
          <6>1. queue'[i] = queue[i]
            BY <4>1, <4>3, <5>1
          <6> QED
            BY <3>1, <5>1, <6>1
        <5>2. CASE i \notin DOMAIN queue
          <6>1. i - Len(queue) \in 1..Len(emitted)
                /\ queue'[i] = emitted[i - Len(queue)]
            BY <4>1, <4>3, <4>4, <5>2
          <6> QED
            BY <2>3, <4>2, <6>1
        <5> QED
          BY <5>1, <5>2
      <4> QED
        BY <4>4
    <3> QED
      BY <1>4, <2>2, <3>2, <3>3, Enqueued DEF SendUnknown, SendFailed
  <2>6. OwnOrder'
    BY <2>1 DEF Sending, Inv, OwnOrder
  <2>7. NotYetSent'
    <3>1. SUFFICES ASSUME NEW v \in Worker, pc'[v] \in BeforeSubmit \cup {"send"}
                   PROVE  /\ pc'[v] = pc[v] /\ job'[v] = job[v]
                          /\ order' = order /\ sends'[job[v]] = sends[job[v]]
      BY DEF Inv, NotYetSent, Recorded
    <3>2. v # w /\ pc'[v] = pc[v] /\ job'[v] = job[v]
      BY <2>1, <3>1 DEF Sending, Calls, Goto, TypeInv, TypeOK
    <3>3. job[v] \in Client /\ job[v] # c
      BY <2>2, <3>1, <3>2, NoneAssumption DEF TypeInv, WellFormed, Inv, OwnOrder
    <3> QED
      BY <2>1, <2>3, <3>2, <3>3 DEF Sending, db
  <2>8. SentOnce'
    BY <2>1, <2>2, <2>3, <2>4 DEF Sending, db, Inv, SentOnce, Recorded
  <2> DEFINE k == TransitionCall(c, event, None, bind)
  <2>9. /\ w \in Actor /\ call' = [call EXCEPT ![w] = k]
        /\ k.stage = "read" /\ k.client = c /\ k.fill = None
    <3>1. call' = [call EXCEPT ![w] = k]
      BY <2>1 DEF Calls
    <3> QED
      BY <3>1 DEF TransitionCall, Actor
  <2> HIDE DEF k
  <2>10. Concerned'
    <3>1. ASSUME NEW a \in Actor, call'[a].stage # "none"
          PROVE  /\ Recorded(call'[a].client)
                 /\ call'[a].stage = "write" => call'[a].next.status \notin Unsent
                 /\ call'[a].fill # None => sends'[call'[a].client] > 0
      <4>1. CASE a = w
        BY <2>2, <2>9, <4>1 DEF TypeInv, TypeOK
      <4>2. CASE a # w
        <5>1. call'[a] = call[a]
          BY <2>9, <4>2 DEF TypeInv, TypeOK
        <5>2. call[a].client \in Client
          BY <3>1, <5>1 DEF TypeInv, WellFormed
        <5> QED
          BY <2>3, <3>1, <5>1, <5>2 DEF Inv, Concerned
      <4> QED
        BY <4>1, <4>2
    <3>2. order' = order /\ todo' = todo
      BY <2>1 DEF Sending, db
    <3> QED
      BY <1>0, <2>5, <3>1, <3>2 DEF Concerned, Recorded
  <2>11. SettledOnce' /\ Unsettled'
    BY <2>1, <2>9, SettlementFrame DEF Sending, db
  <2> QED
    BY <2>6, <2>7, <2>8, <2>10, <2>11 DEF Inv
<1>6. ASSUME NEW w \in Worker, SendDisconnected(w)
      PROVE  Inv'
  <2>1. OwnOrder'
    BY <1>6 DEF SendDisconnected, Inv, OwnOrder, TypeInv, TypeOK
  <2>2. NotYetSent'
    BY <1>6
    DEF SendDisconnected, Goto, db, venue, Recorded, Inv, NotYetSent, TypeInv, TypeOK
  <2> QED
    BY <1>0, <1>6, <2>1, <2>2, InvFrame DEF SendDisconnected, db, venue
<1>7. ASSUME NEW a \in Actor, ReadTransition(a)
      PROVE  Inv'
  <2> DEFINE k == call[a]
             row == order[k.client]
             next == [row EXCEPT !.status = After(@, k.event)]
  <2>1. /\ k.stage = "read" /\ k.fill = None
        /\ UNCHANGED <<order, fills, posted, exch, sends, queue>>
    BY <1>7 DEF ReadTransition, Transitioning, db, venue
  <2>2. /\ k \in Call /\ k.client \in Client /\ Recorded(k.client)
        /\ row \in Row /\ row.status \in Status \ Unsent
    BY <2>1, CallFacts DEF Recorded
  <2>3. CASE Raise(a)
    <3>1. call' = [call EXCEPT ![a] = NoCall]
      BY <2>3, InvControl
    <3>2. SettledOnce' /\ Unsettled'
      BY <2>1, <3>1, NoCallOK, SettlementFrame
    <3> QED
      BY <1>0, <2>1, <2>3, <3>1, <3>2, NoCallOK, InvControl, InvOperation
      DEF Recorded
  <2>4. CASE /\ Accepts(row.status, k.event)
             /\ call' = [call EXCEPT ![a].stage = "write", ![a].next = next]
             /\ UNCHANGED control
    <3> DEFINE m == [k EXCEPT !.stage = "write", !.next = next]
    <3>1. call' = [call EXCEPT ![a] = m]
      BY <2>4 DEF TypeInv, TypeOK
    <3>2. next.status \notin Unsent
      BY <2>2, <2>4, StaysRecorded DEF Row, Call
    <3>3. /\ m.stage = "write" /\ m.client = k.client /\ m.fill = None
          /\ m.next.status \notin Unsent
      BY <2>1, <2>2, <3>2 DEF Call
    <3> HIDE DEF m
    <3>4. SettledOnce' /\ Unsettled'
      BY <2>1, <3>1, <3>3, SettlementFrame
    <3>5. OwnOrder' /\ UNCHANGED <<pc, job, todo>>
      BY <1>0, <2>4 DEF control, OwnOrder
    <3> QED
      BY <1>0, <2>1, <2>2, <3>1, <3>3, <3>4, <3>5, InvOperation DEF Recorded
  <2> QED
    BY <1>7, <2>3, <2>4 DEF ReadTransition
<1>8. ASSUME NEW a \in Actor, WriteTransition(a)
      PROVE  Inv'
  <2> DEFINE k == call[a]
  <2>1. /\ k.stage = "write" /\ Return(a)
        /\ UNCHANGED <<fills, posted, exch, sends, queue>>
    BY <1>8 DEF WriteTransition, Transitioning, venue
  <2>2. k.client \in Client /\ Recorded(k.client) /\ k.next.status \notin Unsent
    BY <2>1, CallFacts DEF Recorded, Inv, Concerned
  <2>3. \A c \in Client : order'[c].status \notin Unsent <=> Recorded(c)
    <3>1. CASE order' = order
      BY <3>1 DEF Recorded
    <3>2. CASE order' = [order EXCEPT ![k.client].status = k.next.status,
                                      ![k.client].bound = @ \/ k.bind]
      <4>1. \A c \in Client : c # k.client => order'[c] = order[c]
        BY <3>2 DEF TypeInv, TypeOK
      <4>2. order'[k.client].status = k.next.status
        <5>1. order \in [Client -> Row] /\ order[k.client] \in Row
          BY <2>2 DEF TypeInv, TypeOK
        <5> QED
          BY <2>2, <3>2, <5>1 DEF Row
      <4> QED
        BY <2>2, <4>1, <4>2 DEF Recorded
    <3> QED
      BY <1>8, <3>1, <3>2 DEF WriteTransition
  <2>4. call' = [call EXCEPT ![a] = NoCall]
    BY <2>1, InvControl
  <2>5. SettledOnce' /\ Unsettled'
    BY <2>1, <2>4, NoCallOK, SettlementFrame
  <2> QED
    BY <1>0, <2>1, <2>3, <2>4, <2>5, NoCallOK, InvControl, InvOperation
<1>9. ASSUME NEW a \in Actor, ReadFill(a)
      PROVE  Inv'
  <2> DEFINE k == call[a]
             f == k.fill
             row == order[f.id.client]
             event == FillEvent(row, f)
             next == [status |-> After(row.status, event),
                      filled |-> Total(row, f), bound |-> TRUE]
  <2>1. /\ k.stage = "read" /\ k.fill # None
        /\ UNCHANGED <<order, fills, posted, exch, sends, queue>>
    BY <1>9 DEF ReadFill, Filling, db, venue
  <2>2. /\ k \in Call /\ k.client \in Client /\ Recorded(k.client)
        /\ f.id.client = k.client /\ sends[k.client] > 0
        /\ row \in Row /\ row.status \in Status \ Unsent
    BY <2>1, CallFacts DEF Recorded
  <2>3. CASE Raise(a) \/ Return(a)
    <3>1. call' = [call EXCEPT ![a] = NoCall]
      BY <2>3, InvControl
    <3>2. SettledOnce' /\ Unsettled'
      BY <2>1, <3>1, NoCallOK, SettlementFrame
    <3> QED
      BY <1>0, <2>1, <2>3, <3>1, <3>2, NoCallOK, InvControl, InvOperation
      DEF Recorded
  <2>4. CASE /\ Accepts(row.status, event)
             /\ call' = [call EXCEPT ![a].stage = "write", ![a].next = next]
             /\ UNCHANGED control
    <3> DEFINE m == [k EXCEPT !.stage = "write", !.next = next]
    <3>1. call' = [call EXCEPT ![a] = m]
      BY <2>4 DEF TypeInv, TypeOK
    <3>2. event \in Status
      BY StatusFacts DEF FillEvent
    <3>3. next.status \notin Unsent
      BY <2>2, <2>4, <3>2, StaysRecorded
    <3>4. /\ m.stage = "write" /\ m.client = k.client
          /\ m.next.status \notin Unsent
      BY <2>2, <3>3 DEF Call
    <3> HIDE DEF m
    <3>5. SettledOnce' /\ Unsettled'
      BY <2>1, <3>1, <3>4, SettlementFrame
    <3>6. OwnOrder' /\ UNCHANGED <<pc, job, todo>>
      BY <1>0, <2>4 DEF control, OwnOrder
    <3> QED
      BY <1>0, <2>1, <2>2, <3>1, <3>4, <3>5, <3>6, InvOperation DEF Recorded
  <2> QED
    BY <1>9, <2>3, <2>4 DEF ReadFill
<1>10. ASSUME NEW a \in Actor, WriteFill(a)
       PROVE  Inv'
  <2> DEFINE k == call[a]
             f == k.fill
  <2>1. /\ k.stage = "write" /\ k.fill # None
        /\ UNCHANGED <<posted, exch, sends, queue>>
    BY <1>10 DEF WriteFill, Filling, venue
  <2>2. /\ k \in Call /\ k.client \in Client /\ Recorded(k.client)
        /\ f \in Fill /\ f.id \in FillId /\ f.id.client = k.client /\ f.qty > 0
        /\ sends[k.client] > 0 /\ k.next.status \notin Unsent
    BY <2>1, CallFacts DEF Recorded, Inv, Concerned
  <2>3. CASE /\ Return(a) /\ UNCHANGED <<order, fills>>
    <3>1. call' = [call EXCEPT ![a] = NoCall]
      BY <2>3, InvControl
    <3>2. SettledOnce' /\ Unsettled'
      BY <2>1, <2>3, <3>1, NoCallOK, SettlementFrame
    <3> QED
      BY <1>0, <2>1, <2>3, <3>1, <3>2, NoCallOK, InvControl, InvOperation
      DEF Recorded
  <2>4. CASE /\ ~IsBooked(f)
             /\ order' = [order EXCEPT ![f.id.client] = k.next]
             /\ fills' = [fills EXCEPT ![f.id] = f.qty]
             /\ call' = [call EXCEPT ![a].stage = "settle"]
             /\ UNCHANGED control
    <3> DEFINE m == [k EXCEPT !.stage = "settle"]
    <3>1. call' = [call EXCEPT ![a] = m]
      BY <2>4 DEF TypeInv, TypeOK
    <3>2. m.stage = "settle" /\ m.client = k.client /\ m.fill = f
      BY <2>2 DEF Call
    <3> HIDE DEF m
    <3>3. \A c \in Client : order'[c].status \notin Unsent <=> Recorded(c)
      BY <2>2, <2>4 DEF Recorded, TypeInv, TypeOK
    <3>4. fills[f.id] = 0 /\ posted[f.id] = 0 /\ fills'[f.id] > 0
          /\ \A j \in FillId : fills[j] > 0 => fills'[j] > 0
      <4>1. fills[f.id] = 0 /\ fills'[f.id] = f.qty
        BY <2>2, <2>4 DEF IsBooked, TypeInv, TypeOK
      <4>2. posted[f.id] \in Nat /\ ~(posted[f.id] > 0)
        BY <2>2, <4>1 DEF Inv, SettledOnce, TypeInv, TypeOK
      <4> QED
        BY <2>2, <2>4, <4>1, <4>2 DEF TypeInv, TypeOK
    <3>5. SettledOnce'
      BY <2>1, <3>4 DEF Inv, SettledOnce
    <3>6. Unsettled'
      <4>1. ASSUME NEW b \in Actor, b # a, call'[b].stage = "settle"
            PROVE  /\ call'[b] = call[b] /\ call[b].fill # None
                   /\ call[b].fill.id \in FillId
                   /\ fills[call[b].fill.id] > 0 /\ posted[call[b].fill.id] = 0
                   /\ call[b].fill.id # f.id
        <5>1. call'[b] = call[b]
          BY <3>1, <4>1 DEF TypeInv, TypeOK
        <5>2. call[b].fill # None /\ fills[call[b].fill.id] > 0
              /\ posted[call[b].fill.id] = 0
          BY <4>1, <5>1 DEF Inv, Unsettled
        <5>3. call[b].fill.id \in FillId
          BY <4>1, <5>1, <5>2, CallFacts
        <5> QED
          BY <3>4, <5>1, <5>2, <5>3
      <4>2. call'[a] = m
        BY <3>1 DEF TypeInv, TypeOK
      <4>3. \A b, d \in Actor :
              b # d /\ call[b].stage = "settle" /\ call[d].stage = "settle" =>
                call[b].fill.id # call[d].fill.id
        BY DEF Inv, Unsettled
      <4> QED
        BY <2>1, <3>2, <3>4, <4>1, <4>2, <4>3 DEF Unsettled
    <3>7. OwnOrder' /\ UNCHANGED <<pc, job, todo>>
      BY <1>0, <2>4 DEF control, OwnOrder
    <3> QED
      BY <1>0, <2>1, <2>2, <3>1, <3>2, <3>3, <3>5, <3>6, <3>7, InvOperation
  <2> QED
    BY <1>10, <2>3, <2>4 DEF WriteFill
<1>11. ASSUME NEW a \in Actor, Settle(a)
       PROVE  Inv'
  <2> DEFINE i == call[a].fill.id
  <2>1. /\ call[a].stage = "settle" /\ call[a].fill # None /\ Return(a)
        /\ posted' = [posted EXCEPT ![i] = @ + 1]
        /\ UNCHANGED <<order, fills, exch, sends, queue>>
    BY <1>11 DEF Settle, Filling, venue
  <2>2. i \in FillId /\ fills[i] > 0 /\ posted[i] = 0
    BY <2>1, CallFacts DEF Inv, Unsettled
  <2>3. call' = [call EXCEPT ![a] = NoCall]
    BY <2>1, InvControl
  <2>4. posted'[i] = 1 /\ \A j \in FillId : j # i => posted'[j] = posted[j]
    BY <2>1, <2>2 DEF TypeInv, TypeOK
  <2>5. SettledOnce'
    BY <2>1, <2>2, <2>4 DEF Inv, SettledOnce
  <2>6. Unsettled'
    <3>1. ASSUME NEW b \in Actor, call'[b].stage = "settle"
          PROVE  /\ b # a /\ call'[b] = call[b] /\ call[b].fill # None
                 /\ call[b].fill.id \in FillId \ {i}
                 /\ fills[call[b].fill.id] > 0 /\ posted[call[b].fill.id] = 0
      <4>1. b # a /\ call'[b] = call[b]
        BY <2>3, <3>1, NoCallOK DEF TypeInv, TypeOK
      <4>2. call[b].fill # None /\ fills[call[b].fill.id] > 0
            /\ posted[call[b].fill.id] = 0 /\ call[b].fill.id # i
        BY <2>1, <3>1, <4>1 DEF Inv, Unsettled
      <4> QED
        BY <3>1, <4>1, <4>2, CallFacts
    <3>2. \A b, d \in Actor :
            b # d /\ call[b].stage = "settle" /\ call[d].stage = "settle" =>
              call[b].fill.id # call[d].fill.id
      BY DEF Inv, Unsettled
    <3> QED
      BY <2>1, <2>4, <3>1, <3>2 DEF Unsettled
  <2> QED
    BY <1>0, <2>1, <2>3, <2>5, <2>6, NoCallOK, InvControl, InvOperation
    DEF Recorded
<1>12. CASE Deliver
  <2> DEFINE e == Head(queue)
  <2>1. /\ queue # <<>> /\ queue' = Tail(queue)
        /\ UNCHANGED <<order, fills, posted, exch, sends, pc, job, todo>>
    BY <1>12 DEF Deliver, db, venue, control
  <2>2. /\ e \in Event /\ sends[e.client] > 0
        /\ \A i \in DOMAIN queue' : sends[queue'[i].client] > 0
    <3>1. queue \in Seq(Event)
      BY DEF TypeInv, TypeOK
    <3>2. e = queue[1] /\ 1 \in DOMAIN queue
      BY <2>1, <3>1
    <3>3. ASSUME NEW i \in DOMAIN queue'
          PROVE  i + 1 \in DOMAIN queue /\ queue'[i] = queue[i + 1]
      BY <2>1, <3>1, <3>3
    <3> QED
      BY <1>0, <3>1, <3>2, <3>3
  <2>3. e.client \in Client /\ Recorded(e.client)
    BY <2>2 DEF Event, Notice, Report, Inv, SentOnce
  <2>4. OwnOrder'
    BY <1>0, <2>1 DEF OwnOrder
  <2>5. CASE call' = call
    <3>1. NotYetSent'
      BY <2>1 DEF Inv, NotYetSent, Recorded
    <3> QED
      BY <1>0, <2>1, <2>2, <2>4, <2>5, <3>1, InvFrame
  <2>6. ASSUME NEW k, call' = [call EXCEPT ![Stream] = k], k.stage = "read",
               k.client = e.client
        PROVE  Inv'
    <3>1. Stream \in Actor
      BY DEF Actor
    <3>2. SettledOnce' /\ Unsettled'
      BY <2>1, <2>6, <3>1, SettlementFrame
    <3> QED
      BY <2>1, <2>2, <2>3, <2>4, <2>6, <3>1, <3>2, InvOperation DEF Recorded
  <2>7. CASE e.kind = "fill"
    <3>1. FillCall(e.fill).stage = "read"
      BY DEF FillCall
    <3>2. FillCall(e.fill).client = e.client
      BY <2>2, <2>7 DEF FillCall, Event, Notice, Report, Fill
    <3> QED
      BY <1>12, <2>5, <2>6, <2>7, <3>1, <3>2 DEF Deliver
  <2>8. CASE e.kind # "fill"
    <3> DEFINE k == TransitionCall(e.client, e.kind, e, e.kind = "ACKNOWLEDGED")
    <3>1. k.stage = "read" /\ k.client = e.client
      BY DEF TransitionCall
    <3>2. call' = call \/ call' = [call EXCEPT ![Stream] = k]
      BY <1>12, <2>8 DEF Deliver
    <3> HIDE DEF k
    <3> QED
      BY <2>5, <2>6, <3>1, <3>2
  <2> QED
    BY <2>7, <2>8
<1>13. ASSUME NEW w \in Worker, ListOpen(w)
       PROVE  Inv'
  <2>1. OwnOrder'
    BY <1>13 DEF ListOpen, Inv, OwnOrder
  <2>2. NotYetSent'
    BY <1>13
    DEF ListOpen, Goto, db, venue, Recorded, Inv, NotYetSent, TypeInv, TypeOK
  <2>3. \A v \in Worker : \A s \in todo'[v] : Recorded(s.client)
    <3>1. \A c \in Client : order[c].status \in Listed => Recorded(c)
      BY DEF Recorded, Listed, Unsent, Absent
    <3>2. todo' = [todo EXCEPT ![w] =
                     {[client |-> c, row |-> order[c]] :
                        c \in {d \in Client : order[d].status \in Listed}}]
      BY <1>13 DEF ListOpen
    <3>3. \A s \in todo'[w] : Recorded(s.client)
      BY <3>1, <3>2 DEF TypeInv, TypeOK
    <3>4. \A v \in Worker : v # w => todo'[v] = todo[v]
      BY <3>2 DEF TypeInv, TypeOK
    <3> QED
      BY <1>0, <3>3, <3>4
  <2> QED
    BY <1>0, <1>13, <2>1, <2>2, <2>3, InvFrame DEF ListOpen, db, venue
<1>14. ASSUME NEW w \in Worker, Recover(w)
       PROVE  Inv'
  <2>1. PICK s \in todo[w] :
          /\ todo' = [todo EXCEPT ![w] = @ \ {s}]
          /\ call' = [call EXCEPT ![w] = Remedy(s.client, s.row)]
    BY <1>14 DEF Recover
  <2> DEFINE k == Remedy(s.client, s.row)
  <2>2. UNCHANGED <<order, fills, posted, exch, sends, queue, pc, job>>
    BY <1>14 DEF Recover, db, venue
  <2>3. /\ s.client \in Client /\ s.row \in Row /\ Recorded(s.client)
        /\ w \in Actor
    BY <1>0, <2>1 DEF TypeInv, TypeOK, Snapshot, Actor
  <2>4. /\ k.stage \in {"none", "read"}
        /\ k.stage # "none" => /\ k.client = s.client
                               /\ k.fill # None => sends[k.client] > 0
    <3> DEFINE c == s.client
    <3>1. exch[c].status # Absent => sends[c] > 0
      BY <2>3 DEF Inv, SentOnce
    <3>2. \A e, b : /\ TransitionCall(c, e, None, b).stage = "read"
                    /\ TransitionCall(c, e, None, b).client = c
                    /\ TransitionCall(c, e, None, b).fill = None
      BY DEF TransitionCall
    <3>3. \A t, n, q : /\ RecoveryFill(c, t, n, q).stage = "read"
                       /\ RecoveryFill(c, t, n, q).client = c
      BY DEF RecoveryFill, FillCall
    <3>4. CASE exch[c].status = Absent
      BY <3>2, <3>4, NoCallOK DEF Remedy, Find, Absent
    <3>5. CASE exch[c].status # Absent
      BY <3>1, <3>2, <3>3, <3>5, NoCallOK DEF Remedy, Find
    <3> QED
      BY <3>4, <3>5
  <2> HIDE DEF k
  <2>5. SettledOnce' /\ Unsettled'
    BY <2>1, <2>2, <2>3, <2>4, SettlementFrame DEF k
  <2>6. OwnOrder' /\ \A v \in Worker : todo'[v] \subseteq todo[v]
    BY <1>0, <2>1, <2>2 DEF OwnOrder, TypeInv, TypeOK
  <2> QED
    BY <1>0, <2>1, <2>2, <2>3, <2>4, <2>5, <2>6, InvOperation DEF Recorded, k
<1>15. ASSUME NEW w \in Worker, Recovered(w)
       PROVE  Inv'
  <2>1. OwnOrder'
    BY <1>15 DEF Recovered, Inv, OwnOrder, TypeInv, TypeOK
  <2>2. NotYetSent'
    BY <1>15
    DEF Recovered, Goto, db, venue, Recorded, Inv, NotYetSent, TypeInv, TypeOK
  <2> QED
    BY <1>0, <1>15, <2>1, <2>2, InvFrame DEF Recovered, db, venue
<1>16. CASE Start
  <2>1. OwnOrder'
    BY <1>16 DEF Start, Inv, OwnOrder
  <2>2. NotYetSent'
    BY <1>16 DEF Start, db, venue, Recorded, Inv, NotYetSent, TypeInv, TypeOK
  <2> QED
    BY <1>0, <1>16, <2>1, <2>2, InvFrame DEF Start, db, venue
<1>17. CASE Crash
  <2>1. \A a \in Actor : call'[a] = NoCall
    BY <1>17 DEF Crash
  <2>2. /\ \A w \in Worker : pc'[w] = "idle" /\ job'[w] = None /\ todo'[w] = {}
        /\ DOMAIN queue' = {} /\ UNCHANGED <<order, fills, posted, sends>>
        /\ \A c \in Client : exch'[c].status # Absent => exch[c].status # Absent
    BY <1>17 DEF Crash, db
  <2>3. OwnOrder' /\ NotYetSent'
    BY <2>2 DEF OwnOrder, NotYetSent
  <2>4. SentOnce' /\ SettledOnce'
    BY <2>2 DEF Inv, SentOnce, SettledOnce, Recorded
  <2>5. Concerned' /\ Unsettled'
    BY <2>1, <2>2, NoCallOK DEF Concerned, Unsettled
  <2> QED
    BY <2>3, <2>4, <2>5 DEF Inv
<1>18. CASE UNCHANGED vars
  BY <1>18
  DEF vars, db, venue, control, Inv, OwnOrder, NotYetSent, SentOnce,
      Concerned, SettledOnce, Unsettled, Recorded
<1> QED
  BY <1>1, <1>2, <1>3, <1>4, <1>6, <1>7, <1>8, <1>9, <1>10, <1>11, <1>12,
     <1>13, <1>14, <1>15, <1>16, <1>17, <1>18
  DEF Next, Submission, Operation, Recovery

\* TypeInv and Inv always hold.
LEMMA Invariance == Spec => [](TypeInv /\ Inv)
BY TypeStart, TypeStep, InvStart, InvStep, PTL DEF Spec

\* No client order id is submitted twice, whatever is retried or lost and
\* however often the process crashes.
THEOREM SubmittedOnce == Spec => []SingleSubmission
<1>1. Inv => SingleSubmission
  BY DEF Inv, SentOnce, SingleSubmission
<1> QED
  BY <1>1, Invariance, PTL

\* An order is recorded as SUBMITTED, or later, before the exchange sees it.
THEOREM RecordedBeforeSubmitted == Spec => []PersistBeforeSubmit
<1>1. Inv => PersistBeforeSubmit
  BY DEF Inv, SentOnce, PersistBeforeSubmit, Recorded
<1> QED
  BY <1>1, Invariance, PTL

\* A fill is settled in the ledger at most once, and after its row exists.
THEOREM SettledAtMostOnce == Spec => []SettledOnce
<1>1. Inv => SettledOnce
  BY DEF Inv
<1> QED
  BY <1>1, Invariance, PTL

-----------------------------------------------------------------------------
(* OrderLifecycle implements OrderContract.                                *)

LEMMA ContractStart == Init => Contract!Init
BY DEF Init, Contract!Init, NoRow, Unsent, Absent

\* Nothing the contract speaks of changes in most steps.
LEMMA ContractStutter ==
  ASSUME \A c \in Client : Recorded(c) <=> order'[c].status \notin Unsent,
         UNCHANGED <<sends, fills, posted>>
  PROVE  UNCHANGED Contract!vars
BY DEF Contract!vars, Recorded

LEMMA ContractStep ==
  TypeInv /\ Inv /\ [Next]_vars => [Contract!Next]_Contract!vars
<1> SUFFICES ASSUME TypeInv, Inv, [Next]_vars
             PROVE  [Contract!Next]_Contract!vars
  OBVIOUS
<1> DEFINE recorded == {c \in Client : order[c].status \notin Unsent}
<1>1. CASE UNCHANGED <<order, sends, fills, posted>>
  BY <1>1, ContractStutter DEF Recorded
<1>2. ASSUME NEW w \in Worker,
             Create(w) \/ Validate(w) \/ Submitting(w) \/ Submitted(w)
      PROVE  [Contract!Next]_Contract!vars
  <2> DEFINE c == job[w]
  <2>1. PICK from \in BeforeSubmit, event \in Status,
             to \in {"validate", "submitting", "submitted", "send"} :
               Advance(w, from, event, to)
    BY <1>2, StatusFacts DEF Create, Validate, Submitting, Submitted
  <2>2. c \in Client /\ ~Recorded(c) /\ UNCHANGED <<sends, fills, posted>>
    BY <2>1 DEF Advance, venue, TypeInv, WellFormed, Inv, NotYetSent
  <2>3. /\ order'[c].status = event
        /\ \A d \in Client : d # c => order'[d] = order[d]
    BY <2>1, <2>2 DEF Advance, TypeInv, TypeOK, Row
  <2>4. CASE event \in Unsent
    BY <2>2, <2>3, <2>4, ContractStutter DEF Recorded
  <2>5. CASE event \notin Unsent
    <3>1. recorded' = recorded \cup {c}
      BY <2>2, <2>3, <2>5 DEF Recorded
    <3>2. c \notin recorded
      BY <2>2 DEF Recorded
    <3>3. \E d \in Client : Contract!Record(d)
      BY <2>2, <3>1, <3>2 DEF Contract!Record
    <3> QED
      BY <3>3 DEF Contract!Next
  <2> QED
    BY <2>4, <2>5
<1>3. ASSUME NEW w \in Worker,
             SendAccepted(w) \/ SendUnknown(w) \/ SendFailed(w)
      PROVE  [Contract!Next]_Contract!vars
  <2> DEFINE c == job[w]
  <2>1. PICK outcome : Sending(w, outcome)
    BY <1>3 DEF SendAccepted, SendUnknown, SendFailed
  <2>2. c \in Client /\ Recorded(c) /\ sends[c] = 0
    BY <2>1 DEF Sending, TypeInv, WellFormed, Inv, NotYetSent
  <2>3. sends' = [sends EXCEPT ![c] = 1] /\ UNCHANGED <<order, fills, posted>>
    BY <2>1, <2>2 DEF Sending, db, TypeInv, TypeOK
  <2>4. Contract!Submit(c)
    BY <2>2, <2>3 DEF Contract!Submit, Recorded
  <2> QED
    BY <2>2, <2>4 DEF Contract!Next
<1>4. ASSUME NEW a \in Actor, WriteTransition(a)
      PROVE  [Contract!Next]_Contract!vars
  <2> DEFINE k == call[a]
  <2>1. k.stage = "write" /\ UNCHANGED <<sends, fills, posted>>
    BY <1>4 DEF WriteTransition, Transitioning, venue
  <2>2. k.client \in Client /\ Recorded(k.client) /\ k.next.status \notin Unsent
    BY <2>1, CallFacts DEF Recorded, Inv, Concerned
  <2>3. CASE order' = order
    BY <2>1, <2>3, ContractStutter DEF Recorded
  <2>4. CASE order' = [order EXCEPT ![k.client].status = k.next.status,
                                    ![k.client].bound = @ \/ k.bind]
    <3>1. order \in [Client -> Row] /\ order[k.client] \in Row
      BY <2>2 DEF TypeInv, TypeOK
    <3>2. /\ \A c \in Client : c # k.client => order'[c] = order[c]
          /\ order'[k.client].status = k.next.status
      BY <2>2, <2>4, <3>1 DEF Row
    <3> QED
      BY <2>1, <2>2, <3>2, ContractStutter DEF Recorded
  <2> QED
    BY <1>4, <2>3, <2>4 DEF WriteTransition
<1>5. ASSUME NEW a \in Actor, WriteFill(a)
      PROVE  [Contract!Next]_Contract!vars
  <2> DEFINE k == call[a]
             f == k.fill
  <2>1. k.stage = "write" /\ f # None /\ UNCHANGED <<sends, posted>>
    BY <1>5 DEF WriteFill, Filling, venue
  <2>2. /\ k.client \in Client /\ Recorded(k.client) /\ f \in Fill
        /\ f.id \in FillId /\ f.id.client = k.client /\ sends[k.client] = 1
        /\ k.next.status \notin Unsent
    BY <2>1, CallFacts DEF Recorded, Inv, Concerned
  <2>3. CASE UNCHANGED <<order, fills>>
    BY <2>1, <2>3, ContractStutter DEF Recorded
  <2>4. CASE /\ ~IsBooked(f)
             /\ order' = [order EXCEPT ![f.id.client] = k.next]
             /\ fills' = [fills EXCEPT ![f.id] = f.qty]
    <3>1. recorded' = recorded
      BY <2>2, <2>4 DEF Recorded, TypeInv, TypeOK
    <3>2. f.qty \in 1..Qty
      BY <2>2 DEF Fill
    <3>3. Contract!Book(f.id, f.qty)
      BY <2>1, <2>2, <2>4, <3>1 DEF Contract!Book, IsBooked
    <3> QED
      BY <2>2, <3>2, <3>3 DEF Contract!Next
  <2> QED
    BY <1>5, <2>3, <2>4 DEF WriteFill
<1>6. ASSUME NEW a \in Actor, Settle(a)
      PROVE  [Contract!Next]_Contract!vars
  <2> DEFINE i == call[a].fill.id
  <2>1. /\ call[a].stage = "settle" /\ call[a].fill # None
        /\ posted' = [posted EXCEPT ![i] = @ + 1]
        /\ UNCHANGED <<order, fills, sends>>
    BY <1>6 DEF Settle, Filling, venue
  <2>2. i \in FillId /\ fills[i] > 0 /\ posted[i] = 0
    BY <2>1, CallFacts DEF Inv, Unsettled
  <2>3. posted' = [posted EXCEPT ![i] = 1]
    BY <2>1, <2>2 DEF TypeInv, TypeOK
  <2>4. Contract!Post(i)
    BY <2>1, <2>2, <2>3 DEF Contract!Post
  <2> QED
    BY <2>2, <2>4 DEF Contract!Next
<1>7. ASSUME NEW w \in Worker, NEW c \in Client, Dispatch(w, c) \/ Retry(w, c)
      PROVE  UNCHANGED <<order, sends, fills, posted>>
  BY <1>7 DEF Dispatch, Retry, vars, db, venue
<1>8. ASSUME NEW w \in Worker, SendDisconnected(w) \/ Recovery(w)
      PROVE  UNCHANGED <<order, sends, fills, posted>>
  BY <1>8 DEF SendDisconnected, Recovery, ListOpen, Recover, Recovered, db, venue
<1>9. ASSUME NEW a \in Actor, ReadTransition(a) \/ ReadFill(a)
      PROVE  UNCHANGED <<order, sends, fills, posted>>
  BY <1>9 DEF ReadTransition, ReadFill, db, venue
<1>10. ASSUME Deliver \/ Start \/ Crash \/ UNCHANGED vars
       PROVE  UNCHANGED <<order, sends, fills, posted>>
  BY <1>10 DEF Deliver, Start, Crash, vars, db, venue
<1> QED
  BY <1>1, <1>2, <1>3, <1>4, <1>5, <1>6, <1>7, <1>8, <1>9, <1>10
  DEF Next, Submission, Operation

\* The engine implements the contract: record, submit once, book once,
\* settle at most once.
THEOREM Implementation == Spec => KeepsContract
BY Invariance, ContractStart, ContractStep, PTL
DEF Spec, KeepsContract, Contract!Spec

-----------------------------------------------------------------------------
(* Induction over an interval, as a statement about the set of what was    *)
(* reached.                                                                *)

LEMMA LeastNumber ==
  ASSUME NEW T \in SUBSET Nat, T # {}
  PROVE  \E n \in T : \A k \in T : n <= k
<1> DEFINE less == {p \in Nat \X Nat : p[1] < p[2]}
<1>1. IsWellFoundedOn(less, Nat)
  BY NatLessThanWellFounded DEF OpToRel
<1> HIDE DEF less
<1>2. PICK n \in T : \A k \in T : ~(<<k, n>> \in less)
  BY <1>1, WFMin
<1>3. ASSUME NEW k \in T PROVE n <= k
  <2>1. <<k, n>> \in Nat \X Nat /\ ~(<<k, n>> \in less)
    BY <1>2
  <2>2. ~(<<k, n>>[1] < <<k, n>>[2])
    BY <2>1 DEF less
  <2> QED BY <2>2
<1> QED BY <1>3

LEMMA ReachesAll ==
  ASSUME NEW n \in Nat, NEW T, 0 \in T,
         \A k \in 1..n : k - 1 \in T => k \in T
  PROVE  n \in T /\ \A k \in 0..n : k \in T
<1> DEFINE Rest == {k \in 0..n : k \notin T}
<1> SUFFICES ASSUME Rest # {} PROVE FALSE
  <2>1. n \in 0..n
    OBVIOUS
  <2> QED BY <2>1
<1>1. Rest \in SUBSET Nat
  OBVIOUS
<1>2. PICK k \in Rest : \A m \in Rest : k <= m
  <2> HIDE DEF Rest
  <2> QED BY <1>1, LeastNumber
<1>3. k \in 1..n /\ k - 1 \in 0..n
  BY <1>2
<1>4. k - 1 \in T
  BY <1>2, <1>3
<1> QED BY <1>2, <1>3, <1>4

-----------------------------------------------------------------------------
(* Sums over finite sets, as the folds compute them.                       *)

Some(s) == CHOOSE x \in s : TRUE

\* g is the sum of the values v over the subsets of S of at most n elements.
Adds(g, v, S, n) ==
  \A s \in SUBSET S : Cardinality(s) <= n =>
    /\ g[s] \in Nat
    /\ g[s] = IF s = {} THEN 0 ELSE v[Some(s)] + g[s \ {Some(s)}]

LEMMA SubsetFacts ==
  ASSUME NEW S, IsFiniteSet(S), NEW s \in SUBSET S
  PROVE  /\ IsFiniteSet(s) /\ Cardinality(s) \in Nat /\ Cardinality(s) <= Cardinality(S)
         /\ Cardinality(s) = 0 <=> s = {}
         /\ s # {} => Some(s) \in s
         /\ \A x \in s : s \ {x} \in SUBSET S /\ Cardinality(s \ {x}) = Cardinality(s) - 1
<1>1. IsFiniteSet(s) /\ Cardinality(s) <= Cardinality(S)
  BY FS_Subset
<1>2. Cardinality(s) \in Nat /\ (Cardinality(s) = 0 <=> s = {})
  BY <1>1, FS_CardinalityType, FS_EmptySet
<1>3. \A x \in s : Cardinality(s \ {x}) = Cardinality(s) - 1
  BY <1>1, FS_RemoveElement
<1> QED BY <1>1, <1>2, <1>3 DEF Some

LEMMA AddsExists ==
  ASSUME NEW S, IsFiniteSet(S), NEW v, \A x \in S : v[x] \in Nat
  PROVE  \E g : /\ g = [s \in SUBSET S |-> IF s = {} THEN 0 ELSE v[Some(s)] + g[s \ {Some(s)}]]
                /\ Adds(g, v, S, Cardinality(S))
<1> DEFINE N == Cardinality(S)
           T == {n \in 0..N : \E g : Adds(g, v, S, n)}
<1>1. N \in Nat
  BY FS_CardinalityType
<1>2. 0 \in T
  <2>1. Adds([s \in SUBSET S |-> 0], v, S, 0)
    BY SubsetFacts DEF Adds
  <2> QED BY <1>1, <2>1
<1>3. ASSUME NEW n \in 1..N, n - 1 \in T PROVE n \in T
  <2>1. PICK g : Adds(g, v, S, n - 1)
    BY <1>3
  <2> DEFINE h == [s \in SUBSET S |-> IF s = {} THEN 0 ELSE v[Some(s)] + g[s \ {Some(s)}]]
  <2>2. ASSUME NEW s \in SUBSET S, Cardinality(s) <= n - 1
        PROVE  h[s] = g[s]
    BY <2>1, <2>2 DEF Adds
  <2>3. ASSUME NEW s \in SUBSET S, Cardinality(s) <= n
        PROVE  /\ h[s] \in Nat
               /\ h[s] = IF s = {} THEN 0 ELSE v[Some(s)] + h[s \ {Some(s)}]
    <3>1. CASE s = {}
      BY <3>1
    <3>2. CASE s # {}
      <4> DEFINE r == s \ {Some(s)}
      <4>1. r \in SUBSET S /\ Cardinality(r) <= n - 1 /\ v[Some(s)] \in Nat
        BY <1>1, <2>3, <3>2, SubsetFacts
      <4>2. h[r] = g[r] /\ g[r] \in Nat
        BY <2>1, <2>2, <4>1 DEF Adds
      <4>3. h[s] = v[Some(s)] + g[r]
        BY <3>2
      <4> HIDE DEF h, r
      <4>4. h[s] = v[Some(s)] + h[r] /\ h[s] \in Nat
        BY <4>1, <4>2, <4>3
      <4> QED BY <3>2, <4>4 DEF r
    <3> QED BY <3>1, <3>2
  <2> HIDE DEF h
  <2>4. Adds(h, v, S, n)
    BY <2>3 DEF Adds
  <2> QED BY <2>4
<1>4. N \in T
  <2> HIDE DEF N, T
  <2> QED BY <1>1, <1>2, <1>3, ReachesAll
<1>5. PICK g : Adds(g, v, S, N)
  BY <1>4
<1> DEFINE h == [s \in SUBSET S |-> g[s]]
<1>6. ASSUME NEW s \in SUBSET S
      PROVE  h[s] \in Nat /\ h[s] = IF s = {} THEN 0 ELSE v[Some(s)] + h[s \ {Some(s)}]
  <2>1. Cardinality(s) <= N
    BY SubsetFacts
  <2>2. s # {} => s \ {Some(s)} \in SUBSET S
    BY SubsetFacts
  <2> QED BY <1>5, <2>1, <2>2 DEF Adds
<1>7. h = [s \in SUBSET S |-> h[s]]
  OBVIOUS
<1> HIDE DEF h
<1>8. h = [s \in SUBSET S |-> IF s = {} THEN 0 ELSE v[Some(s)] + h[s \ {Some(s)}]]
  BY <1>6, <1>7
<1>9. Adds(h, v, S, N)
  BY <1>6 DEF Adds
<1> QED BY <1>8, <1>9

\* The sum does not depend on which element is taken first.
LEMMA AnyFirst ==
  ASSUME NEW S, IsFiniteSet(S), NEW v, \A x \in S : v[x] \in Nat,
         NEW g, Adds(g, v, S, Cardinality(S)), NEW s \in SUBSET S, NEW y \in s
  PROVE  g[s] = v[y] + g[s \ {y}]
<1> DEFINE N == Cardinality(S)
           Free(t) == \A x \in t : g[t] = v[x] + g[t \ {x}]
           T == {n \in 0..N : \A t \in SUBSET S : Cardinality(t) <= n => Free(t)}
<1>1. N \in Nat
  BY FS_CardinalityType
<1>2. 0 \in T
  BY <1>1, SubsetFacts
<1>3. ASSUME NEW n \in 1..N, n - 1 \in T PROVE n \in T
  <2>1. ASSUME NEW t \in SUBSET S, Cardinality(t) <= n, NEW x \in t
        PROVE  g[t] = v[x] + g[t \ {x}]
    <3> DEFINE c == Some(t)
    <3>1. c \in t /\ Cardinality(t) \in Nat /\ Cardinality(t) <= N
      BY SubsetFacts
    <3>2. g[t] = v[c] + g[t \ {c}]
      BY <3>1 DEF Adds
    <3>3. CASE x = c
      BY <3>2, <3>3
    <3>4. CASE x # c
      <4> HIDE DEF c
      <4>1. /\ t \ {c} \in SUBSET S /\ Cardinality(t \ {c}) <= n - 1 /\ x \in t \ {c}
            /\ t \ {x} \in SUBSET S /\ Cardinality(t \ {x}) <= n - 1 /\ c \in t \ {x}
        BY <1>1, <2>1, <3>1, <3>4, SubsetFacts
      <4>2. Free(t \ {c}) /\ Free(t \ {x})
        BY <1>3, <4>1
      <4>3. /\ g[t \ {c}] = v[x] + g[(t \ {c}) \ {x}]
            /\ g[t \ {x}] = v[c] + g[(t \ {x}) \ {c}]
        BY <4>1, <4>2
      <4>4. PICK r \in SUBSET S : r = (t \ {c}) \ {x} /\ r = (t \ {x}) \ {c}
        <5>1. (t \ {c}) \ {x} = (t \ {x}) \ {c} /\ (t \ {c}) \ {x} \in SUBSET S
          OBVIOUS
        <5> QED BY <5>1
      <4>5. g[r] \in Nat
        <5>1. Cardinality(r) <= N
          BY SubsetFacts
        <5> QED BY <5>1 DEF Adds
      <4>6. v[x] \in Nat /\ v[c] \in Nat
        BY <3>1
      <4>7. g[t] = v[c] + (v[x] + g[r]) /\ g[t \ {x}] = v[c] + g[r]
        BY <3>2, <4>3, <4>4
      <4> QED BY <4>5, <4>6, <4>7
    <3> QED BY <3>3, <3>4
  <2> QED BY <2>1
<1>4. N \in T
  <2> HIDE DEF N, T
  <2> QED BY <1>1, <1>2, <1>3, ReachesAll
<1>5. Cardinality(s) <= N
  BY SubsetFacts
<1> QED BY <1>4, <1>5

\* There is only one such sum.
LEMMA AddsUnique ==
  ASSUME NEW S, IsFiniteSet(S), NEW R \in SUBSET S, NEW v, NEW w,
         \A x \in R : v[x] \in Nat /\ w[x] = v[x],
         NEW g, Adds(g, v, S, Cardinality(S)), NEW h, Adds(h, w, R, Cardinality(R))
  PROVE  g[R] = h[R]
<1> DEFINE N == Cardinality(R)
           T == {n \in 0..N : \A t \in SUBSET R : Cardinality(t) <= n => g[t] = h[t]}
<1>1. N \in Nat /\ IsFiniteSet(R) /\ N <= Cardinality(S) /\ Cardinality(S) \in Nat
  BY FS_CardinalityType, FS_Subset
<1>2. ASSUME NEW t \in SUBSET R
      PROVE  /\ Cardinality(t) \in Nat /\ Cardinality(t) <= N
             /\ g[t] = IF t = {} THEN 0 ELSE v[Some(t)] + g[t \ {Some(t)}]
             /\ h[t] = IF t = {} THEN 0 ELSE w[Some(t)] + h[t \ {Some(t)}]
             /\ t # {} => Some(t) \in t /\ Cardinality(t \ {Some(t)}) = Cardinality(t) - 1
  <2>1. Cardinality(t) \in Nat /\ Cardinality(t) <= N /\ t \in SUBSET S
        /\ (t # {} => Some(t) \in t /\ Cardinality(t \ {Some(t)}) = Cardinality(t) - 1)
    BY <1>1, SubsetFacts
  <2>2. Cardinality(t) <= Cardinality(S)
    BY <1>1, <2>1
  <2> QED BY <2>1, <2>2 DEF Adds
<1>3. 0 \in T
  BY <1>1, <1>2, SubsetFacts
<1>4. ASSUME NEW n \in 1..N, n - 1 \in T PROVE n \in T
  <2>1. ASSUME NEW t \in SUBSET R, Cardinality(t) <= n PROVE g[t] = h[t]
    <3>1. CASE t = {}
      BY <1>2, <3>1
    <3>2. CASE t # {}
      <4>1. t \ {Some(t)} \in SUBSET R /\ Cardinality(t \ {Some(t)}) <= n - 1 /\ Some(t) \in R
        BY <1>1, <1>2, <2>1, <3>2
      <4>2. g[t \ {Some(t)}] = h[t \ {Some(t)}] /\ w[Some(t)] = v[Some(t)]
        BY <1>4, <4>1
      <4> QED BY <1>2, <3>2, <4>2
    <3> QED BY <3>1, <3>2
  <2> QED BY <2>1
<1>5. N \in T
  <2> HIDE DEF N, T
  <2> QED BY <1>1, <1>3, <1>4, ReachesAll
<1> QED BY <1>1, <1>5

Sum(v, S) ==
  LET g[s \in SUBSET S] == IF s = {} THEN 0 ELSE v[Some(s)] + g[s \ {Some(s)}]
  IN  g[S]

\* A function that follows the recursion is the sum.
LEMMA AddsFrom ==
  ASSUME NEW S, IsFiniteSet(S), NEW v, \A x \in S : v[x] \in Nat, NEW h,
         \A s \in SUBSET S : /\ s = {} => h[s] = 0
                             /\ s # {} => h[s] = v[Some(s)] + h[s \ {Some(s)}]
  PROVE  Adds(h, v, S, Cardinality(S))
<1> DEFINE N == Cardinality(S)
           T == {n \in 0..N : \A s \in SUBSET S : Cardinality(s) <= n => h[s] \in Nat}
<1>1. N \in Nat
  BY FS_CardinalityType
<1>2. 0 \in T
  <2>1. ASSUME NEW s \in SUBSET S, Cardinality(s) <= 0 PROVE h[s] \in Nat
    <3>1. s = {}
      BY <2>1, SubsetFacts
    <3>2. h[s] = 0
      BY <3>1, Zenon
    <3> QED BY <3>2
  <2> QED BY <1>1, <2>1
<1>3. ASSUME NEW n \in 1..N, n - 1 \in T PROVE n \in T
  <2>1. ASSUME NEW s \in SUBSET S, Cardinality(s) <= n PROVE h[s] \in Nat
    <3>1. CASE s = {}
      <4>1. h[s] = 0
        BY <3>1, Zenon
      <4> QED BY <4>1
    <3>2. CASE s # {}
      <4>1. s \ {Some(s)} \in SUBSET S /\ Cardinality(s \ {Some(s)}) <= n - 1 /\ Some(s) \in S
        BY <1>1, <2>1, <3>2, SubsetFacts
      <4>2. h[s \ {Some(s)}] \in Nat /\ v[Some(s)] \in Nat
        BY <1>3, <4>1
      <4> QED BY <3>2, <4>2
    <3> QED BY <3>1, <3>2
  <2> QED BY <2>1
<1>4. N \in T
  <2> HIDE DEF N, T
  <2> QED BY <1>1, <1>2, <1>3, ReachesAll
<1> QED BY <1>4 DEF Adds

LEMMA SumIs ==
  ASSUME NEW S, IsFiniteSet(S), NEW v, \A x \in S : v[x] \in Nat
  PROVE  \E g : Adds(g, v, S, Cardinality(S)) /\ Sum(v, S) = g[S]
<1> DEFINE G(g) == g = [s \in SUBSET S |-> IF s = {} THEN 0 ELSE v[Some(s)] + g[s \ {Some(s)}]]
           h == CHOOSE g : G(g)
<1>1. Sum(v, S) = h[S]
  BY DEF Sum
<1>2. PICK g : /\ g = [s \in SUBSET S |-> IF s = {} THEN 0 ELSE v[Some(s)] + g[s \ {Some(s)}]]
               /\ Adds(g, v, S, Cardinality(S))
  BY AddsExists
<1>3. G(g)
  BY <1>2
<1>4. G(h)
  <2> HIDE DEF G
  <2> QED BY <1>3
<1>5. \A s \in SUBSET S : /\ s = {} => h[s] = 0
                          /\ s # {} => h[s] = v[Some(s)] + h[s \ {Some(s)}]
  BY <1>4
<1> HIDE DEF h
<1>6. Adds(h, v, S, Cardinality(S))
  BY <1>5, AddsFrom
<1> QED BY <1>1, <1>6

LEMMA SumEmpty == ASSUME NEW v PROVE Sum(v, {}) = 0
<1>1. IsFiniteSet({}) /\ Cardinality({}) = 0
  BY FS_EmptySet
<1>2. PICK g : Adds(g, v, {}, Cardinality({})) /\ Sum(v, {}) = g[{}]
  BY <1>1, SumIs
<1> QED BY <1>1, <1>2 DEF Adds

\* Values that agree on a set have the same sum over it.
LEMMA SumAgree ==
  ASSUME NEW S, IsFiniteSet(S), NEW v, NEW w, \A x \in S : v[x] \in Nat /\ w[x] = v[x]
  PROVE  Sum(w, S) = Sum(v, S)
<1>1. PICK g : Adds(g, v, S, Cardinality(S)) /\ Sum(v, S) = g[S]
  BY SumIs
<1>2. PICK h : Adds(h, w, S, Cardinality(S)) /\ Sum(w, S) = h[S]
  BY SumIs
<1>3. S \in SUBSET S
  OBVIOUS
<1>4. g[S] = h[S]
  BY <1>1, <1>2, <1>3, AddsUnique
<1> QED BY <1>1, <1>2, <1>4

LEMMA SumRemove ==
  ASSUME NEW S, IsFiniteSet(S), NEW v, \A x \in S : v[x] \in Nat, NEW y \in S
  PROVE  /\ Sum(v, S) = v[y] + Sum(v, S \ {y})
         /\ Sum(v, S) \in Nat /\ Sum(v, S \ {y}) \in Nat
<1>1. PICK g : Adds(g, v, S, Cardinality(S)) /\ Sum(v, S) = g[S]
  BY SumIs
<1>2. S \in SUBSET S /\ S \ {y} \in SUBSET S /\ IsFiniteSet(S \ {y})
  BY SubsetFacts
<1>3. PICK h : Adds(h, v, S \ {y}, Cardinality(S \ {y})) /\ Sum(v, S \ {y}) = h[S \ {y}]
  BY <1>2, SumIs
<1>4. g[S] = v[y] + g[S \ {y}]
  BY <1>1, <1>2, AnyFirst
<1>5. \A x \in S \ {y} : v[x] \in Nat /\ v[x] = v[x]
  OBVIOUS
<1>6. g[S \ {y}] = h[S \ {y}]
  BY <1>1, <1>2, <1>3, <1>5, AddsUnique
<1>7. g[S \ {y}] \in Nat
  <2>1. Cardinality(S \ {y}) <= Cardinality(S)
    BY <1>2, SubsetFacts
  <2> QED BY <1>1, <1>2, <2>1 DEF Adds
<1> QED BY <1>1, <1>3, <1>4, <1>6, <1>7

LEMMA SumTyped ==
  ASSUME NEW S, IsFiniteSet(S), NEW v, \A x \in S : v[x] \in Nat
  PROVE  Sum(v, S) \in Nat
<1>1. CASE S = {}
  BY <1>1, SumEmpty
<1>2. ASSUME NEW y \in S PROVE Sum(v, S) \in Nat
  BY SumRemove
<1> QED BY <1>1, <1>2

\* One value of a sum changes.
LEMMA SumChange ==
  ASSUME NEW S, IsFiniteSet(S), NEW v, NEW w, \A x \in S : v[x] \in Nat /\ w[x] \in Nat,
         NEW y \in S, \A x \in S \ {y} : w[x] = v[x]
  PROVE  /\ Sum(w, S) + v[y] = Sum(v, S) + w[y]
         /\ Sum(v, S) \in Nat /\ Sum(w, S) \in Nat
<1>1. IsFiniteSet(S \ {y})
  BY SubsetFacts
<1>2. Sum(w, S \ {y}) = Sum(v, S \ {y})
  BY <1>1, SumAgree
<1>3. /\ Sum(v, S) = v[y] + Sum(v, S \ {y}) /\ Sum(v, S) \in Nat
      /\ Sum(v, S \ {y}) \in Nat
  BY SumRemove
<1>4. Sum(w, S) = w[y] + Sum(w, S \ {y}) /\ Sum(w, S) \in Nat
  BY SumRemove
<1> QED BY <1>2, <1>3, <1>4

\* As many times the bound of a value bounds a sum.
LEMMA SumBounded ==
  ASSUME NEW S, IsFiniteSet(S), NEW b \in Nat, NEW v, \A x \in S : v[x] \in 0..b
  PROVE  Sum(v, S) <= Cardinality(S) * b
<1> DEFINE N == Cardinality(S)
           T == {n \in 0..N : \A s \in SUBSET S : Cardinality(s) <= n => Sum(v, s) <= Cardinality(s) * b}
<1>1. N \in Nat
  BY FS_CardinalityType
<1>2. 0 \in T
  <2>1. ASSUME NEW s \in SUBSET S, Cardinality(s) <= 0 PROVE Sum(v, s) <= Cardinality(s) * b
    <3>1. s = {} /\ Cardinality(s) = 0
      BY <2>1, SubsetFacts
    <3> QED BY <3>1, SumEmpty
  <2> QED BY <1>1, <2>1
<1>3. ASSUME NEW n \in 1..N, n - 1 \in T PROVE n \in T
  <2>1. ASSUME NEW s \in SUBSET S, Cardinality(s) <= n PROVE Sum(v, s) <= Cardinality(s) * b
    <3>1. CASE s = {}
      BY <3>1, SumEmpty, FS_EmptySet
    <3>2. ASSUME NEW y \in s PROVE Sum(v, s) <= Cardinality(s) * b
      <4>1. /\ s \ {y} \in SUBSET S /\ Cardinality(s \ {y}) = Cardinality(s) - 1
            /\ Cardinality(s) \in Nat /\ IsFiniteSet(s)
        BY SubsetFacts
      <4>2. Sum(v, s \ {y}) <= (Cardinality(s) - 1) * b
        BY <1>1, <1>3, <2>1, <4>1
      <4>3. Sum(v, s) = v[y] + Sum(v, s \ {y}) /\ Sum(v, s \ {y}) \in Nat
        BY <4>1, SumRemove
      <4>4. v[y] \in 0..b
        OBVIOUS
      <4>5. (Cardinality(s) - 1) * b = Cardinality(s) * b - b
        BY <4>1
      <4> QED BY <4>1, <4>2, <4>3, <4>4, <4>5
    <3> QED BY <3>1, <3>2
  <2> QED BY <2>1
<1>4. N \in T
  <2> HIDE DEF N, T
  <2> QED BY <1>1, <1>2, <1>3, ReachesAll
<1> QED BY <1>1, <1>4

-----------------------------------------------------------------------------
\* The sum over a set of fill ids, as Booked computes it.
LEMMA FoldIs ==
  ASSUME NEW S, IsFiniteSet(S), NEW v, \A x \in S : v[x] \in Nat
  PROVE  MapThenSumSet(LAMBDA i : v[i], S) = Sum(v, S)
<1> DEFINE G(g) == g = [s \in SUBSET S |-> IF s = {} THEN 0
                                           ELSE v[CHOOSE x \in s : TRUE] + g[s \ {CHOOSE x \in s : TRUE}]]
           h == CHOOSE g : G(g)
<1>1. MapThenSumSet(LAMBDA i : v[i], S) = h[S]
  BY DEF MapThenSumSet, MapThenFoldSet
<1>2. PICK g : /\ g = [s \in SUBSET S |-> IF s = {} THEN 0 ELSE v[Some(s)] + g[s \ {Some(s)}]]
               /\ Adds(g, v, S, Cardinality(S))
  BY AddsExists
<1>3. G(g)
  BY <1>2 DEF Some
<1>4. G(h)
  <2> HIDE DEF G
  <2> QED BY <1>3
<1>5. \A s \in SUBSET S : /\ s = {} => h[s] = 0
                          /\ s # {} => h[s] = v[Some(s)] + h[s \ {Some(s)}]
  <2> HIDE DEF h
  <2> QED BY <1>4 DEF Some
<1> HIDE DEF h
<1>6. Adds(h, v, S, Cardinality(S))
  BY <1>5, AddsFrom
<1>7. PICK k : Adds(k, v, S, Cardinality(S)) /\ Sum(v, S) = k[S]
  BY SumIs
<1>8. h[S] = k[S]
  BY <1>6, <1>7, AddsUnique
<1> QED BY <1>1, <1>7, <1>8

IdsOf(c) == {i \in FillId : i.client = c}

LEMMA IdsFinite == ASSUME NEW c \in Client PROVE IsFiniteSet(IdsOf(c))
<1> DEFINE Tag == {"exec", "recovery", "partial"}
           id(p) == [client |-> c, tag |-> p[1], n |-> p[2]]
           f == [p \in Tag \X (0..Qty) |-> id(p)]
<1>1. IsFiniteSet(0..Qty) /\ IsFiniteSet(Tag)
  <2>1. IsFiniteSet(0..Qty)
    BY QtyAssumption, FS_Interval
  <2>2. IsFiniteSet({"exec"}) /\ Tag = ({"exec"} \cup {"recovery"}) \cup {"partial"}
    BY FS_Singleton
  <2>3. IsFiniteSet({"exec"} \cup {"recovery"})
    BY <2>2, FS_AddElement
  <2>4. IsFiniteSet(({"exec"} \cup {"recovery"}) \cup {"partial"})
    BY <2>3, FS_AddElement
  <2> QED BY <2>1, <2>2, <2>4
<1>2. IsFiniteSet(Tag \X (0..Qty))
  BY <1>1, FS_Product
<1>3. f \in Surjection(Tag \X (0..Qty), IdsOf(c))
  <2>1. f \in [Tag \X (0..Qty) -> IdsOf(c)]
    BY DEF IdsOf, FillId
  <2>2. ASSUME NEW i \in IdsOf(c) PROVE \E p \in Tag \X (0..Qty) : f[p] = i
    <3>1. <<i.tag, i.n>> \in Tag \X (0..Qty) /\ id(<<i.tag, i.n>>) = i
      BY DEF IdsOf, FillId
    <3> QED BY <3>1
  <2> QED BY <2>1, <2>2 DEF Surjection
<1> HIDE DEF f
<1> QED BY <1>2, <1>3, FS_Surjection

\* What the fill rows of an order add up to.
LEMMA BookedIs ==
  ASSUME NEW c \in Client, NEW v \in [FillId -> Nat]
  PROVE  /\ MapThenSumSet(LAMBDA i : v[i], {i \in FillId : i.client = c}) = Sum(v, IdsOf(c))
         /\ Sum(v, IdsOf(c)) \in Nat
<1>1. IsFiniteSet(IdsOf(c)) /\ \A i \in IdsOf(c) : v[i] \in Nat
  BY IdsFinite DEF IdsOf
<1>2. MapThenSumSet(LAMBDA i : v[i], IdsOf(c)) = Sum(v, IdsOf(c))
  BY <1>1, FoldIs
<1> QED BY <1>1, <1>2, SumTyped DEF IdsOf

LEMMA BookedFacts ==
  ASSUME TypeInv, NEW c \in Client
  PROVE  Booked(c) = Sum(fills, IdsOf(c)) /\ Booked(c) \in Nat
<1>1. fills \in [FillId -> Nat]
  BY QtyAssumption DEF TypeInv, TypeOK
<1> QED BY <1>1, BookedIs DEF Booked

LEMMA IdsSum ==
  ASSUME NEW v \in [FillId -> Nat], NEW w \in [FillId -> Nat], NEW y \in FillId,
         v[y] = 0, \A i \in FillId : i # y => w[i] = v[i], NEW c \in Client
  PROVE  Sum(w, IdsOf(c)) = IF c = y.client THEN Sum(v, IdsOf(c)) + w[y] ELSE Sum(v, IdsOf(c))
<1> DEFINE S == IdsOf(c)
<1>1. IsFiniteSet(S) /\ \A x \in S : x \in FillId /\ v[x] \in Nat /\ w[x] \in Nat
  BY IdsFinite DEF IdsOf
<1>2. y \in S <=> c = y.client
  BY DEF IdsOf
<1> HIDE DEF S
<1>3. CASE y \in S
  <2>1. \A x \in S \ {y} : w[x] = v[x]
    BY <1>1
  <2>2. /\ Sum(w, S) + v[y] = Sum(v, S) + w[y]
        /\ Sum(v, S) \in Nat /\ Sum(w, S) \in Nat
    BY <1>1, <1>3, <2>1, SumChange
  <2> QED BY <1>1, <1>2, <1>3, <2>2 DEF S
<1>4. CASE y \notin S
  <2>1. \A x \in S : v[x] \in Nat /\ w[x] = v[x]
    BY <1>1, <1>4
  <2>2. Sum(w, S) = Sum(v, S)
    BY <1>1, <2>1, SumAgree
  <2> QED BY <1>2, <1>4, <2>2 DEF S
<1> QED BY <1>3, <1>4

\* A new fill row adds its quantity to what is booked of its order only.
LEMMA BookedAdds ==
  ASSUME TypeInv, NEW f \in Fill, fills[f.id] = 0,
         fills' = [fills EXCEPT ![f.id] = f.qty], NEW c \in Client
  PROVE  Booked(c)' = IF c = f.id.client THEN Booked(c) + f.qty ELSE Booked(c)
<1>1. /\ fills \in [FillId -> Nat] /\ fills' \in [FillId -> Nat]
      /\ f.id \in FillId /\ f.qty \in Nat /\ fills'[f.id] = f.qty
      /\ \A i \in FillId : i # f.id => fills'[i] = fills[i]
  BY QtyAssumption DEF TypeInv, TypeOK, Fill
<1>2. PICK v \in [FillId -> Nat], w \in [FillId -> Nat] : v = fills /\ w = fills'
  BY <1>1
<1>3. Booked(c) = Sum(v, IdsOf(c)) /\ Booked(c)' = Sum(w, IdsOf(c))
  <2>1. Booked(c) = MapThenSumSet(LAMBDA i : v[i], {i \in FillId : i.client = c})
    BY <1>2 DEF Booked, MapThenSumSet, MapThenFoldSet
  <2>2. Booked(c)' = MapThenSumSet(LAMBDA i : w[i], {i \in FillId : i.client = c})
    BY <1>2 DEF Booked, MapThenSumSet, MapThenFoldSet
  <2> QED BY <2>1, <2>2, BookedIs
<1>4. PICK y \in FillId : y = f.id
  BY <1>1
<1>5. v[y] = 0 /\ w[y] = f.qty /\ \A i \in FillId : i # y => w[i] = v[i]
  BY <1>1, <1>2, <1>4
<1>6. Sum(w, IdsOf(c)) = IF c = y.client THEN Sum(v, IdsOf(c)) + w[y] ELSE Sum(v, IdsOf(c))
  BY <1>5, IdsSum
<1> QED BY <1>3, <1>4, <1>5, <1>6

\* Nothing is booked of an order without a fill row.
LEMMA BookedNone ==
  ASSUME NEW v \in [FillId -> Nat], NEW c \in Client, \A i \in IdsOf(c) : v[i] = 0
  PROVE  Sum(v, IdsOf(c)) = 0
<1> DEFINE S == IdsOf(c)
<1>1. IsFiniteSet(S) /\ \A x \in S : v[x] \in 0..0
  BY IdsFinite DEF IdsOf
<1> HIDE DEF S
<1>2. Sum(v, S) <= Cardinality(S) * 0 /\ Cardinality(S) \in Nat
  BY <1>1, SumBounded, FS_CardinalityType
<1>3. Sum(v, S) \in Nat
  BY <1>1, SumTyped
<1> QED BY <1>2, <1>3 DEF S

LEMMA BookedSame ==
  ASSUME UNCHANGED fills, NEW c \in Client
  PROVE  Booked(c)' = Booked(c)
BY DEF Booked, MapThenSumSet, MapThenFoldSet

-----------------------------------------------------------------------------
\* No fill without its row: the filled quantity is covered by the fill rows, and
\* what is about to be written by those and the fill itself.
Covered ==
  /\ NothingInvented
  /\ \A a \in Actor, c \in Client :
       /\ call[a].stage = "write" /\ call[a].fill # None
       /\ call[a].client = c /\ fills[call[a].fill.id] = 0
       => call[a].next.filled <= Booked(c) + call[a].fill.qty

LEMMA CoveredFrame ==
  ASSUME TypeInv, Covered, UNCHANGED fills,
         \A c \in Client : order'[c].filled = order[c].filled,
         \A a \in Actor : \/ call'[a] = call[a]
                          \/ call'[a].stage # "write" \/ call'[a].fill = None
  PROVE  Covered'
<1>1. \A c \in Client : Booked(c)' = Booked(c)
  BY BookedSame
<1>2. NothingInvented'
  BY <1>1 DEF Covered, NothingInvented
<1>3. ASSUME NEW a \in Actor, NEW c \in Client,
             call'[a].stage = "write", call'[a].fill # None,
             call'[a].client = c, fills'[call'[a].fill.id] = 0
      PROVE  call'[a].next.filled <= Booked(c)' + call'[a].fill.qty
  <2>1. call'[a] = call[a]
    BY <1>3
  <2>2. call[a].next.filled <= Booked(c) + call[a].fill.qty
    BY <1>3, <2>1 DEF Covered
  <2> QED BY <1>1, <2>1, <2>2
<1> QED BY <1>2, <1>3 DEF Covered

\* One actor's call is over, or is replaced by one that writes no fill.
LEMMA CallMoves ==
  ASSUME TypeInv, NEW a \in Actor, NEW k, call' = [call EXCEPT ![a] = k],
         k.stage # "write" \/ k.fill = None
  PROVE  \A b \in Actor : \/ call'[b] = call[b]
                          \/ call'[b].stage # "write" \/ call'[b].fill = None
BY DEF TypeInv, TypeOK

LEMMA CoveredStart == Init => Covered
<1> SUFFICES ASSUME Init PROVE Covered
  OBVIOUS
<1>1. fills \in [FillId -> Nat] /\ \A c \in Client : order[c].filled = 0
  BY DEF Init, NoRow
<1>2. \A c \in Client : Booked(c) \in Nat
  BY TypeStart, BookedFacts
<1>3. \A a \in Actor : call[a].stage = "none"
  BY DEF Init, NoCall
<1> QED BY <1>1, <1>2, <1>3 DEF Covered, NothingInvented

LEMMA CoveredStep == TypeInv /\ Inv /\ Covered /\ [Next]_vars => Covered'
<1> SUFFICES ASSUME TypeInv, Inv, Covered, [Next]_vars PROVE Covered'
  OBVIOUS
<1>1. CASE UNCHANGED <<order, fills, call>>
  BY <1>1, CoveredFrame
<1>2. ASSUME NEW w \in Worker,
             Create(w) \/ Validate(w) \/ Submitting(w) \/ Submitted(w)
      PROVE  Covered'
  <2>1. PICK from \in BeforeSubmit, event \in Status,
             to \in {"validate", "submitting", "submitted", "send"} :
               Advance(w, from, event, to)
    BY <1>2, StatusFacts DEF Create, Validate, Submitting, Submitted
  <2>2. UNCHANGED <<fills, call>> /\ \A c \in Client : order'[c].filled = order[c].filled
    BY <2>1 DEF Advance, TypeInv, TypeOK, Row
  <2> QED BY <2>2, CoveredFrame
<1>3. ASSUME NEW w \in Worker,
             SendAccepted(w) \/ SendUnknown(w) \/ SendFailed(w)
      PROVE  Covered'
  <2>1. PICK label, event, bind : Calls(w, label, event, bind)
    BY <1>3 DEF SendAccepted, SendUnknown, SendFailed
  <2>2. UNCHANGED <<order, fills>>
    BY <1>3 DEF SendAccepted, SendUnknown, SendFailed, Sending, db
  <2>3. w \in Actor /\ TransitionCall(job[w], event, None, bind).stage = "read"
    BY DEF Actor, TransitionCall
  <2>4. call' = [call EXCEPT ![w] = TransitionCall(job[w], event, None, bind)]
    BY <2>1 DEF Calls
  <2> QED BY <2>2, <2>3, <2>4, CallMoves, CoveredFrame
<1>4. ASSUME NEW a \in Actor, ReadTransition(a)
      PROVE  Covered'
  <2>1. UNCHANGED <<order, fills>> /\ call[a].fill = None
    BY <1>4 DEF ReadTransition, Transitioning, db
  <2>2. ASSUME NEW b \in Actor
        PROVE  call'[b] = call[b] \/ call'[b].stage # "write" \/ call'[b].fill = None
    <3>1. CASE Raise(a)
      <4>1. call' = [call EXCEPT ![a] = NoCall] /\ NoCall.stage # "write"
        BY <3>1, NoCallOK DEF Raise
      <4> QED BY <4>1, CallMoves
    <3>2. CASE \E n : call' = [call EXCEPT ![a].stage = "write", ![a].next = n]
      <4>1. \A d \in Actor : d # a => call'[d] = call[d]
        BY <3>2 DEF TypeInv, TypeOK
      <4>2. call'[a].fill = call[a].fill
        BY <3>2 DEF TypeInv, TypeOK, Call
      <4> QED BY <2>1, <4>1, <4>2
    <3> QED BY <1>4, <3>1, <3>2 DEF ReadTransition
  <2> QED BY <2>1, <2>2, CoveredFrame
<1>5. ASSUME NEW a \in Actor, WriteTransition(a)
      PROVE  Covered'
  <2>1. UNCHANGED fills /\ call' = [call EXCEPT ![a] = NoCall] /\ NoCall.stage # "write"
    BY <1>5, NoCallOK DEF WriteTransition, Return
  <2>2. \A c \in Client : order'[c].filled = order[c].filled
    <3> DEFINE k == call[a]
    <3>1. order \in [Client -> Row] /\ k.client \in Client
      BY <1>5 DEF WriteTransition, Transitioning, TypeInv, TypeOK, WellFormed
    <3>2. \/ order' = order
          \/ order' = [order EXCEPT ![k.client].status = k.next.status,
                                   ![k.client].bound = @ \/ k.bind]
      BY <1>5 DEF WriteTransition
    <3> HIDE DEF k
    <3> QED BY <3>1, <3>2 DEF Row
  <2> QED BY <2>1, <2>2, CallMoves, CoveredFrame
<1>6. ASSUME NEW a \in Actor, ReadFill(a)
      PROVE  Covered'
  <2> DEFINE f == call[a].fill
             row == order[f.id.client]
  <2>1. UNCHANGED <<order, fills>> /\ call[a].stage = "read" /\ f # None
    BY <1>6 DEF ReadFill, Filling, db
  <2>2. CASE call' = [call EXCEPT ![a] = NoCall]
    <3>1. NoCall.stage # "write"
      BY NoCallOK
    <3> QED BY <2>1, <2>2, <3>1, CallMoves, CoveredFrame
  <2>3. ASSUME NEW s,
               call' = [call EXCEPT ![a].stage = "write",
                          ![a].next = [status |-> s, filled |-> Total(row, f), bound |-> TRUE]]
        PROVE  Covered'
    <3>1. /\ \A b \in Actor : b # a => call'[b] = call[b]
          /\ call'[a].fill = f /\ call'[a].client = call[a].client
          /\ call'[a].next.filled = row.filled + f.qty
      BY <2>3 DEF TypeInv, TypeOK, Call, Total
    <3>2. f.id.client = call[a].client /\ f.qty \in Nat /\ call[a].client \in Client
      BY <2>1, CallFacts, QtyAssumption DEF Fill
    <3>3. order[call[a].client].filled <= Booked(call[a].client)
      BY <3>2 DEF Covered, NothingInvented
    <3>4. \A c \in Client : Booked(c)' = Booked(c) /\ Booked(c) \in Nat
                            /\ order[c].filled \in Nat
      BY <2>1, BookedSame, BookedFacts, QtyAssumption DEF TypeInv, TypeOK, Row
    <3>5. NothingInvented'
      BY <2>1, <3>4 DEF Covered, NothingInvented
    <3>6. ASSUME NEW b \in Actor, NEW c \in Client,
                 call'[b].stage = "write", call'[b].fill # None,
                 call'[b].client = c, fills'[call'[b].fill.id] = 0
          PROVE  call'[b].next.filled <= Booked(c)' + call'[b].fill.qty
      <4>1. CASE b = a
        <5>1. order[c].filled <= Booked(c) /\ row = order[c]
          BY <3>1, <3>2, <3>3, <3>6, <4>1
        <5> QED BY <3>1, <3>2, <3>4, <4>1, <5>1
      <4>2. CASE b # a
        <5>1. call'[b] = call[b]
          BY <3>1, <4>2
        <5>2. call[b].next.filled <= Booked(c) + call[b].fill.qty
          BY <2>1, <3>6, <5>1 DEF Covered
        <5> QED BY <3>4, <5>1, <5>2
      <4> QED BY <4>1, <4>2
    <3> QED BY <3>5, <3>6 DEF Covered
  <2> QED BY <1>6, <2>2, <2>3 DEF ReadFill, Return, Raise
<1>7. ASSUME NEW a \in Actor, WriteFill(a)
      PROVE  Covered'
  <2> DEFINE k == call[a]
             f == k.fill
  <2>1. k.stage = "write" /\ f # None
    BY <1>7 DEF WriteFill, Filling
  <2>2. /\ f \in Fill /\ f.id \in FillId /\ f.id.client = k.client /\ k.client \in Client
        /\ k \in Call /\ f.qty \in 1..Qty
    BY <2>1, CallFacts DEF Fill
  <2>3. CASE UNCHANGED <<order, fills>> /\ Return(a)
    <3>1. call' = [call EXCEPT ![a] = NoCall] /\ NoCall.stage # "write"
      BY <2>3, NoCallOK DEF Return
    <3> QED BY <2>3, <3>1, CallMoves, CoveredFrame
  <2>4. CASE /\ ~IsBooked(f)
             /\ order' = [order EXCEPT ![f.id.client] = k.next]
             /\ fills' = [fills EXCEPT ![f.id] = f.qty]
             /\ call' = [call EXCEPT ![a].stage = "settle"]
    <3>1. fills[f.id] = 0
      BY <2>4 DEF IsBooked
    <3>2. \A c \in Client : Booked(c)' = IF c = f.id.client THEN Booked(c) + f.qty ELSE Booked(c)
      BY <2>2, <2>4, <3>1, BookedAdds
    <3>3. \A c \in Client : Booked(c) \in Nat /\ f.qty \in Nat
      BY <2>2, BookedFacts, QtyAssumption
    <3>4. k.next.filled <= Booked(k.client) + f.qty
      BY <2>1, <2>2, <3>1 DEF Covered
    <3>5. NothingInvented'
      <4>1. ASSUME NEW c \in Client PROVE order'[c].filled <= Booked(c)'
        <5>1. CASE c = f.id.client
          BY <2>2, <2>4, <3>2, <3>4, <5>1 DEF TypeInv, TypeOK
        <5>2. CASE c # f.id.client
          BY <2>4, <3>2, <5>2 DEF TypeInv, TypeOK, Covered, NothingInvented
        <5> QED BY <5>1, <5>2
      <4> QED BY <4>1 DEF NothingInvented
    <3>6. ASSUME NEW b \in Actor, NEW c \in Client,
                 call'[b].stage = "write", call'[b].fill # None,
                 call'[b].client = c, fills'[call'[b].fill.id] = 0
          PROVE  call'[b].next.filled <= Booked(c)' + call'[b].fill.qty
      <4>1. b # a /\ call'[b] = call[b]
        BY <2>4, <3>6 DEF TypeInv, TypeOK
      <4>2. /\ call[b] \in Call /\ call[b].fill \in Fill /\ call[b].fill.id \in FillId
            /\ call[b].next.filled \in Nat /\ call[b].fill.qty \in Nat
        <5>1. call[b] \in Call /\ call[b].fill \in Fill /\ call[b].fill.id \in FillId
          BY <3>6, <4>1, CallFacts
        <5> QED BY <5>1, QtyAssumption DEF Call, Row, Fill
      <4>3. fills[call[b].fill.id] = 0
        BY <2>2, <2>4, <3>1, <3>6, <4>1, <4>2 DEF TypeInv, TypeOK
      <4>4. call[b].next.filled <= Booked(c) + call[b].fill.qty
        BY <3>6, <4>1, <4>3 DEF Covered
      <4> QED BY <3>2, <3>3, <4>1, <4>2, <4>4
    <3> QED BY <3>5, <3>6 DEF Covered
  <2> QED BY <1>7, <2>3, <2>4 DEF WriteFill
<1>8. ASSUME NEW a \in Actor, Settle(a)
      PROVE  Covered'
  <2>1. UNCHANGED <<order, fills>> /\ call' = [call EXCEPT ![a] = NoCall]
        /\ NoCall.stage # "write"
    BY <1>8, NoCallOK DEF Settle, Return
  <2> QED BY <2>1, CallMoves, CoveredFrame
<1>9. CASE Deliver
  <2>1. UNCHANGED <<order, fills>> /\ Stream \in Actor
    BY <1>9 DEF Deliver, db, Actor
  <2>2. call' = call \/ \E k : call' = [call EXCEPT ![Stream] = k] /\ k.stage = "read"
    <3> DEFINE e == Head(queue)
               n == TransitionCall(e.client, e.kind, e, e.kind = "ACKNOWLEDGED")
    <3>1. FillCall(e.fill).stage = "read" /\ n.stage = "read"
      BY DEF FillCall, TransitionCall
    <3>2. \/ call' = call \/ call' = [call EXCEPT ![Stream] = FillCall(e.fill)]
          \/ call' = [call EXCEPT ![Stream] = n]
      BY <1>9 DEF Deliver
    <3> HIDE DEF n
    <3> QED BY <3>1, <3>2
  <2>3. CASE call' = call
    BY <2>1, <2>3, CoveredFrame
  <2>4. ASSUME NEW k, call' = [call EXCEPT ![Stream] = k], k.stage = "read"
        PROVE  Covered'
    BY <2>1, <2>4, CallMoves, CoveredFrame
  <2> QED BY <2>2, <2>3, <2>4
<1>10. ASSUME NEW w \in Worker, Recover(w)
       PROVE  Covered'
  <2>1. UNCHANGED <<order, fills>> /\ w \in Actor
    BY <1>10 DEF Recover, db, Actor
  <2>2. PICK c, row : call' = [call EXCEPT ![w] = Remedy(c, row)]
    BY <1>10 DEF Recover
  <2>3. Remedy(c, row).stage # "write"
    BY NoCallOK DEF Remedy, TransitionCall, RecoveryFill, FillCall
  <2> QED BY <2>1, <2>2, <2>3, CallMoves, CoveredFrame
<1>11. CASE Crash
  <2>1. UNCHANGED <<order, fills>> /\ \A a \in Actor : call'[a].stage # "write"
    BY <1>11, NoCallOK DEF Crash, db
  <2> QED BY <2>1, CoveredFrame
<1>12. ASSUME NEW w \in Worker, NEW c \in Client, Dispatch(w, c) \/ Retry(w, c)
       PROVE  UNCHANGED <<order, fills, call>>
  BY <1>12 DEF Dispatch, Retry, vars, db
<1>13. ASSUME NEW w \in Worker, SendDisconnected(w) \/ ListOpen(w) \/ Recovered(w)
       PROVE  UNCHANGED <<order, fills, call>>
  BY <1>13 DEF SendDisconnected, ListOpen, Recovered, db
<1>14. ASSUME Start \/ UNCHANGED vars
       PROVE  UNCHANGED <<order, fills, call>>
  BY <1>14 DEF Start, vars, db
<1> QED
  BY <1>1, <1>2, <1>3, <1>4, <1>5, <1>6, <1>7, <1>8, <1>9, <1>10, <1>11, <1>12,
     <1>13, <1>14
  DEF Next, Submission, Operation, Recovery

-----------------------------------------------------------------------------
\* There is one task that executes signals.
OneTask == \A v, w \in Worker : v = w

\* While a task recovers, no other one recovers or is about to send.
Undisturbed ==
  \A v, w \in Worker : pc[w] = "recover" /\ v # w => pc[v] \notin {"send", "recover"}

Rejects(k) == k.stage \in {"read", "write"} /\ k.fill = None /\ k.event = "REJECTED"

\* Only recovery rejects an order: one that the exchange does not have and that
\* nobody is about to send.
Rejections ==
  /\ \A c \in Client : order[c].status = "REJECTED" =>
       exch[c].status = Absent /\ \A w \in Worker : pc[w] = "send" => job[w] # c
  /\ \A a \in Actor : Rejects(call[a]) =>
       a \in Worker /\ pc[a] = "recover" /\ exch[call[a].client].status = Absent
  /\ \A a \in Actor : call[a].stage = "write" /\ call[a].next.status = "REJECTED" =>
       Rejects(call[a])

\* A worker is inside an operation at these steps only.
Busy == \A w \in Worker : call[w].stage # "none" => pc[w] \in {"ack", "failed", "query", "recover"}

\* How an operation takes its caller on.
LEMMA CallerMoves ==
  ASSUME TypeInv, NEW a \in Actor, Operation(a)
  PROVE  /\ \A b \in Actor : b # a => call'[b] = call[b]
         /\ \A w \in Worker : w # a => pc'[w] = pc[w] /\ job'[w] = job[w] /\ todo'[w] = todo[w]
         /\ call[a].stage # "none"
         /\ \/ UNCHANGED control
            \/ Return(a) /\ call'[a].stage = "none"
            \/ Raise(a) /\ call'[a].stage = "none"
<1>1. CASE Return(a)
  <2>1. call' = [call EXCEPT ![a] = NoCall] /\ call'[a].stage = "none"
    BY <1>1, NoCallOK DEF Return, TypeInv, TypeOK
  <2>2. \A w \in Worker : w # a => pc'[w] = pc[w] /\ job'[w] = job[w] /\ todo'[w] = todo[w]
    BY <1>1 DEF Return, Goto, control, TypeInv, TypeOK
  <2>3. call[a].stage # "none"
    BY DEF Operation, ReadTransition, WriteTransition, ReadFill, WriteFill, Settle, Transitioning, Filling
  <2> QED BY <1>1, <2>1, <2>2, <2>3 DEF TypeInv, TypeOK
<1>2. CASE Raise(a)
  <2>1. call' = [call EXCEPT ![a] = NoCall] /\ call'[a].stage = "none"
    BY <1>2, NoCallOK DEF Raise, TypeInv, TypeOK
  <2>2. \A w \in Worker : w # a => pc'[w] = pc[w] /\ job'[w] = job[w] /\ todo'[w] = todo[w]
    BY <1>2 DEF Raise, Goto, control, TypeInv, TypeOK
  <2>3. call[a].stage # "none"
    BY DEF Operation, ReadTransition, WriteTransition, ReadFill, WriteFill, Settle, Transitioning, Filling
  <2> QED BY <1>2, <2>1, <2>2, <2>3 DEF TypeInv, TypeOK
<1>3. CASE UNCHANGED control /\ ~Return(a) /\ ~Raise(a)
  <2>1. call[a].stage # "none"
    BY DEF Operation, ReadTransition, WriteTransition, ReadFill, WriteFill, Settle, Transitioning, Filling
  <2>2. \A b \in Actor : b # a => call'[b] = call[b]
    <3>1. CASE ReadTransition(a)
      BY <1>3, <3>1 DEF ReadTransition, TypeInv, TypeOK
    <3>2. CASE ReadFill(a)
      BY <1>3, <3>2 DEF ReadFill, TypeInv, TypeOK
    <3>3. CASE WriteFill(a)
      BY <1>3, <3>3 DEF WriteFill, TypeInv, TypeOK
    <3> QED BY <1>3, <3>1, <3>2, <3>3 DEF Operation, WriteTransition, Settle
  <2> QED BY <1>3, <2>1, <2>2 DEF control
<1> QED
  BY <1>1, <1>2, <1>3
  DEF Operation, ReadTransition, WriteTransition, ReadFill, WriteFill, Settle

\* Between a crash and the next start nobody works.
DownIsIdle == phase = "down" => \A w \in Worker : pc[w] = "idle"

LEMMA BusyStep == TypeInv /\ Busy /\ DownIsIdle /\ [Next]_vars => Busy'
<1> SUFFICES ASSUME TypeInv, Busy, DownIsIdle, [Next]_vars, NEW w \in Worker, call'[w].stage # "none"
             PROVE  pc'[w] \in {"ack", "failed", "query", "recover"}
  BY DEF Busy
<1>1. CASE call'[w] = call[w] /\ pc'[w] = pc[w]
  BY <1>1 DEF Busy
<1>2. w \in Actor /\ w # Stream
  BY StreamAssumption DEF Actor
<1>3. ASSUME NEW v \in Worker, NEW c \in Client, Dispatch(v, c)
      PROVE  call'[w] = call[w] /\ pc'[w] = pc[w]
  BY <1>3 DEF Dispatch, Goto, TypeInv, TypeOK, Busy
<1>4. ASSUME NEW v \in Worker, Create(v) \/ Validate(v) \/ Submitting(v) \/ Submitted(v)
      PROVE  call'[w] = call[w] /\ pc'[w] = pc[w]
  <2>1. PICK from \in BeforeSubmit, event \in Status, to \in WorkerStep : Advance(v, from, event, to)
    BY <1>4, StatusFacts DEF Create, Validate, Submitting, Submitted, WorkerStep
  <2> QED BY <2>1 DEF Advance, Goto, TypeInv, TypeOK, Busy
<1>5. ASSUME NEW v \in Worker, SendAccepted(v) \/ SendUnknown(v) \/ SendFailed(v)
      PROVE  \/ call'[w] = call[w] /\ pc'[w] = pc[w]
             \/ pc'[w] \in {"ack", "failed", "query"}
  <2>1. PICK label \in {"ack", "failed", "query"}, event \in Status, bind \in BOOLEAN :
          Calls(v, label, event, bind)
    BY <1>5, StatusFacts DEF SendAccepted, SendUnknown, SendFailed
  <2> QED BY <2>1, <1>2 DEF Calls, Goto, TypeInv, TypeOK
<1>6. ASSUME NEW v \in Worker, SendDisconnected(v) \/ ListOpen(v) \/ Recovered(v)
      PROVE  call'[w] = call[w] /\ pc'[w] = pc[w]
  BY <1>6 DEF SendDisconnected, ListOpen, Recovered, Goto, TypeInv, TypeOK, Busy
<1>7. ASSUME NEW v \in Worker, Recover(v)
      PROVE  \/ call'[w] = call[w] /\ pc'[w] = pc[w]
             \/ pc'[w] = "recover"
  BY <1>2, <1>7 DEF Recover, TypeInv, TypeOK
<1>8. ASSUME NEW a \in Actor, Operation(a)
      PROVE  pc'[w] \in {"ack", "failed", "query", "recover"}
  <2>1. CASE w # a
    BY <1>1, <1>2, <1>8, <2>1, CallerMoves
  <2>2. CASE w = a
    <3>1. UNCHANGED control /\ call[a].stage # "none"
      BY <1>8, <2>2, CallerMoves
    <3> QED BY <2>2, <3>1 DEF control, Busy
  <2> QED BY <2>1, <2>2
<1>9. CASE Deliver
  <2>1. \A n : call' = [call EXCEPT ![Stream] = n] => call'[w] = call[w]
    BY <1>2 DEF TypeInv, TypeOK
  <2> QED BY <1>1, <1>9, <2>1 DEF Deliver, control
<1>10. CASE Start
  BY <1>1, <1>10, <1>2 DEF Start, Busy, DownIsIdle, TypeInv, TypeOK
<1>11. CASE Crash
  BY <1>2, <1>11, NoCallOK DEF Crash
<1>12. ASSUME UNCHANGED vars \/ \E v \in Worker, c \in Client : Retry(v, c)
       PROVE  call'[w] = call[w] /\ pc'[w] = pc[w]
  BY <1>12 DEF Retry, vars, control
<1> QED
  BY <1>1, <1>3, <1>4, <1>5, <1>6, <1>7, <1>8, <1>9, <1>10, <1>11, <1>12
  DEF Next, Submission, Recovery

LEMMA DownStep ==
  ASSUME OneTask PROVE TypeInv /\ Busy /\ DownIsIdle /\ [Next]_vars => DownIsIdle'
<1> SUFFICES ASSUME TypeInv, Busy, DownIsIdle, [Next]_vars, phase' = "down",
                    NEW w \in Worker
             PROVE  pc'[w] = "idle"
  BY DEF DownIsIdle
<1>1. CASE phase = "down" /\ pc' = pc
  BY <1>1 DEF DownIsIdle
<1>2. CASE Crash
  BY <1>2 DEF Crash
<1>3. ASSUME NEW a \in Actor, Operation(a)
      PROVE  pc'[w] = "idle"
  <2>1. CASE UNCHANGED control
    BY <1>1, <2>1 DEF control
  <2>2. CASE a \in Worker /\ phase = "down"
    BY <1>3, <2>2, CallerMoves DEF Busy, DownIsIdle
  <2>3. CASE a \in Worker /\ phase # "down"
    <3>1. a = w /\ Raise(a) /\ a # Stream
      BY <1>3, <2>1, <2>3, CallerMoves, StreamAssumption DEF OneTask, Return, control
    <3>2. phase = "recovering" /\ pc' = [pc EXCEPT ![a] = "idle"]
      BY <2>3, <3>1 DEF Raise, Goto
    <3> QED BY <3>1, <3>2 DEF TypeInv, TypeOK
  <2>4. CASE a = Stream
    <3>1. UNCHANGED control
      BY <1>3, <2>4, CallerMoves, StreamAssumption DEF Return, Raise
    <3> QED BY <2>1, <3>1
  <2> QED BY <2>2, <2>3, <2>4 DEF Actor
<1>4. ASSUME NEW v \in Worker, Submission(v)
      PROVE  FALSE
  <2>1. phase' = phase
    BY <1>4 DEF Submission, Create, Validate, Submitting, Submitted, Advance, SendAccepted,
                SendUnknown, SendFailed, SendDisconnected, Sending
  <2>2. pc[v] # "idle"
    BY <1>4 DEF Submission, Create, Validate, Submitting, Submitted, Advance, SendAccepted,
                SendUnknown, SendFailed, SendDisconnected, Sending
  <2> QED BY <2>1, <2>2 DEF DownIsIdle
<1>5. ASSUME NEW v \in Worker, Recovery(v)
      PROVE  FALSE
  BY <1>5 DEF Recovery, ListOpen, Recover, Recovered, DownIsIdle
<1>6. ASSUME NEW v \in Worker, NEW c \in Client, Dispatch(v, c)
      PROVE  FALSE
  BY <1>6 DEF Dispatch
<1>7. ASSUME UNCHANGED vars \/ Deliver \/ \E v \in Worker, c \in Client : Retry(v, c)
      PROVE  phase = "down" /\ pc' = pc
  BY <1>7 DEF Retry, Deliver, vars, control
<1>8. ~Start
  BY DEF Start
<1> QED
  BY <1>1, <1>2, <1>3, <1>4, <1>5, <1>6, <1>7, <1>8 DEF Next

LEMMA RejectedStays ==
  ASSUME NEW s \in Status \cup {Absent}, NEW e \in Status, Accepts(s, e), After(s, e) = "REJECTED",
         s \notin Unsent
  PROVE  e = "REJECTED"
BY DEF Accepts, After, Successors, Late, Status, Absent, Unsent

LEMMA RejectionsFrame ==
  ASSUME TypeInv, Rejections,
         \A c \in Client : /\ order'[c].status = "REJECTED" => order[c].status = "REJECTED"
                           /\ exch[c].status = Absent => exch'[c].status = Absent,
         \A w \in Worker : pc'[w] = "send" => pc[w] = "send" /\ job'[w] = job[w],
         \A a \in Actor : call'[a].stage \in {"read", "write"} =>
           /\ Rejects(call'[a]) =>
                Rejects(call[a]) /\ call'[a].client = call[a].client /\ (a \in Worker => pc'[a] = pc[a])
           /\ call'[a].stage = "write" /\ call'[a].next.status = "REJECTED" => Rejects(call'[a])
  PROVE  Rejections'
<1>1. \A c \in Client : order'[c].status = "REJECTED" =>
        exch'[c].status = Absent /\ \A w \in Worker : pc'[w] = "send" => job'[w] # c
  BY DEF Rejections
<1>2. ASSUME NEW a \in Actor, Rejects(call'[a])
      PROVE  a \in Worker /\ pc'[a] = "recover" /\ exch'[call'[a].client].status = Absent
  <2>1. /\ Rejects(call[a]) /\ call'[a].client = call[a].client
        /\ a \in Worker => pc'[a] = pc[a]
    BY <1>2 DEF Rejects
  <2>2. call[a].client \in Client
    BY <2>1 DEF Rejects, TypeInv, WellFormed
  <2> QED BY <2>1, <2>2 DEF Rejections
<1> QED BY <1>1, <1>2 DEF Rejections, Rejects

\* The call of one actor is over or becomes k, and the rest goes on.
LEMMA RejectionsCall ==
  ASSUME TypeInv, Rejections, NEW a \in Actor, NEW k, call' = [call EXCEPT ![a] = k],
         Rejects(k) => Rejects(call[a]) /\ k.client = call[a].client /\ (a \in Worker => pc'[a] = pc[a]),
         k.stage = "write" /\ k.next.status = "REJECTED" => Rejects(k),
         \A w \in Worker : w # a => pc'[w] = pc[w],
         \A c \in Client : /\ order'[c].status = "REJECTED" => order[c].status = "REJECTED"
                           /\ exch[c].status = Absent => exch'[c].status = Absent,
         \A w \in Worker : pc'[w] = "send" => pc[w] = "send" /\ job'[w] = job[w]
  PROVE  Rejections'
<1>1. ASSUME NEW b \in Actor
      PROVE  /\ Rejects(call'[b]) =>
                  Rejects(call[b]) /\ call'[b].client = call[b].client /\ (b \in Worker => pc'[b] = pc[b])
             /\ call'[b].stage = "write" /\ call'[b].next.status = "REJECTED" => Rejects(call'[b])
  <2>1. CASE b = a
    <3>1. call'[b] = k
      BY <2>1 DEF TypeInv, TypeOK
    <3> QED BY <2>1, <3>1
  <2>2. CASE b # a
    <3>1. call'[b] = call[b]
      BY <2>2 DEF TypeInv, TypeOK
    <3> QED BY <2>2, <3>1 DEF Rejections
  <2> QED BY <2>1, <2>2
<1> QED BY <1>1, RejectionsFrame

\* An operation returns or raises.
LEMMA RejectionsOver ==
  ASSUME TypeInv, Rejections, NEW a \in Actor, Return(a) \/ Raise(a),
         \A c \in Client : /\ order'[c].status = "REJECTED" => order[c].status = "REJECTED"
                           /\ exch[c].status = Absent => exch'[c].status = Absent
  PROVE  Rejections'
<1>1. call' = [call EXCEPT ![a] = NoCall]
  BY DEF Return, Raise
<1>2. ~Rejects(NoCall) /\ NoCall.stage # "write"
  BY NoCallOK DEF Rejects
<1>3. \A w \in Worker : /\ w # a => pc'[w] = pc[w]
                        /\ pc'[w] = "send" => pc[w] = "send" /\ job'[w] = job[w]
  <2>1. CASE Return(a)
    BY <2>1 DEF Return, Goto, control, TypeInv, TypeOK
  <2>2. CASE Raise(a)
    BY <2>2 DEF Raise, Goto, control, TypeInv, TypeOK
  <2> QED BY <2>1, <2>2
<1> QED BY <1>1, <1>2, <1>3, RejectionsCall

LEMMA RejectionsStart == Init => Rejections
BY NoCallOK DEF Init, Rejections, Rejects, NoRow, Absent

LEMMA RejectionsStep ==
  TypeInv /\ Inv /\ DownIsIdle /\ Undisturbed /\ Rejections /\ [Next]_vars => Rejections'
<1> SUFFICES ASSUME TypeInv, Inv, DownIsIdle, Undisturbed, Rejections, [Next]_vars
             PROVE  Rejections'
  OBVIOUS
<1>1. ASSUME UNCHANGED <<order, exch, call>>,
             \A w \in Worker : /\ pc'[w] = "send" => pc[w] = "send" /\ job'[w] = job[w]
                               /\ call[w].stage # "none" /\ pc[w] = "recover" => pc'[w] = pc[w]
      PROVE  Rejections'
  <2>1. ASSUME NEW a \in Actor, Rejects(call[a]) PROVE a \in Worker => pc'[a] = pc[a]
    BY <1>1, <2>1 DEF Rejections, Rejects
  <2>2. \A a \in Actor : call[a].stage = "write" /\ call[a].next.status = "REJECTED" => Rejects(call[a])
    BY DEF Rejections
  <2> QED BY <1>1, <2>1, <2>2, RejectionsFrame
<1>2. ASSUME NEW w \in Worker,
             Create(w) \/ Validate(w) \/ Submitting(w) \/ Submitted(w)
      PROVE  Rejections'
  <2> DEFINE c == job[w]
  <2>1. PICK from \in BeforeSubmit, event \in Status \ {"REJECTED"},
             to \in {"validate", "submitting", "submitted", "send"} :
               Advance(w, from, event, to)
    BY <1>2, StatusFacts DEF Create, Validate, Submitting, Submitted
  <2>2. c \in Client
    BY <2>1 DEF Advance, TypeInv, WellFormed
  <2>3. /\ order'[c].status = event /\ exch' = exch /\ call' = call /\ job' = job
        /\ \A d \in Client : d # c => order'[d] = order[d]
        /\ pc' = [pc EXCEPT ![w] = to] /\ pc[w] = from
    BY <2>1, <2>2 DEF Advance, TypeInv, TypeOK, Row, Goto, venue
  <2>4. \A d \in Client : order'[d].status = "REJECTED" =>
          exch'[d].status = Absent /\ \A v \in Worker : pc'[v] = "send" => job'[v] # d
    <3>1. SUFFICES ASSUME NEW d \in Client, order'[d].status = "REJECTED"
                   PROVE  exch'[d].status = Absent /\ \A v \in Worker : pc'[v] = "send" => job'[v] # d
      OBVIOUS
    <3>2. d # c /\ order[d].status = "REJECTED"
      BY <2>1, <2>3, <3>1
    <3>3. exch[d].status = Absent /\ \A v \in Worker : pc[v] = "send" => job[v] # d
      BY <3>2 DEF Rejections
    <3> QED BY <2>3, <3>2, <3>3 DEF TypeInv, TypeOK
  <2>5. \A a \in Actor : Rejects(call[a]) => a \in Worker /\ pc'[a] = "recover"
                                             /\ exch[call[a].client].status = Absent
    BY <2>3 DEF Rejections, TypeInv, TypeOK
  <2>6. \A a \in Actor : call[a].stage = "write" /\ call[a].next.status = "REJECTED" => Rejects(call[a])
    BY DEF Rejections
  <2> QED BY <2>3, <2>4, <2>5, <2>6 DEF Rejections
<1>3. ASSUME NEW w \in Worker,
             SendAccepted(w) \/ SendUnknown(w) \/ SendFailed(w)
      PROVE  Rejections'
  <2> DEFINE c == job[w]
  <2>1. PICK outcome \in Answer, label \in {"ack", "query", "failed"}, event \in {"ACKNOWLEDGED", "UNKNOWN"},
             bind \in BOOLEAN :
          Sending(w, outcome) /\ Calls(w, label, event, bind)
    BY <1>3 DEF SendAccepted, SendUnknown, SendFailed, Answer
  <2>2. /\ pc[w] = "send" /\ order' = order /\ job' = job /\ pc' = [pc EXCEPT ![w] = label]
        /\ \A v \in Worker : pc[v] # "recover"
    BY <2>1 DEF Sending, Calls, Goto, db, Undisturbed
  <2>3. c \in Client /\ \A d \in Client : d # c => exch'[d].status = exch[d].status
    BY <1>3, <2>2 DEF SendAccepted, SendUnknown, SendFailed, TypeInv, TypeOK, WellFormed
  <2> DEFINE k == TransitionCall(c, event, None, bind)
  <2>4. call' = [call EXCEPT ![w] = k] /\ ~Rejects(k) /\ k.stage = "read" /\ w \in Actor
    BY <2>1 DEF Calls, TransitionCall, Rejects, Actor
  <2> HIDE DEF k
  <2>5. \A d \in Client : order'[d].status = "REJECTED" =>
          exch'[d].status = Absent /\ \A v \in Worker : pc'[v] = "send" => job'[v] # d
    BY <2>1, <2>2, <2>3 DEF Rejections, TypeInv, TypeOK
  <2>6. \A a \in Actor : ~Rejects(call'[a])
    <3>1. \A a \in Actor : ~Rejects(call[a])
      BY <2>2 DEF Rejections
    <3> QED BY <2>4, <3>1 DEF TypeInv, TypeOK
  <2>7. \A a \in Actor : call'[a].stage = "write" /\ call'[a].next.status = "REJECTED" => Rejects(call'[a])
    BY <2>4 DEF Rejections, TypeInv, TypeOK
  <2> QED BY <2>5, <2>6, <2>7 DEF Rejections
<1>4. ASSUME NEW a \in Actor, ReadTransition(a)
      PROVE  Rejections'
  <2> DEFINE k == call[a]
             row == order[k.client]
             next == [row EXCEPT !.status = After(@, k.event)]
  <2>1. UNCHANGED <<order, exch>> /\ k.fill = None /\ k.stage = "read"
    BY <1>4 DEF ReadTransition, Transitioning, db, venue
  <2>2. CASE Raise(a)
    BY <2>1, <2>2, RejectionsOver
  <2>3. CASE /\ Accepts(row.status, k.event)
             /\ call' = [call EXCEPT ![a].stage = "write", ![a].next = next]
             /\ UNCHANGED control
    <3> DEFINE m == [k EXCEPT !.stage = "write", !.next = next]
    <3>1. call' = [call EXCEPT ![a] = m]
      BY <2>3 DEF TypeInv, TypeOK
    <3>2. /\ k \in Call /\ row \in Row /\ k.event \in Status
          /\ row.status \in Status \ Unsent
      BY <2>1, CallFacts DEF Call
    <3>3. /\ m.stage = "write" /\ m.client = k.client /\ m.event = k.event /\ m.fill = None
          /\ m.next.status = After(row.status, k.event)
      BY <2>1, <3>2 DEF Call, Row
    <3>4. m.next.status = "REJECTED" => m.event = "REJECTED"
      BY <2>3, <3>2, <3>3, RejectedStays
    <3> HIDE DEF m
    <3>5. Rejects(m) => Rejects(k) /\ m.client = k.client
      BY <2>1, <3>3 DEF Rejects
    <3>6. m.next.status = "REJECTED" => Rejects(m)
      BY <3>3, <3>4 DEF Rejects
    <3>7. UNCHANGED <<pc, job>>
      BY <2>3 DEF control
    <3> QED BY <2>1, <3>1, <3>5, <3>6, <3>7, RejectionsCall
  <2> QED BY <1>4, <2>2, <2>3 DEF ReadTransition
<1>5. ASSUME NEW a \in Actor, WriteTransition(a)
      PROVE  Rejections'
  <2> DEFINE k == call[a]
  <2>1. k.stage = "write" /\ k.fill = None /\ Return(a) /\ exch' = exch
    BY <1>5 DEF WriteTransition, Transitioning, venue
  <2>2. k.client \in Client /\ order \in [Client -> Row]
    BY <2>1, CallFacts DEF TypeInv, TypeOK
  <2>3. CASE ~Rejects(k)
    <3>1. k.next.status # "REJECTED"
      BY <2>1, <2>3 DEF Rejections
    <3>2. \A c \in Client : order'[c].status = "REJECTED" => order[c].status = "REJECTED"
      <4>1. \/ order' = order
            \/ order' = [order EXCEPT ![k.client].status = k.next.status,
                                     ![k.client].bound = @ \/ k.bind]
        BY <1>5 DEF WriteTransition
      <4> HIDE DEF k
      <4> QED BY <2>2, <3>1, <4>1 DEF Row
    <3> QED BY <2>1, <3>2, RejectionsOver
  <2>4. CASE Rejects(k)
    <3>1. a \in Worker /\ pc[a] = "recover" /\ exch[k.client].status = Absent
      BY <2>4 DEF Rejections
    <3>2. \A v \in Worker : v = a \/ pc[v] \notin {"send", "recover"}
      BY <3>1 DEF Undisturbed
    <3>3. UNCHANGED control /\ call' = [call EXCEPT ![a] = NoCall]
      BY <2>1, <3>1 DEF Return, LastCall
    <3>4. \A c \in Client : c # k.client => order'[c] = order[c]
      BY <1>5, <2>2 DEF WriteTransition
    <3>5. \A c \in Client : order'[c].status = "REJECTED" =>
            exch'[c].status = Absent /\ \A w \in Worker : pc'[w] = "send" => job'[w] # c
      BY <2>1, <3>1, <3>2, <3>3, <3>4 DEF Rejections, control
    <3>6. \A b \in Actor : ~Rejects(call'[b])
      <4>1. \A b \in Actor : Rejects(call[b]) => b = a
        BY <3>2 DEF Rejections
      <4>2. ~Rejects(NoCall)
        BY NoCallOK DEF Rejects
      <4> QED BY <3>3, <4>1, <4>2 DEF TypeInv, TypeOK
    <3>7. \A b \in Actor : call'[b].stage = "write" /\ call'[b].next.status = "REJECTED" => Rejects(call'[b])
      BY <3>3, NoCallOK DEF Rejections, TypeInv, TypeOK
    <3> QED BY <3>5, <3>6, <3>7 DEF Rejections
  <2> QED BY <2>3, <2>4
<1>6. ASSUME NEW a \in Actor, ReadFill(a)
      PROVE  Rejections'
  <2> DEFINE k == call[a]
             f == k.fill
             row == order[f.id.client]
             event == FillEvent(row, f)
             next == [status |-> After(row.status, event),
                      filled |-> Total(row, f), bound |-> TRUE]
  <2>1. UNCHANGED <<order, exch>> /\ f # None /\ k.stage = "read"
    BY <1>6 DEF ReadFill, Filling, db, venue
  <2>2. CASE Raise(a) \/ Return(a)
    BY <2>1, <2>2, RejectionsOver
  <2>3. CASE /\ Accepts(row.status, event)
             /\ call' = [call EXCEPT ![a].stage = "write", ![a].next = next]
             /\ UNCHANGED control
    <3> DEFINE m == [k EXCEPT !.stage = "write", !.next = next]
    <3>1. call' = [call EXCEPT ![a] = m]
      BY <2>3 DEF TypeInv, TypeOK
    <3>2. k \in Call /\ row \in Row /\ row.status \in Status \ Unsent /\ f.id.client = k.client
      BY <2>1, CallFacts
    <3>3. event \in Status /\ event # "REJECTED"
      BY StatusFacts DEF FillEvent
    <3>4. After(row.status, event) # "REJECTED"
      BY <2>3, <3>2, <3>3, RejectedStays DEF Row
    <3>5. m.stage = "write" /\ m.fill # None /\ m.next.status # "REJECTED"
      BY <2>1, <3>2, <3>4 DEF Call
    <3> HIDE DEF m
    <3>6. ~Rejects(m)
      BY <3>5 DEF Rejects
    <3>7. UNCHANGED <<pc, job>>
      BY <2>3 DEF control
    <3> QED BY <2>1, <3>1, <3>5, <3>6, <3>7, RejectionsCall
  <2> QED BY <1>6, <2>2, <2>3 DEF ReadFill
<1>7. ASSUME NEW a \in Actor, WriteFill(a)
      PROVE  Rejections'
  <2> DEFINE k == call[a]
             f == k.fill
  <2>1. k.stage = "write" /\ f # None /\ exch' = exch
    BY <1>7 DEF WriteFill, Filling, venue
  <2>2. /\ k \in Call /\ k.client \in Client /\ f.id.client = k.client
        /\ k.next.status # "REJECTED"
    BY <2>1, CallFacts DEF Rejections, Rejects
  <2>3. CASE UNCHANGED order /\ Return(a)
    BY <2>1, <2>3, RejectionsOver
  <2>4. CASE /\ order' = [order EXCEPT ![f.id.client] = k.next]
             /\ call' = [call EXCEPT ![a].stage = "settle"]
             /\ UNCHANGED control
    <3> DEFINE m == [k EXCEPT !.stage = "settle"]
    <3>1. call' = [call EXCEPT ![a] = m]
      BY <2>4 DEF TypeInv, TypeOK
    <3>2. m.stage = "settle"
      BY <2>2 DEF Call
    <3> HIDE DEF m
    <3>3. ~Rejects(m) /\ m.stage # "write"
      BY <3>2 DEF Rejects
    <3>4. \A c \in Client : order'[c].status = "REJECTED" => order[c].status = "REJECTED"
      BY <2>2, <2>4 DEF TypeInv, TypeOK
    <3>5. UNCHANGED <<pc, job>>
      BY <2>4 DEF control
    <3> QED BY <2>1, <3>1, <3>3, <3>4, <3>5, RejectionsCall
  <2> QED BY <1>7, <2>3, <2>4 DEF WriteFill
<1>8. ASSUME NEW a \in Actor, Settle(a)
      PROVE  Rejections'
  <2>1. UNCHANGED <<order, exch>> /\ Return(a)
    BY <1>8 DEF Settle, venue
  <2> QED BY <2>1, RejectionsOver
<1>9. CASE Deliver
  <2> DEFINE e == Head(queue)
             n == TransitionCall(e.client, e.kind, e, e.kind = "ACKNOWLEDGED")
  <2>1. UNCHANGED <<order, exch, pc, job>> /\ Stream \in Actor
    BY <1>9 DEF Deliver, db, venue, control, Actor
  <2>2. e \in Event
    BY <1>9 DEF Deliver, TypeInv, TypeOK
  <2>3. CASE call' = call
    <3>1. \A w \in Worker : /\ pc'[w] = "send" => pc[w] = "send" /\ job'[w] = job[w]
                            /\ call[w].stage # "none" /\ pc[w] = "recover" => pc'[w] = pc[w]
      BY <2>1
    <3> QED BY <1>1, <2>1, <2>3, <3>1
  <2>4. ASSUME NEW k, call' = [call EXCEPT ![Stream] = k], ~Rejects(k), k.stage = "read"
        PROVE  Rejections'
    BY <2>1, <2>4, RejectionsCall
  <2>5. CASE e.kind = "fill"
    <3>1. FillCall(e.fill).stage = "read" /\ FillCall(e.fill).event = "CREATED"
      BY DEF FillCall
    <3>2. ~Rejects(FillCall(e.fill))
      BY <3>1 DEF Rejects
    <3>3. call' = call \/ call' = [call EXCEPT ![Stream] = FillCall(e.fill)]
      BY <1>9, <2>5 DEF Deliver
    <3> QED BY <2>3, <2>4, <3>1, <3>2, <3>3
  <2>6. CASE e.kind # "fill"
    <3>1. e.kind # "REJECTED"
      BY <2>2, <2>6 DEF Event, Notice, Report
    <3>2. n.stage = "read" /\ ~Rejects(n)
      BY <3>1 DEF TransitionCall, Rejects
    <3>3. call' = call \/ call' = [call EXCEPT ![Stream] = n]
      BY <1>9, <2>6 DEF Deliver
    <3> HIDE DEF n
    <3> QED BY <2>3, <2>4, <3>2, <3>3
  <2> QED BY <2>5, <2>6
<1>10. ASSUME NEW w \in Worker, Recover(w)
       PROVE  Rejections'
  <2>1. PICK s \in todo[w] : call' = [call EXCEPT ![w] = Remedy(s.client, s.row)]
    BY <1>10 DEF Recover
  <2> DEFINE c == s.client
             k == Remedy(c, s.row)
  <2>2. UNCHANGED <<order, exch, pc, job>> /\ w \in Actor /\ c \in Client /\ pc[w] = "recover"
    BY <1>10, <2>1 DEF Recover, db, venue, Actor, TypeInv, TypeOK, Snapshot
  <2>3. /\ Rejects(k) => k.client = c /\ exch[c].status = Absent
        /\ k.stage # "write"
    <3>1. \A e, b : /\ TransitionCall(c, e, None, b).event = e
                    /\ TransitionCall(c, e, None, b).client = c
                    /\ TransitionCall(c, e, None, b).stage = "read"
      BY DEF TransitionCall
    <3>2. \A t, n, q : /\ RecoveryFill(c, t, n, q).event = "CREATED"
                       /\ RecoveryFill(c, t, n, q).stage = "read"
      BY DEF RecoveryFill, FillCall
    <3>3. CASE exch[c].status = Absent
      <4>1. k = TransitionCall(c, "REJECTED", None, FALSE)
        BY <3>3 DEF Remedy, Find, Absent
      <4> HIDE DEF k
      <4> QED BY <3>1, <3>3, <4>1
    <3>4. CASE exch[c].status # Absent
      <4> DEFINE missing == Missing(c, s.row)
      <4>1. k \in {RecoveryFill(c, "recovery", exch[c].filled, missing),
                   RecoveryFill(c, "partial", 0, missing),
                   TransitionCall(c, "ACKNOWLEDGED", None, TRUE), NoCall}
        BY <3>4 DEF Remedy, Find
      <4> HIDE DEF k, missing
      <4>2. k.stage \in {"none", "read"} /\ (k.stage = "read" => k.event # "REJECTED")
        <5>1. CASE k = TransitionCall(c, "ACKNOWLEDGED", None, TRUE)
          BY <3>1, <5>1
        <5>2. CASE k = NoCall
          BY <5>2, NoCallOK
        <5>3. CASE k # TransitionCall(c, "ACKNOWLEDGED", None, TRUE) /\ k # NoCall
          BY <3>2, <4>1, <5>3
        <5> QED BY <5>1, <5>2, <5>3
      <4> QED BY <4>2 DEF Rejects
    <3> QED BY <3>3, <3>4
  <2> HIDE DEF k
  <2>4. call' = [call EXCEPT ![w] = k]
    BY <2>1 DEF k
  <2>5. ASSUME NEW a \in Actor, Rejects(call'[a])
        PROVE  a \in Worker /\ pc'[a] = "recover" /\ exch'[call'[a].client].status = Absent
    <3>1. CASE a = w
      BY <2>2, <2>3, <2>4, <2>5, <3>1 DEF TypeInv, TypeOK
    <3>2. CASE a # w
      BY <2>2, <2>4, <2>5, <3>2 DEF TypeInv, TypeOK, Rejections
    <3> QED BY <3>1, <3>2
  <2>6. \A a \in Actor : call'[a].stage = "write" /\ call'[a].next.status = "REJECTED" => Rejects(call'[a])
    BY <2>3, <2>4 DEF Rejections, TypeInv, TypeOK
  <2> QED BY <2>2, <2>5, <2>6 DEF Rejections
<1>11. CASE Crash
  <2>1. /\ order' = order /\ \A a \in Actor : call'[a].stage = "none"
        /\ \A w \in Worker : pc'[w] = "idle"
        /\ \A c \in Client : exch[c].status = Absent => exch'[c].status = Absent
    BY <1>11, NoCallOK DEF Crash, db
  <2> QED BY <2>1, RejectionsFrame
<1>12. ASSUME NEW w \in Worker, NEW c \in Client, Dispatch(w, c) \/ Retry(w, c)
       PROVE  Rejections'
  <2>1. UNCHANGED <<order, exch, call>>
    BY <1>12 DEF Dispatch, Retry, vars, db, venue
  <2>2. \A v \in Worker : /\ pc'[v] = "send" => pc[v] = "send" /\ job'[v] = job[v]
                          /\ call[v].stage # "none" /\ pc[v] = "recover" => pc'[v] = pc[v]
    BY <1>12 DEF Dispatch, Retry, Goto, vars, control, TypeInv, TypeOK
  <2> QED BY <1>1, <2>1, <2>2
<1>13. ASSUME NEW w \in Worker, SendDisconnected(w) \/ ListOpen(w) \/ Recovered(w)
       PROVE  Rejections'
  <2>1. UNCHANGED <<order, exch, call>>
    BY <1>13 DEF SendDisconnected, ListOpen, Recovered, db, venue
  <2>2. \A v \in Worker : /\ pc'[v] = "send" => pc[v] = "send" /\ job'[v] = job[v]
                          /\ call[v].stage # "none" /\ pc[v] = "recover" => pc'[v] = pc[v]
    BY <1>13 DEF SendDisconnected, ListOpen, Recovered, Goto, TypeInv, TypeOK
  <2> QED BY <1>1, <2>1, <2>2
<1>14. CASE Start
  <2>1. UNCHANGED <<order, exch, call, job>>
    BY <1>14 DEF Start, db, venue
  <2>2. \A v \in Worker : /\ pc'[v] = "send" => pc[v] = "send" /\ job'[v] = job[v]
                          /\ v # Starter => pc'[v] = pc[v]
    BY <1>14 DEF Start, TypeInv, TypeOK, venue
  <2>3. \A a \in Actor : ~Rejects(call[a])
    <3>1. \A w \in Worker : pc[w] = "idle"
      BY <1>14 DEF Start, DownIsIdle
    <3> QED BY <3>1 DEF Rejections
  <2> QED BY <2>1, <2>2, <2>3, RejectionsFrame DEF Rejections
<1>15. CASE UNCHANGED vars
  <2>1. UNCHANGED <<order, exch, call, pc, job>>
    BY <1>15 DEF vars, db, venue, control
  <2> QED BY <1>1, <2>1
<1> QED
  BY <1>2, <1>3, <1>4, <1>5, <1>6, <1>7, <1>8, <1>9, <1>10, <1>11, <1>12,
     <1>13, <1>14, <1>15
  DEF Next, Submission, Operation, Recovery

\* What an order says on disk is backed: its filled quantity by fill rows,
\* whatever tasks overwrite each other's row.
THEOREM NothingIsInvented == Spec => []NothingInvented
<1>1. Covered => NothingInvented
  BY DEF Covered
<1>2. Spec => []Covered
  BY Invariance, CoveredStart, CoveredStep, PTL DEF Spec
<1> QED BY <1>1, <1>2, PTL

-----------------------------------------------------------------------------

\* What an order has filled is what the exchange executed of it, once nothing is
\* on its way.  Two operations never work on one order, so that what is written
\* was computed from the row as it still is; ...

\* No outcome of a submission is left unknown.
NothingUnknown == Answers \cap {"timeout", "lost"} = {}

\* Then recovery is the startup's alone: nobody else works meanwhile.
StartupAlone ==
  /\ \A w \in Worker : pc[w] # "query"
  /\ \A w \in Worker : pc[w] \in {"list", "recover"} => phase = "recovering" /\ w = Starter
  /\ phase # "running" => /\ queue = <<>> /\ call[Stream].stage = "none"
                          /\ \A w \in Worker : pc[w] \in {"idle", "list", "recover"}
  /\ \A w \in Worker : todo[w] # {} => pc[w] = "recover"

\* Nothing cancels an order, no transition reports a fill, and every fill binds the
\* order.
Cancelling == {"CANCEL_PENDING", "CANCELLED", "EXPIRED"}

Meant(k) ==
  /\ k.event \notin {"FILLED"} \cup Cancelling
  /\ k.stage = "write" /\ k.fill # None => k.next.bound

\* Until a worker has acknowledged its order, nobody else finds it.
OneAtATime ==
  /\ \A w \in Worker : pc[w] \in BeforeSubmit \cup {"send"} => ~order[job[w]].bound
  /\ \A w \in Worker : call[w].stage # "none" /\ pc[w] # "recover" =>
       call[w].fill = None /\ call[w].client = job[w] /\ ~order[job[w]].bound
  /\ call[Stream].stage # "none" => order[call[Stream].client].bound
  /\ \A a \in Actor : Meant(call[a])
  /\ \A c \in Client : order[c].bound => Recorded(c)

LEMMA DownFollows == TypeInv /\ StartupAlone => DownIsIdle
BY DEF StartupAlone, DownIsIdle

LEMMA StartupStep ==
  ASSUME NothingUnknown
  PROVE  TypeInv /\ Busy /\ StartupAlone /\ [Next]_vars => StartupAlone'
<1> SUFFICES ASSUME TypeInv, Busy, StartupAlone, [Next]_vars PROVE StartupAlone'
  OBVIOUS
<1>0. Stream \in Actor /\ \A w \in Worker : w \in Actor /\ w # Stream
  BY StreamAssumption DEF Actor
<1>1. ASSUME NEW w \in Worker, NEW c \in Client, Dispatch(w, c)
      PROVE  StartupAlone'
  BY <1>1 DEF Dispatch, Goto, StartupAlone, TypeInv, TypeOK
<1>2. ASSUME NEW w \in Worker, Create(w) \/ Validate(w) \/ Submitting(w) \/ Submitted(w)
      PROVE  StartupAlone'
  <2>1. PICK from \in BeforeSubmit, event \in Status,
             to \in {"validate", "submitting", "submitted", "send"} :
               Advance(w, from, event, to)
    BY <1>2, StatusFacts DEF Create, Validate, Submitting, Submitted
  <2>2. phase = "running"
    BY <2>1 DEF Advance, StartupAlone
  <2> QED BY <2>1, <2>2 DEF Advance, Goto, StartupAlone, TypeInv, TypeOK
<1>3. ASSUME NEW w \in Worker, SendAccepted(w) \/ SendUnknown(w) \/ SendFailed(w)
      PROVE  StartupAlone'
  <2>1. PICK label \in {"ack", "failed"}, event \in Status, bind \in BOOLEAN, outcome \in Answer :
          Sending(w, outcome) /\ Calls(w, label, event, bind)
    BY <1>3, StatusFacts DEF SendAccepted, SendUnknown, SendFailed, Sending, NothingUnknown, Answer
  <2>2. phase = "running" /\ pc' = [pc EXCEPT ![w] = label] /\ UNCHANGED <<phase, todo>>
    BY <2>1 DEF Sending, Calls, Goto, StartupAlone
  <2> QED BY <2>2 DEF StartupAlone, TypeInv, TypeOK
<1>4. ASSUME NEW w \in Worker, SendDisconnected(w)
      PROVE  StartupAlone'
  <2>1. phase = "running"
    BY <1>4 DEF SendDisconnected, StartupAlone
  <2> QED BY <1>4, <2>1 DEF SendDisconnected, Goto, StartupAlone, TypeInv, TypeOK
<1>5. ASSUME NEW a \in Actor, Operation(a)
      PROVE  StartupAlone'
  <2>1. queue' = queue
    BY <1>5 DEF Operation, ReadTransition, WriteTransition, ReadFill, WriteFill, Settle
  <2>2. CASE a = Stream
    <3>1. UNCHANGED control
      BY <1>0, <1>5, <2>2, CallerMoves DEF Return, Raise
    <3>2. phase = "running"
      BY <1>5, <2>2, CallerMoves DEF StartupAlone
    <3> QED BY <3>1, <3>2 DEF StartupAlone, control
  <2>3. CASE a \in Worker
    <3>1. /\ call'[Stream] = call[Stream] /\ pc[a] \in {"ack", "failed", "recover"}
          /\ \A w \in Worker : w # a => pc'[w] = pc[w] /\ todo'[w] = todo[w]
      BY <1>0, <1>5, <2>3, CallerMoves DEF Busy, StartupAlone
    <3>2. CASE UNCHANGED control
      BY <2>1, <3>1, <3>2 DEF StartupAlone, control
    <3>3. CASE Return(a) /\ ~UNCHANGED control
      <4>1. pc[a] \in {"ack", "failed"} /\ phase' = phase /\ todo' = todo
            /\ pc' = [pc EXCEPT ![a] = "idle"]
        BY <2>3, <3>1, <3>3 DEF Return, LastCall, Goto
      <4> QED BY <2>1, <3>1, <4>1 DEF StartupAlone, TypeInv, TypeOK
    <3>4. CASE Raise(a)
      <4>1. /\ phase' = (IF phase = "recovering" THEN "down" ELSE phase)
            /\ pc' = [pc EXCEPT ![a] = IF phase = "recovering" THEN "idle" ELSE "dead"]
            /\ todo' = [todo EXCEPT ![a] = {}]
        BY <1>0, <2>3, <3>4 DEF Raise, Goto
      <4>2. CASE phase = "recovering"
        <5>1. a = Starter
          BY <2>3, <3>1, <4>2 DEF StartupAlone
        <5> QED BY <2>1, <2>3, <3>1, <4>1, <4>2, <5>1 DEF StartupAlone, TypeInv, TypeOK
      <4>3. CASE phase # "recovering"
        <5>1. phase = "running"
          BY <2>3, <3>1, <4>3 DEF StartupAlone
        <5> QED BY <2>1, <2>3, <3>1, <4>1, <4>3, <5>1 DEF StartupAlone, TypeInv, TypeOK
      <4> QED BY <4>2, <4>3
    <3> QED BY <1>5, <3>2, <3>3, <3>4, CallerMoves
  <2> QED BY <2>2, <2>3 DEF Actor
<1>6. CASE Deliver
  BY <1>6 DEF Deliver, control, StartupAlone
<1>7. ASSUME NEW w \in Worker, ListOpen(w)
      PROVE  StartupAlone'
  BY <1>7 DEF ListOpen, Goto, StartupAlone, TypeInv, TypeOK
<1>8. ASSUME NEW w \in Worker, Recover(w)
      PROVE  StartupAlone'
  <2>1. call'[Stream] = call[Stream] /\ \A v \in Worker : todo'[v] \subseteq todo[v]
    BY <1>0, <1>8 DEF Recover, TypeInv, TypeOK
  <2>2. UNCHANGED <<phase, pc, queue>>
    BY <1>8 DEF Recover
  <2> QED BY <2>1, <2>2 DEF StartupAlone
<1>9. ASSUME NEW w \in Worker, Recovered(w)
      PROVE  StartupAlone'
  BY <1>9 DEF Recovered, Goto, StartupAlone, TypeInv, TypeOK
<1>10. CASE Start
  BY <1>10, StarterAssumption DEF Start, StartupAlone, TypeInv, TypeOK
<1>11. CASE Crash
  BY <1>0, <1>11, NoCallOK DEF Crash, StartupAlone
<1>12. ASSUME UNCHANGED vars \/ \E v \in Worker, c \in Client : Retry(v, c)
       PROVE  StartupAlone'
  BY <1>12 DEF Retry, vars, control, StartupAlone
<1> QED
  BY <1>1, <1>2, <1>3, <1>4, <1>5, <1>6, <1>7, <1>8, <1>9, <1>10, <1>11, <1>12
  DEF Next, Submission, Recovery

\* What an order says on disk is backed also in its rejection, where one task executes
\* the signals, or where no outcome is unknown: then no recovery takes "not found" as
\* final for an order that somebody is about to send.
THEOREM ClaimsAreAlwaysBacked ==
  ASSUME OneTask \/ NothingUnknown
  PROVE  Spec => []ClaimsAreBacked
<1>1. Init => Busy /\ DownIsIdle /\ StartupAlone
  BY NoCallOK DEF Init, Busy, DownIsIdle, StartupAlone, Actor
<1>2. ASSUME OneTask PROVE Spec => []Rejections
  <2>1. TypeInv /\ Inv /\ Busy /\ DownIsIdle /\ Rejections /\ [Next]_vars
          => Busy' /\ DownIsIdle' /\ Rejections'
    BY <1>2, BusyStep, DownStep, RejectionsStep DEF OneTask, Undisturbed
  <2> QED BY <1>1, <2>1, Invariance, RejectionsStart, PTL DEF Spec
<1>3. ASSUME NothingUnknown PROVE Spec => []Rejections
  <2>1. TypeInv /\ StartupAlone => DownIsIdle /\ Undisturbed
    BY DownFollows DEF StartupAlone, Undisturbed
  <2>2. TypeInv /\ Inv /\ Busy /\ StartupAlone /\ Rejections /\ [Next]_vars
          => Busy' /\ StartupAlone' /\ Rejections'
    BY <1>3, <2>1, BusyStep, StartupStep, RejectionsStep
  <2> QED BY <1>1, <2>2, Invariance, RejectionsStart, PTL DEF Spec
<1>4. Spec => []Rejections
  BY <1>2, <1>3
<1>5. Rejections /\ NothingInvented => ClaimsAreBacked
  BY DEF Rejections, RejectedIsNotLive, ClaimsAreBacked
<1> QED BY <1>4, <1>5, NothingIsInvented, PTL

\* No two operations are about the same order.
LEMMA Exclusive ==
  ASSUME TypeInv, Inv, Busy, StartupAlone, OneAtATime, NEW a \in Actor, NEW b \in Actor, a # b,
         call[a].stage # "none", call[b].stage # "none"
  PROVE  call[a].client # call[b].client
<1>1. \A w \in Worker : call[w].stage # "none" => call[w].client \in Client
  BY DEF TypeInv, WellFormed, Actor
<1>2. ASSUME NEW v \in Worker, NEW w \in Worker, v # w,
             call[v].stage # "none", call[w].stage # "none"
      PROVE  call[v].client # call[w].client
  <2>1. CASE phase = "running"
    <3>1. pc[v] # "recover" /\ pc[w] # "recover"
      BY <2>1 DEF StartupAlone
    <3>2. call[v].client = job[v] /\ call[w].client = job[w] /\ job[v] \in Client
      BY <1>1, <1>2, <3>1 DEF OneAtATime
    <3> QED BY <1>2, <3>2, NoneAssumption DEF Inv, OwnOrder
  <2>2. CASE phase # "running"
    BY <1>2, <2>2 DEF StartupAlone, Busy
  <2> QED BY <2>1, <2>2
<1>3. ASSUME NEW w \in Worker, call[w].stage # "none", call[Stream].stage # "none"
      PROVE  call[w].client # call[Stream].client
  <2>1. phase = "running" /\ pc[w] # "recover"
    BY <1>3 DEF StartupAlone
  <2> QED BY <1>3, <2>1 DEF OneAtATime
<1> QED BY <1>2, <1>3 DEF Actor

LEMMA OneAtATimeFrame ==
  ASSUME TypeInv, OneAtATime, NEW a \in Actor, NEW k, call' = [call EXCEPT ![a] = k], Meant(k),
         \A c \in Client : /\ order[c].bound => order'[c].bound
                           /\ order'[c].bound => order'[c].status \notin Unsent,
         \A w \in Worker : pc'[w] \in BeforeSubmit \cup {"send"} => ~order'[job'[w]].bound,
         \A w \in Worker : w # a => pc'[w] = pc[w] /\ job'[w] = job[w],
         \A w \in Worker : w # a /\ call[w].stage # "none" /\ pc[w] # "recover" =>
           ~order'[job[w]].bound,
         a \in Worker /\ k.stage # "none" /\ pc'[a] # "recover" =>
           k.fill = None /\ k.client = job'[a] /\ ~order'[job'[a]].bound,
         a = Stream /\ k.stage # "none" => order'[k.client].bound
  PROVE  OneAtATime'
<1>1. call'[a] = k /\ \A b \in Actor : b # a => call'[b] = call[b]
  BY DEF TypeInv, TypeOK
<1>2. \A b \in Actor : Meant(call'[b])
  BY <1>1 DEF OneAtATime
<1>3. \A w \in Worker : w \in Actor /\ w # Stream
  BY StreamAssumption DEF Actor
<1>4. \A w \in Worker : call'[w].stage # "none" /\ pc'[w] # "recover" =>
        call'[w].fill = None /\ call'[w].client = job'[w] /\ ~order'[job'[w]].bound
  BY <1>1, <1>3 DEF OneAtATime
<1>5. call'[Stream].stage # "none" => order'[call'[Stream].client].bound
  <2>1. CASE a = Stream
    BY <1>1, <2>1
  <2>2. CASE a # Stream
    <3>1. call'[Stream] = call[Stream] /\ (call[Stream].stage # "none" => call[Stream].client \in Client)
      BY <1>1, <2>2 DEF Actor, TypeInv, WellFormed
    <3> QED BY <3>1 DEF OneAtATime
  <2> QED BY <2>1, <2>2
<1> QED BY <1>2, <1>4, <1>5 DEF OneAtATime, Recorded, Meant

\* An operation is over, and has left every order as found or not as it was.
LEMMA OneAtATimeOver ==
  ASSUME TypeInv, Inv, OneAtATime, NEW a \in Actor, Return(a) \/ Raise(a), UNCHANGED order
  PROVE  OneAtATime'
<1>1. call' = [call EXCEPT ![a] = NoCall] /\ NoCall.stage = "none" /\ Meant(NoCall)
  BY NoCallOK DEF Return, Raise, Meant, Cancelling, NoCall
<1>2. \A w \in Worker : w # a => pc'[w] = pc[w] /\ job'[w] = job[w]
  BY DEF Return, Raise, Goto, control, TypeInv, TypeOK
<1>3. \A w \in Worker : pc'[w] \in BeforeSubmit \cup {"send"} => ~order'[job'[w]].bound
  BY InvControl DEF OneAtATime
<1>4. \A w \in Worker : w # a /\ call[w].stage # "none" /\ pc[w] # "recover" => ~order'[job[w]].bound
  BY DEF OneAtATime, Actor
<1>5. \A c \in Client : /\ order[c].bound => order'[c].bound
                        /\ order'[c].bound => order'[c].status \notin Unsent
  BY DEF OneAtATime, Recorded
<1> QED BY <1>1, <1>2, <1>3, <1>4, <1>5, OneAtATimeFrame

LEMMA OneAtATimeStart == Init => OneAtATime
BY NoCallOK DEF Init, OneAtATime, Meant, Cancelling, Actor, NoRow, NoCall

\* Where a step changes no order, the operation of one actor is all that matters.
LEMMA OneAtATimeCall ==
  ASSUME TypeInv, OneAtATime, NEW a \in Actor, NEW k, call' = [call EXCEPT ![a] = k], Meant(k),
         UNCHANGED <<order, pc, job>>,
         a \in Worker /\ k.stage # "none" /\ pc[a] # "recover" =>
           k.fill = None /\ k.client = job[a] /\ ~order[job[a]].bound,
         a = Stream /\ k.stage # "none" => order[k.client].bound
  PROVE  OneAtATime'
<1>1. \A w \in Worker : /\ pc'[w] \in BeforeSubmit \cup {"send"} => ~order'[job'[w]].bound
                        /\ w # a /\ call[w].stage # "none" /\ pc[w] # "recover" => ~order'[job[w]].bound
  BY DEF OneAtATime, Actor
<1>2. \A c \in Client : /\ order[c].bound => order'[c].bound
                        /\ order'[c].bound => order'[c].status \notin Unsent
  BY DEF OneAtATime, Recorded
<1> QED BY <1>1, <1>2, OneAtATimeFrame

LEMMA OneAtATimeStep ==
  ASSUME NothingUnknown
  PROVE  TypeInv /\ Inv /\ Busy /\ StartupAlone /\ OneAtATime /\ [Next]_vars => OneAtATime'
<1> SUFFICES ASSUME TypeInv, Inv, Busy, StartupAlone, OneAtATime, [Next]_vars PROVE OneAtATime'
  OBVIOUS
<1>0. Stream \in Actor /\ \A w \in Worker : w \in Actor /\ w # Stream
  BY StreamAssumption DEF Actor
<1>1. ASSUME NEW w \in Worker, UNCHANGED <<order, call>>, call[w].stage = "none",
             \A v \in Worker : v # w => pc'[v] = pc[v] /\ job'[v] = job[v],
             pc'[w] \in BeforeSubmit \cup {"send"} => ~order[job'[w]].bound
      PROVE  OneAtATime'
  <2>1. call' = [call EXCEPT ![w] = call[w]] /\ Meant(call[w])
    BY <1>0, <1>1 DEF TypeInv, TypeOK, OneAtATime
  <2>2. \A v \in Worker : /\ pc'[v] \in BeforeSubmit \cup {"send"} => ~order'[job'[v]].bound
                          /\ v # w /\ call[v].stage # "none" /\ pc[v] # "recover" => ~order'[job[v]].bound
    BY <1>0, <1>1 DEF OneAtATime
  <2>3. \A c \in Client : /\ order[c].bound => order'[c].bound
                          /\ order'[c].bound => order'[c].status \notin Unsent
    BY <1>1 DEF OneAtATime, Recorded
  <2> DEFINE k == call[w]
  <2>4. call' = [call EXCEPT ![w] = k] /\ Meant(k) /\ k.stage = "none"
    BY <1>1, <2>1
  <2> HIDE DEF k
  <2> QED BY <1>0, <1>1, <2>2, <2>3, <2>4, OneAtATimeFrame
<1>2. ASSUME NEW w \in Worker, NEW c \in Client, Dispatch(w, c)
      PROVE  OneAtATime'
  <2>1. ~order[c].bound
    BY <1>2 DEF Dispatch, IsNew, OneAtATime, Recorded, Unsent
  <2>2. call[w].stage = "none" /\ UNCHANGED <<order, call>> /\ job'[w] = c
        /\ \A v \in Worker : v # w => pc'[v] = pc[v] /\ job'[v] = job[v]
    BY <1>2 DEF Dispatch, Goto, Busy, db, TypeInv, TypeOK
  <2> QED BY <1>1, <2>1, <2>2
<1>3. ASSUME NEW w \in Worker, Create(w) \/ Validate(w) \/ Submitting(w) \/ Submitted(w)
      PROVE  OneAtATime'
  <2>1. PICK from \in BeforeSubmit, event \in Status,
             to \in {"validate", "submitting", "submitted", "send"} :
               Advance(w, from, event, to)
    BY <1>3, StatusFacts DEF Create, Validate, Submitting, Submitted
  <2>2. /\ pc[w] \in BeforeSubmit /\ job[w] \in Client /\ call[w].stage = "none"
        /\ ~Recorded(job[w]) /\ ~order[job[w]].bound
    BY <2>1 DEF Advance, Busy, TypeInv, WellFormed, Inv, NotYetSent, OneAtATime
  <2>3. UNCHANGED <<call, job>> /\ \A v \in Worker : v # w => pc'[v] = pc[v]
    BY <2>1 DEF Advance, Goto, TypeInv, TypeOK
  <2>4. \A c \in Client : order'[c].bound = order[c].bound /\ (c # job[w] => order'[c] = order[c])
    BY <2>1 DEF Advance, TypeInv, TypeOK, Row
  <2>5. \A c \in Client : order'[c].bound => order'[c].status \notin Unsent
    BY <2>2, <2>4 DEF OneAtATime, Recorded
  <2>6. \A v \in Worker : v # w /\ pc[v] \in BeforeSubmit \cup {"send"} => ~order'[job[v]].bound
    BY <2>4 DEF OneAtATime, TypeInv, WellFormed
  <2>7. \A v \in Worker : v # w /\ call[v].stage # "none" /\ pc[v] # "recover" => ~order'[job[v]].bound
    <3>1. \A v \in Worker : call[v].stage # "none" => call[v].client \in Client
      BY <1>0 DEF TypeInv, WellFormed
    <3> QED BY <2>4, <3>1 DEF OneAtATime
  <2>8. \A v \in Worker : pc'[v] \in BeforeSubmit \cup {"send"} => ~order'[job'[v]].bound
    BY <2>2, <2>3, <2>4, <2>6
  <2>9. call' = [call EXCEPT ![w] = call[w]] /\ Meant(call[w])
    BY <1>0, <2>3 DEF TypeInv, TypeOK, OneAtATime
  <2> QED BY <1>0, <2>2, <2>3, <2>4, <2>5, <2>7, <2>8, <2>9, OneAtATimeFrame
<1>4. ASSUME NEW w \in Worker, SendAccepted(w) \/ SendUnknown(w) \/ SendFailed(w)
      PROVE  OneAtATime'
  <2>1. PICK label \in {"ack", "failed"}, event \in {"ACKNOWLEDGED", "UNKNOWN"}, bind \in BOOLEAN, outcome \in Answer :
          Sending(w, outcome) /\ Calls(w, label, event, bind)
    BY <1>4 DEF SendAccepted, SendUnknown, SendFailed, Sending, NothingUnknown, Answer
  <2> DEFINE k == TransitionCall(job[w], event, None, bind)
  <2>2. /\ call' = [call EXCEPT ![w] = k] /\ UNCHANGED <<order, job>>
        /\ pc[w] = "send" /\ pc' = [pc EXCEPT ![w] = label]
    BY <2>1 DEF Sending, Calls, Goto, db
  <2>3. k.fill = None /\ k.client = job[w] /\ Meant(k)
    BY DEF TransitionCall, Meant, Cancelling
  <2>4. ~order[job[w]].bound
    BY <2>2 DEF OneAtATime
  <2>5. \A v \in Worker : v # w => pc'[v] = pc[v]
    BY <2>2 DEF TypeInv, TypeOK
  <2>6. \A v \in Worker : /\ pc'[v] \in BeforeSubmit \cup {"send"} => ~order'[job'[v]].bound
                          /\ v # w /\ call[v].stage # "none" /\ pc[v] # "recover" => ~order'[job[v]].bound
    BY <1>0, <2>2, <2>4, <2>5 DEF OneAtATime
  <2>7. \A c \in Client : /\ order[c].bound => order'[c].bound
                          /\ order'[c].bound => order'[c].status \notin Unsent
    BY <2>2 DEF OneAtATime, Recorded
  <2> HIDE DEF k
  <2> QED BY <1>0, <2>2, <2>3, <2>4, <2>5, <2>6, <2>7, OneAtATimeFrame
<1>5. ASSUME NEW w \in Worker, SendDisconnected(w) \/ ListOpen(w) \/ Recovered(w)
      PROVE  OneAtATime'
  <2>1. call[w].stage = "none" /\ UNCHANGED <<order, call>> /\ pc'[w] \in {"dead", "recover", "idle"}
        /\ \A v \in Worker : v # w => pc'[v] = pc[v] /\ job'[v] = job[v]
    BY <1>5 DEF SendDisconnected, ListOpen, Recovered, Goto, Busy, db, TypeInv, TypeOK
  <2> QED BY <1>1, <2>1
<1>6. ASSUME NEW a \in Actor, ReadTransition(a)
      PROVE  OneAtATime'
  <2>1. UNCHANGED order /\ call[a].stage = "read" /\ call[a].fill = None
    BY <1>6 DEF ReadTransition, Transitioning, db
  <2>2. ASSUME NEW n, call' = [call EXCEPT ![a].stage = "write", ![a].next = n], UNCHANGED control
        PROVE  OneAtATime'
    <3> DEFINE k == [call[a] EXCEPT !.stage = "write", !.next = n]
    <3>1. call' = [call EXCEPT ![a] = k]
      BY <2>2 DEF TypeInv, TypeOK
    <3>2. k.fill = None /\ k.client = call[a].client /\ k.event = call[a].event
      BY <2>1 DEF TypeInv, TypeOK, Call
    <3>3. Meant(k)
      BY <2>1, <3>2 DEF Meant, OneAtATime
    <3> HIDE DEF k
    <3>4. /\ a \in Worker /\ pc[a] # "recover" => call[a].client = job[a] /\ ~order[job[a]].bound
          /\ a = Stream => order[call[a].client].bound
      BY <2>1 DEF OneAtATime
    <3> QED BY <2>1, <2>2, <3>1, <3>2, <3>3, <3>4, OneAtATimeCall DEF control
  <2> QED BY <1>6, <2>1, <2>2, OneAtATimeOver DEF ReadTransition
<1>7. ASSUME NEW a \in Actor, NEW n, call[a].stage # "none", NEW c \in Client, c = call[a].client,
             order' = [order EXCEPT ![c] = n],
             n.status \notin Unsent, order[c].bound => n.bound
      PROVE  /\ \A d \in Client : /\ order[d].bound => order'[d].bound
                                  /\ order'[d].bound => order'[d].status \notin Unsent
             /\ \A w \in Worker : w # a /\ call[w].stage # "none" /\ pc[w] # "recover" =>
                  ~order'[job[w]].bound
             /\ \A w \in Worker : w # a /\ pc[w] \in BeforeSubmit \cup {"send"} =>
                  ~order'[job[w]].bound
  <2>1. order'[c] = n /\ \A d \in Client : d # c => order'[d] = order[d]
    BY <1>7 DEF TypeInv, TypeOK
  <2>2. \A d \in Client : /\ order[d].bound => order'[d].bound
                          /\ order'[d].bound => order'[d].status \notin Unsent
    BY <1>7, <2>1 DEF OneAtATime, Recorded
  <2>3. ASSUME NEW w \in Worker, w # a, ~order[job[w]].bound, job[w] \in Client,
               pc[w] \notin {"idle", "list", "recover"}
        PROVE  ~order'[job[w]].bound
    <3>1. phase = "running"
      BY <2>3 DEF StartupAlone
    <3>2. CASE a = Stream
      <4>1. order[c].bound
        BY <1>7, <3>2 DEF OneAtATime
      <4> QED BY <2>1, <2>3, <4>1
    <3>3. CASE a \in Worker
      <4>1. c = job[a]
        BY <1>7, <3>1, <3>3 DEF StartupAlone, OneAtATime
      <4>2. job[w] # c
        BY <2>3, <3>3, <4>1, NoneAssumption DEF Inv, OwnOrder
      <4> QED BY <2>1, <2>3, <4>2
    <3> QED BY <3>2, <3>3 DEF Actor
  <2>4. \A w \in Worker : call[w].stage # "none" => call[w].client \in Client
    BY <1>0 DEF TypeInv, WellFormed
  <2>5. \A w \in Worker : pc[w] \in BeforeSubmit \cup {"send"} => job[w] \in Client
    BY DEF TypeInv, WellFormed
  <2>6. ASSUME NEW w \in Worker, w # a, call[w].stage # "none", pc[w] # "recover"
        PROVE  ~order'[job[w]].bound
    BY <2>3, <2>4, <2>6 DEF OneAtATime, Busy
  <2>7. ASSUME NEW w \in Worker, w # a, pc[w] \in BeforeSubmit \cup {"send"}
        PROVE  ~order'[job[w]].bound
    BY <2>3, <2>5, <2>7 DEF OneAtATime
  <2> QED BY <2>2, <2>6, <2>7
<1>8. ASSUME NEW a \in Actor, WriteTransition(a)
      PROVE  OneAtATime'
  <2> DEFINE k == call[a]
             c == k.client
             n == [order[c] EXCEPT !.status = k.next.status, !.bound = @ \/ k.bind]
  <2>1. k.stage = "write" /\ k.fill = None /\ Return(a)
    BY <1>8 DEF WriteTransition, Transitioning
  <2>2. CASE UNCHANGED order
    BY <2>1, <2>2, OneAtATimeOver
  <2>3. CASE order' = [order EXCEPT ![k.client].status = k.next.status,
                                   ![k.client].bound = @ \/ k.bind]
    <3>1. c \in Client /\ order[c] \in Row /\ k.next.status \notin Unsent
      BY <2>1, CallFacts DEF Inv, Concerned
    <3>2. order' = [order EXCEPT ![c] = n] /\ n.status = k.next.status /\ (order[c].bound => n.bound)
      BY <2>3, <3>1 DEF TypeInv, TypeOK, Row
    <3> HIDE DEF n
    <3>3. c = call[a].client /\ call[a].stage # "none"
      BY <2>1
    <3>4. /\ \A d \in Client : /\ order[d].bound => order'[d].bound
                               /\ order'[d].bound => order'[d].status \notin Unsent
          /\ \A w \in Worker : w # a /\ call[w].stage # "none" /\ pc[w] # "recover" =>
               ~order'[job[w]].bound
          /\ \A w \in Worker : w # a /\ pc[w] \in BeforeSubmit \cup {"send"} =>
               ~order'[job[w]].bound
      <4> HIDE DEF c
      <4> QED BY <1>7, <3>1, <3>2, <3>3
    <3>5. call' = [call EXCEPT ![a] = NoCall] /\ NoCall.stage = "none" /\ Meant(NoCall)
      BY <2>1, NoCallOK DEF Return, Meant, Cancelling, NoCall
    <3>6. \A w \in Worker : w # a => pc'[w] = pc[w] /\ job'[w] = job[w]
      BY <2>1 DEF Return, Goto, control, TypeInv, TypeOK
    <3>7. a \in Worker => pc'[a] \notin BeforeSubmit \cup {"send"}
      <4>1. a \in Worker => pc[a] \in {"ack", "failed", "query", "recover"}
        BY <2>1 DEF Busy
      <4> QED BY <2>1, <4>1 DEF Return, Goto, control, TypeInv, TypeOK
    <3>8. \A w \in Worker : pc'[w] \in BeforeSubmit \cup {"send"} => ~order'[job'[w]].bound
      BY <3>4, <3>6, <3>7
    <3> QED BY <3>4, <3>5, <3>6, <3>8, OneAtATimeFrame
  <2> QED BY <1>8, <2>2, <2>3 DEF WriteTransition
<1>9. ASSUME NEW a \in Actor, ReadFill(a)
      PROVE  OneAtATime'
  <2>1. UNCHANGED order /\ call[a].stage = "read" /\ call[a].fill # None
    BY <1>9 DEF ReadFill, Filling, db
  <2>2. ASSUME NEW s, NEW t, UNCHANGED control,
               call' = [call EXCEPT ![a].stage = "write",
                                    ![a].next = [status |-> s, filled |-> t, bound |-> TRUE]]
        PROVE  OneAtATime'
    <3> DEFINE k == [call[a] EXCEPT !.stage = "write", !.next = [status |-> s, filled |-> t, bound |-> TRUE]]
    <3>1. call' = [call EXCEPT ![a] = k]
      BY <2>2 DEF TypeInv, TypeOK
    <3>2. k.fill = call[a].fill /\ k.client = call[a].client /\ k.next.bound
          /\ k.event = call[a].event
      BY <2>1 DEF TypeInv, TypeOK, Call
    <3>3. Meant(k)
      BY <2>1, <3>2 DEF Meant, OneAtATime
    <3> HIDE DEF k
    <3>4. /\ a \in Worker => pc[a] = "recover"
          /\ a = Stream => order[call[a].client].bound
      BY <2>1 DEF OneAtATime
    <3> QED BY <2>1, <2>2, <3>1, <3>2, <3>3, <3>4, OneAtATimeCall DEF control
  <2> QED BY <1>9, <2>1, <2>2, OneAtATimeOver DEF ReadFill
<1>10. ASSUME NEW a \in Actor, WriteFill(a)
      PROVE  OneAtATime'
  <2> DEFINE k == call[a]
             c == k.client
             f == k.fill
             j == [call[a] EXCEPT !.stage = "settle"]
  <2>1. k.stage = "write" /\ f # None
    BY <1>10 DEF WriteFill, Filling
  <2>2. CASE UNCHANGED order /\ Return(a)
    BY <2>2, OneAtATimeOver
  <2>3. CASE /\ order' = [order EXCEPT ![f.id.client] = k.next]
             /\ call' = [call EXCEPT ![a].stage = "settle"] /\ UNCHANGED control
    <3>1. c \in Client /\ f.id.client = c /\ k.next.status \notin Unsent /\ k.next.bound
      BY <2>1, CallFacts DEF Inv, Concerned, OneAtATime, Meant
    <3>2. order' = [order EXCEPT ![c] = k.next]
      BY <2>3, <3>1
    <3>3. c = call[a].client /\ call[a].stage # "none"
      BY <2>1
    <3>4. /\ \A d \in Client : /\ order[d].bound => order'[d].bound
                               /\ order'[d].bound => order'[d].status \notin Unsent
          /\ \A w \in Worker : w # a /\ call[w].stage # "none" /\ pc[w] # "recover" =>
               ~order'[job[w]].bound
          /\ \A w \in Worker : w # a /\ pc[w] \in BeforeSubmit \cup {"send"} =>
               ~order'[job[w]].bound
      <4> DEFINE n == k.next
      <4>1. order' = [order EXCEPT ![c] = n] /\ n.status \notin Unsent /\ n.bound
        BY <3>1, <3>2
      <4> HIDE DEF c, n
      <4> QED BY <1>7, <3>1, <3>3, <4>1
    <3>5. call' = [call EXCEPT ![a] = j] /\ j.stage = "settle" /\ j.fill = f /\ j.client = c
          /\ j.event = k.event
      BY <2>3 DEF TypeInv, TypeOK, Call
    <3>6. Meant(j)
      BY <2>1, <3>5 DEF Meant, OneAtATime
    <3>7. a \in Worker => pc[a] = "recover"
      BY <2>1 DEF OneAtATime
    <3>8. a = Stream => order'[c].bound
      BY <3>1, <3>2 DEF TypeInv, TypeOK
    <3> HIDE DEF j
    <3>9. UNCHANGED <<pc, job>>
      BY <2>3 DEF control
    <3>10. \A w \in Worker : pc'[w] \in BeforeSubmit \cup {"send"} => ~order'[job'[w]].bound
      BY <3>4, <3>7, <3>9
    <3> QED BY <3>4, <3>5, <3>6, <3>7, <3>8, <3>9, <3>10, OneAtATimeFrame
  <2> QED BY <1>10, <2>2, <2>3 DEF WriteFill
<1>11. ASSUME NEW a \in Actor, Settle(a)
       PROVE  OneAtATime'
  BY <1>11, OneAtATimeOver DEF Settle
<1>12. CASE Deliver
  <2> DEFINE e == Head(queue)
             n == TransitionCall(e.client, e.kind, e, e.kind = "ACKNOWLEDGED")
  <2>1. UNCHANGED <<order, pc, job>>
    BY <1>12 DEF Deliver, db, control
  <2>2. CASE call' = call
    BY <2>1, <2>2 DEF OneAtATime, Recorded, Meant
  <2>3. CASE call' # call
    <3>1. /\ order[e.client].bound
          /\ \/ e.kind = "fill" /\ call' = [call EXCEPT ![Stream] = FillCall(e.fill)]
             \/ e.kind # "fill" /\ call' = [call EXCEPT ![Stream] = n]
      BY <1>12, <2>3 DEF Deliver, IsFound
    <3>2. e \in Event
      BY <1>12 DEF Deliver, TypeInv, TypeOK
    <3>3. CASE e.kind = "fill"
      <4>1. e.fill \in Fill /\ e.fill.id.client = e.client
        BY <3>2, <3>3 DEF Event, Notice, Report
      <4>2. FillCall(e.fill).client = e.client /\ Meant(FillCall(e.fill))
        BY <4>1, FillCallOK DEF FillCall, Meant, Cancelling
      <4> QED BY <1>0, <2>1, <3>1, <3>3, <4>2, OneAtATimeCall
    <3>4. CASE e.kind # "fill"
      <4>1. n.client = e.client /\ Meant(n)
        BY <3>2, <3>4 DEF TransitionCall, Meant, Cancelling, Event, Notice, Report
      <4> HIDE DEF n
      <4> QED BY <1>0, <2>1, <3>1, <3>4, <4>1, OneAtATimeCall
    <3> QED BY <3>3, <3>4
  <2> QED BY <2>2, <2>3
<1>13. ASSUME NEW w \in Worker, Recover(w)
       PROVE  OneAtATime'
  <2>1. PICK s \in todo[w] : call' = [call EXCEPT ![w] = Remedy(s.client, s.row)]
    BY <1>13 DEF Recover
  <2>2. UNCHANGED <<order, pc, job>> /\ pc[w] = "recover"
    BY <1>13 DEF Recover, db
  <2>3. Meant(Remedy(s.client, s.row))
    <3>1. /\ \A c, e, o, b : e \notin {"FILLED"} \cup Cancelling => Meant(TransitionCall(c, e, o, b))
          /\ \A f : Meant(FillCall(f))
          /\ Meant(NoCall)
      BY DEF Meant, Cancelling, TransitionCall, FillCall, NoCall
    <3> QED BY <3>1 DEF Remedy, RecoveryFill, Cancelling
  <2> DEFINE k == Remedy(s.client, s.row)
  <2>4. call' = [call EXCEPT ![w] = k] /\ Meant(k)
    BY <2>1, <2>3
  <2> HIDE DEF k
  <2> QED BY <1>0, <2>2, <2>4, OneAtATimeCall
<1>14. CASE Start
  <2>1. call[Starter].stage = "none"
    BY <1>14, StarterAssumption DEF Start, StartupAlone, Busy
  <2>2. UNCHANGED <<order, call, job>> /\ pc'[Starter] = "list"
        /\ \A v \in Worker : v # Starter => pc'[v] = pc[v]
    BY <1>14, StarterAssumption DEF Start, db, TypeInv, TypeOK
  <2> QED BY <1>1, <2>1, <2>2, StarterAssumption
<1>15. CASE Crash
  BY <1>0, <1>15, NoCallOK DEF Crash, db, OneAtATime, Meant, Cancelling, NoCall, Recorded, Actor
<1>16. ASSUME UNCHANGED vars \/ \E v \in Worker, c \in Client : Retry(v, c)
       PROVE  OneAtATime'
  BY <1>16 DEF Retry, vars, db, control, OneAtATime, Meant, Recorded
<1> QED
  BY <1>2, <1>3, <1>4, <1>5, <1>6, <1>8, <1>9, <1>10, <1>11, <1>12, <1>13, <1>14, <1>15, <1>16
  DEF Next, Submission, Operation, Recovery

-----------------------------------------------------------------------------

\* ... the row of an order is exact; ...

\* What is about to be written was computed from the row as it still is.
Current(k, row) ==
  IF k.fill = None
  THEN k.next.status = After(row.status, k.event)
  ELSE /\ Fits(row, k.fill) /\ Accepts(row.status, FillEvent(row, k.fill))
       /\ k.next.status = After(row.status, FillEvent(row, k.fill))
       /\ k.next.filled = Total(row, k.fill)

Exact ==
  /\ \A a \in Actor : call[a].stage = "write" => Current(call[a], order[call[a].client])
  /\ FilledIsBooked
  /\ FilledMeansComplete

LEMMA ExactFrame ==
  ASSUME TypeInv, Exact, UNCHANGED <<order, fills>>,
         \A b \in Actor : call'[b].stage = "write" =>
           call'[b] = call[b] \/ Current(call'[b], order[call'[b].client])
  PROVE  Exact'
<1>1. \A b \in Actor : call'[b].stage = "write" => Current(call'[b], order[call'[b].client])
  BY DEF Exact
<1>2. FilledIsBooked'
  BY BookedSame DEF Exact, FilledIsBooked
<1>3. FilledMeansComplete'
  BY DEF Exact, FilledMeansComplete
<1>4. \A b \in Actor : call'[b].stage = "write" => Current(call'[b], order'[call'[b].client])
  BY <1>1
<1> QED BY <1>2, <1>3, <1>4 DEF Exact, Current

\* The call of one actor is over, or does not write yet.
LEMMA ExactCall ==
  ASSUME TypeInv, Exact, UNCHANGED <<order, fills>>, NEW a \in Actor, NEW k,
         call' = [call EXCEPT ![a] = k], k.stage # "write"
  PROVE  Exact'
BY ExactFrame DEF TypeInv, TypeOK

\* Only the actor whose call it is writes a row.
LEMMA ExactWrite ==
  ASSUME TypeInv, Inv, Busy, StartupAlone, OneAtATime, Exact, NEW a \in Actor, call[a].stage # "none",
         NEW c \in Client, c = call[a].client, NEW n, order' = [order EXCEPT ![c] = n],
         NEW k, call' = [call EXCEPT ![a] = k], k.stage # "write",
         n.filled = Booked(c)', \A d \in Client : d # c => Booked(d)' = Booked(d),
         n.status = "FILLED" <=> n.filled = Qty
  PROVE  Exact'
<1>1. order'[c] = n /\ \A d \in Client : d # c => order'[d] = order[d]
  BY DEF TypeInv, TypeOK
<1>2. call'[a] = k /\ \A b \in Actor : b # a => call'[b] = call[b]
  BY DEF TypeInv, TypeOK
<1>3. ASSUME NEW b \in Actor, call'[b].stage = "write"
      PROVE  call'[b] = call[b] /\ order'[call[b].client] = order[call[b].client]
                /\ call[b].stage = "write"
  <2>1. b # a /\ call'[b] = call[b]
    BY <1>2, <1>3
  <2>2. call[b].client # c /\ call[b].client \in Client
    BY <1>3, <2>1, Exclusive, CallFacts
  <2> QED BY <1>1, <1>3, <2>1, <2>2
<1>4. \A b \in Actor : call'[b].stage = "write" => Current(call'[b], order'[call'[b].client])
  BY <1>3 DEF Exact
<1>5. FilledIsBooked'
  BY <1>1 DEF Exact, FilledIsBooked
<1>6. FilledMeansComplete'
  BY <1>1 DEF Exact, FilledMeansComplete
<1> QED BY <1>4, <1>5, <1>6 DEF Exact, Current

LEMMA ExactStart == Init => Exact
<1> SUFFICES ASSUME Init PROVE Exact
  OBVIOUS
<1>1. fills \in [FillId -> Nat] /\ \A i \in FillId : fills[i] = 0
  BY DEF Init
<1>2. \A c \in Client : Booked(c) = 0
  BY <1>1, TypeStart, BookedFacts, BookedNone DEF IdsOf
<1>3. \A c \in Client : order[c].filled = 0 /\ order[c].status = Absent
  BY DEF Init, NoRow
<1>4. \A a \in Actor : call[a].stage = "none"
  BY DEF Init, NoCall
<1> QED BY <1>2, <1>3, <1>4, QtyAssumption DEF Exact, FilledIsBooked, FilledMeansComplete, Absent

\* A transition other than a fill neither completes an order nor reopens it.
LEMMA StaysComplete ==
  ASSUME NEW s \in Status \cup {Absent}, NEW e \in Status, e # "FILLED"
  PROVE  After(s, e) = "FILLED" <=> s = "FILLED"
BY DEF After, Successors, Status, Absent

\* A fill that is accepted completes an order exactly when it is the last one.
LEMMA FillCompletes ==
  ASSUME NEW row \in Row, NEW f, f.qty \in 1..Qty, Fits(row, f), row.status # Absent,
         Accepts(row.status, FillEvent(row, f))
  PROVE  After(row.status, FillEvent(row, f)) = "FILLED" <=> Total(row, f) = Qty
<1>1. row.status \in Status
  BY DEF Row
<1>2. CASE Total(row, f) = Qty
  BY <1>1, <1>2 DEF FillEvent, Accepts, After, Late, Status
<1>3. CASE Total(row, f) # Qty
  BY <1>1, <1>3 DEF FillEvent, Accepts, After, Late, Status
<1> QED BY <1>2, <1>3

LEMMA ExactStep ==
  TypeInv /\ Inv /\ Busy /\ StartupAlone /\ OneAtATime /\ Exact /\ [Next]_vars => Exact'
<1> SUFFICES ASSUME TypeInv, Inv, Busy, StartupAlone, OneAtATime, Exact, [Next]_vars PROVE Exact'
  OBVIOUS
<1>0. Stream \in Actor /\ \A w \in Worker : w \in Actor /\ w # Stream
  BY StreamAssumption DEF Actor
<1>1. CASE UNCHANGED <<order, fills, call>>
  BY <1>1, ExactFrame
<1>2. ASSUME NEW w \in Worker,
             Create(w) \/ Validate(w) \/ Submitting(w) \/ Submitted(w)
      PROVE  Exact'
  <2>1. PICK from \in BeforeSubmit, event \in Status \ {"FILLED"},
             to \in {"validate", "submitting", "submitted", "send"} :
               Advance(w, from, event, to)
    BY <1>2, StatusFacts DEF Create, Validate, Submitting, Submitted
  <2>2. job[w] \in Client /\ ~Recorded(job[w])
    BY <2>1 DEF Advance, TypeInv, WellFormed, Inv, NotYetSent
  <2>3. UNCHANGED <<call, fills>>
    BY <2>1 DEF Advance
  <2>4. /\ order'[job[w]].status = event
        /\ \A c \in Client : /\ order'[c].filled = order[c].filled
                             /\ c # job[w] => order'[c] = order[c]
    BY <2>1, <2>2 DEF Advance, TypeInv, TypeOK, Row
  <2>5. \A b \in Actor : call'[b].stage = "write" => Current(call'[b], order'[call'[b].client])
    <3>1. \A b \in Actor : call[b].stage = "write" =>
            call[b].client \in Client /\ call[b].client # job[w]
      BY <2>2 DEF TypeInv, WellFormed, Inv, Concerned
    <3> QED BY <2>3, <2>4, <3>1 DEF Exact
  <2>6. FilledIsBooked'
    BY <2>3, <2>4, BookedSame DEF Exact, FilledIsBooked
  <2>7. FilledMeansComplete'
    BY <2>2, <2>4 DEF Exact, FilledMeansComplete, Recorded, Unsent, Absent
  <2> QED BY <2>5, <2>6, <2>7 DEF Exact, Current
<1>3. ASSUME NEW w \in Worker,
             SendAccepted(w) \/ SendUnknown(w) \/ SendFailed(w)
      PROVE  Exact'
  <2>1. PICK label, event, bind : Calls(w, label, event, bind)
    BY <1>3 DEF SendAccepted, SendUnknown, SendFailed
  <2>2. UNCHANGED <<order, fills>>
    BY <1>3 DEF SendAccepted, SendUnknown, SendFailed, Sending, db
  <2>3. TransitionCall(job[w], event, None, bind).stage # "write"
    BY DEF TransitionCall
  <2>4. call' = [call EXCEPT ![w] = TransitionCall(job[w], event, None, bind)]
    BY <2>1 DEF Calls
  <2> QED BY <1>0, <2>2, <2>3, <2>4, ExactCall
<1>4. ASSUME NEW a \in Actor, Return(a) \/ Raise(a), UNCHANGED <<order, fills>>
      PROVE  Exact'
  <2>1. call' = [call EXCEPT ![a] = NoCall] /\ NoCall.stage # "write"
    BY <1>4, NoCallOK DEF Return, Raise
  <2> QED BY <1>4, <2>1, ExactCall
<1>5. ASSUME NEW a \in Actor, ReadTransition(a)
      PROVE  Exact'
  <2> DEFINE row == order[call[a].client]
             n == [row EXCEPT !.status = After(@, call[a].event)]
  <2>1. UNCHANGED <<order, fills>> /\ call[a].fill = None /\ call[a].stage = "read"
    BY <1>5 DEF ReadTransition, Transitioning, db
  <2>2. CASE call' = [call EXCEPT ![a].stage = "write", ![a].next = n]
    <3>1. /\ \A b \in Actor : b # a => call'[b] = call[b]
          /\ call'[a].fill = None /\ call'[a].client = call[a].client
          /\ call'[a].event = call[a].event /\ call'[a].next = n
      BY <2>1, <2>2 DEF TypeInv, TypeOK, Call
    <3>2. row \in Row
      BY <2>1, CallFacts
    <3>3. n.status = After(row.status, call[a].event)
      BY <3>2 DEF Row
    <3> HIDE DEF n
    <3>4. Current(call'[a], order[call'[a].client])
      BY <3>1, <3>3 DEF Current
    <3> QED BY <2>1, <3>1, <3>4, ExactFrame
  <2> QED BY <1>4, <1>5, <2>1, <2>2 DEF ReadTransition
<1>6. ASSUME NEW a \in Actor, WriteTransition(a)
      PROVE  Exact'
  <2> DEFINE k == call[a]
  <2>1. k.stage = "write" /\ k.fill = None /\ Return(a) /\ UNCHANGED fills
    BY <1>6 DEF WriteTransition, Transitioning
  <2>0. PICK c \in Client : c = k.client
    BY <2>1, CallFacts
  <2> DEFINE n == [order[c] EXCEPT !.status = k.next.status, !.bound = @ \/ k.bind]
  <2>2. CASE UNCHANGED order
    BY <1>4, <2>1, <2>2
  <2>3. CASE order' = [order EXCEPT ![k.client].status = k.next.status,
                                   ![k.client].bound = @ \/ k.bind]
    <3>1. k \in Call /\ order[c] \in Row
      BY <2>0, <2>1, CallFacts
    <3>2. order' = [order EXCEPT ![c] = n] /\ n.status = k.next.status /\ n.filled = order[c].filled
      BY <2>0, <2>3, <3>1 DEF TypeInv, TypeOK, Row
    <3>3. k.next.status = After(order[c].status, k.event)
      BY <2>0, <2>1 DEF Exact, Current
    <3>4. k.event \in Status /\ k.event # "FILLED" /\ order[c].status \in Status \cup {Absent}
      BY <3>1 DEF Call, Row, OneAtATime, Meant
    <3>5. n.status = "FILLED" <=> n.filled = Qty
      <4>1. n.status = "FILLED" <=> order[c].status = "FILLED"
        BY <3>2, <3>3, <3>4, StaysComplete
      <4> QED BY <3>1, <3>2, <4>1 DEF Exact, FilledMeansComplete
    <3>6. /\ n.filled = Booked(c)' /\ \A d \in Client : d # c => Booked(d)' = Booked(d)
      <4>1. \A d \in Client : Booked(d)' = Booked(d)
        BY <2>1, BookedSame
      <4>2. order[c].filled = Booked(c)
        BY DEF Exact, FilledIsBooked
      <4> QED BY <3>2, <4>1, <4>2
    <3>7. call' = [call EXCEPT ![a] = NoCall] /\ NoCall.stage # "write"
      BY <2>1, NoCallOK DEF Return
    <3> HIDE DEF n
    <3>8. call[a].stage # "none" /\ c = call[a].client
      BY <2>0, <2>1
    <3> HIDE DEF k
    <3> QED BY <3>1, <3>2, <3>5, <3>6, <3>7, <3>8, ExactWrite
  <2> QED BY <1>6, <2>2, <2>3 DEF WriteTransition
<1>7. ASSUME NEW a \in Actor, ReadFill(a)
      PROVE  Exact'
  <2> DEFINE f == call[a].fill
             row == order[f.id.client]
             n == [status |-> After(row.status, FillEvent(row, f)),
                   filled |-> Total(row, f), bound |-> TRUE]
  <2>1. UNCHANGED <<order, fills>> /\ call[a].stage = "read" /\ f # None
    BY <1>7 DEF ReadFill, Filling, db
  <2>2. CASE /\ Fits(row, f) /\ Accepts(row.status, FillEvent(row, f))
             /\ call' = [call EXCEPT ![a].stage = "write", ![a].next = n]
    <3>1. /\ \A b \in Actor : b # a => call'[b] = call[b]
          /\ call'[a].fill = f /\ call'[a].client = call[a].client /\ call'[a].next = n
      BY <2>1, <2>2 DEF TypeInv, TypeOK, Call
    <3>2. f.id.client = call[a].client
      BY <2>1, CallFacts
    <3>3. Current(call'[a], order[call'[a].client])
      BY <2>1, <2>2, <3>1, <3>2 DEF Current
    <3> QED BY <2>1, <3>1, <3>3, ExactFrame
  <2> QED BY <1>4, <1>7, <2>1, <2>2 DEF ReadFill
<1>8. ASSUME NEW a \in Actor, WriteFill(a)
      PROVE  Exact'
  <2> DEFINE k == call[a]
             j == [call[a] EXCEPT !.stage = "settle"]
  <2>1. k.stage = "write" /\ k.fill # None
    BY <1>8 DEF WriteFill, Filling
  <2>0. PICK f \in Fill, c \in Client : f = k.fill /\ c = k.client
    BY <2>1, CallFacts
  <2>2. /\ f.id \in FillId /\ f.id.client = c
        /\ k \in Call /\ f.qty \in 1..Qty /\ order[c] \in Row /\ order[c].status # Absent
    BY <2>0, <2>1, CallFacts DEF Fill, Unsent
  <2>3. CASE UNCHANGED <<order, fills>> /\ Return(a)
    BY <1>4, <2>3
  <2>4. CASE /\ ~IsBooked(f)
             /\ order' = [order EXCEPT ![f.id.client] = k.next]
             /\ fills' = [fills EXCEPT ![f.id] = f.qty]
             /\ call' = [call EXCEPT ![a].stage = "settle"]
    <3>1. fills[f.id] = 0
      BY <2>4 DEF IsBooked
    <3>2. \A d \in Client : Booked(d)' = IF d = c THEN Booked(d) + f.qty ELSE Booked(d)
      BY <2>2, <2>4, <3>1, BookedAdds
    <3>3. /\ Fits(order[c], f) /\ Accepts(order[c].status, FillEvent(order[c], f))
          /\ k.next.status = After(order[c].status, FillEvent(order[c], f))
          /\ k.next.filled = Total(order[c], f)
      BY <2>0, <2>1 DEF Exact, Current
    <3>4. k.next.status = "FILLED" <=> k.next.filled = Qty
      <4> DEFINE row == order[c]
                 e == FillEvent(row, f)
      <4>1. After(row.status, e) = "FILLED" <=> Total(row, f) = Qty
        BY <2>2, <3>3, FillCompletes
      <4> QED BY <3>3, <4>1
    <3>5. k.next.filled = Booked(c)'
      <4>1. order[c].filled = Booked(c)
        BY <2>2 DEF Exact, FilledIsBooked
      <4> QED BY <2>2, <3>2, <3>3, <4>1 DEF Total
    <3>6. call' = [call EXCEPT ![a] = j] /\ j.stage = "settle"
      BY <2>2, <2>4 DEF TypeInv, TypeOK, Call
    <3> DEFINE n == k.next
    <3>7. /\ order' = [order EXCEPT ![c] = n] /\ call[a].stage # "none" /\ c = call[a].client
          /\ n.filled = Booked(c)' /\ (n.status = "FILLED" <=> n.filled = Qty)
      BY <2>0, <2>1, <2>2, <2>4, <3>4, <3>5
    <3> HIDE DEF n, j, k
    <3> QED BY <2>2, <3>2, <3>6, <3>7, ExactWrite
  <2> QED BY <1>8, <2>0, <2>3, <2>4 DEF WriteFill
<1>9. ASSUME NEW a \in Actor, Settle(a)
      PROVE  Exact'
  BY <1>4, <1>9 DEF Settle
<1>10. CASE Deliver
  <2>1. UNCHANGED <<order, fills>>
    BY <1>10 DEF Deliver, db
  <2>2. call' = call \/ \E k : call' = [call EXCEPT ![Stream] = k] /\ k.stage = "read"
    <3> DEFINE e == Head(queue)
               n == TransitionCall(e.client, e.kind, e, e.kind = "ACKNOWLEDGED")
    <3>1. FillCall(e.fill).stage = "read" /\ n.stage = "read"
      BY DEF FillCall, TransitionCall
    <3>2. \/ call' = call \/ call' = [call EXCEPT ![Stream] = FillCall(e.fill)]
          \/ call' = [call EXCEPT ![Stream] = n]
      BY <1>10 DEF Deliver
    <3> HIDE DEF n
    <3> QED BY <3>1, <3>2
  <2>3. CASE call' = call
    BY <2>1, <2>3, ExactFrame
  <2>4. ASSUME NEW k, call' = [call EXCEPT ![Stream] = k], k.stage = "read"
        PROVE  Exact'
    BY <1>0, <2>1, <2>4, ExactCall
  <2> QED BY <2>2, <2>3, <2>4
<1>11. ASSUME NEW w \in Worker, Recover(w)
       PROVE  Exact'
  <2>1. UNCHANGED <<order, fills>>
    BY <1>11 DEF Recover, db
  <2>2. PICK c, row : call' = [call EXCEPT ![w] = Remedy(c, row)]
    BY <1>11 DEF Recover
  <2>3. Remedy(c, row).stage # "write"
    BY NoCallOK DEF Remedy, TransitionCall, RecoveryFill, FillCall
  <2> QED BY <1>0, <2>1, <2>2, <2>3, ExactCall
<1>12. CASE Crash
  <2>1. UNCHANGED <<order, fills>> /\ \A a \in Actor : call'[a].stage # "write"
    BY <1>12, NoCallOK DEF Crash, db
  <2> QED BY <2>1, ExactFrame
<1>13. ASSUME NEW w \in Worker, NEW c \in Client, Dispatch(w, c) \/ Retry(w, c)
       PROVE  UNCHANGED <<order, fills, call>>
  BY <1>13 DEF Dispatch, Retry, vars, db
<1>14. ASSUME NEW w \in Worker, SendDisconnected(w) \/ ListOpen(w) \/ Recovered(w)
       PROVE  UNCHANGED <<order, fills, call>>
  BY <1>14 DEF SendDisconnected, ListOpen, Recovered, db
<1>15. ASSUME Start \/ UNCHANGED vars
       PROVE  UNCHANGED <<order, fills, call>>
  BY <1>15 DEF Start, vars, db
<1> QED
  BY <1>1, <1>2, <1>3, <1>5, <1>6, <1>7, <1>8, <1>9, <1>10, <1>11, <1>12,
     <1>13, <1>14, <1>15
  DEF Next, Submission, Operation, Recovery

-----------------------------------------------------------------------------

\* ... and the fills there are of an order, on their way or booked, are of one
\* execution, or what recovery found missing.

\* The fills that are on their way: queued, or in the hands of the stream.
OnTheWay(f) ==
  \/ \E i \in DOMAIN queue : queue[i].kind = "fill" /\ queue[i].fill = f
  \/ call[Stream].stage # "none" /\ call[Stream].fill # None /\ call[Stream].fill = f

\* The fills that there are: on their way, or booked.
Known(f) == OnTheWay(f) \/ fills[f.id] = f.qty

\* The two ways in which m lots are executed: at one price, or lot by lot.
Whole(m) == {f \in Fill : f.id.tag = "exec" /\ f.id.n = 1 /\ f.qty = m}
Lots(m)  == {f \in Fill : f.id.tag = "exec" /\ f.id.n \in 1..m /\ f.qty = 1}

Streamed(c, G) == \A f \in Fill : f.id.client = c /\ Known(f) => f \in G

\* Recovery made up for what the stream did not bring, and no more will come.
CaughtUp(c) ==
  /\ order[c].filled <= exch[c].filled
  /\ \A f \in Fill : f.id.client = c => ~OnTheWay(f)

\* The fills of an order are of its one execution, or recovery knew what was missing.
Explained(c) ==
  \/ Streamed(c, Whole(exch[c].filled)) \/ Streamed(c, Lots(exch[c].filled)) \/ CaughtUp(c)

Executed ==
  \A c \in Client : /\ Explained(c)
                    /\ sends[c] = 0 => \A i \in IdsOf(c) : fills[i] = 0

\* The rows to recover are as they were read, and a recovery fill is of what is missing.
RecoveryIsFresh ==
  /\ \A w \in Worker : \A s \in todo[w] :
       /\ s.row.filled = order[s.client].filled
       /\ call[w].stage # "none" => call[w].client # s.client
       /\ \A t \in todo[w] : t.client = s.client => t = s
  /\ \A w \in Worker : call[w].stage \in {"read", "write"} /\ call[w].fill # None =>
       /\ order[call[w].client].filled + call[w].fill.qty = exch[call[w].client].filled
       /\ call[w].fill.id.tag # "exec"

\* An order that a step has nothing to do with.
LEMMA ExplainedKept ==
  ASSUME NEW c \in Client, Explained(c),
         order'[c].filled = order[c].filled, exch'[c].filled = exch[c].filled,
         \A f \in Fill : f.id.client = c =>
           (OnTheWay(f)' => OnTheWay(f)) /\ (Known(f)' => Known(f))
  PROVE  Explained(c)'
<1>1. ASSUME NEW G, Streamed(c, G)
      PROVE  Streamed(c, G)'
  BY <1>1 DEF Streamed
<1>2. CaughtUp(c) => CaughtUp(c)'
  BY DEF CaughtUp
<1>3. PICK m : m = exch[c].filled /\ m = exch'[c].filled
  OBVIOUS
<1>4. CASE Streamed(c, Whole(m))
  <2>1. Streamed(c, Whole(m))'
    BY <1>1, <1>4
  <2> QED BY <1>3, <2>1 DEF Explained, Streamed, Whole
<1>5. CASE Streamed(c, Lots(m))
  <2>1. Streamed(c, Lots(m))'
    BY <1>1, <1>5
  <2> QED BY <1>3, <2>1 DEF Explained, Streamed, Lots
<1> QED BY <1>2, <1>3, <1>4, <1>5 DEF Explained

\* Steps that execute nothing and book nothing.
LEMMA ExecutedFrame ==
  ASSUME Executed, UNCHANGED fills,
         \A f \in Fill : OnTheWay(f)' => OnTheWay(f),
         \A c \in Client : /\ order'[c].filled = order[c].filled
                           /\ exch'[c].filled = exch[c].filled
                           /\ sends'[c] = 0 => sends[c] = 0
  PROVE  Executed'
<1>1. \A f \in Fill : Known(f)' => Known(f)
  BY DEF Known
<1>2. \A c \in Client : Explained(c)'
  BY <1>1, ExplainedKept DEF Executed
<1> QED BY <1>2 DEF Executed

\* What becomes of the fills on their way in an operation: no new ones.
LEMMA WayOfOperation ==
  ASSUME TypeInv, NEW a \in Actor, Operation(a), NEW f, OnTheWay(f)'
  PROVE  OnTheWay(f)
<1>1. queue' = queue
  BY DEF Operation, ReadTransition, WriteTransition, ReadFill, WriteFill, Settle
<1>2. CASE a # Stream
  BY <1>1, <1>2, CallerMoves DEF OnTheWay, Actor
<1>3. CASE a = Stream
  <2>1. call[Stream].stage # "none"
    BY <1>3, CallerMoves
  <2>2. call'[Stream].stage # "none" => call'[Stream].fill = call[Stream].fill
    <3>1. CASE call' = [call EXCEPT ![a] = NoCall]
      BY <1>3, <3>1, NoCallOK DEF TypeInv, TypeOK
    <3>2. CASE \E n : call' = [call EXCEPT ![a].stage = "write", ![a].next = n]
      BY <1>3, <3>2 DEF TypeInv, TypeOK, Call
    <3>3. CASE call' = [call EXCEPT ![a].stage = "settle"]
      BY <1>3, <3>3 DEF TypeInv, TypeOK, Call
    <3> QED
      BY <3>1, <3>2, <3>3
      DEF Operation, ReadTransition, WriteTransition, ReadFill, WriteFill, Settle, Return, Raise
  <2> QED BY <1>1, <2>1, <2>2 DEF OnTheWay
<1> QED BY <1>2, <1>3

\* The events of an order that bring fills of a set.
Bringing(c, G) == {e \in EventOf(c) : e.kind = "fill" => e.fill \in G}

LEMMA EmittedInOneWay ==
  ASSUME NEW c \in Client, NEW m \in 0..Qty, NEW trades \in Trades(c, m), NEW events,
         LET ack  == [client |-> c, kind |-> "ACKNOWLEDGED"]
             open == [client |-> c, kind |-> "OPEN"]
         IN events \in {<<ack, open>> \o trades, trades \o <<ack>>}
  PROVE  Emit(events) \in Seq(Bringing(c, Whole(m))) \/ Emit(events) \in Seq(Bringing(c, Lots(m)))
<1> DEFINE ack  == [client |-> c, kind |-> "ACKNOWLEDGED"]
           open == [client |-> c, kind |-> "OPEN"]
<1>1. /\ ack \in Bringing(c, Whole(m)) /\ open \in Bringing(c, Whole(m))
      /\ ack \in Bringing(c, Lots(m)) /\ open \in Bringing(c, Lots(m))
  BY DEF Bringing, EventOf, Event, Notice
<1>2. trades \in Seq(Bringing(c, Whole(m))) \/ trades \in Seq(Bringing(c, Lots(m)))
  <2>1. CASE m = 0
    BY <2>1 DEF Trades
  <2>2. CASE m # 0
    <3>1. m \in 1..Qty /\ 1 \in 1..Qty /\ m \in Nat /\ 1..m \subseteq 1..Qty
      BY <2>2, QtyAssumption
    <3>2. Exec(c, 1, m) \in Bringing(c, Whole(m))
      BY <3>1, ExecOK DEF Bringing, EventOf, Event, Report, Whole, Exec
    <3>3. \A i \in 1..m : Exec(c, i, 1) \in Bringing(c, Lots(m))
      BY <3>1, ExecOK DEF Bringing, EventOf, Event, Report, Lots, Exec
    <3>4. <<Exec(c, 1, m)>> \in Seq(Bringing(c, Whole(m)))
      BY <3>2
    <3>5. [i \in 1..m |-> Exec(c, i, 1)] \in Seq(Bringing(c, Lots(m)))
      BY <3>1, <3>3
    <3> QED BY <2>2, <3>4, <3>5 DEF Trades
  <2> QED BY <2>1, <2>2
<1>3. ASSUME NEW S, ack \in S, open \in S, trades \in Seq(S)
      PROVE  Emit(events) \in Seq(S)
  <2>1. <<ack, open>> \in Seq(S) /\ <<ack>> \in Seq(S)
    BY <1>3
  <2>2. events = <<ack, open>> \o trades \/ events = trades \o <<ack>>
    OBVIOUS
  <2>3. \A s, t \in Seq(S) : s \o t \in Seq(S)
    OBVIOUS
  <2> HIDE DEF ack, open
  <2>4. events \in Seq(S)
    BY <1>3, <2>1, <2>2, <2>3
  <2> QED BY <2>4, EmitSeq
<1> HIDE DEF ack, open
<1> QED BY <1>1, <1>2, <1>3

\* What is not new has to do with orders that were submitted before.
LEMMA KnownIsSent ==
  ASSUME TypeInv, Inv, Executed, NEW f \in Fill, Known(f)
  PROVE  sends[f.id.client] > 0
<1>1. f.id \in FillId /\ f.id.client \in Client /\ f.qty > 0
  BY QtyAssumption DEF Fill, FillId
<1>2. ASSUME NEW i \in DOMAIN queue, queue[i].kind = "fill", queue[i].fill = f
      PROVE  sends[f.id.client] > 0
  <2>1. queue[i] \in Event /\ sends[queue[i].client] > 0
    BY <1>2 DEF TypeInv, TypeOK, Inv, Concerned
  <2>2. f.id.client = queue[i].client
    BY <1>2, <2>1 DEF Event, Notice, Report
  <2> QED BY <2>1, <2>2
<1>3. ASSUME call[Stream].stage # "none", call[Stream].fill # None, call[Stream].fill = f
      PROVE  sends[f.id.client] > 0
  <2>1. Stream \in Actor
    BY DEF Actor
  <2> QED BY <1>3, <2>1, CallFacts
<1>4. ASSUME fills[f.id] = f.qty
      PROVE  sends[f.id.client] > 0
  <2>1. f.id \in IdsOf(f.id.client) /\ fills[f.id] # 0 /\ sends[f.id.client] \in Nat
    BY <1>1, <1>4 DEF IdsOf, TypeInv, TypeOK
  <2> QED BY <1>1, <2>1 DEF Executed
<1> QED BY <1>2, <1>3, <1>4 DEF Known, OnTheWay

\* What a submission brings is of the order that it submits.
LEMMA ExecutedSend ==
  ASSUME TypeInv, Inv, Executed, NEW w \in Worker, SendAccepted(w)
  PROVE  Executed'
<1>1. PICK c \in Client : c = job[w] /\ sends[c] = 0
  BY DEF SendAccepted, Sending, TypeInv, WellFormed, Inv, NotYetSent
<1>2. Sending(w, "accepted")
  BY DEF SendAccepted
<1> DEFINE ack  == [client |-> c, kind |-> "ACKNOWLEDGED"]
           open == [client |-> c, kind |-> "OPEN"]
<1>3. PICK m \in 0..Qty : \E trades \in Trades(c, m) :
        /\ exch' = [exch EXCEPT ![c] = [status |-> StatusAt(m), filled |-> m]]
        /\ \E events \in {<<ack, open>> \o trades, trades \o <<ack>>} :
             queue' = queue \o Emit(events)
  BY <1>1 DEF SendAccepted
<1>4. PICK trades \in Trades(c, m) :
        /\ exch' = [exch EXCEPT ![c] = [status |-> StatusAt(m), filled |-> m]]
        /\ \E events \in {<<ack, open>> \o trades, trades \o <<ack>>} :
             queue' = queue \o Emit(events)
  BY <1>3
<1>5. PICK events \in {<<ack, open>> \o trades, trades \o <<ack>>} :
        queue' = queue \o Emit(events)
  BY <1>4
<1>6. exch'[c].filled = m /\ \A d \in Client : d # c => exch'[d] = exch[d]
  BY <1>4 DEF TypeInv, TypeOK
<1>7. UNCHANGED <<order, fills>> /\ call'[Stream] = call[Stream]
  BY <1>2, StreamAssumption DEF SendAccepted, Sending, Calls, db, Actor, TypeInv, TypeOK
<1> DEFINE new == Emit(events)
<1>8. new \in Seq(Bringing(c, Whole(m))) \/ new \in Seq(Bringing(c, Lots(m)))
  BY <1>5, EmittedInOneWay
<1> HIDE DEF new
<1>9. ASSUME NEW G, new \in Seq(Bringing(c, G)), NEW f \in Fill, OnTheWay(f)'
      PROVE  OnTheWay(f) \/ (f.id.client = c /\ f \in G)
  <2>1. CASE \E i \in DOMAIN queue' : queue'[i].kind = "fill" /\ queue'[i].fill = f
    <3>1. PICK i \in DOMAIN queue' : queue'[i].kind = "fill" /\ queue'[i].fill = f
      BY <2>1
    <3>2. queue \in Seq(Event) /\ queue' = queue \o new
      BY <1>5 DEF TypeInv, TypeOK, new
    <3>3. CASE i \in DOMAIN queue
      <4>1. queue'[i] = queue[i]
        BY <1>9, <3>2, <3>3
      <4> QED BY <3>1, <3>3, <4>1 DEF OnTheWay
    <3>4. CASE i \notin DOMAIN queue
      <4>1. i - Len(queue) \in 1..Len(new) /\ queue'[i] = new[i - Len(queue)]
        BY <1>9, <3>1, <3>2, <3>4
      <4>2. queue'[i] \in Bringing(c, G)
        BY <1>9, <4>1
      <4>3. queue'[i] \in Event /\ queue'[i].client = c /\ f \in G
        BY <3>1, <4>2 DEF EventOf, Bringing
      <4>4. f.id.client = c
        BY <3>1, <4>3 DEF Event, Notice, Report
      <4> QED BY <4>3, <4>4
    <3> QED BY <3>3, <3>4
  <2>2. CASE ~\E i \in DOMAIN queue' : queue'[i].kind = "fill" /\ queue'[i].fill = f
    BY <1>7, <1>9, <2>2 DEF OnTheWay
  <2> QED BY <2>1, <2>2
<1>10. \A f \in Fill : f.id.client = c => ~Known(f)
  BY <1>1, KnownIsSent
<1>11. PICK G \in {Whole(m), Lots(m)} : new \in Seq(Bringing(c, G))
  BY <1>8
<1>12. \A f \in Fill : OnTheWay(f)' => OnTheWay(f) \/ (f.id.client = c /\ f \in G)
  BY <1>9, <1>11
<1>13. \A f \in Fill : Known(f)' => Known(f) \/ (f.id.client = c /\ f \in G)
  BY <1>7, <1>12 DEF Known
<1>14. Streamed(c, G)'
  BY <1>10, <1>13 DEF Streamed
<1>15. Explained(c)'
  <2>1. CASE G = Whole(m)
    BY <1>6, <1>14, <2>1 DEF Explained, Streamed, Whole
  <2>2. CASE G = Lots(m)
    BY <1>6, <1>14, <2>2 DEF Explained, Streamed, Lots
  <2> QED BY <1>11, <2>1, <2>2
<1>16. ASSUME NEW d \in Client, d # c
       PROVE  Explained(d)'
  BY <1>6, <1>7, <1>12, <1>13, <1>16, ExplainedKept DEF Executed
<1>17. \A d \in Client : sends'[d] = 0 => sends[d] = 0
  BY <1>1, <1>2 DEF Sending, TypeInv, TypeOK
<1> QED BY <1>7, <1>15, <1>16, <1>17 DEF Executed

\* Steps that leave what recovery read as it is, and give it no new fill to book.
LEMMA FreshFrame ==
  ASSUME TypeInv, RecoveryIsFresh,
         \A c \in Client : order'[c].filled = order[c].filled /\ exch'[c].filled = exch[c].filled,
         \A w \in Worker : todo'[w] \subseteq todo[w],
         \A w \in Worker :
           \/ call'[w] = call[w] \/ call'[w].stage = "none"
           \/ call'[w].fill = None /\ todo'[w] = {}
           \/ /\ call[w].stage \in {"read", "write"}
              /\ call'[w].client = call[w].client /\ call'[w].fill = call[w].fill
  PROVE  RecoveryIsFresh'
<1>1. ASSUME NEW w \in Worker, NEW s \in todo'[w]
      PROVE  /\ s.row.filled = order'[s.client].filled
             /\ call'[w].stage # "none" => call'[w].client # s.client
             /\ \A t \in todo'[w] : t.client = s.client => t = s
  <2>1. s \in todo[w] /\ \A t \in todo'[w] : t \in todo[w]
    BY <1>1
  <2>2. s.client \in Client
    BY <2>1 DEF TypeInv, TypeOK, Snapshot
  <2>3. /\ s.row.filled = order[s.client].filled
        /\ call[w].stage # "none" => call[w].client # s.client
        /\ \A t \in todo[w] : t.client = s.client => t = s
    BY <2>1 DEF RecoveryIsFresh
  <2> QED BY <1>1, <2>1, <2>2, <2>3
<1>2. ASSUME NEW w \in Worker, call'[w].stage \in {"read", "write"}, call'[w].fill # None
      PROVE  /\ order'[call'[w].client].filled + call'[w].fill.qty = exch'[call'[w].client].filled
             /\ call'[w].fill.id.tag # "exec"
  <2>1. /\ call[w].stage \in {"read", "write"}
        /\ call'[w].client = call[w].client /\ call'[w].fill = call[w].fill
    BY <1>2
  <2>2. call[w].client \in Client
    BY <2>1 DEF TypeInv, WellFormed, Actor
  <2> QED BY <1>2, <2>1, <2>2 DEF RecoveryIsFresh
<1> QED BY <1>1, <1>2 DEF RecoveryIsFresh

\* An operation that books nothing.
LEMMA TracedOperation ==
  ASSUME TypeInv, Inv, Executed, RecoveryIsFresh, NEW a \in Actor, Operation(a), ~WriteFill(a)
  PROVE  Executed' /\ RecoveryIsFresh'
<1>1. UNCHANGED <<fills, exch, sends>>
  BY DEF Operation, ReadTransition, WriteTransition, ReadFill, Settle, db, venue
<1>2. \A c \in Client : order'[c].filled = order[c].filled
  <2>1. CASE WriteTransition(a)
    <3> DEFINE k == call[a]
    <3>1. order \in [Client -> Row] /\ k.client \in Client
      BY <2>1 DEF WriteTransition, Transitioning, TypeInv, TypeOK, WellFormed
    <3>2. \/ order' = order
          \/ order' = [order EXCEPT ![k.client].status = k.next.status,
                                   ![k.client].bound = @ \/ k.bind]
      BY <2>1 DEF WriteTransition
    <3> HIDE DEF k
    <3> QED BY <3>1, <3>2 DEF Row
  <2>2. CASE ~WriteTransition(a)
    BY <2>2 DEF Operation, ReadTransition, ReadFill, Settle, db
  <2> QED BY <2>1, <2>2
<1>3. Executed'
  BY <1>1, <1>2, WayOfOperation, ExecutedFrame
<1>4. \A w \in Worker : todo'[w] \subseteq todo[w]
  <2>1. CASE UNCHANGED control
    BY <2>1 DEF control
  <2>2. CASE Return(a) \/ Raise(a)
    BY <2>2, InvControl
  <2> QED BY <2>1, <2>2, CallerMoves
<1>5. \/ call'[a].stage = "none"
      \/ /\ call[a].stage \in {"read", "write"}
         /\ call'[a].client = call[a].client /\ call'[a].fill = call[a].fill
  <2>1. CASE call' = [call EXCEPT ![a] = NoCall]
    BY <2>1, NoCallOK DEF TypeInv, TypeOK
  <2>2. CASE /\ \E n : call' = [call EXCEPT ![a].stage = "write", ![a].next = n]
             /\ call[a].stage = "read"
    BY <2>2 DEF TypeInv, TypeOK, Call
  <2> QED
    BY <2>1, <2>2
    DEF Operation, ReadTransition, WriteTransition, ReadFill, Settle, Return, Raise,
        Transitioning, Filling
<1>6. \A w \in Worker : w # a => call'[w] = call[w]
  BY CallerMoves DEF Actor
<1> QED BY <1>1, <1>2, <1>3, <1>4, <1>5, <1>6, FreshFrame

\* A fill that is booked was on its way, or recovery found it missing.
LEMMA TracedFill ==
  ASSUME TypeInv, Inv, Busy, StartupAlone, OneAtATime, Exact, Executed, RecoveryIsFresh,
         NEW a \in Actor, WriteFill(a)
  PROVE  Executed' /\ RecoveryIsFresh'
<1>1. call[a].stage = "write" /\ call[a].fill # None /\ UNCHANGED <<exch, sends, queue>>
  BY DEF WriteFill, Filling, venue
<1>2. CASE UNCHANGED <<order, fills>> /\ Return(a)
  <2>1. Operation(a)
    BY DEF Operation
  <2>2. Executed'
    BY <1>1, <1>2, <2>1, WayOfOperation, ExecutedFrame
  <2>3. \A w \in Worker : todo'[w] \subseteq todo[w]
    BY <1>2, InvControl
  <2>4. \A w \in Worker : call'[w] = call[w] \/ call'[w].stage = "none"
    BY <1>2, NoCallOK DEF Return, TypeInv, TypeOK, Actor
  <2> QED BY <1>1, <1>2, <2>2, <2>3, <2>4, FreshFrame
<1>3. CASE /\ ~IsBooked(call[a].fill)
           /\ order' = [order EXCEPT ![call[a].fill.id.client] = call[a].next]
           /\ fills' = [fills EXCEPT ![call[a].fill.id] = call[a].fill.qty]
           /\ call' = [call EXCEPT ![a].stage = "settle"]
           /\ UNCHANGED control
  <2>1. PICK f \in Fill, c \in Client : f = call[a].fill /\ c = call[a].client
    BY <1>1, CallFacts
  <2>2. f.id \in FillId /\ f.id.client = c /\ f.qty \in 1..Qty /\ f.qty > 0 /\ sends[c] = 1
    BY <1>1, <2>1, CallFacts DEF Fill
  <2>3. /\ fills'[f.id] = f.qty /\ \A i \in FillId : i # f.id => fills'[i] = fills[i]
        /\ \A d \in Client : d # c => order'[d] = order[d]
        /\ order'[c].filled = order[c].filled + f.qty
        /\ order[c].filled \in Nat /\ exch[c].filled \in Nat
    <3>1. call[a].next.filled = Total(order[c], f)
      BY <1>1, <2>1 DEF Exact, Current
    <3>2. order'[c] = call[a].next /\ \A d \in Client : d # c => order'[d] = order[d]
      BY <1>3, <2>1, <2>2 DEF TypeInv, TypeOK
    <3>3. fills'[f.id] = f.qty /\ \A i \in FillId : i # f.id => fills'[i] = fills[i]
      BY <1>3, <2>1, <2>2 DEF TypeInv, TypeOK
    <3> QED BY <3>1, <3>2, <3>3, QtyAssumption DEF Total, TypeInv, TypeOK, Row
  <2>4. \A g \in Fill : OnTheWay(g)' => OnTheWay(g)
    BY WayOfOperation DEF Operation
  <2>5. \A g \in Fill : Known(g)' => Known(g) \/ g = f
    <3>1. ASSUME NEW g \in Fill, fills'[g.id] = g.qty, g # f
          PROVE  fills[g.id] = g.qty
      <4>1. g.id \in FillId /\ (g.id = f.id => g.qty # f.qty)
        BY <3>1 DEF Fill
      <4> QED BY <2>3, <3>1, <4>1
    <3> QED BY <2>4, <3>1 DEF Known
  <2>6. \A d \in Client : sends'[d] = 0 => \A i \in IdsOf(d) : fills'[i] = 0
    BY <1>1, <2>2, <2>3 DEF Executed, IdsOf
  <2>7. ASSUME NEW d \in Client, d # c
        PROVE  Explained(d)'
    <3>1. \A g \in Fill : g.id.client = d => g # f
      BY <2>2, <2>7
    <3> QED BY <1>1, <2>3, <2>4, <2>5, <2>7, <3>1, ExplainedKept DEF Executed
  <2>8. call'[a].stage = "settle" /\ call'[a].client = c
        /\ \A w \in Worker : w # a => call'[w] = call[w]
    BY <1>3, <2>1 DEF TypeInv, TypeOK, Call, Actor
  <2>9. \A w \in Worker : todo[w] # {} \/ (call[w].stage # "none" /\ call[w].fill # None)
          => phase = "recovering" /\ w = Starter
    BY DEF StartupAlone, OneAtATime
  <2>10. CASE a = Stream
    <3>1. phase = "running"
      BY <1>1, <2>10 DEF StartupAlone
    <3>2. OnTheWay(f)
      BY <1>1, <2>1, <2>10 DEF OnTheWay
    <3>3. \A g \in Fill : Known(g)' => Known(g)
      BY <2>5, <3>2 DEF Known
    <3>4. Explained(c)'
      <4>1. PICK m : m = exch[c].filled /\ m = exch'[c].filled
        BY <1>1
      <4>2. ~CaughtUp(c)
        BY <2>2, <3>2 DEF CaughtUp
      <4>3. PICK G \in {Whole(m), Lots(m)} : Streamed(c, G)
        BY <4>1, <4>2 DEF Executed, Explained
      <4>4. Streamed(c, G)'
        BY <3>3, <4>3 DEF Streamed
      <4>5. CASE G = Whole(m)
        BY <4>1, <4>4, <4>5 DEF Explained, Streamed, Whole
      <4>6. CASE G = Lots(m)
        BY <4>1, <4>4, <4>6 DEF Explained, Streamed, Lots
      <4> QED BY <4>3, <4>5, <4>6
    <3>5. Executed'
      BY <2>6, <2>7, <3>4 DEF Executed
    <3>6. \A w \in Worker : w # Stream /\ todo'[w] = {}
            /\ (call'[w].stage = "none" \/ call'[w].fill = None)
      BY <1>3, <2>8, <2>9, <2>10, <3>1, StreamAssumption DEF control
    <3> QED BY <3>5, <3>6 DEF RecoveryIsFresh
  <2>11. CASE a \in Worker
    <3>1. phase = "recovering" /\ a = Starter
      BY <1>1, <2>9, <2>11
    <3>2. order'[c].filled <= exch'[c].filled
      BY <1>1, <2>1, <2>3, <2>11 DEF RecoveryIsFresh
    <3>3. \A g \in Fill : ~OnTheWay(g)
      BY <3>1 DEF StartupAlone, OnTheWay
    <3>4. CaughtUp(c)'
      BY <2>4, <3>2, <3>3 DEF CaughtUp
    <3>5. Executed'
      BY <2>6, <2>7, <3>4 DEF Executed, Explained
    <3>6. ASSUME NEW w \in Worker, NEW s \in todo'[w]
          PROVE  /\ s.row.filled = order'[s.client].filled
                 /\ call'[w].stage # "none" => call'[w].client # s.client
                 /\ \A t \in todo'[w] : t.client = s.client => t = s
      <4>1. todo' = todo /\ w = a
        BY <1>3, <2>9, <3>1, <3>6 DEF control
      <4>2. s.client \in Client
        BY <3>6, <4>1 DEF TypeInv, TypeOK, Snapshot
      <4>3. /\ s.row.filled = order[s.client].filled /\ s.client # c
            /\ \A t \in todo[w] : t.client = s.client => t = s
        BY <1>1, <2>1, <3>6, <4>1 DEF RecoveryIsFresh
      <4> QED BY <2>3, <2>8, <4>1, <4>2, <4>3
    <3>7. \A w \in Worker : call'[w].stage \in {"read", "write"} => call'[w].fill = None
      <4>1. \A w \in Worker : w # a /\ call[w].stage # "none" => call[w].fill = None
        BY <2>9, <3>1
      <4> QED BY <2>8, <4>1
    <3> QED BY <3>5, <3>6, <3>7 DEF RecoveryIsFresh
  <2> QED BY <2>10, <2>11 DEF Actor
<1> QED BY <1>2, <1>3 DEF WriteFill

LEMMA TracedStart == Init => Executed /\ RecoveryIsFresh
<1> SUFFICES ASSUME Init PROVE Executed /\ RecoveryIsFresh
  OBVIOUS
<1>1. \A c \in Client : CaughtUp(c)
  BY NoCallOK DEF Init, NoRow, CaughtUp, OnTheWay, Actor
<1>2. \A c \in Client : \A i \in IdsOf(c) : fills[i] = 0
  BY DEF Init, IdsOf
<1>3. RecoveryIsFresh
  BY NoCallOK DEF Init, RecoveryIsFresh, Actor
<1> QED BY <1>1, <1>2, <1>3 DEF Executed, Explained

\* A recovery fill is of what the exchange executed and the row does not have.
LEMMA RemedyFill ==
  ASSUME TypeInv, NEW c \in Client, NEW row \in Row
  PROVE  LET k == Remedy(c, row)
         IN /\ k.stage # "none" => k.client = c
            /\ k.stage # "none" /\ k.fill # None =>
                 row.filled + k.fill.qty = exch[c].filled /\ k.fill.id.tag # "exec"
<1> DEFINE m == Missing(c, row)
           n == exch[c].filled
           Good(k) == /\ k.stage # "none" => k.client = c
                      /\ k.stage # "none" /\ k.fill # None =>
                           row.filled + k.fill.qty = n /\ k.fill.id.tag # "exec"
<1>1. row.filled \in Nat /\ n \in Nat /\ row.filled + m = n
  BY QtyAssumption DEF TypeInv, TypeOK, Row, Missing
<1>2. \A e, b : Good(TransitionCall(c, e, None, b))
  BY DEF TransitionCall
<1>3. \A t, i : t # "exec" => Good(RecoveryFill(c, t, i, m))
  BY <1>1 DEF RecoveryFill, FillCall
<1>4. Good(NoCall)
  BY NoCallOK
<1> HIDE DEF m, n, Good
<1>5. Good(Remedy(c, row))
  BY <1>2, <1>3, <1>4 DEF Remedy, m
<1> QED BY <1>5 DEF Good, n

LEMMA TracedDeliver ==
  ASSUME TypeInv, Executed, RecoveryIsFresh, Deliver
  PROVE  Executed' /\ RecoveryIsFresh'
<1> DEFINE e == Head(queue)
<1>1. /\ UNCHANGED <<order, fills, exch, sends, todo>> /\ queue # <<>> /\ queue' = Tail(queue)
      /\ queue \in Seq(Event)
  BY DEF Deliver, db, venue, control, TypeInv, TypeOK
<1>2. Stream \in Actor /\ \A w \in Worker : call'[w] = call[w]
  BY StreamAssumption DEF Deliver, Actor, TypeInv, TypeOK
<1>3. \/ call'[Stream] = call[Stream] \/ call'[Stream].fill = None
      \/ e.kind = "fill" /\ call'[Stream].fill = e.fill
  <2>1. \A c, t, o, b : TransitionCall(c, t, o, b).fill = None
    BY DEF TransitionCall
  <2>2. \A f : FillCall(f).fill = f
    BY DEF FillCall
  <2>3. \/ call' = call
        \/ e.kind = "fill" /\ call' = [call EXCEPT ![Stream] = FillCall(e.fill)]
        \/ call' = [call EXCEPT ![Stream] = TransitionCall(e.client, e.kind, e, e.kind = "ACKNOWLEDGED")]
    BY DEF Deliver
  <2> HIDE DEF e
  <2> QED BY <1>2, <2>1, <2>2, <2>3 DEF TypeInv, TypeOK
<1>4. 1 \in DOMAIN queue /\ queue[1] = e
      /\ \A i \in DOMAIN queue' : i + 1 \in DOMAIN queue /\ queue'[i] = queue[i + 1]
  BY <1>1
<1> HIDE DEF e
<1>5. \A f \in Fill : OnTheWay(f)' => OnTheWay(f)
  BY <1>3, <1>4 DEF OnTheWay
<1>6. Executed'
  BY <1>1, <1>5, ExecutedFrame
<1>7. RecoveryIsFresh'
  BY <1>1, <1>2, FreshFrame
<1> QED BY <1>6, <1>7

LEMMA TracedStep ==
  ASSUME NothingUnknown, ExchangeSurvives
  PROVE  /\ TypeInv /\ Inv /\ Busy /\ StartupAlone /\ OneAtATime /\ Exact
         /\ Executed /\ RecoveryIsFresh /\ [Next]_vars
         => Executed' /\ RecoveryIsFresh'
<1> SUFFICES ASSUME TypeInv, Inv, Busy, StartupAlone, OneAtATime, Exact,
                    Executed, RecoveryIsFresh, [Next]_vars
             PROVE  Executed' /\ RecoveryIsFresh'
  OBVIOUS
<1>0. Stream \in Actor /\ \A w \in Worker : w \in Actor /\ w # Stream
  BY StreamAssumption DEF Actor
<1>1. ASSUME UNCHANGED <<fills, exch, sends, queue, call>>,
             \A c \in Client : order'[c].filled = order[c].filled,
             \A w \in Worker : todo'[w] \subseteq todo[w]
      PROVE  Executed' /\ RecoveryIsFresh'
  <2>1. \A f \in Fill : OnTheWay(f)' => OnTheWay(f)
    BY <1>1 DEF OnTheWay
  <2>2. Executed'
    BY <1>1, <2>1, ExecutedFrame
  <2>3. RecoveryIsFresh'
    BY <1>1, FreshFrame
  <2> QED BY <2>2, <2>3
<1>2. ASSUME NEW w \in Worker, NEW c \in Client, Dispatch(w, c) \/ Retry(w, c)
      PROVE  UNCHANGED <<order, fills, exch, sends, queue, call, todo>>
  BY <1>2 DEF Dispatch, Retry, vars, db, venue, control
<1>3. ASSUME NEW w \in Worker, SendDisconnected(w) \/ Recovered(w)
      PROVE  UNCHANGED <<order, fills, exch, sends, queue, call, todo>>
  BY <1>3 DEF SendDisconnected, Recovered, db, venue
<1>4. ASSUME Start \/ UNCHANGED vars
      PROVE  UNCHANGED <<order, fills, exch, sends, queue, call, todo>>
  BY <1>4 DEF Start, vars, db, venue, control
<1>5. ASSUME NEW w \in Worker,
             Create(w) \/ Validate(w) \/ Submitting(w) \/ Submitted(w)
      PROVE  Executed' /\ RecoveryIsFresh'
  <2>1. PICK from \in BeforeSubmit, event \in Status,
             to \in {"validate", "submitting", "submitted", "send"} :
               Advance(w, from, event, to)
    BY <1>5, StatusFacts DEF Create, Validate, Submitting, Submitted
  <2>2. /\ UNCHANGED <<fills, exch, sends, queue, call, todo>>
        /\ \A c \in Client : order'[c].filled = order[c].filled
    BY <2>1 DEF Advance, venue, TypeInv, TypeOK, Row
  <2> QED BY <1>1, <2>2
<1>6. ASSUME NEW w \in Worker, SendAccepted(w) \/ SendUnknown(w) \/ SendFailed(w)
      PROVE  Executed' /\ RecoveryIsFresh'
  <2>1. ~SendUnknown(w)
    BY DEF SendUnknown, Sending, NothingUnknown
  <2>2. PICK label, event, bind, outcome : Sending(w, outcome) /\ Calls(w, label, event, bind)
    BY <1>6, <2>1 DEF SendAccepted, SendFailed
  <2>3. pc[w] = "send" /\ UNCHANGED <<order, fills, todo>>
        /\ job[w] \in Client /\ sends' = [sends EXCEPT ![job[w]] = @ + 1]
    BY <2>2 DEF Sending, db, TypeInv, WellFormed
  <2>4. phase = "running"
    BY <2>3 DEF StartupAlone
  <2>5. call'[Stream] = call[Stream]
        /\ \A v \in Worker : call'[v] = call[v] \/ call'[v].fill = None
    <3>1. call' = [call EXCEPT ![w] = TransitionCall(job[w], event, None, bind)]
          /\ TransitionCall(job[w], event, None, bind).fill = None
      BY <2>2 DEF Calls, TransitionCall
    <3> QED BY <1>0, <3>1 DEF TypeInv, TypeOK
  <2>6. \A v \in Worker : todo[v] = {} /\ (call[v].stage # "none" => call[v].fill = None)
    BY <2>4 DEF StartupAlone, OneAtATime
  <2>7. RecoveryIsFresh'
    BY <2>3, <2>5, <2>6 DEF RecoveryIsFresh
  <2>8. CASE SendAccepted(w)
    BY <2>7, <2>8, ExecutedSend
  <2>9. CASE SendFailed(w)
    <3>1. UNCHANGED <<exch, queue>>
      BY <2>9 DEF SendFailed
    <3>2. \A f \in Fill : OnTheWay(f)' => OnTheWay(f)
      BY <2>5, <3>1 DEF OnTheWay
    <3>3. \A c \in Client : sends'[c] = 0 => sends[c] = 0
      BY <2>3 DEF TypeInv, TypeOK
    <3> QED BY <2>3, <2>7, <3>1, <3>2, <3>3, ExecutedFrame
  <2> QED BY <1>6, <2>1, <2>8, <2>9
<1>7. ASSUME NEW a \in Actor, Operation(a)
      PROVE  Executed' /\ RecoveryIsFresh'
  BY <1>7, TracedOperation, TracedFill
<1>8. CASE Deliver
  BY <1>8, TracedDeliver
<1>9. ASSUME NEW w \in Worker, ListOpen(w)
      PROVE  Executed' /\ RecoveryIsFresh'
  <2>1. UNCHANGED <<order, fills, exch, sends, queue, call>> /\ call[w].stage = "none"
    BY <1>9 DEF ListOpen, db, venue, Busy
  <2>2. /\ \A v \in Worker : v # w => todo'[v] = todo[v]
        /\ todo'[w] = {[client |-> c, row |-> order[c]] : c \in {d \in Client : order[d].status \in Listed}}
    BY <1>9 DEF ListOpen, TypeInv, TypeOK
  <2>3. Executed'
    <3>1. \A f \in Fill : OnTheWay(f)' => OnTheWay(f)
      BY <2>1 DEF OnTheWay
    <3> QED BY <2>1, <3>1, ExecutedFrame
  <2>4. \A s \in todo'[w] : s.row = order[s.client] /\ s = [client |-> s.client, row |-> s.row]
    BY <2>2
  <2>5. RecoveryIsFresh'
    <3>1. ASSUME NEW v \in Worker, NEW s \in todo'[v]
          PROVE  /\ s.row.filled = order'[s.client].filled
                 /\ call'[v].stage # "none" => call'[v].client # s.client
                 /\ \A t \in todo'[v] : t.client = s.client => t = s
      <4>1. CASE v = w
        BY <2>1, <2>4, <3>1, <4>1
      <4>2. CASE v # w
        BY <2>1, <2>2, <3>1, <4>2 DEF RecoveryIsFresh
      <4> QED BY <4>1, <4>2
    <3>2. \A v \in Worker : call'[v].stage \in {"read", "write"} /\ call'[v].fill # None =>
            /\ order'[call'[v].client].filled + call'[v].fill.qty = exch'[call'[v].client].filled
            /\ call'[v].fill.id.tag # "exec"
      BY <2>1 DEF RecoveryIsFresh
    <3> QED BY <3>1, <3>2 DEF RecoveryIsFresh
  <2> QED BY <2>3, <2>5
<1>10. ASSUME NEW w \in Worker, Recover(w)
       PROVE  Executed' /\ RecoveryIsFresh'
  <2>1. PICK s \in todo[w] : /\ todo' = [todo EXCEPT ![w] = @ \ {s}]
                             /\ call' = [call EXCEPT ![w] = Remedy(s.client, s.row)]
    BY <1>10 DEF Recover
  <2>2. UNCHANGED <<order, fills, exch, sends, queue>>
    BY <1>10 DEF Recover, db, venue
  <2> DEFINE k == Remedy(s.client, s.row)
  <2>3. s.client \in Client /\ s.row \in Row
    BY <2>1 DEF TypeInv, TypeOK, Snapshot
  <2>4. /\ k.stage # "none" => k.client = s.client
        /\ k.stage # "none" /\ k.fill # None =>
             s.row.filled + k.fill.qty = exch[s.client].filled /\ k.fill.id.tag # "exec"
    BY <2>3, RemedyFill
  <2>5. /\ call'[w] = k /\ \A b \in Actor : b # w => call'[b] = call[b]
        /\ todo'[w] = todo[w] \ {s} /\ \A v \in Worker : v # w => todo'[v] = todo[v]
    BY <1>0, <2>1 DEF TypeInv, TypeOK
  <2> HIDE DEF k
  <2>6. Executed'
    <3>1. \A f \in Fill : OnTheWay(f)' => OnTheWay(f)
      BY <1>0, <2>2, <2>5 DEF OnTheWay
    <3> QED BY <2>2, <3>1, ExecutedFrame
  <2>7. s.row.filled = order[s.client].filled
        /\ \A t \in todo[w] : t.client = s.client => t = s
    BY <2>1 DEF RecoveryIsFresh
  <2>8. ASSUME NEW v \in Worker, NEW r \in todo'[v]
        PROVE  /\ r.row.filled = order'[r.client].filled
               /\ call'[v].stage # "none" => call'[v].client # r.client
               /\ \A t \in todo'[v] : t.client = r.client => t = r
    <3>1. CASE v = w
      <4>1. r \in todo[w] /\ r # s /\ \A t \in todo'[w] : t \in todo[w]
        BY <2>5, <2>8, <3>1
      <4>2. r.client # s.client
        BY <2>7, <4>1
      <4> QED BY <2>2, <2>4, <2>5, <3>1, <4>1, <4>2 DEF RecoveryIsFresh
    <3>2. CASE v # w
      BY <1>0, <2>2, <2>5, <2>8, <3>2 DEF RecoveryIsFresh
    <3> QED BY <3>1, <3>2
  <2>9. ASSUME NEW v \in Worker, call'[v].stage \in {"read", "write"}, call'[v].fill # None
        PROVE  /\ order'[call'[v].client].filled + call'[v].fill.qty = exch'[call'[v].client].filled
               /\ call'[v].fill.id.tag # "exec"
    <3>1. CASE v = w
      <4>1. /\ k.client = s.client /\ order[s.client].filled + k.fill.qty = exch[s.client].filled
            /\ k.fill.id.tag # "exec"
        BY <2>4, <2>5, <2>7, <2>9, <3>1
      <4>2. exch[s.client].filled \in Nat
        BY <2>3, QtyAssumption DEF TypeInv, TypeOK
      <4> QED BY <2>2, <2>5, <3>1, <4>1, <4>2
    <3>2. CASE v # w
      BY <1>0, <2>2, <2>5, <2>9, <3>2 DEF RecoveryIsFresh
    <3> QED BY <3>1, <3>2
  <2>10. RecoveryIsFresh'
    BY <2>8, <2>9 DEF RecoveryIsFresh
  <2> QED BY <2>6, <2>10
<1>11. CASE Crash
  <2>1. UNCHANGED <<order, fills, exch, sends>> /\ queue' = <<>>
        /\ \A a \in Actor : call'[a].stage = "none"
        /\ \A w \in Worker : todo'[w] = {}
    BY <1>11, NoCallOK DEF Crash, db
  <2>2. \A f \in Fill : OnTheWay(f)' => OnTheWay(f)
    BY <1>0, <2>1 DEF OnTheWay
  <2>3. Executed'
    BY <2>1, <2>2, ExecutedFrame
  <2>4. RecoveryIsFresh'
    BY <1>0, <2>1 DEF RecoveryIsFresh
  <2> QED BY <2>3, <2>4
<1> QED
  BY <1>1, <1>2, <1>3, <1>4, <1>5, <1>6, <1>7, <1>8, <1>9, <1>10, <1>11
  DEF Next, Submission, Recovery

\* What one price or the lots of an execution add up to is what was executed.
LEMMA WholeSum ==
  ASSUME NEW v \in [FillId -> Nat], NEW c \in Client, NEW m \in 0..Qty,
         \A i \in IdsOf(c) : v[i] = 0 \/ (i.tag = "exec" /\ i.n = 1 /\ v[i] = m)
  PROVE  Sum(v, IdsOf(c)) <= m
<1> DEFINE y == [client |-> c, tag |-> "exec", n |-> 1]
           z == [i \in FillId |-> 0]
           w == [i \in FillId |-> IF i = y THEN v[i] ELSE 0]
<1>1. y \in FillId /\ y.client = c /\ m \in Nat
  BY QtyAssumption DEF FillId
<1>2. z \in [FillId -> Nat] /\ w \in [FillId -> Nat] /\ z[y] = 0 /\ w[y] = v[y]
      /\ \A i \in FillId : i # y => w[i] = z[i]
  BY <1>1
<1>3. \A i \in IdsOf(c) : w[i] = v[i]
  BY DEF IdsOf, FillId
<1>4. Sum(z, IdsOf(c)) = 0
  BY <1>2, BookedNone DEF IdsOf
<1>5. v[y] <= m
  BY <1>1 DEF IdsOf
<1> HIDE DEF w, z, y
<1>6. Sum(w, IdsOf(c)) = Sum(z, IdsOf(c)) + w[y]
  BY <1>1, <1>2, IdsSum
<1>7. Sum(w, IdsOf(c)) = Sum(v, IdsOf(c))
  <2>1. IsFiniteSet(IdsOf(c)) /\ \A x \in IdsOf(c) : v[x] \in Nat
    BY IdsFinite DEF IdsOf
  <2> QED BY <1>3, <2>1, SumAgree
<1>8. v[y] \in Nat
  BY <1>1
<1> QED BY <1>1, <1>2, <1>4, <1>5, <1>6, <1>7, <1>8

LEMMA LotsSum ==
  ASSUME NEW v \in [FillId -> Nat], NEW c \in Client, NEW m \in 0..Qty,
         \A i \in IdsOf(c) : v[i] = 0 \/ (i.tag = "exec" /\ i.n \in 1..m /\ v[i] = 1)
  PROVE  Sum(v, IdsOf(c)) <= m
<1> DEFINE w(k) == [i \in FillId |-> IF i.client = c /\ i.tag = "exec" /\ i.n <= k /\ i.n > 0
                                     THEN v[i] ELSE 0]
           T == {k \in 0..m : Sum(w(k), IdsOf(c)) <= k}
<1>1. m \in Nat /\ m <= Qty /\ Qty \in Nat
  BY QtyAssumption
<1>2. \A k \in 0..m : w(k) \in [FillId -> Nat] /\ Sum(w(k), IdsOf(c)) \in Nat
  <2>1. ASSUME NEW k \in 0..m
        PROVE  w(k) \in [FillId -> Nat]
    OBVIOUS
  <2> HIDE DEF w
  <2> QED BY <2>1, BookedIs
<1>3. 0 \in T
  <2>1. \A i \in IdsOf(c) : w(0)[i] = 0
    <3>1. \A i \in FillId : i.n \in Nat
      BY <1>1 DEF FillId
    <3> QED BY <3>1 DEF IdsOf
  <2> HIDE DEF w
  <2>2. Sum(w(0), IdsOf(c)) = 0
    BY <1>1, <1>2, <2>1, BookedNone
  <2> QED BY <1>1, <2>2
<1>4. ASSUME NEW k \in 1..m, k - 1 \in T
      PROVE  k \in T
  <2> DEFINE y == [client |-> c, tag |-> "exec", n |-> k]
  <2>1. y \in FillId /\ y \in IdsOf(c) /\ y.client = c /\ y.n = k
    BY <1>1 DEF FillId, IdsOf
  <2>2. k \in 0..m /\ k - 1 \in 0..m /\ k \in Nat /\ ~(k <= k - 1)
    BY <1>1
  <2>3. w(k - 1)[y] = 0 /\ w(k)[y] = v[y]
    BY <2>1, <2>2
  <2>4. \A i \in FillId : i # y => w(k)[i] = w(k - 1)[i]
    <3>1. ASSUME NEW i \in FillId, i # y
          PROVE  w(k)[i] = w(k - 1)[i]
      <4>1. i.n \in Nat /\ ~(i.client = c /\ i.tag = "exec" /\ i.n = k)
        BY <1>1, <3>1 DEF FillId
      <4>2. i.n <= k /\ i.n # k <=> i.n <= k - 1
        BY <2>2, <4>1
      <4> QED BY <2>2, <4>1, <4>2
    <3> QED BY <3>1
  <2>5. v[y] \in 0..1
    BY <2>1
  <2> HIDE DEF w, y
  <2>6. Sum(w(k), IdsOf(c)) = Sum(w(k - 1), IdsOf(c)) + w(k)[y]
    BY <1>2, <2>1, <2>2, <2>3, <2>4, IdsSum
  <2> QED BY <1>2, <1>4, <2>2, <2>3, <2>5, <2>6
<1>5. m \in T
  <2> HIDE DEF T
  <2> QED BY <1>1, <1>3, <1>4, ReachesAll
<1>6. \A i \in IdsOf(c) : w(m)[i] = v[i]
  <2>1. ASSUME NEW i \in IdsOf(c)
        PROVE  w(m)[i] = v[i]
    <3>1. i \in FillId /\ i.client = c /\ i.n \in Nat
      BY <1>1 DEF IdsOf, FillId
    <3> QED BY <1>1, <3>1
  <2> QED BY <2>1
<1> HIDE DEF w
<1>7. Sum(w(m), IdsOf(c)) = Sum(v, IdsOf(c))
  <2>1. IsFiniteSet(IdsOf(c)) /\ \A x \in IdsOf(c) : v[x] \in Nat
    BY IdsFinite DEF IdsOf
  <2> QED BY <1>6, <2>1, SumAgree
<1> QED BY <1>5, <1>7

\* The books of an order never exceed what the exchange executed of it.
LEMMA WithinExecuted ==
  ASSUME TypeInv, Exact, Executed
  PROVE  FilledWithinExecuted
<1> SUFFICES ASSUME NEW c \in Client PROVE order[c].filled <= exch[c].filled
  BY DEF FilledWithinExecuted
<1> DEFINE m == exch[c].filled
<1>1. m \in 0..Qty
  BY DEF TypeInv, TypeOK
<1>2. PICK v \in [FillId -> Nat] : v = fills
  BY QtyAssumption DEF TypeInv, TypeOK
<1>3. order[c].filled = Sum(v, IdsOf(c))
  BY <1>2, BookedFacts DEF Exact, FilledIsBooked
<1>4. ASSUME NEW i \in IdsOf(c), v[i] # 0
      PROVE  LET f == [id |-> i, qty |-> v[i]]
             IN f \in Fill /\ f.id.client = c /\ Known(f) /\ f.id = i /\ f.qty = v[i]
  <2>1. i \in FillId /\ i.client = c /\ v[i] \in 1..Qty
    BY <1>2, <1>4, QtyAssumption DEF IdsOf, TypeInv, TypeOK
  <2> QED BY <1>2, <2>1 DEF Fill, Known
<1>5. CASE Streamed(c, Whole(m))
  <2>1. \A i \in IdsOf(c) : v[i] = 0 \/ (i.tag = "exec" /\ i.n = 1 /\ v[i] = m)
    BY <1>4, <1>5 DEF Streamed, Whole
  <2> HIDE DEF m
  <2>2. Sum(v, IdsOf(c)) <= m
    BY <1>1, <2>1, WholeSum
  <2> QED BY <1>3, <2>2 DEF m
<1>6. CASE Streamed(c, Lots(m))
  <2>1. \A i \in IdsOf(c) : v[i] = 0 \/ (i.tag = "exec" /\ i.n \in 1..m /\ v[i] = 1)
    BY <1>4, <1>6 DEF Streamed, Lots
  <2> HIDE DEF m
  <2>2. Sum(v, IdsOf(c)) <= m
    BY <1>1, <2>1, LotsSum
  <2> QED BY <1>3, <2>2 DEF m
<1> QED BY <1>5, <1>6 DEF Executed, Explained, CaughtUp

\* The fill state of an order is exact where no outcome is unknown: the stream, the
\* recovery and any number of workers lose none of each other's updates, through
\* crashes and repeated events, and take nothing that the exchange did not do.
THEOREM FilledStaysExact ==
  ASSUME NothingUnknown, ExchangeSurvives
  PROVE  Spec => []FilledIsExact
<1> DEFINE All == /\ Busy /\ StartupAlone /\ OneAtATime /\ Exact
                  /\ Executed /\ RecoveryIsFresh
<1>1. Init => All
  <2>1. Init => Busy /\ StartupAlone
    BY NoCallOK DEF Init, Busy, StartupAlone, Actor
  <2> QED BY <2>1, OneAtATimeStart, ExactStart, TracedStart
<1>2. TypeInv /\ Inv /\ All /\ [Next]_vars => All'
  BY DownFollows, BusyStep, StartupStep, OneAtATimeStep, ExactStep, TracedStep
<1>3. TypeInv /\ All => FilledIsExact
  BY WithinExecuted DEF FilledIsExact, Exact
<1> HIDE DEF All
<1> QED BY <1>1, <1>2, <1>3, Invariance, PTL DEF Spec

-----------------------------------------------------------------------------

\* When startup recovery is done, the disk agrees with the exchange.

\* Undisturbed by anybody, startup recovery is thorough: while it runs, every order
\* agrees with the exchange, or is listed, or is what recovery has in hand.
Agrees(c) ==
  IF exch[c].status = Absent
  THEN order[c].status \in Unsent \cup Terminal
  ELSE order[c].filled = exch[c].filled

Ahead(c) == \E s \in todo[Starter] : s.client = c

InHand(c) ==
  /\ call[Starter].stage \in {"read", "write"} /\ call[Starter].client = c
  /\ IF exch[c].status = Absent
     THEN /\ call[Starter].fill = None
          /\ call[Starter].event = "REJECTED" /\ call[Starter].origin = None
     ELSE call[Starter].fill # None

Thorough ==
  phase = "recovering" /\ pc[Starter] = "recover" =>
    \A c \in Client : Agrees(c) \/ Ahead(c) \/ InHand(c)

\* What the exchange says of an order is how far it is executed, nothing ever
\* cancels one, and the fills that recovery books leave nothing to be filled.
VenueIsPlain ==
  \A c \in Client :
    IF exch[c].status = Absent
    THEN exch[c].filled = 0
    ELSE exch[c].status = StatusAt(exch[c].filled) /\ sends[c] > 0

Uncancelled == \A c \in Client : order[c].status \notin Cancelling

Remedied ==
  \A i \in FillId : i.tag # "exec" /\ fills[i] # 0 =>
    order[i.client].filled = exch[i.client].filled

LEMMA VenueStep ==
  ASSUME NothingUnknown, ExchangeSurvives
  PROVE  TypeInv /\ VenueIsPlain /\ [Next]_vars => VenueIsPlain'
<1> SUFFICES ASSUME TypeInv, VenueIsPlain, [Next]_vars PROVE VenueIsPlain'
  OBVIOUS
<1>1. CASE UNCHANGED <<exch, sends>>
  BY <1>1 DEF VenueIsPlain
<1>2. ASSUME NEW w \in Worker, SendAccepted(w) \/ SendUnknown(w) \/ SendFailed(w)
      PROVE  VenueIsPlain'
  <2>1. ~SendUnknown(w)
    BY DEF SendUnknown, Sending, NothingUnknown
  <2>2. PICK outcome : Sending(w, outcome)
    BY <1>2, <2>1 DEF SendAccepted, SendFailed
  <2>3. /\ job[w] \in Client /\ sends[job[w]] \in Nat
        /\ sends'[job[w]] = sends[job[w]] + 1
        /\ \A c \in Client : c # job[w] => sends'[c] = sends[c]
    BY <2>2 DEF Sending, TypeInv, TypeOK, WellFormed
  <2>4. CASE SendFailed(w)
    BY <2>3, <2>4 DEF SendFailed, VenueIsPlain
  <2>5. CASE SendAccepted(w)
    <3>1. PICK m \in 0..Qty : exch' = [exch EXCEPT ![job[w]] = [status |-> StatusAt(m), filled |-> m]]
      BY <2>5 DEF SendAccepted
    <3>2. /\ exch'[job[w]].status = StatusAt(m) /\ exch'[job[w]].filled = m
          /\ \A c \in Client : c # job[w] => exch'[c] = exch[c]
      BY <2>3, <3>1 DEF TypeInv, TypeOK
    <3>3. StatusAt(m) # Absent
      BY DEF StatusAt, Absent
    <3>4. sends'[job[w]] > 0
      BY <2>3
    <3> QED BY <2>3, <3>2, <3>3, <3>4 DEF VenueIsPlain
  <2> QED BY <1>2, <2>1, <2>4, <2>5
<1>3. ASSUME NEW w \in Worker, \/ \E c \in Client : Dispatch(w, c) \/ Retry(w, c)
                               \/ Create(w) \/ Validate(w) \/ Submitting(w) \/ Submitted(w)
                               \/ SendDisconnected(w) \/ Recovery(w)
      PROVE  UNCHANGED <<exch, sends>>
  BY <1>3 DEF Dispatch, Retry, Create, Validate, Submitting, Submitted, Advance,
              SendDisconnected, Recovery, ListOpen, Recover, Recovered, venue, vars
<1>4. ASSUME Deliver \/ Start \/ Crash \/ UNCHANGED vars \/ \E a \in Actor : Operation(a)
      PROVE  UNCHANGED <<exch, sends>>
  BY <1>4 DEF Deliver, Start, Crash, Operation, ReadTransition, WriteTransition,
              ReadFill, WriteFill, Settle, venue, vars
<1> QED BY <1>1, <1>2, <1>3, <1>4 DEF Next, Submission

\* No transition and no fill cancels an order.
LEMMA NeverCancelled ==
  ASSUME NEW s \in Status \ Cancelling, NEW e \in Status \ Cancelling
  PROVE  After(s, e) \in Status \ Cancelling
BY DEF After

LEMMA UncancelledStep ==
  TypeInv /\ Inv /\ OneAtATime /\ Exact /\ Uncancelled /\ [Next]_vars => Uncancelled'
<1> SUFFICES ASSUME TypeInv, Inv, OneAtATime, Exact, Uncancelled, [Next]_vars PROVE Uncancelled'
  OBVIOUS
<1>1. CASE UNCHANGED order
  BY <1>1 DEF Uncancelled
<1>2. ASSUME NEW w \in Worker, Create(w) \/ Validate(w) \/ Submitting(w) \/ Submitted(w)
      PROVE  Uncancelled'
  <2>1. PICK from \in BeforeSubmit, event \in Status \ Cancelling,
             to \in {"validate", "submitting", "submitted", "send"} :
               Advance(w, from, event, to)
    BY <1>2, StatusFacts DEF Create, Validate, Submitting, Submitted, Cancelling
  <2>2. order' = [order EXCEPT ![job[w]].status = event]
    BY <2>1 DEF Advance
  <2> QED BY <2>1, <2>2 DEF Uncancelled, TypeInv, TypeOK, Row
<1>3. ASSUME NEW a \in Actor, call[a].stage = "write", NEW c \in Client, c = call[a].client,
             order'[c].status = call[a].next.status,
             \A d \in Client : d # c => order'[d] = order[d]
      PROVE  Uncancelled'
  <2>1. order[c].status \in Status \ Cancelling /\ call[a].event \in Status \ Cancelling
    BY <1>3, CallFacts DEF Uncancelled, OneAtATime, Meant, Call
  <2>2. call[a].next.status \in Status \ Cancelling
    <3>1. CASE call[a].fill = None
      BY <1>3, <2>1, <3>1, NeverCancelled DEF Exact, Current
    <3>2. CASE call[a].fill # None
      <4> DEFINE e == FillEvent(order[c], call[a].fill)
      <4>1. e \in Status \ Cancelling
        BY StatusFacts DEF FillEvent, Cancelling
      <4>2. call[a].next.status = After(order[c].status, e)
        BY <1>3, <3>2 DEF Exact, Current
      <4> HIDE DEF e
      <4> QED BY <2>1, <4>1, <4>2, NeverCancelled
    <3> QED BY <3>1, <3>2
  <2> QED BY <1>3, <2>2 DEF Uncancelled
<1>4. ASSUME NEW a \in Actor, WriteTransition(a)
      PROVE  Uncancelled'
  <2>1. call[a].stage = "write"
    BY <1>4 DEF WriteTransition, Transitioning
  <2>2. PICK c \in Client : c = call[a].client
    BY <2>1, CallFacts
  <2>3. CASE order' = [order EXCEPT ![call[a].client].status = call[a].next.status,
                                   ![call[a].client].bound = @ \/ call[a].bind]
    <3>1. order'[c].status = call[a].next.status /\ \A d \in Client : d # c => order'[d] = order[d]
      BY <2>2, <2>3 DEF TypeInv, TypeOK, Row
    <3> QED BY <1>3, <2>1, <2>2, <3>1
  <2> QED BY <1>1, <1>4, <2>3 DEF WriteTransition
<1>5. ASSUME NEW a \in Actor, WriteFill(a)
      PROVE  Uncancelled'
  <2>1. call[a].stage = "write" /\ call[a].fill # None
    BY <1>5 DEF WriteFill, Filling
  <2>2. PICK c \in Client : c = call[a].client /\ call[a].fill.id.client = c
    BY <2>1, CallFacts
  <2>3. CASE order' = [order EXCEPT ![call[a].fill.id.client] = call[a].next]
    <3>1. order'[c].status = call[a].next.status /\ \A d \in Client : d # c => order'[d] = order[d]
      BY <2>2, <2>3 DEF TypeInv, TypeOK
    <3> QED BY <1>3, <2>1, <2>2, <3>1
  <2> QED BY <1>1, <1>5, <2>3 DEF WriteFill
<1>6. ASSUME NEW w \in Worker, \/ \E c \in Client : Dispatch(w, c) \/ Retry(w, c)
                               \/ SendAccepted(w) \/ SendUnknown(w) \/ SendFailed(w)
                               \/ SendDisconnected(w) \/ Recovery(w)
      PROVE  UNCHANGED order
  BY <1>6 DEF Dispatch, Retry, SendAccepted, SendUnknown, SendFailed, Sending,
              SendDisconnected, Recovery, ListOpen, Recover, Recovered, db, vars
<1>7. ASSUME \/ Deliver \/ Start \/ Crash \/ UNCHANGED vars
             \/ \E a \in Actor : ReadTransition(a) \/ ReadFill(a) \/ Settle(a)
      PROVE  UNCHANGED order
  BY <1>7 DEF Deliver, Start, Crash, ReadTransition, ReadFill, Settle, db, vars
<1> QED BY <1>1, <1>2, <1>4, <1>5, <1>6, <1>7 DEF Next, Submission, Operation

LEMMA RemediedFrame ==
  ASSUME Remedied, UNCHANGED fills,
         \A c \in Client : \/ order'[c].filled = order[c].filled /\ exch'[c].filled = exch[c].filled
                           \/ \A i \in IdsOf(c) : fills[i] = 0
  PROVE  Remedied'
<1> SUFFICES ASSUME NEW i \in FillId, i.tag # "exec", fills[i] # 0
             PROVE  order'[i.client].filled = exch'[i.client].filled
  BY DEF Remedied
<1>1. i.client \in Client /\ i \in IdsOf(i.client)
  BY DEF FillId, IdsOf
<1>2. order[i.client].filled = exch[i.client].filled
  BY DEF Remedied
<1> QED BY <1>1, <1>2

LEMMA RemediedStep ==
  ASSUME ExchangeSurvives
  PROVE  /\ TypeInv /\ Inv /\ StartupAlone /\ OneAtATime /\ Exact
         /\ Executed /\ RecoveryIsFresh /\ Remedied /\ FilledWithinExecuted' /\ [Next]_vars
         => Remedied'
<1> SUFFICES ASSUME TypeInv, Inv, StartupAlone, OneAtATime, Exact,
                    Executed, RecoveryIsFresh, Remedied, FilledWithinExecuted', [Next]_vars
             PROVE  Remedied'
  OBVIOUS
<1>1. CASE UNCHANGED <<order, fills, exch>>
  BY <1>1, RemediedFrame
<1>2. ASSUME NEW w \in Worker, Create(w) \/ Validate(w) \/ Submitting(w) \/ Submitted(w)
      PROVE  Remedied'
  <2>1. PICK from \in BeforeSubmit, event \in Status,
             to \in {"validate", "submitting", "submitted", "send"} :
               Advance(w, from, event, to)
    BY <1>2, StatusFacts DEF Create, Validate, Submitting, Submitted
  <2>2. UNCHANGED <<fills, exch>> /\ \A c \in Client : order'[c].filled = order[c].filled
    BY <2>1 DEF Advance, venue, TypeInv, TypeOK, Row
  <2> QED BY <2>2, RemediedFrame
<1>3. ASSUME NEW w \in Worker, SendAccepted(w) \/ SendUnknown(w) \/ SendFailed(w)
      PROVE  Remedied'
  <2>1. pc[w] = "send" /\ job[w] \in Client /\ UNCHANGED <<order, fills>>
    BY <1>3 DEF SendAccepted, SendUnknown, SendFailed, Sending, db, TypeInv, WellFormed
  <2>2. \A c \in Client : c # job[w] => exch'[c] = exch[c]
    BY <1>3, <2>1 DEF SendAccepted, SendUnknown, SendFailed, TypeInv, TypeOK
  <2>3. sends[job[w]] = 0
    BY <2>1 DEF Inv, NotYetSent
  <2>4. \A i \in IdsOf(job[w]) : fills[i] = 0
    BY <2>1, <2>3 DEF Executed
  <2> QED BY <2>1, <2>2, <2>4, RemediedFrame
<1>4. ASSUME NEW a \in Actor, WriteTransition(a)
      PROVE  Remedied'
  <2>1. UNCHANGED <<fills, exch>> /\ call[a].client \in Client /\ order \in [Client -> Row]
    BY <1>4 DEF WriteTransition, Transitioning, venue, TypeInv, TypeOK, WellFormed
  <2> DEFINE k == call[a]
  <2>2. \/ order' = order
        \/ order' = [order EXCEPT ![k.client].status = k.next.status,
                                 ![k.client].bound = @ \/ k.bind]
    BY <1>4 DEF WriteTransition
  <2> HIDE DEF k
  <2>3. \A c \in Client : order'[c].filled = order[c].filled
    BY <2>1, <2>2 DEF Row
  <2> QED BY <2>1, <2>3, RemediedFrame
<1>5. ASSUME NEW a \in Actor, WriteFill(a)
      PROVE  Remedied'
  <2>1. call[a].stage = "write" /\ call[a].fill # None /\ exch' = exch
    BY <1>5 DEF WriteFill, Filling, venue
  <2>2. PICK f \in Fill, c \in Client : f = call[a].fill /\ c = call[a].client
    BY <2>1, CallFacts
  <2>3. f.id \in FillId /\ f.id.client = c /\ f.qty > 0 /\ f.qty \in Nat
    BY <2>1, <2>2, CallFacts, QtyAssumption DEF Fill
  <2>4. CASE /\ order' = [order EXCEPT ![f.id.client] = call[a].next]
             /\ fills' = [fills EXCEPT ![f.id] = f.qty]
    <3>1. /\ order'[c].filled = order[c].filled + f.qty
          /\ \A d \in Client : d # c => order'[d] = order[d]
          /\ \A i \in FillId : i # f.id => fills'[i] = fills[i]
          /\ order[c].filled \in Nat /\ exch[c].filled \in Nat
      <4>1. call[a].next.filled = Total(order[c], f)
        BY <2>1, <2>2 DEF Exact, Current
      <4>2. order'[c] = call[a].next /\ \A d \in Client : d # c => order'[d] = order[d]
        BY <2>3, <2>4 DEF TypeInv, TypeOK
      <4>3. \A i \in FillId : i # f.id => fills'[i] = fills[i]
        BY <2>3, <2>4 DEF TypeInv, TypeOK
      <4> QED BY <4>1, <4>2, <4>3, QtyAssumption DEF Total, TypeInv, TypeOK, Row
    <3>2. f.id.tag # "exec" => order'[c].filled = exch[c].filled
      <4>1. CASE a \in Worker
        BY <2>1, <2>2, <3>1, <4>1 DEF RecoveryIsFresh
      <4>2. CASE a = Stream
        <5>1. OnTheWay(f)
          BY <2>1, <2>2, <4>2 DEF OnTheWay
        <5>2. f.id.tag = "exec"
          BY <2>2, <2>3, <5>1 DEF Executed, Explained, Streamed, CaughtUp, Known, Whole, Lots
        <5> QED BY <5>2
      <4> QED BY <4>1, <4>2 DEF Actor
    <3>3. ASSUME NEW i \in FillId, i.tag # "exec", fills'[i] # 0
          PROVE  order'[i.client].filled = exch'[i.client].filled
      <4>1. i.client \in Client
        BY DEF FillId
      <4>2. CASE i = f.id
        BY <2>1, <2>3, <3>2, <3>3, <4>2
      <4>3. CASE i # f.id
        <5>1. order[i.client].filled = exch[i.client].filled
          BY <3>1, <3>3, <4>3 DEF Remedied
        <5>2. i.client # c
          <6>1. order'[c].filled <= exch[c].filled
            BY <2>1 DEF FilledWithinExecuted
          <6> QED BY <2>3, <3>1, <5>1, <6>1
        <5> QED BY <2>1, <3>1, <4>1, <5>1, <5>2
      <4> QED BY <4>2, <4>3
    <3> QED BY <3>3 DEF Remedied
  <2> QED BY <1>1, <1>5, <2>1, <2>2, <2>4 DEF WriteFill
<1>6. ASSUME NEW w \in Worker, \/ \E c \in Client : Dispatch(w, c) \/ Retry(w, c)
                               \/ SendDisconnected(w) \/ Recovery(w)
      PROVE  UNCHANGED <<order, fills, exch>>
  BY <1>6 DEF Dispatch, Retry, SendDisconnected, Recovery, ListOpen, Recover, Recovered,
              db, venue, vars
<1>7. ASSUME \/ Deliver \/ Start \/ Crash \/ UNCHANGED vars
             \/ \E a \in Actor : ReadTransition(a) \/ ReadFill(a) \/ Settle(a)
      PROVE  UNCHANGED <<order, fills, exch>>
  BY <1>7 DEF Deliver, Start, Crash, ReadTransition, ReadFill, Settle, db, venue, vars
<1> QED BY <1>1, <1>2, <1>3, <1>4, <1>5, <1>6, <1>7 DEF Next, Submission, Operation

\* An order that is not listed agrees with the exchange.
LEMMA UnlistedAgree ==
  ASSUME TypeInv, Inv, Exact, Rejections, VenueIsPlain, Uncancelled, FilledWithinExecuted,
         NEW c \in Client, order[c].status \notin Listed
  PROVE  Agrees(c)
<1>1. order[c].status \in Unsent \cup {"FILLED", "REJECTED"}
  BY DEF TypeInv, TypeOK, Row, Uncancelled, Cancelling, Listed, Status, Unsent
<1>2. CASE exch[c].status = Absent
  BY <1>1, <1>2 DEF Agrees, Terminal
<1>3. CASE exch[c].status # Absent
  <2>1. sends[c] > 0 /\ order[c].status # "REJECTED"
    BY <1>3 DEF VenueIsPlain, Rejections
  <2>2. order[c].status \notin Unsent
    BY <2>1 DEF Inv, SentOnce, Recorded, TypeInv, TypeOK
  <2>3. order[c].filled = Qty
    BY <1>1, <2>1, <2>2 DEF Exact, FilledMeansComplete
  <2>4. order[c].filled <= exch[c].filled /\ exch[c].filled \in 0..Qty
    BY DEF FilledWithinExecuted, TypeInv, TypeOK
  <2> QED BY <1>3, <2>3, <2>4, QtyAssumption DEF Agrees
<1> QED BY <1>2, <1>3

\* What recovery does about a listed row settles it, or is the right thing to do.
LEMMA RemedyIsRight ==
  ASSUME TypeInv, VenueIsPlain, FilledWithinExecuted,
         NEW c \in Client, NEW row \in Row, row.filled = order[c].filled
  PROVE  LET k == Remedy(c, row)
         IN IF exch[c].status = Absent
            THEN /\ k.stage = "read" /\ k.client = c /\ k.fill = None
                 /\ k.event = "REJECTED" /\ k.origin = None
            ELSE \/ order[c].filled = exch[c].filled
                 \/ k.stage = "read" /\ k.client = c /\ k.fill # None
<1> DEFINE m == Missing(c, row)
           n == exch[c].filled
<1>1. order[c].filled \in Nat /\ n \in 0..Qty /\ n \in Nat /\ Qty \in Nat /\ order[c].filled <= n
      /\ m = n - order[c].filled
  BY QtyAssumption DEF TypeInv, TypeOK, Row, FilledWithinExecuted, Missing
<1>2. CASE exch[c].status = Absent
  <2>1. Remedy(c, row) = TransitionCall(c, "REJECTED", None, FALSE)
    BY <1>2 DEF Remedy, Find, Absent
  <2> QED BY <1>2, <2>1 DEF TransitionCall
<1>3. CASE exch[c].status # Absent /\ order[c].filled # n
  <2>1. m > 0 /\ m \in 1..Qty /\ n # 0
    BY <1>1, <1>3
  <2>2. exch[c].status = "FILLED" \/ exch[c].status = "PARTIALLY_FILLED"
    BY <1>3, <2>1 DEF VenueIsPlain, StatusAt
  <2>3. \/ Remedy(c, row) = RecoveryFill(c, "recovery", n, m)
        \/ Remedy(c, row) = RecoveryFill(c, "partial", 0, m)
    BY <1>3, <2>1, <2>2 DEF Remedy, Find
  <2>4. ASSUME NEW t \in {"recovery", "partial"}, NEW i \in 0..Qty
        PROVE  LET k == RecoveryFill(c, t, i, m)
               IN k.stage = "read" /\ k.client = c /\ k.fill # None
    <3> DEFINE f == [id |-> [client |-> c, tag |-> t, n |-> i], qty |-> m]
    <3>1. f \in Fill
      BY <2>1 DEF Fill, FillId
    <3>2. f # None
      BY <3>1, NoneAssumption
    <3>3. RecoveryFill(c, t, i, m).fill = f /\ RecoveryFill(c, t, i, m).stage = "read"
          /\ RecoveryFill(c, t, i, m).client = c
      BY DEF RecoveryFill, FillCall
    <3> QED BY <3>2, <3>3
  <2>5. 0 \in 0..Qty
    BY <1>1
  <2> HIDE DEF m, n
  <2>6. LET k == Remedy(c, row) IN k.stage = "read" /\ k.client = c /\ k.fill # None
    BY <1>1, <2>3, <2>4, <2>5
  <2> QED BY <1>3, <2>6
<1> QED BY <1>2, <1>3

\* A rejection ends every order that is not cancelled, and an ended one stays so.
LEMMA RejectionEnds ==
  ASSUME NEW s \in Status \ (Unsent \cup Cancelling), NEW e \in Status
  PROVE  /\ After(s, "REJECTED") \in Terminal
         /\ s \in Terminal => After(s, e) \in Terminal
BY DEF After, Successors, Status, Unsent, Cancelling, Terminal

LEMMA ThoroughOperation ==
  ASSUME TypeInv, Inv, Busy, StartupAlone, OneAtATime, Exact, RecoveryIsFresh,
         VenueIsPlain, Uncancelled, Remedied, Thorough,
         NEW a \in Actor, Operation(a), phase' = "recovering", pc'[Starter] = "recover"
  PROVE  Thorough'
<1>1. call[a].stage # "none" /\ ~Raise(a) /\ exch' = exch
  <2>1. ~Raise(a)
    <3>1. SUFFICES ASSUME Raise(a) PROVE FALSE
      OBVIOUS
    <3>2. phase \in {"recovering", "running", "down"}
      BY DEF TypeInv, TypeOK
    <3>3. CASE a = Stream
      <4>1. call[a].stage # "none"
        BY CallerMoves
      <4> QED BY <3>1, <3>3, <4>1 DEF Raise, control, StartupAlone
    <3>4. CASE a # Stream
      BY <3>1, <3>4 DEF Raise
    <3> QED BY <3>3, <3>4
  <2> QED
    BY <2>1, CallerMoves
    DEF Operation, ReadTransition, WriteTransition, ReadFill, WriteFill, Settle, venue
<1>2. phase = "recovering"
  BY <1>1, CallerMoves DEF Return, control
<1>3. a = Starter /\ pc[a] = "recover"
  <2>1. a \in Worker
    BY <1>1, <1>2 DEF StartupAlone, Actor
  <2> QED BY <1>1, <1>2, <2>1 DEF StartupAlone, Busy
<1>4. UNCHANGED control
  BY <1>1, <1>3, StarterAssumption, CallerMoves DEF Return, LastCall
<1> DEFINE k == call[a]
<1>5. PICK d \in Client : d = k.client
  BY <1>1, CallFacts
<1>6. k \in Call /\ order[d] \in Row /\ order[d].status \in Status \ (Unsent \cup Cancelling)
  BY <1>1, <1>5, CallFacts DEF Uncancelled
<1>7. ~Ahead(d)
  BY <1>1, <1>3, <1>5, StarterAssumption DEF Ahead, RecoveryIsFresh
<1>8. Agrees(d) \/ InHand(d)
  BY <1>2, <1>3, <1>7 DEF Thorough
<1>9. SUFFICES /\ \A c \in Client : c # d => order'[c] = order[c]
               /\ Agrees(d)' \/ InHand(d)'
  <2>1. ASSUME NEW c \in Client, c # d, order'[c] = order[c]
        PROVE  Agrees(c)' \/ Ahead(c)'
    <3>1. ~InHand(c)
      BY <1>3, <1>5, <2>1 DEF InHand
    <3>2. Agrees(c) \/ Ahead(c)
      BY <1>2, <1>3, <3>1 DEF Thorough
    <3> QED BY <1>1, <1>4, <2>1, <3>2 DEF Agrees, Ahead, control
  <2> QED BY <2>1 DEF Thorough
<1>10. Agrees(d) /\ order'[d] = order[d] => Agrees(d)'
  BY <1>1 DEF Agrees
<1>11. InHand(d) => (k.fill = None <=> exch[d].status = Absent) /\ k.stage \in {"read", "write"}
  BY <1>3 DEF InHand
<1>12. ASSUME call'[a].stage = "write", call'[a].client = k.client, call'[a].fill = k.fill,
              call'[a].event = k.event, call'[a].origin = k.origin, InHand(d)
       PROVE  InHand(d)'
  BY <1>1, <1>3, <1>12 DEF InHand
<1>13. CASE ReadTransition(a)
  <2>1. UNCHANGED order
    BY <1>13 DEF ReadTransition, db
  <2>2. PICK n : call' = [call EXCEPT ![a].stage = "write", ![a].next = n]
    BY <1>1, <1>13 DEF ReadTransition
  <2>3. /\ call'[a].stage = "write" /\ call'[a].client = k.client /\ call'[a].fill = k.fill
        /\ call'[a].event = k.event /\ call'[a].origin = k.origin
    BY <1>6, <2>2 DEF TypeInv, TypeOK, Call
  <2> HIDE DEF k
  <2> QED BY <1>8, <1>9, <1>10, <1>12, <2>1, <2>3
<1>14. CASE WriteTransition(a)
  <2>1. k.stage = "write" /\ k.fill = None
    BY <1>14 DEF WriteTransition, Transitioning
  <2>2. InHand(d) => exch[d].status = Absent /\ k.event = "REJECTED" /\ k.origin \notin seen
    <3>1. None \notin seen
      BY NoneAssumption DEF TypeInv, TypeOK
    <3> QED BY <1>3, <2>1, <3>1 DEF InHand
  <2>3. CASE k.origin \in seen
    <3>1. UNCHANGED order
      BY <1>14, <2>3 DEF WriteTransition
    <3> QED BY <1>8, <1>9, <1>10, <2>2, <2>3, <3>1
  <2>4. CASE k.origin \notin seen
    <3>1. order' = [order EXCEPT ![d].status = k.next.status, ![d].bound = @ \/ k.bind]
      BY <1>5, <1>14, <2>4 DEF WriteTransition
    <3>2. /\ order'[d].status = k.next.status /\ order'[d].filled = order[d].filled
          /\ \A c \in Client : c # d => order'[c] = order[c]
      <4> HIDE DEF k
      <4> QED BY <1>6, <3>1 DEF TypeInv, TypeOK, Row
    <3>3. k.next.status = After(order[d].status, k.event) /\ k.event \in Status
      BY <1>5, <1>6, <2>1 DEF Exact, Current, Call
    <3>4. Agrees(d)'
      <4>1. CASE exch[d].status = Absent
        <5>1. k.event = "REJECTED" \/ order[d].status \in Terminal
          BY <1>6, <1>8, <2>2, <4>1 DEF Agrees
        <5>2. order'[d].status \in Terminal
          BY <1>6, <3>2, <3>3, <5>1, RejectionEnds
        <5> QED BY <1>1, <4>1, <5>2 DEF Agrees
      <4>2. CASE exch[d].status # Absent
        BY <1>1, <1>8, <2>2, <3>2, <4>2 DEF Agrees
      <4> QED BY <4>1, <4>2
    <3> QED BY <1>9, <3>2, <3>4
  <2> QED BY <2>3, <2>4
\* No recovery fill is in the books while anything is missing.
<1>15. ASSUME k.fill # None, k.stage \in {"read", "write"}
       PROVE  /\ order[d].filled + k.fill.qty = exch[d].filled /\ k.fill.qty > 0
              /\ ~IsBooked(k.fill) /\ ~Agrees(d) /\ k.fill.id.client = d
              /\ exch[d].status # Absent
  <2>1. /\ order[d].filled + k.fill.qty = exch[d].filled /\ k.fill.id.tag # "exec"
    BY <1>3, <1>5, <1>15, StarterAssumption DEF RecoveryIsFresh
  <2>2. /\ k.fill.id \in FillId /\ k.fill.id.client = d /\ k.fill.qty \in Nat /\ k.fill.qty > 0
        /\ order[d].filled \in Nat /\ exch[d].filled \in Nat
    BY <1>1, <1>5, <1>6, <1>15, CallFacts, QtyAssumption DEF Fill, Row, TypeInv, TypeOK
  <2>3. order[d].filled # exch[d].filled /\ exch[d].filled # 0
    BY <2>1, <2>2
  <2>4. fills[k.fill.id] = 0
    BY <2>1, <2>2, <2>3 DEF Remedied
  <2>5. exch[d].status # Absent
    BY <2>3 DEF VenueIsPlain
  <2> QED BY <2>1, <2>2, <2>3, <2>4, <2>5 DEF IsBooked, Agrees
<1>16. CASE ReadFill(a)
  <2>1. UNCHANGED order /\ k.stage = "read" /\ k.fill # None
    BY <1>16 DEF ReadFill, Filling, db
  <2>2. ~IsBooked(k.fill) /\ InHand(d)
    BY <1>8, <1>15, <2>1
  <2>3. PICK n : call' = [call EXCEPT ![a].stage = "write", ![a].next = n]
    BY <1>1, <1>16, <2>2 DEF ReadFill
  <2>4. /\ call'[a].stage = "write" /\ call'[a].client = k.client /\ call'[a].fill = k.fill
        /\ call'[a].event = k.event /\ call'[a].origin = k.origin
    BY <1>6, <2>3 DEF TypeInv, TypeOK, Call
  <2> HIDE DEF k
  <2> QED BY <1>9, <1>12, <2>1, <2>2, <2>4
<1>17. CASE WriteFill(a)
  <2>1. k.stage = "write" /\ k.fill # None
    BY <1>17 DEF WriteFill, Filling
  <2>2. order' = [order EXCEPT ![d] = k.next]
    BY <1>15, <1>17, <2>1 DEF WriteFill
  <2>3. order'[d] = k.next /\ \A c \in Client : c # d => order'[c] = order[c]
    BY <2>2 DEF TypeInv, TypeOK
  <2>4. k.next.filled = Total(order[d], k.fill)
    BY <1>5, <2>1 DEF Exact, Current
  <2>5. Agrees(d)'
    BY <1>1, <1>15, <2>1, <2>3, <2>4 DEF Agrees, Total
  <2> QED BY <1>9, <2>3, <2>5
<1>18. CASE Settle(a)
  <2>1. UNCHANGED order /\ k.stage = "settle"
    BY <1>18 DEF Settle, Filling
  <2> QED BY <1>8, <1>9, <1>10, <1>11, <2>1
<1> QED BY <1>13, <1>14, <1>16, <1>17, <1>18 DEF Operation

LEMMA ThoroughStep ==
  /\ TypeInv /\ Inv /\ Busy /\ StartupAlone /\ OneAtATime /\ Exact /\ RecoveryIsFresh /\ Rejections
  /\ VenueIsPlain /\ Uncancelled /\ Remedied /\ FilledWithinExecuted /\ Thorough /\ [Next]_vars
  => Thorough'
<1> SUFFICES ASSUME TypeInv, Inv, Busy, StartupAlone, OneAtATime, Exact, RecoveryIsFresh, Rejections,
                    VenueIsPlain, Uncancelled, Remedied, FilledWithinExecuted, Thorough, [Next]_vars,
                    phase' = "recovering", pc'[Starter] = "recover"
             PROVE  Thorough'
  BY DEF Thorough
<1>0. Starter \in Worker /\ Starter \in Actor
  BY StarterAssumption DEF Actor
<1>1. CASE UNCHANGED vars
  BY <1>1 DEF vars, db, venue, control, Thorough, Agrees, Ahead, InHand
<1>2. ASSUME NEW w \in Worker, ListOpen(w)
      PROVE  Thorough'
  <2>1. w = Starter /\ UNCHANGED <<order, exch>>
    BY <1>2 DEF ListOpen, StartupAlone, db, venue
  <2>2. \A c \in Client : order[c].status \in Listed => \E s \in todo'[Starter] : s.client = c
    <3>1. todo'[w] = {[client |-> c, row |-> order[c]] : c \in {d \in Client : order[d].status \in Listed}}
      BY <1>2 DEF ListOpen, TypeInv, TypeOK
    <3>2. ASSUME NEW c \in Client, order[c].status \in Listed
          PROVE  \E s \in todo'[Starter] : s.client = c
      <4>1. [client |-> c, row |-> order[c]] \in todo'[Starter]
        BY <2>1, <3>1, <3>2
      <4> QED BY <4>1
    <3> QED BY <3>2
  <2>3. ASSUME NEW c \in Client
        PROVE  Agrees(c)' \/ Ahead(c)'
    <3>1. Agrees(c) => Agrees(c)'
      BY <2>1 DEF Agrees
    <3> QED BY <2>2, <3>1, UnlistedAgree DEF Ahead
  <2> QED BY <2>3 DEF Thorough
<1>3. ASSUME NEW w \in Worker, Recover(w)
      PROVE  Thorough'
  <2>1. /\ w = Starter /\ UNCHANGED <<order, exch, phase, pc>>
        /\ pc[Starter] = "recover" /\ call[Starter].stage = "none"
    BY <1>3 DEF Recover, StartupAlone, db, venue
  <2>2. PICK s \in todo[Starter] : /\ todo' = [todo EXCEPT ![Starter] = @ \ {s}]
                                   /\ call' = [call EXCEPT ![Starter] = Remedy(s.client, s.row)]
    BY <1>3, <2>1 DEF Recover
  <2>3. s.client \in Client /\ s.row \in Row /\ s.row.filled = order[s.client].filled
    BY <1>0, <2>2 DEF TypeInv, TypeOK, Snapshot, RecoveryIsFresh
  <2>4. todo'[Starter] = todo[Starter] \ {s} /\ call'[Starter] = Remedy(s.client, s.row)
    BY <1>0, <2>2 DEF TypeInv, TypeOK
  <2>5. ASSUME NEW c \in Client, c # s.client
        PROVE  Agrees(c)' \/ Ahead(c)'
    <3>1. Agrees(c) \/ Ahead(c)
      BY <2>1 DEF Thorough, InHand
    <3>2. Ahead(c) => Ahead(c)'
      BY <2>4, <2>5 DEF Ahead
    <3> QED BY <2>1, <3>1, <3>2 DEF Agrees
  <2>6. Agrees(s.client)' \/ InHand(s.client)'
    BY <2>1, <2>3, <2>4, RemedyIsRight DEF Agrees, InHand
  <2> QED BY <2>5, <2>6 DEF Thorough
<1>4. ASSUME NEW a \in Actor, Operation(a)
      PROVE  Thorough'
  BY <1>4, ThoroughOperation
<1>5. ASSUME NEW w \in Worker, Submission(w)
      PROVE  FALSE
  <2>1. phase' = phase /\ pc[w] \notin {"idle", "list", "recover"}
    BY <1>5 DEF Submission, Create, Validate, Submitting, Submitted, Advance, SendAccepted,
                SendUnknown, SendFailed, SendDisconnected, Sending
  <2> QED BY <2>1 DEF StartupAlone
<1>6. ASSUME NEW w \in Worker, NEW c \in Client, Dispatch(w, c)
      PROVE  FALSE
  BY <1>6 DEF Dispatch
<1>7. ASSUME NEW w \in Worker, NEW c \in Client, Retry(w, c)
      PROVE  FALSE
  BY <1>7 DEF Retry, vars, control
<1>8. ASSUME Deliver \/ Start \/ Crash \/ \E w \in Worker : Recovered(w)
      PROVE  FALSE
  BY <1>0, <1>8 DEF Deliver, Start, Crash, Recovered, control, TypeInv, TypeOK
<1> QED BY <1>1, <1>2, <1>3, <1>4, <1>5, <1>6, <1>7, <1>8 DEF Next, Recovery

\* A restart leaves no doubt where no outcome is unknown: when startup recovery is
\* done, the disk agrees with the exchange about every order, however the crash and
\* the events of before it fell.
THEOREM RestartLeavesNoDoubt ==
  ASSUME NothingUnknown, ExchangeSurvives
  PROVE  Spec => RestartRecovers
<1> DEFINE Traced == /\ Busy /\ StartupAlone /\ OneAtATime /\ Exact
                     /\ Executed /\ RecoveryIsFresh
           More   == /\ Rejections /\ VenueIsPlain /\ Uncancelled /\ Remedied /\ Thorough
<1>1. Init => Traced
  <2>1. Init => Busy /\ StartupAlone
    BY NoCallOK DEF Init, Busy, StartupAlone, Actor
  <2> QED BY <2>1, OneAtATimeStart, ExactStart, TracedStart
<1>2. TypeInv /\ Inv /\ Traced /\ [Next]_vars => Traced'
  BY DownFollows, BusyStep, StartupStep, OneAtATimeStep, ExactStep, TracedStep
<1>3. Init => More
  <2>1. Init => VenueIsPlain /\ Uncancelled /\ Remedied /\ Thorough
    BY DEF Init, VenueIsPlain, Uncancelled, Cancelling, NoRow, Absent, Remedied, Thorough
  <2> QED BY <2>1, RejectionsStart
<1>4. TypeInv /\ Inv /\ Traced /\ FilledIsExact /\ FilledIsExact' /\ More /\ [Next]_vars => More'
  <2>1. TypeInv /\ StartupAlone => DownIsIdle /\ Undisturbed
    BY DownFollows DEF StartupAlone, Undisturbed
  <2>2. FilledIsExact => FilledWithinExecuted
    BY DEF FilledIsExact
  <2>3. FilledIsExact' => FilledWithinExecuted'
    BY DEF FilledIsExact
  <2> QED BY <2>1, <2>2, <2>3, RejectionsStep, VenueStep, UncancelledStep, RemediedStep, ThoroughStep
<1>5. TypeInv /\ Traced /\ More /\ [Next]_vars =>
        [phase = "recovering" /\ phase' = "running" => \A c \in Client : Agrees(c)]_vars
  <2> SUFFICES ASSUME TypeInv, StartupAlone, Thorough, Next, phase = "recovering", phase' = "running"
               PROVE  \A c \in Client : Agrees(c)
    OBVIOUS
  <2>1. PICK w \in Worker : Recovered(w)
    <3>1. ASSUME NEW a \in Actor, Operation(a)
          PROVE  FALSE
      BY <3>1, CallerMoves DEF Return, Raise, control
    <3>2. ASSUME NEW w \in Worker, Submission(w) \/ ListOpen(w) \/ Recover(w)
                 \/ \E c \in Client : Dispatch(w, c) \/ Retry(w, c)
          PROVE  phase' = phase
      BY <3>2 DEF Submission, Create, Validate, Submitting, Submitted, Advance, SendAccepted,
                  SendUnknown, SendFailed, SendDisconnected, Sending, ListOpen, Recover,
                  Dispatch, Retry, vars, control
    <3>3. ~Deliver /\ ~Start /\ ~Crash
      BY DEF Deliver, Start, Crash, control
    <3> QED BY <3>1, <3>2, <3>3 DEF Next, Recovery
  <2>2. pc[Starter] = "recover" /\ call[Starter].stage = "none" /\ todo[Starter] = {}
    BY <2>1 DEF Recovered, StartupAlone
  <2> QED BY <2>2 DEF Thorough, Ahead, InHand
<1>6. [phase = "recovering" /\ phase' = "running" => \A c \in Client : Agrees(c)]_vars =>
        /\ [phase = "recovering" /\ phase' = "running" =>
              \A c \in Client : exch[c].status # Absent => order[c].filled = exch[c].filled]_vars
        /\ [phase = "recovering" /\ phase' = "running" =>
              \A c \in Client : exch[c].status = Absent => order[c].status \in Unsent \cup Terminal]_vars
  BY DEF Agrees
<1> HIDE DEF Traced, More
<1>7. Spec => [](TypeInv /\ Inv /\ Traced)
  BY <1>1, <1>2, Invariance, PTL DEF Spec
<1>8. Spec => []More
  BY <1>3, <1>4, <1>7, FilledStaysExact, PTL DEF Spec
<1> QED BY <1>5, <1>6, <1>7, <1>8, PTL DEF Spec, RestartRecovers, RestartCatchesUp, RestartResolves

=============================================================================
