--------------------------- MODULE OrderLifecycle ---------------------------
(***************************************************************************)
(* One engine process executing spot orders: process_signal() tasks        *)
(* (Worker), the task that drains the exchange event queue (Stream), the   *)
(* recovery pass, and the crash and restart of the process.  They share    *)
(* the orders and fills tables, which OrderManager reads and then writes   *)
(* in two database calls with no lock, version column or transaction       *)
(* around both, so every such pair is two steps here.                      *)
(*                                                                         *)
(* A task that executes an OrderManager operation holds a call record: the *)
(* operation is "read" (nothing read yet), then "write" (the row was read, *)
(* the new values computed from it are pending), then, for a fill,         *)
(* "settle" (row committed, settlement callback not yet run).              *)
(***************************************************************************)
EXTENDS OrderStateMachine, Integers, Sequences, FiniteSetsExt

CONSTANTS
  Client,           \* client order ids, one per signal
  Worker,           \* tasks that run process_signal
  Starter,          \* the worker whose task runs start() and its recovery
  Stream,           \* the task of _event_loop
  None,             \* no client, fill or event
  Qty,              \* the lots of every order
  Copies,           \* how often one exchange event is enqueued
  Answers,          \* the ways submit_order may end, a subset of Answer
  MaxCrashes,       \* bound: process crashes per behaviour
  ExchangeSurvives  \* does a crash of the engine spare the exchange's orders?

Answer == {"accepted", "timeout", "lost", "failed", "rejected", "disconnected"}

ASSUME StarterAssumption == Starter \in Worker
ASSUME StreamAssumption == Stream \notin Worker
ASSUME QtyAssumption == Qty \in Nat \ {0}
ASSUME CopiesAssumption == Copies \in Nat \ {0}
ASSUME AnswersAssumption == Answers \subseteq Answer
ASSUME MaxCrashesAssumption == MaxCrashes \in Nat

Actor == Worker \cup {Stream}

VARIABLES
  \* the database
  order,      \* client -> [status, filled, bound]; bound: exchange id stored
  fills,      \* fill id -> its quantity, 0 when the row does not exist
  seen,       \* the exchange events whose event_id is in order_events
  posted,     \* fill id -> number of ledger transactions settling it
  \* the exchange
  exch,       \* client -> [status, filled]
  sends,      \* client -> number of submit_order calls
  answer,     \* client -> how its last submit_order call ended
  \* the engine process
  queue,      \* _event_queue
  phase,      \* "down", "recovering" or "running"
  pc,         \* worker -> what it does next
  job,        \* worker -> the client order it works on
  todo,       \* worker -> rows of list_open() its recovery has still to visit
  call,       \* actor -> the OrderManager operation it is inside
  crashes

db      == <<order, fills, seen, posted>>
venue   == <<exch, sends, answer>>
control == <<phase, pc, job, todo>>
vars    == <<db, venue, queue, control, call, crashes>>

Row    == [status : Status \cup {Absent}, filled : 0..Qty, bound : BOOLEAN]
FillId == [client : Client, tag : {"exec", "recovery", "partial"}, n : 0..Qty]
Fill   == [id : FillId, qty : 1..Qty]

\* What the exchange reports: an order status, or an execution.
Notice == [client : Client, kind : {"ACKNOWLEDGED", "OPEN"}]
Report == {r \in [client : Client, kind : {"fill"}, fill : Fill] :
             r.fill.id.client = r.client}
Event  == Notice \cup Report

ASSUME NoneAssumption == None \notin Client \cup Answer \cup Notice \cup Fill

Snapshot == [client : Client, row : Row]

Call ==
  [stage  : {"none", "read", "write", "settle"},
   client : Client \cup {None},
   event  : Status,               \* the event of a transition
   origin : Notice \cup {None},   \* whose event_id it records; None: fresh id
   bind   : BOOLEAN,              \* does it store the exchange order id?
   fill   : Fill \cup {None},     \* the fill of apply_fill
   next   : Row]                  \* the row it is about to write

NoRow  == [status |-> Absent, filled |-> 0, bound |-> FALSE]
NoCall == [stage |-> "none", client |-> None, event |-> "CREATED",
           origin |-> None, bind |-> FALSE, fill |-> None, next |-> NoRow]

TransitionCall(c, event, origin, bind) ==
  [stage |-> "read", client |-> c, event |-> event, origin |-> origin,
   bind |-> bind, fill |-> None, next |-> NoRow]

FillCall(fill) ==
  [stage |-> "read", client |-> fill.id.client, event |-> "CREATED",
   origin |-> None, bind |-> FALSE, fill |-> fill, next |-> NoRow]

-----------------------------------------------------------------------------
Init ==
  /\ order = [c \in Client |-> NoRow]
  /\ fills = [i \in FillId |-> 0]
  /\ seen = {}
  /\ posted = [i \in FillId |-> 0]
  /\ exch = [c \in Client |-> [status |-> Absent, filled |-> 0]]
  /\ sends = [c \in Client |-> 0]
  /\ answer = [c \in Client |-> None]
  /\ queue = <<>>
  /\ phase = "down"
  /\ pc = [w \in Worker |-> "idle"]
  /\ job = [w \in Worker |-> None]
  /\ todo = [w \in Worker |-> {}]
  /\ call = [a \in Actor |-> NoCall]
  /\ crashes = 0

-----------------------------------------------------------------------------
(* process_signal: from a fresh signal to the submission.                  *)

Goto(w, label) == pc' = [pc EXCEPT ![w] = label]

\* Variant: an order with an unknown outcome may be submitted again.
IsNewOrUnknown(c) == order[c].status \in {Absent, "UNKNOWN"}

\* get_by_client finds no row.
IsNew(c) == order[c].status = Absent

\* A new signal that passes the risk and authority gates; a signal belongs to
\* one task.
Dispatch(w, c) ==
  /\ phase = "running" /\ pc[w] = "idle"
  /\ IsNew(c)
  /\ \A v \in Worker : job[v] # c
  /\ Goto(w, "create")
  /\ job' = [job EXCEPT ![w] = c]
  /\ UNCHANGED <<db, venue, queue, phase, todo, call, crashes>>

\* A retry of a signal whose order row exists returns without an effect.
Retry(w, c) ==
  /\ phase = "running" /\ pc[w] = "idle"
  /\ ~IsNew(c)
  /\ UNCHANGED vars

\* create_from_intent, validate, submitting and submitted: nobody else reads
\* or writes the row before it is SUBMITTED, so each is one step.
Advance(w, from, event, to) ==
  /\ pc[w] = from
  /\ order' = [order EXCEPT ![job[w]].status = event]
  /\ Goto(w, to)
  /\ UNCHANGED <<fills, seen, posted, venue, queue, phase, job, todo, call,
                 crashes>>

\* Variant: the order is sent before SUBMITTED is on disk.
SendEarly(w)  == Advance(w, "submitting", "SUBMITTING", "send")

Create(w)     == Advance(w, "create", "CREATED", "validate")
Validate(w)   == Advance(w, "validate", "VALIDATED", "submitting")
Submitting(w) == Advance(w, "submitting", "SUBMITTING", "submitted")
Submitted(w)  == Advance(w, "submitted", "SUBMITTED", "send")

-----------------------------------------------------------------------------
(* adapter.submit_order, and the handler of its outcome.                   *)

Exec(c, n, q) ==
  [client |-> c, kind |-> "fill",
   fill |-> [id |-> [client |-> c, tag |-> "exec", n |-> n], qty |-> q]]

\* The ways in which matching executes m lots: at one price or lot by lot.
Trades(c, m) == IF m = 0 THEN {<<>>}
                ELSE {<<Exec(c, 1, m)>>, [i \in 1..m |-> Exec(c, i, 1)]}

\* _emit calls every subscription, and the engine subscribes the same
\* handler three times.
Emit(events) ==
  [i \in 1..Copies * Len(events) |-> events[((i - 1) \div Copies) + 1]]

StatusAt(m) == IF m = 0 THEN "ACKNOWLEDGED"
               ELSE IF m = Qty THEN "FILLED" ELSE "PARTIALLY_FILLED"

Sending(w, outcome) ==
  /\ pc[w] = "send" /\ outcome \in Answers
  /\ sends' = [sends EXCEPT ![job[w]] = @ + 1]
  /\ answer' = [answer EXCEPT ![job[w]] = outcome]
  /\ UNCHANGED <<db, phase, job, todo, crashes>>

\* The worker goes on to call OrderManager.transition for its order.
Calls(w, label, event, bind) ==
  /\ Goto(w, label)
  /\ call' = [call EXCEPT ![w] = TransitionCall(job[w], event, None, bind)]

\* The order is created, matched, and its events emitted, either side first,
\* before submit_order returns; the worker then acknowledges it.
SendAccepted(w) ==
  LET c == job[w]
      ack  == [client |-> c, kind |-> "ACKNOWLEDGED"]
      open == [client |-> c, kind |-> "OPEN"]
  IN /\ Sending(w, "accepted")
     /\ \E m \in 0..Qty : \E trades \in Trades(c, m) :
          /\ exch' = [exch EXCEPT ![c] = [status |-> StatusAt(m), filled |-> m]]
          /\ \E events \in {<<ack, open>> \o trades, trades \o <<ack>>} :
               queue' = queue \o Emit(events)
     /\ Calls(w, "ack", "ACKNOWLEDGED", TRUE)

\* UnknownExecutionState: the answer was lost after the exchange created the
\* order ("timeout"), or before ("lost"); the order is not matched.
SendUnknown(w) ==
  /\ \/ /\ Sending(w, "timeout")
        /\ exch' = [exch EXCEPT ![job[w]].status = "ACKNOWLEDGED"]
     \/ /\ Sending(w, "lost")
        /\ UNCHANGED exch
  /\ Calls(w, "query", "UNKNOWN", FALSE)
  /\ UNCHANGED queue

\* A transient ExchangeError; and OrderRejected, which is a subclass of
\* ExchangeError and so is caught by the same, earlier, handler.
SendFailed(w) ==
  /\ Sending(w, "failed") \/ Sending(w, "rejected")
  /\ Calls(w, "failed", "UNKNOWN", FALSE)
  /\ UNCHANGED <<exch, queue>>

\* ConnectionError is not an ExchangeError: it leaves process_signal and
\* ends the tick task.
SendDisconnected(w) ==
  /\ pc[w] = "send" /\ "disconnected" \in Answers
  /\ Goto(w, "dead")
  /\ job' = [job EXCEPT ![w] = None]
  /\ UNCHANGED <<db, venue, queue, phase, todo, call, crashes>>

-----------------------------------------------------------------------------
(* OrderManager.transition and OrderManager.apply_fill, for any caller.    *)

\* Where process_signal returns after the operation.
LastCall == {"ack", "failed"}

\* How the caller continues after the operation returns.
Return(a) ==
  /\ call' = [call EXCEPT ![a] = NoCall]
  /\ IF a \in Worker /\ pc[a] \in LastCall
     THEN /\ Goto(a, "idle")
          /\ job' = [job EXCEPT ![a] = None]
          /\ UNCHANGED <<phase, todo>>
     ELSE IF a \in Worker /\ pc[a] = "query"
     THEN /\ Goto(a, "list")
          /\ UNCHANGED <<phase, job, todo>>
     ELSE UNCHANGED control

\* An exception drops the event in _event_loop, fails start() when it is
\* raised in the recovery there, and ends the task of a worker.
Raise(a) ==
  /\ call' = [call EXCEPT ![a] = NoCall]
  /\ IF a = Stream
     THEN UNCHANGED control
     ELSE /\ phase' = IF phase = "recovering" THEN "down" ELSE phase
          /\ Goto(a, IF phase = "recovering" THEN "idle" ELSE "dead")
          /\ job' = [job EXCEPT ![a] = None]
          /\ todo' = [todo EXCEPT ![a] = {}]

Transitioning(a, stage) == call[a].stage = stage /\ call[a].fill = None
Filling(a, stage)       == call[a].stage = stage /\ call[a].fill # None

ReadTransition(a) ==
  LET k == call[a]
      row == order[k.client]
  IN /\ Transitioning(a, "read")
     /\ IF Accepts(row.status, k.event)
        THEN /\ call' = [call EXCEPT
                    ![a].stage = "write",
                    ![a].next = [row EXCEPT !.status = After(@, k.event)]]
             /\ UNCHANGED control
        ELSE Raise(a)
     /\ UNCHANGED <<db, venue, queue, crashes>>

\* _record_event: status and exchange id are written blindly into whatever
\* the row holds by now; a duplicate event_id rolls everything back.
WriteTransition(a) ==
  LET k == call[a]
  IN /\ Transitioning(a, "write")
     /\ IF k.origin \in seen
        THEN UNCHANGED <<order, seen>>
        ELSE /\ order' = [order EXCEPT ![k.client].status = k.next.status,
                                       ![k.client].bound = @ \/ k.bind]
             /\ seen' = IF k.origin = None THEN seen ELSE seen \cup {k.origin}
     /\ Return(a)
     /\ UNCHANGED <<fills, posted, venue, queue, crashes>>

\* Variants: duplicates are not recognised; a fill replaces the total; any
\* total is accepted; completeness is judged by the last fill alone.
IsNeverBooked(f)     == FALSE
FitsAlways(row, f)   == TRUE
IsBooked(f)       == fills[f.id] # 0
Total(row, f)     == row.filled + f.qty
Fits(row, f)      == Total(row, f) <= Qty
FillEvent(row, f) == IF Total(row, f) = Qty THEN "FILLED"
                                            ELSE "PARTIALLY_FILLED"

\* apply_fill up to the commit: duplicates, an overfill, a refused status.
ReadFill(a) ==
  LET f == call[a].fill
      row == order[f.id.client]
      event == FillEvent(row, f)
  IN /\ Filling(a, "read")
     /\ IF IsBooked(f)
        THEN Return(a)
        ELSE IF ~Fits(row, f) \/ ~Accepts(row.status, event)
        THEN Raise(a)
        ELSE /\ call' = [call EXCEPT
                    ![a].stage = "write",
                    ![a].next = [status |-> After(row.status, event),
                                 filled |-> Total(row, f), bound |-> TRUE]]
             /\ UNCHANGED control
     /\ UNCHANGED <<db, venue, queue, crashes>>

\* The commit writes the row computed from the read and inserts the fill;
\* when another task inserted the same fill_id meanwhile it rolls back.
WriteFill(a) ==
  LET f == call[a].fill
  IN /\ Filling(a, "write")
     /\ IF IsBooked(f)
        THEN /\ Return(a)
             /\ UNCHANGED <<order, fills>>
        ELSE /\ order' = [order EXCEPT ![f.id.client] = call[a].next]
             /\ fills' = [fills EXCEPT ![f.id] = f.qty]
             /\ call' = [call EXCEPT ![a].stage = "settle"]
             /\ UNCHANGED control
     /\ UNCHANGED <<seen, posted, venue, queue, crashes>>

\* settlement_callback, after the commit: _settle_fill posts to the ledger.
Settle(a) ==
  /\ Filling(a, "settle")
  /\ posted' = [posted EXCEPT ![call[a].fill.id] = @ + 1]
  /\ Return(a)
  /\ UNCHANGED <<order, fills, seen, venue, queue, crashes>>

-----------------------------------------------------------------------------
(* _event_loop and process_exchange_event.                                 *)

\* Variant: only an open order takes events.
IsOpen(c) == order[c].status = "OPEN"

\* get_by_exchange finds no order until the exchange id is stored.
IsFound(c) == order[c].bound

\* The next event of the queue; it is dropped when its order is not found.
Deliver ==
  LET e == Head(queue)
  IN /\ phase = "running" /\ call[Stream].stage = "none" /\ queue # <<>>
     /\ queue' = Tail(queue)
     /\ IF ~IsFound(e.client)
        THEN UNCHANGED call
        ELSE call' = [call EXCEPT ![Stream] =
               IF e.kind = "fill"
               THEN FillCall(e.fill)
               ELSE TransitionCall(e.client, e.kind, e, e.kind = "ACKNOWLEDGED")]
     /\ UNCHANGED <<db, venue, control, crashes>>

-----------------------------------------------------------------------------
(* RecoveryService.recover, at startup and after an unknown submission.    *)

\* Variants: recovery visits only the unanswered, or only the live orders.
ListedUnanswered == {"SUBMITTED", "UNKNOWN"}
\* list_open: SUBMITTED and later, not terminal.
Listed == {"SUBMITTED", "ACKNOWLEDGED", "OPEN", "PARTIALLY_FILLED",
           "CANCEL_PENDING", "UNKNOWN"}

ListOpen(w) ==
  /\ pc[w] = "list"
  /\ todo' = [todo EXCEPT ![w] =
       {[client |-> c, row |-> order[c]] :
          c \in {d \in Client : order[d].status \in Listed}}]
  /\ Goto(w, "recover")
  /\ UNCHANGED <<db, venue, queue, phase, job, call, crashes>>

RecoveryFill(c, tag, n, q) ==
  FillCall([id |-> [client |-> c, tag |-> tag, n |-> n], qty |-> q])

\* Variants: the order is looked up by its exchange id only; the recovery
\* fill ignores what is already filled.
FindByExchangeId(c, row) == row.bound /\ exch[c].status # Absent
AllOfIt(c, row)          == exch[c].filled

\* get_order, by exchange id or else by client id, finds the order.
Find(c, row)    == exch[c].status # Absent
Missing(c, row) == exch[c].filled - row.filled

\* What recovery does about a listed row, given what the exchange reports now.
Remedy(c, row) ==
  LET x == exch[c]
      missing == Missing(c, row)
  IN CASE ~Find(c, row) ->
            TransitionCall(c, "REJECTED", None, FALSE)
       [] x.status = "FILLED" /\ missing > 0 ->
            RecoveryFill(c, "recovery", x.filled, missing)
       [] x.status = "PARTIALLY_FILLED" /\ missing > 0 ->
            RecoveryFill(c, "partial", 0, missing)
       [] x.status = "ACKNOWLEDGED" /\ row.status # "ACKNOWLEDGED" ->
            TransitionCall(c, "ACKNOWLEDGED", None, TRUE)
       [] OTHER -> NoCall

Recover(w) ==
  /\ pc[w] = "recover" /\ call[w].stage = "none"
  /\ \E s \in todo[w] :
       /\ todo' = [todo EXCEPT ![w] = @ \ {s}]
       /\ call' = [call EXCEPT ![w] = Remedy(s.client, s.row)]
  /\ UNCHANGED <<db, venue, queue, phase, pc, job, crashes>>

\* At startup the engine is running from here on.
Recovered(w) ==
  /\ pc[w] = "recover" /\ call[w].stage = "none" /\ todo[w] = {}
  /\ phase' = "running"
  /\ Goto(w, "idle")
  /\ job' = [job EXCEPT ![w] = None]
  /\ UNCHANGED <<db, venue, queue, todo, call, crashes>>

-----------------------------------------------------------------------------
(* Life of the process.                                                    *)

Start ==
  /\ phase = "down"
  /\ phase' = "recovering"
  /\ pc' = [pc EXCEPT ![Starter] = "list"]
  /\ UNCHANGED <<db, venue, queue, job, todo, call, crashes>>

\* A crash at any point; also stop(), which cancels every task at its await.
Crash ==
  /\ phase # "down" /\ crashes < MaxCrashes
  /\ crashes' = crashes + 1
  /\ phase' = "down"
  /\ queue' = <<>>
  /\ pc' = [w \in Worker |-> "idle"]
  /\ job' = [w \in Worker |-> None]
  /\ todo' = [w \in Worker |-> {}]
  /\ call' = [a \in Actor |-> NoCall]
  /\ exch' = IF ExchangeSurvives THEN exch
             ELSE [c \in Client |-> [status |-> Absent, filled |-> 0]]
  /\ UNCHANGED <<db, sends, answer>>

Submission(w) ==
  \/ Create(w) \/ Validate(w) \/ Submitting(w) \/ Submitted(w)
  \/ SendAccepted(w) \/ SendUnknown(w) \/ SendFailed(w) \/ SendDisconnected(w)

Operation(a) ==
  \/ ReadTransition(a) \/ WriteTransition(a)
  \/ ReadFill(a) \/ WriteFill(a) \/ Settle(a)

Recovery(w) == ListOpen(w) \/ Recover(w) \/ Recovered(w)

Next ==
  \/ \E w \in Worker :
       \/ \E c \in Client : Dispatch(w, c) \/ Retry(w, c)
       \/ Submission(w)
       \/ Recovery(w)
  \/ \E a \in Actor : Operation(a)
  \/ Deliver
  \/ Start
  \/ Crash

Spec == Init /\ [][Next]_vars

\* What all this keeps of its promises whatever happens: see OrderContract.
\* An order counts as recorded once it is SUBMITTED or later.
Unsent == {Absent, "CREATED", "VALIDATED", "SUBMITTING"}

Contract == INSTANCE OrderContract
  WITH recorded <- {c \in Client : order[c].status \notin Unsent},
       submitted <- sends, booked <- fills

-----------------------------------------------------------------------------
(* Fairness: asyncio resumes every task that is not waiting for anything   *)
(* outside the process, so a started operation goes on.  Nothing promises  *)
(* that a signal comes, that the process is started, or that it crashes.   *)

Progress ==
  /\ \A w \in Worker : WF_vars(Submission(w) \/ Recovery(w))
  /\ \A a \in Actor : WF_vars(Operation(a))
  /\ WF_vars(Deliver)

FairSpec == Spec /\ Progress

-----------------------------------------------------------------------------
(* Properties.                                                             *)

WorkerStep == {"idle", "create", "validate", "submitting", "submitted",
               "send", "ack", "failed", "query", "list", "recover", "dead"}

\* Every variable has its type.
TypeOK ==
  /\ order \in [Client -> Row]
  /\ fills \in [FillId -> 0..Qty]
  /\ seen \subseteq Notice
  /\ posted \in [FillId -> Nat]
  /\ exch \in [Client -> [status : Status \cup {Absent}, filled : 0..Qty]]
  /\ sends \in [Client -> Nat]
  /\ answer \in [Client -> Answer \cup {None}]
  /\ queue \in Seq(Event)
  /\ phase \in {"down", "recovering", "running"}
  /\ pc \in [Worker -> WorkerStep]
  /\ job \in [Worker -> Client \cup {None}]
  /\ todo \in [Worker -> SUBSET Snapshot]
  /\ call \in [Actor -> Call]
  /\ crashes \in 0..MaxCrashes

\* The engine implements the contract: record, then submit once, then book
\* each fill once, then settle it at most once.
KeepsContract == Contract!Spec

\* No client order id is ever submitted twice, through crashes, restarts,
\* retries of the signal and unknown outcomes ("never blind resubmit").
SingleSubmission == \A c \in Client : sends[c] <= 1

\* An order is on disk as SUBMITTED, or later, before the exchange sees it.
PersistBeforeSubmit ==
  \A c \in Client : sends[c] > 0 => order[c].status \notin Unsent

\* A fill is settled in the ledger at most once, and only after its row is
\* committed, whoever delivers it and however often.
SettledOnce ==
  \A i \in FillId : posted[i] <= 1 /\ (posted[i] > 0 => fills[i] > 0)

Booked(c) == MapThenSumSet(LAMBDA i : fills[i], {i \in FillId : i.client = c})

\* The filled quantity of an order never exceeds what its fill rows add up
\* to, even when two tasks overwrite each other's row.
NothingInvented == \A c \in Client : order[c].filled <= Booked(c)

\* The filled quantity is exactly what the fill rows add up to: no update of
\* apply_fill is lost.
FilledIsBooked == \A c \in Client : order[c].filled = Booked(c)

\* The engine never believes in more fills than the exchange executed.
FilledWithinExecuted == \A c \in Client : order[c].filled <= exch[c].filled

\* FILLED says that everything is filled and nothing else says so.
FilledMeansComplete ==
  \A c \in Client : order[c].status = "FILLED" <=> order[c].filled = Qty

\* The fill state of an order is exact: the stream, the recovery and the worker
\* lose none of each other's updates and take nothing the exchange did not do.
FilledIsExact == FilledIsBooked /\ FilledWithinExecuted /\ FilledMeansComplete

\* REJECTED is only written for an order the exchange does not have.
RejectedIsNotLive ==
  \A c \in Client : order[c].status = "REJECTED" => exch[c].status = Absent

\* What an order says on disk is backed by the books and by the exchange: no
\* fill without its row, no rejection of an order that the exchange has.
ClaimsAreBacked == NothingInvented /\ RejectedIsNotLive

\* When startup recovery is done, every order that the exchange has is
\* filled locally as far as it is there.
RestartCatchesUp ==
  [][phase = "recovering" /\ phase' = "running" =>
       \A c \in Client : exch[c].status # Absent =>
         order[c].filled = exch[c].filled]_vars

\* When startup recovery is done, every order the exchange does not have is
\* terminal, or was never about to be submitted.
RestartResolves ==
  [][phase = "recovering" /\ phase' = "running" =>
       \A c \in Client : exch[c].status = Absent =>
         order[c].status \in Unsent \cup Terminal]_vars

\* A restart leaves no doubt: when startup recovery is done, the disk agrees
\* with the exchange about every order.
RestartRecovers == RestartCatchesUp /\ RestartResolves

\* Nobody works on the order and nothing is on its way to it.
AtRest(c) ==
  /\ phase = "running"
  /\ \A w \in Worker : job[w] # c /\ \A s \in todo[w] : s.client # c
  /\ \A a \in Actor : call[a].client # c
  /\ \A i \in DOMAIN queue : queue[i].client # c

\* What the exchange executed has reached the order once its events are
\* processed.
StreamIsComplete ==
  \A c \in Client : AtRest(c) /\ exch[c].status # Absent =>
    order[c].filled >= exch[c].filled

\* Every fill row is settled once nobody works on its order.
FillsAreSettled ==
  \A i \in FillId : AtRest(i.client) /\ fills[i] > 0 => posted[i] = 1

\* No order is left between validation and the exchange's answer once
\* recovery has run.
NothingStranded ==
  \A c \in Client : AtRest(c) =>
    order[c].status \notin {"SUBMITTING", "SUBMITTED"}

\* A fill that is queued for an order whose exchange id is stored gets its
\* row, unless the process dies first.
QueuedFillsAreBooked ==
  \A c \in Client, n \in 1..Qty :
    LET i == [client |-> c, tag |-> "exec", n |-> n]
    IN (/\ order[c].bound
        /\ \E k \in DOMAIN queue : queue[k].kind = "fill" /\ queue[k].fill.id = i)
       ~> (fills[i] > 0 \/ phase = "down")

\* A worker that took a signal comes back for the next one, and startup
\* ends: in the engine running or in a crash.
WorkersReturn ==
  /\ \A w \in Worker : pc[w] # "idle" ~> pc[w] = "idle"
  /\ phase = "recovering" ~> phase # "recovering"

\* Nothing of the order path waits for ever.
PathProgresses == QueuedFillsAreBooked /\ WorkersReturn
=============================================================================
