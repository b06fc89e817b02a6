----------------------------- MODULE MarketBook -----------------------------
(***************************************************************************)
(* MarketDataService for one symbol: an order book kept by snapshots and   *)
(* numbered deltas, invalidated by a gap and resynchronised from a         *)
(* snapshot provider, while the tick of the engine overwrites it with      *)
(* snapshots of its own.  Only the awaits (the provider and the adapter)   *)
(* suspend a task; what is between them is one step.                       *)
(*                                                                         *)
(* Delta n sets the level LevelOf(n) to n, so a book that missed a delta,  *)
(* or applied one twice or late, differs from the book of the exchange.    *)
(***************************************************************************)
EXTENDS Integers, Sequences, SequencesExt

CONSTANTS
  Feeder,      \* tasks that ingest the deltas: the event loop of the engine
  Copies,      \* subscriptions of the engine, each of which enqueues the delta
  Providers,   \* kinds of snapshot_provider, a subset of ProviderKind
  MaxDeltas,   \* bound: deltas of the exchange
  MaxFaults    \* bound: skipped numbers and failed fetches

ProviderKind == {"none", "dict", "book"}

ASSUME ProvidersAssumption == Providers \subseteq ProviderKind
ASSUME BookBoundsAssumption == MaxDeltas \in Nat /\ MaxFaults \in Nat /\ Copies \in Nat \ {0}

VARIABLES
  provider,  \* how the service was built
  sent,      \* deltas the exchange has published
  inbox,     \* feeder -> sequence numbers on their way
  book,      \* the local book
  status,    \* statuses[symbol]; the book has a status of its own
  buffer,    \* resync_buffers[symbol]
  feeder,    \* feeder -> what its ingest_delta waits for
  reader,    \* the tick's get_orderbook: "idle", or the book it will ingest
  faults

bookVars == <<provider, sent, inbox, book, status, buffer, feeder, reader, faults>>

NoSequence == -1
Level      == {0, 1}
LevelOf(n) == n % 2

\* The book of the exchange after n deltas.
Truth(n) == [l \in Level |-> IF n = 0 THEN 0
                             ELSE IF LevelOf(n) = l THEN n ELSE n - 1]

NoBook == [sequence |-> NoSequence, levels |-> [l \in Level |-> 0], status |-> "HEALTHY"]
Idle   == [stage |-> "idle", delta |-> 0, fetched |-> NoSequence]

BookInit ==
  /\ provider \in Providers
  /\ sent = 0
  /\ inbox = [f \in Feeder |-> <<>>]
  /\ book = NoBook
  /\ status = "UNHEALTHY"
  /\ buffer = <<>>
  /\ feeder = [f \in Feeder |-> Idle]
  /\ reader = NoSequence
  /\ faults = 0

-----------------------------------------------------------------------------
(* OrderBook.                                                              *)

\* Variant: a delta is applied whatever its sequence number.
AlwaysContiguous(b, n) == b.sequence = NoSequence \/ n > b.sequence

Contiguous(b, n) == b.sequence = NoSequence \/ n = b.sequence + 1

ApplyDelta(b, n) == [b EXCEPT !.sequence = n, !.levels[LevelOf(n)] = n]

Invalidated(b) == [NoBook EXCEPT !.status = "UNHEALTHY"]

\* Variant: a snapshot does not heal the book.
Unhealed(n) == [sequence |-> n, levels |-> Truth(n), status |-> "UNHEALTHY"]

Fresh(n) == [sequence |-> n, levels |-> Truth(n), status |-> "HEALTHY"]

(* What a synchronous part of the service leaves behind.                   *)
Outcome(b, s, pending) == [book |-> b, status |-> s, buffer |-> pending]
Broken(pending) == Outcome(Invalidated(book), "UNHEALTHY", pending)

\* Deltas in a row: each sets its level, so the last of a level stays.
ApplyAll(b, deltas) ==
  LET touching(l) == {i \in DOMAIN deltas : LevelOf(deltas[i]) = l}
  IN  [sequence |-> IF deltas = <<>> THEN b.sequence ELSE Last(deltas),
       levels   |-> [l \in Level |-> IF touching(l) = {} THEN b.levels[l]
                                     ELSE deltas[Max(touching(l))]],
       status   |-> b.status]

\* How many of the deltas follow one another from the book on.
Leading(b, deltas) ==
  LET before(i)   == [b EXCEPT !.sequence = IF i = 1 THEN @ ELSE deltas[i - 1]]
      unbroken(k) == \A i \in 1..k : Contiguous(before(i), deltas[i])
  IN  Max({k \in 0..Len(deltas) : unbroken(k)})

\* ingest_snapshot replays the buffered deltas, up to the first gap, which
\* invalidates the book and leaves the rest buffered.
Replayed(b, pending) ==
  LET n == Leading(b, pending) IN
  IF n = Len(pending) THEN Outcome(ApplyAll(b, pending), "HEALTHY", <<>>)
  ELSE Broken(SubSeq(pending, n + 2, Len(pending)))

Ingested(n) == Replayed(Fresh(n), buffer)

Becomes(o) == book' = o.book /\ status' = o.status /\ buffer' = o.buffer

-----------------------------------------------------------------------------
(* The exchange and its messages.                                          *)

Publish ==
  /\ sent < MaxDeltas
  /\ sent' = sent + 1
  /\ inbox' = [f \in Feeder |-> inbox[f] \o [n \in 1..Copies |-> sent + 1]]
  /\ UNCHANGED <<provider, book, status, buffer, feeder, reader, faults>>

\* sequence_gap_next_delta: a number that is never sent.
Skip ==
  /\ sent < MaxDeltas /\ faults < MaxFaults
  /\ sent' = sent + 1
  /\ faults' = faults + 1
  /\ UNCHANGED <<provider, inbox, book, status, buffer, feeder, reader>>

-----------------------------------------------------------------------------
(* ingest_delta.                                                           *)

Take(f) ==
  /\ feeder[f].stage = "idle" /\ inbox[f] # <<>>
  /\ inbox' = [inbox EXCEPT ![f] = Tail(@)]
  /\ UNCHANGED <<provider, sent, reader, faults>>

\* While a resync is under way deltas are kept for the snapshot.
Buffer(f) ==
  /\ Take(f) /\ book.status = "RESYNCING"
  /\ buffer' = Append(buffer, Head(inbox[f]))
  /\ UNCHANGED <<book, status, feeder>>

Apply(f) ==
  /\ Take(f) /\ book.status # "RESYNCING" /\ book.sequence # NoSequence
  /\ Contiguous(book, Head(inbox[f]))
  /\ book' = ApplyDelta(book, Head(inbox[f]))
  /\ status' = book.status
  /\ UNCHANGED <<buffer, feeder>>

\* resync, up to its await; without a provider it raises at once.
StartResync(f, b, stage) ==
  IF provider = "none"
  THEN Becomes(Outcome([b EXCEPT !.status = "UNHEALTHY"], "UNHEALTHY", buffer))
       /\ UNCHANGED feeder
  ELSE /\ book' = [b EXCEPT !.status = "RESYNCING"]
       /\ status' = "RESYNCING"
       /\ feeder' = [feeder EXCEPT ![f] = [stage |-> stage, delta |-> Head(inbox[f]),
                                           fetched |-> NoSequence]]
       /\ UNCHANGED buffer

FirstDelta(f) ==
  /\ Take(f) /\ book.status # "RESYNCING" /\ book.sequence = NoSequence
  /\ StartResync(f, book, "first")

\* _handle_gap
Gap(f) ==
  /\ Take(f) /\ book.status # "RESYNCING" /\ book.sequence # NoSequence
  /\ ~Contiguous(book, Head(inbox[f]))
  /\ StartResync(f, Invalidated(book), "gap")

\* The provider answers with the book of the exchange at some moment of the call.
Waiting(f) == feeder[f].stage \in {"first", "gap"}

Fetch(f) ==
  /\ Waiting(f) /\ feeder[f].fetched = NoSequence
  /\ feeder' = [feeder EXCEPT ![f].fetched = sent]
  /\ UNCHANGED <<provider, sent, inbox, book, status, buffer, reader, faults>>

\* After the resync: the delta that met a book without a sequence must follow
\* the snapshot; the delta that met a gap is dropped.
Resumed(f, o) ==
  IF o.status # "HEALTHY" THEN o
  ELSE IF feeder[f].stage = "gap" THEN o
  ELSE IF o.book.sequence # NoSequence /\ feeder[f].delta = o.book.sequence + 1
  THEN [o EXCEPT !.book = ApplyDelta(o.book, feeder[f].delta)]
  ELSE Broken(o.buffer)

\* A provider that returns an OrderBook replaces the levels, and the buffered
\* deltas stay buffered.
Resynced(f) ==
  LET n == feeder[f].fetched IN
  Resumed(f, IF provider = "dict" THEN Ingested(n) ELSE Outcome(Fresh(n), "HEALTHY", buffer))

Reply(f) ==
  /\ Waiting(f) /\ feeder[f].fetched # NoSequence
  /\ Becomes(Resynced(f))
  /\ feeder' = [feeder EXCEPT ![f] = Idle]
  /\ UNCHANGED <<provider, sent, inbox, reader, faults>>

ReplyFails(f) ==
  /\ Waiting(f) /\ faults < MaxFaults
  /\ Becomes(Outcome([book EXCEPT !.status = "UNHEALTHY"], "UNHEALTHY", buffer))
  /\ feeder' = [feeder EXCEPT ![f] = Idle]
  /\ faults' = faults + 1
  /\ UNCHANGED <<provider, sent, inbox, reader>>

-----------------------------------------------------------------------------
(* _strategy_context and _refresh_orderbook of the engine.                 *)

ReadBook ==
  /\ reader = NoSequence
  /\ reader' = sent
  /\ UNCHANGED <<provider, sent, inbox, book, status, buffer, feeder, faults>>

\* A gap among the buffered deltas raises, and the tick invalidates the book.
IngestBook ==
  /\ reader # NoSequence
  /\ Becomes(Ingested(reader))
  /\ reader' = NoSequence
  /\ UNCHANGED <<provider, sent, inbox, feeder, faults>>

\* The read of the context fails: the book is invalidated, its status only.  The
\* read before an authorisation fails: the book is left as it is.
ReadFails ==
  /\ reader # NoSequence /\ faults < MaxFaults
  /\ reader' = NoSequence
  /\ faults' = faults + 1
  /\ book' \in {Invalidated(book), book}
  /\ UNCHANGED <<provider, sent, inbox, status, buffer, feeder>>

-----------------------------------------------------------------------------
FeederStep(f) ==
  Buffer(f) \/ Apply(f) \/ FirstDelta(f) \/ Gap(f) \/ Fetch(f) \/ Reply(f)
TickStep == ReadBook \/ IngestBook

BookNext ==
  \/ Publish
  \/ Skip
  \/ \E f \in Feeder : FeederStep(f) \/ ReplyFails(f)
  \/ TickStep \/ ReadFails

-----------------------------------------------------------------------------
IsHealthy == status = "HEALTHY" /\ book.status = "HEALTHY"

BookTypeOK ==
  /\ provider \in ProviderKind /\ sent \in 0..MaxDeltas /\ faults \in 0..MaxFaults
  /\ inbox \in [Feeder -> Seq(1..MaxDeltas)] /\ buffer \in Seq(1..MaxDeltas)
  /\ book \in [sequence : {NoSequence} \cup 0..MaxDeltas, levels : [Level -> 0..MaxDeltas],
               status : {"HEALTHY", "UNHEALTHY", "RESYNCING"}]
  /\ status \in {"HEALTHY", "UNHEALTHY", "RESYNCING"}
  /\ feeder \in [Feeder -> [stage : {"idle", "first", "gap"}, delta : 0..MaxDeltas,
                            fetched : {NoSequence} \cup 0..MaxDeltas]]
  /\ reader \in {NoSequence} \cup 0..MaxDeltas

\* A book that is_healthy shows a consumer is the book the exchange had at that
\* sequence number: no lost, repeated or late delta, no buffered delta and no
\* resync that was overtaken leaves a wrong level behind a healthy status.
HealthyBookIsExact ==
  IsHealthy => book.sequence # NoSequence /\ book.levels = Truth(book.sequence)

\* Once the exchange is quiet the reads of the tick bring the book up to date for
\* good, whatever gaps, failed resyncs and stale buffered deltas came before.
BookCatchesUp == <>[](IsHealthy /\ book.sequence = sent)
=============================================================================
