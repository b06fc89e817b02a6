-------------------------- MODULE ExplorationReport --------------------------
(***************************************************************************)
(* exploration_status: what the report of the exploration stage makes of   *)
(* the stored decisions and fills.  The fills come as trading produces     *)
(* them, in parts.  A row bears the time at which it is recorded, so that  *)
(* a fill that is late stands late: a part of an entry behind an exit, an  *)
(* exit behind the end of its position.  An exit that sells more than      *)
(* there is leaves a row of its full quantity.  The report sums the        *)
(* quantities as floating-point numbers, so that a position closed in      *)
(* parts may leave a residue.                                              *)
(***************************************************************************)
EXTENDS Integers, Sequences, SequencesExt

CONSTANTS
  Asset,      \* symbols
  Signal,     \* signal ids of decisions
  NoSignal,   \* an order that no stored decision caused
  Rows,       \* LIMIT of the query for decisions
  MaxFills    \* bound: fills

ASSUME ReportAssumption == Rows \in Nat /\ MaxFills \in Nat /\ NoSignal \notin Signal

VARIABLES
  evidence,   \* stored decisions in their order: signal, and whether its lineage is complete
  fills,      \* stored fills in their order
  holds,      \* asset -> position in the books, in lots
  booked,     \* asset -> sum of the stored fills, in lots
  terms,      \* asset -> fills since that sum was 0
  residue,    \* asset -> sign of what the floating-point sum has left
  trip,       \* asset -> the last round trip, and the sign of the sum where it began
  oversold,   \* assets of which an exit has sold more than there was
  done        \* the round trips in which an exit has begun, with the fill that began it

reportVars == <<evidence, fills, holds, booked, terms, residue, trip, oversold, done>>

Sign(n) == IF n > 0 THEN 1 ELSE IF n < 0 THEN -1 ELSE 0
NoTrip  == [direction |-> 0, signal |-> NoSignal, offset |-> 0, leaving |-> TRUE]

ReportInit ==
  /\ evidence = <<>> /\ fills = <<>> /\ done = {} /\ oversold = {}
  /\ holds = [a \in Asset |-> 0] /\ booked = [a \in Asset |-> 0]
  /\ terms = [a \in Asset |-> 0] /\ residue = [a \in Asset |-> 0]
  /\ trip = [a \in Asset |-> NoTrip]

-----------------------------------------------------------------------------
(* Trading: decisions are stored, orders are filled in parts.              *)

\* The row of a decision is written once.
store_decision(row) ==
  IF \E i \in DOMAIN evidence : evidence[i].signal = row.signal THEN evidence
  ELSE Append(evidence, row)

_persist_evidence ==
  /\ \E s \in Signal, complete \in BOOLEAN :
       evidence' = store_decision([signal |-> s, complete |-> complete])
  /\ UNCHANGED <<fills, holds, booked, terms, residue, trip, oversold, done>>

\* A sum of more than two fills that is exactly 0 leaves a residue of either sign, or none.
Residues(a, after) == IF after # 0 \/ terms[a] < 2 THEN {0} ELSE {-1, 0, 1}
SumSign(a) == IF booked[a] # 0 THEN Sign(booked[a]) ELSE residue[a]

Filled(a, lots, signal) ==
  LET after == booked[a] + lots IN
  /\ Len(fills) < MaxFills
  /\ \E rest \in Residues(a, after) :
       /\ fills' = Append(fills, [symbol |-> a, lots |-> lots, signal |-> signal, rest |-> rest])
       /\ residue' = [residue EXCEPT ![a] = rest]
  /\ booked' = [booked EXCEPT ![a] = after]
  /\ terms' = [terms EXCEPT ![a] = IF after = 0 THEN 0 ELSE @ + 1]
  /\ UNCHANGED evidence

\* A part of an entry, the first or a further one; its decision may not have been stored.
EntryFill(a) ==
  /\ \E d \in {-1, 1}, s \in Signal \cup {NoSignal} :
       /\ holds[a] # 0 => d = trip[a].direction /\ s = trip[a].signal
       /\ Filled(a, d, s)
       /\ holds' = [holds EXCEPT ![a] = @ + d]
       /\ trip' = [trip EXCEPT ![a] =
            [direction |-> d, signal |-> s, leaving |-> FALSE,
             offset |-> IF @.leaving THEN SumSign(a) ELSE @.offset]]
  /\ UNCHANGED <<oversold, done>>

\* A part of an exit.  When it sells more than there is, close_position takes what there is,
\* and the settlement of a spot fill raises behind the commit of the row.
ExitFill(a) ==
  /\ trip[a].direction # 0
  /\ \E lots \in {1, 2} :
       LET left == trip[a].direction * holds[a] - lots
       IN  /\ Filled(a, -trip[a].direction * lots, NoSignal)
           /\ \E n \in IF left < 0 THEN {0, holds[a]} ELSE {trip[a].direction * left} :
                holds' = [holds EXCEPT ![a] = n]
           /\ oversold' = IF left < 0 THEN oversold \cup {a} ELSE oversold
  /\ trip' = [trip EXCEPT ![a].leaving = TRUE]
  /\ done' = IF trip[a].leaving THEN done
             ELSE done \cup {[trip |-> trip[a], symbol |-> a, at |-> Len(fills) + 1]}

ReportNext ==
  \/ _persist_evidence
  \/ \E a \in Asset : EntryFill(a) \/ ExitFill(a)

-----------------------------------------------------------------------------
(* The report.                                                             *)

\* signal_to_decision, of the rows the query returns.
Stored(s) == {i \in DOMAIN evidence : i <= Rows /\ evidence[i].signal = s}

is_valid_learning_sample(s) == \E i \in Stored(s) : evidence[i].complete

\* The floating-point sum: a residue vanishes beside a position.
NetAfter(net, f) ==
  LET exact == net.lots + f.lots
  IN  [lots |-> exact, sign |-> IF exact = 0 THEN f.rest ELSE Sign(exact)]

\* Variant: what is added to a position does not belong to its entry.
OpensAtFlat(previous, f) == previous.sign = 0

opens_entry(previous, f) == previous.sign = 0 \/ previous.sign = Sign(f.lots)

\* One fill: an entry replaces the lot of its symbol, an exit takes it.
Realized(r, f) ==
  LET a == f.symbol
      n == r.read + 1
      after == [r EXCEPT !.read = n, !.net[a] = NetAfter(@, f)]
  IN  CASE opens_entry(r.net[a], f) ->
             [after EXCEPT !.lot[a] = {[signal |-> f.signal, direction |-> Sign(f.lots)]},
                           !.entries = @ + 1]
        [] OTHER ->
             [after EXCEPT !.lot[a] = {},
                           !.trades = @ \cup {[lot |-> l, symbol |-> a, at |-> n] : l \in r.lot[a]}]

exploration_status ==
  FoldLeft(Realized,
           [read |-> 0, entries |-> 0, trades |-> {}, lot |-> [a \in Asset |-> {}],
            net |-> [a \in Asset |-> [lots |-> 0, sign |-> 0]]],
           fills)

valid_completed == {t \in exploration_status.trades : is_valid_learning_sample(t.lot.signal)}

-----------------------------------------------------------------------------

\* The report's share of the type invariant.
ReportTypeOK ==
  /\ Len(fills) \in 0..MaxFills /\ residue \in [Asset -> -1..1]
  /\ holds \in [Asset -> Int] /\ booked \in [Asset -> Int] /\ terms \in [Asset -> 0..MaxFills]
  /\ \A i \in DOMAIN fills : fills[i].symbol \in Asset /\ fills[i].rest \in -1..1
  /\ \A i \in DOMAIN evidence : evidence[i].signal \in Signal

\* The exit that closes what t reports is the first of a round trip, of its symbol, direction
\* and decision.
IsOf(t, d) ==
  /\ t.at = d.at /\ t.symbol = d.symbol
  /\ t.lot.direction = d.trip.direction /\ t.lot.signal = d.trip.signal

\* A round trip is reported once at most, under its own symbol, direction and decision,
\* however many fills it came in.  Where an exit has sold more than there was, the report has
\* round trips that nobody made, but never one of a decision.  A learning sample is a round
\* trip that was made, of a decision with a complete lineage.
TradesAreRoundTrips ==
  /\ \A t \in exploration_status.trades :
       \/ \E d \in done : IsOf(t, d)
       \/ t.symbol \in oversold /\ t.lot.signal = NoSignal
  /\ \A t \in valid_completed :
       /\ \E d \in done : IsOf(t, d)
       /\ \E i \in DOMAIN evidence : evidence[i].signal = t.lot.signal /\ evidence[i].complete

\* No round trip is missing, unless it began against what the sum of the fills was then: the
\* residue of an earlier one, or what was sold beyond it.
RoundTripsAreReported ==
  \A d \in done :
    \/ \E t \in exploration_status.trades : IsOf(t, d)
    \/ d.trip.offset = -d.trip.direction

\* The first lines of exploration_analytics.py: "no fabrication".  Every trade of the report is
\* a round trip that was made.
NothingFabricated == \A t \in exploration_status.trades : \E d \in done : IsOf(t, d)
=============================================================================
