---------------------------- MODULE TradeEpisodes ---------------------------
(***************************************************************************)
(* The episodes learned from: the fills of one symbol are replayed into    *)
(* cycles that run from flat to flat, and each completed cycle becomes one *)
(* row of ai_trade_episodes, keyed by its fills.  The hook runs after a    *)
(* fill that leaves the symbol flat, and for a perpetual after each exit,  *)
(* synchronously, so it is one step; it may fail, and then only the next   *)
(* such fill of the symbol repeats it.                                     *)
(***************************************************************************)
EXTENDS Integers, Sequences, FiniteSets, SequencesExt

CONSTANTS
  Quantities,     \* quantities of a fill
  MaxFills,       \* bound: fills of the symbol
  MaxDisturbances \* bound: late fills, oversized exits, quarantines

ASSUME EpisodeBoundsAssumption ==
  Quantities \subseteq Nat \ {0} /\ MaxFills \in Nat /\ MaxDisturbances \in Nat

VARIABLES
  perpetual,    \* the symbol is a perpetual
  fills,        \* the rows of the fills table, in the order of their ids
  quarantined,  \* indices of fills named by an EVIDENCE_QUARANTINE
  windows,      \* times of the quarantines that name the symbol
  episodes,     \* keys of the stored rows: <<entries, exits>> by fill index
  pending,      \* a hook is due for the last fill
  recorded,     \* the last hook succeeded and none was due since
  disturbances

episodeVars ==
  <<perpetual, fills, quarantined, windows, episodes, pending, recorded, disturbances>>

EpisodeInit ==
  /\ perpetual \in BOOLEAN
  /\ fills = <<>> /\ quarantined = {} /\ windows = {}
  /\ episodes = {} /\ pending = FALSE /\ recorded = TRUE /\ disturbances = 0

Signed(i) == IF fills[i].side = "BUY" THEN fills[i].quantity ELSE -fills[i].quantity
NetOf(ids) == FoldLeft(LAMBDA n, i : n + Signed(i), 0, ids)
Booked     == [i \in DOMAIN fills |-> i]
Position   == NetOf(Booked)

-----------------------------------------------------------------------------
(* build_cycles.                                                           *)

Unquarantined == DOMAIN fills \ quarantined

\* ORDER BY timestamp, id.
Earlier(i, j) == \/ fills[i].time < fills[j].time
                 \/ fills[i].time = fills[j].time /\ i < j

\* The n-th fill of the replay has n - 1 earlier ones that are not quarantined.
Nth(n) ==
  CHOOSE i \in Unquarantined : Cardinality({j \in Unquarantined : Earlier(j, i)}) = n - 1

Replay == [n \in 1..Cardinality(Unquarantined) |-> Nth(n)]

IsReduce(i, open) == \/ open > 0 /\ fills[i].side = "SELL"
                     \/ open < 0 /\ fills[i].side = "BUY"

NoCycle == [entries |-> <<>>, exits |-> <<>>, open |-> 0]

Complete(c) == c.entries # <<>> /\ c.exits # <<>> /\ c.open = 0

Opened(i) == [entries |-> <<i>>, exits |-> <<>>, open |-> Signed(i)]

\* A fill at flat: a reduce-only one belongs to an unknown state and is skipped.
AtFlat(acc, i) ==
  [done |-> IF Complete(acc.cycle) THEN Append(acc.done, acc.cycle) ELSE acc.done,
   cycle |-> IF fills[i].reduceOnly THEN NoCycle ELSE Opened(i)]

Extended(c, i) ==
  LET d == [c EXCEPT !.open = @ + Signed(i)] IN
  IF IsReduce(i, c.open) \/ fills[i].reduceOnly
  THEN [d EXCEPT !.exits = Append(@, i)] ELSE [d EXCEPT !.entries = Append(@, i)]

WithLast(acc) == IF Complete(acc.cycle) THEN Append(acc.done, acc.cycle) ELSE acc.done

build_cycles ==
  WithLast(FoldLeft(LAMBDA acc, i : IF acc.cycle.open = 0 THEN AtFlat(acc, i)
                                    ELSE [acc EXCEPT !.cycle = Extended(acc.cycle, i)],
                    [done |-> <<>>, cycle |-> NoCycle], Replay))

Key(c) == <<c.entries, c.exits>>
Members(key) == ToSet(key[1]) \cup ToSet(key[2])

\* A quarantine of the symbol between the first entry and the last exit.
InWindow(key, w) == fills[key[1][1]].time <= w /\ w <= fills[key[2][Len(key[2])]].time
Tainted(key) == \E w \in windows : InWindow(key, w)

\* Variant: the windows are not asked.
AnyCycle == {Key(c) : c \in ToSet(build_cycles)}

Admissible == {k \in {Key(c) : c \in ToSet(build_cycles)} : ~Tainted(k)}

-----------------------------------------------------------------------------
(* What happens to the tables.                                             *)

\* A perpetual's exits, and what leaves a spot position at zero, call the hook.
CallsHook(side, q, reduce) ==
  IF perpetual THEN reduce ELSE Position + (IF side = "BUY" THEN q ELSE -q) = 0

\* The n-th fill is stamped 2n, a late one with an earlier odd time.
Book(side, q, reduce, time) ==
  /\ Len(fills) < MaxFills /\ ~pending
  /\ fills' = Append(fills, [side |-> side, quantity |-> q, reduceOnly |-> reduce, time |-> time])
  /\ pending' = CallsHook(side, q, reduce)
  /\ recorded' = (recorded /\ ~CallsHook(side, q, reduce))
  /\ UNCHANGED <<perpetual, quarantined, windows, episodes>>

InOrder == 2 * (Len(fills) + 1)

\* The risk engine refuses an entry against the position.
Enter(side, q) ==
  /\ Position = 0 \/ (Position > 0) = (side = "BUY")
  /\ Book(side, q, FALSE, InOrder)
  /\ UNCHANGED disturbances

Exit(q) ==
  /\ Position # 0 /\ q <= (IF Position > 0 THEN Position ELSE -Position)
  /\ Book(IF Position > 0 THEN "SELL" ELSE "BUY", q, TRUE, InOrder)
  /\ UNCHANGED disturbances

Disturb == disturbances < MaxDisturbances /\ disturbances' = disturbances + 1

\* A second exit of the same position, or a fill that recovery books after younger ones.
ExitAgain(side, q) == Disturb /\ Book(side, q, TRUE, InOrder)
EnterLate(side, q) ==
  Disturb /\ \E t \in 0..Len(fills) : Book(side, q, FALSE, 2 * t + 1)

Quarantine(i) ==
  /\ Disturb /\ i \in DOMAIN fills /\ i \notin quarantined
  /\ quarantined' = quarantined \cup {i}
  /\ recorded' = FALSE
  /\ UNCHANGED <<perpetual, fills, windows, episodes, pending>>

QuarantineSymbol(t) ==
  /\ Disturb
  /\ windows' = windows \cup {t}
  /\ recorded' = FALSE
  /\ UNCHANGED <<perpetual, fills, quarantined, episodes, pending>>

\* persist_episode_sync: what is stored stays stored.
Persisted(keys) == episodes \cup keys

\* record_cycle_for_fill_sync
Record ==
  /\ pending
  /\ episodes' = Persisted(Admissible)
  /\ pending' = FALSE /\ recorded' = TRUE
  /\ UNCHANGED <<perpetual, fills, quarantined, windows, disturbances>>

\* A locked database or a crash: TRADE_EPISODE_RECORD_FAILED.
RecordFails ==
  /\ pending /\ pending' = FALSE
  /\ UNCHANGED <<perpetual, fills, quarantined, windows, episodes, recorded, disturbances>>

EpisodeNext ==
  \/ \E side \in {"BUY", "SELL"}, q \in Quantities :
       Enter(side, q) \/ ExitAgain(side, q) \/ EnterLate(side, q)
  \/ \E q \in Quantities : Exit(q)
  \/ \E i \in 1..MaxFills : Quarantine(i) \/ QuarantineSymbol(2 * i - 1)
  \/ Record \/ RecordFails

-----------------------------------------------------------------------------
\* The trades as the position went, from flat to flat, in the order they were booked.
Trades ==
  LET flat == {i \in 0..Len(fills) : NetOf(SubSeq(Booked, 1, i)) = 0}
  IN  {<<x[1] + 1, x[2]>> :
         x \in {y \in flat \X flat : y[1] < y[2] /\ \A k \in flat : k <= y[1] \/ k >= y[2]}}

\* While nothing disturbed the fills, the stored episodes are trades that went from
\* flat to flat, and once a hook succeeded they are all of them, hooks that failed
\* before made up for, until the next hook is due.
EpisodesAreTrades ==
  disturbances = 0 =>
    LET spans == {<<key[1][1], key[2][Len(key[2])]>> : key \in episodes} IN
    /\ spans \subseteq Trades
    /\ recorded => spans = Trades
    /\ \A key \in episodes :
         Members(key) = key[1][1]..key[2][Len(key[2])] /\ \A i \in ToSet(key[2]) : fills[i].reduceOnly

\* Whatever happens to the fills, a stored episode nets to zero: no partial close
\* is ever learned from.
EpisodesNetToZero == \A key \in episodes : NetOf(key[1]) + NetOf(key[2]) = 0

\* No hook stores an episode that holds a quarantined fill or spans a quarantine of
\* its symbol.
QuarantineIsHonoured ==
  [][\A key \in episodes' \ episodes :
       /\ Members(key) \cap quarantined = {}
       /\ \A w \in windows : \A i, j \in Members(key) : ~(fills[i].time <= w /\ w <= fills[j].time)
    ]_episodeVars

=============================================================================
