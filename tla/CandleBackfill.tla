-------------------------- MODULE CandleBackfill ----------------------------
(***************************************************************************)
(* backfill_candles pages backwards through a history that grows at its    *)
(* other end.                                                              *)
(***************************************************************************)
EXTENDS Integers, FiniteSets

CONSTANTS
  MaxCandles,     \* bound: candles of the history
  PageSize,       \* rows of a history page (100)
  PageLimits,     \* values of max_pages; 0 stands for None
  MaxPageFaults   \* bound: requests that fail

ASSUME BackfillAssumption ==
  /\ MaxCandles \in Nat /\ PageSize \in Nat \ {0}
  /\ PageLimits \subseteq Nat /\ MaxPageFaults \in Nat

VARIABLES
  candles,    \* candles 1..candles exist, in the order of their timestamps
  maxPages,
  backfill,   \* the cursor, the rows and pages so far; top is the newest at the start
  pageFaults

backfillVars == <<candles, maxPages, backfill, pageFaults>>

NotStarted == [stage |-> "idle", after |-> 0, rows |-> {}, pages |-> 0, top |-> 0]

BackfillInit ==
  /\ candles \in 0..MaxCandles
  /\ maxPages \in PageLimits
  /\ backfill = NotStarted
  /\ pageFaults = 0

NewCandle ==
  /\ candles < MaxCandles
  /\ candles' = candles + 1
  /\ UNCHANGED <<maxPages, backfill, pageFaults>>

\* The newest rows that are older than the cursor; no cursor is 0.
Page(after) ==
  LET top == IF after = 0 THEN candles ELSE after - 1
  IN {n \in 1..top : n > top - PageSize}

Oldest(rows) == CHOOSE n \in rows : \A k \in rows : n <= k

\* Variant: the cursor is moved past the oldest row.
SkipOne(rows) == Oldest(rows) - 1

NextAfter(rows) == Oldest(rows)

Begin ==
  /\ backfill.stage = "idle"
  /\ backfill' = [NotStarted EXCEPT !.stage = "page", !.top = candles]
  /\ UNCHANGED <<candles, maxPages, pageFaults>>

OutOfPages == maxPages # 0 /\ backfill.pages >= maxPages

\* A short page, or a cursor that does not move, is the last.
Exhausted(rows) == Cardinality(rows) < PageSize \/ NextAfter(rows) = backfill.after

NextPage ==
  /\ backfill.stage = "page" /\ ~OutOfPages
  /\ LET rows == Page(backfill.after)
         read == [backfill EXCEPT !.rows = @ \cup rows, !.pages = @ + 1]
     IN backfill' = IF rows = {} THEN [backfill EXCEPT !.stage = "done"]
                    ELSE IF Exhausted(rows) THEN [read EXCEPT !.stage = "done"]
                    ELSE [read EXCEPT !.after = NextAfter(rows)]
  /\ UNCHANGED <<candles, maxPages, pageFaults>>

LastPage ==
  /\ backfill.stage = "page" /\ OutOfPages
  /\ backfill' = [backfill EXCEPT !.stage = "done"]
  /\ UNCHANGED <<candles, maxPages, pageFaults>>

\* A request that fails loses the pages read so far.
PageFails ==
  /\ backfill.stage = "page" /\ pageFaults < MaxPageFaults
  /\ backfill' = NotStarted
  /\ pageFaults' = pageFaults + 1
  /\ UNCHANGED <<candles, maxPages>>

BackfillStep == Begin \/ NextPage \/ LastPage

BackfillNext == NewCandle \/ BackfillStep \/ PageFails

-----------------------------------------------------------------------------
\* A finished backfill has every candle from the oldest it reached to one at least
\* as new as the newest there was when it began, with no hole at a page boundary,
\* and without a page limit it reached the first.
BackfillHasNoHole ==
  backfill.stage = "done" /\ backfill.rows # {} =>
    /\ \E newest \in backfill.rows :
          newest >= backfill.top /\ backfill.rows = Oldest(backfill.rows)..newest
    /\ maxPages = 0 => 1 \in backfill.rows
=============================================================================
