--------------------------- MODULE DailyGovernance --------------------------
(***************************************************************************)
(* DailyReviewScheduler: at 00:05 UTC a loop reviews the trade memory of   *)
(* the current date and saves one row per date; an operator can run the    *)
(* same review at any time.  The review loads the memory, asks the         *)
(* language model twice, and only then saves, so it may fail after the     *)
(* loading, and two reviews may overlap.                                   *)
(***************************************************************************)
EXTENDS Integers

CONSTANTS
  Reviewer,        \* the loop and the operator
  Loop,            \* the reviewer that waits for 00:05
  MaxDate,         \* bound: dates
  MaxTrades        \* bound: records of the trade memory per date

ASSUME GovernanceBoundsAssumption ==
  MaxDate \in Nat \ {0} /\ MaxTrades \in Nat

VARIABLES
  date,      \* the current UTC date
  due,       \* 00:05 of this date is still ahead
  memory,    \* date -> its trade memory records
  rows,      \* date -> trade_count of its daily_review_runs row, or NoRow
  reviewer,  \* what each reviewer holds between loading and saving
  failed     \* dates of the reviews that failed

governanceVars == <<date, due, memory, rows, reviewer, failed>>

Date     == 1..MaxDate
NoReview == -1
Free     == [date |-> 0, count |-> 0]

GovernanceInit ==
  /\ date = 1 /\ due = TRUE
  /\ memory = [d \in Date |-> 0]
  /\ rows = [d \in Date |-> NoReview]
  /\ reviewer = [r \in Reviewer |-> Free]
  /\ failed = {}

\* save_trade_memory
SaveTrade ==
  /\ memory[date] < MaxTrades
  /\ memory' = [memory EXCEPT ![date] = @ + 1]
  /\ UNCHANGED <<date, due, rows, reviewer, failed>>

NextDate ==
  /\ date < MaxDate /\ ~due
  /\ date' = date + 1 /\ due' = TRUE
  /\ UNCHANGED <<memory, rows, reviewer, failed>>

\* DailyReview.run filters the records by the date it is given, the current one.
RecordsOfDate == memory[date]

Load(r) ==
  /\ reviewer[r] = Free
  /\ reviewer' = [reviewer EXCEPT ![r] = [date |-> date, count |-> RecordsOfDate]]
  /\ UNCHANGED <<date, memory, rows, failed>>

\* The loop sleeps until the next 00:05; a loop still busy with the last review
\* misses this one, and sleeps until the next date.
WakeLoop  == due /\ due' = FALSE /\ Load(Loop)
MissSlot  == due /\ reviewer[Loop] # Free /\ due' = FALSE
             /\ UNCHANGED <<date, memory, rows, reviewer, failed>>
RunByHand(r) == r # Loop /\ Load(r) /\ UNCHANGED due

\* save_daily_review inserts or overwrites the row of the date.
SaveReview(r) ==
  /\ reviewer[r] # Free
  /\ rows' = [rows EXCEPT ![reviewer[r].date] = reviewer[r].count]
  /\ reviewer' = [reviewer EXCEPT ![r] = Free]
  /\ UNCHANGED <<date, due, memory, failed>>

\* DailyLLMRetryableError: nothing is saved, and the loop goes on to sleep.
ReviewModelFails(r) ==
  /\ reviewer[r] # Free
  /\ failed' = failed \cup {reviewer[r].date}
  /\ reviewer' = [reviewer EXCEPT ![r] = Free]
  /\ UNCHANGED <<date, due, memory, rows>>

GovernanceNext ==
  \/ SaveTrade \/ NextDate \/ WakeLoop \/ MissSlot
  \/ \E r \in Reviewer : RunByHand(r) \/ SaveReview(r) \/ ReviewModelFails(r)

-----------------------------------------------------------------------------
\* The row of a date never counts more trades than that date had: overlapping and
\* repeated reviews overwrite each other instead of adding up.
RowsAreOfTheirDate == \A d \in Date : rows[d] <= memory[d]

\* A date whose review failed is reviewed by the time a later date is, as the loop
\* has it ("next loop retries safely").  The next loop reviews the next date.
FailedDateIsRetried ==
  \A d \in failed, e \in Date : d < e /\ rows[e] # NoReview => rows[d] # NoReview
=============================================================================
