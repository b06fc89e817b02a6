----------------------------- MODULE ReviewJobs -----------------------------
(***************************************************************************)
(* The hierarchical reviews: a weekly report is aggregated from the daily  *)
(* ones, a monthly from the weekly, the yearly from the monthly.  Several  *)
(* runners (HierarchicalReviewService.run, called directly or through the  *)
(* RuntimeReviewCoordinator) work on the same tables; each database call   *)
(* is a step, and a runner may die between two of them.                    *)
(*                                                                         *)
(* Of a report the model keeps how often each day is counted in it (every  *)
(* sum of the engine adds once per counted day) and what becomes of one    *)
(* lesson statement.                                                       *)
(***************************************************************************)
EXTENDS Integers, Sequences

CONSTANTS
  Day,          \* daily periods
  Week, Month, Year,
  ChildrenOf,   \* period -> the child ids _expected_period_ids lists for it
  EndOf,        \* period -> its last day
  Runner,
  Coordinator,  \* the runner that goes through run_due
  Asked,        \* runner -> the periods it is asked to review
  DailyReviews, \* the daily reviews that get written: <<day, review id>> -> content
  MaxReviewFaults  \* bound: deaths and failing database calls

Period == Week \cup Month \cup Year

\* The weeks are those of the ISO calendar: a day belongs to one of them.
ASSUME CalendarAssumption ==
  /\ Day \subseteq Nat /\ EndOf \in [Period -> Day] /\ Period # {}
  /\ Week \cap Month = {} /\ Week \cap Year = {} /\ Month \cap Year = {} /\ Day \cap Period = {}
  /\ DOMAIN ChildrenOf = Period
  /\ \A w \in Week : ChildrenOf[w] \in Seq(Day)
  /\ \A m \in Month : ChildrenOf[m] \in Seq(Week)
  /\ \A y \in Year : ChildrenOf[y] \in Seq(Month)
  /\ \A v, w \in Week : \A i \in DOMAIN ChildrenOf[v], j \in DOMAIN ChildrenOf[w] :
       ChildrenOf[v][i] = ChildrenOf[w][j] => v = w
ASSUME AskedAssumption == Asked \in [Runner -> SUBSET Period]
ASSUME ReviewBoundsAssumption == MaxReviewFaults \in Nat

ReviewId == {1, 2}

ASSUME DailyReviewsAssumption ==
  \A x \in DOMAIN DailyReviews : DailyReviews[x] \in {"plain", "lesson"}

VARIABLES
  now,         \* days that are over
  daily,       \* daily_review_results: <<day, review id>> -> its content
  report,      \* the stored reports
  job,         \* the statuses of the hierarchical review jobs
  runner,      \* where each runner is
  reviewFaults

reviewVars == <<now, daily, report, job, runner, reviewFaults>>

NoReport  == [days |-> [d \in Day |-> 0], lesson |-> "absent", children |-> {}]
Resting   == [stage |-> "idle", period |-> CHOOSE p \in Period : TRUE, todo |-> <<>>,
              found |-> <<>>, target |-> "none", known |-> FALSE, again |-> FALSE]

ReviewInit ==
  /\ now = 0
  /\ daily = [x \in Day \X ReviewId |-> "none"]
  /\ report = [p \in Period |-> NoReport]
  /\ job = [p \in Period |-> "none"]
  /\ runner = [r \in Runner |-> Resting]
  /\ reviewFaults = 0

Stored(p) == report[p] # NoReport

-----------------------------------------------------------------------------
(* The aggregation.                                                        *)

\* A daily review in the shape of a report: DailyReviewPipeline.run leaves the
\* lessons of a day CANDIDATE.
DailyReport(d, i) ==
  [days |-> [e \in Day |-> IF e = d THEN 1 ELSE 0],
   lesson |-> IF daily[<<d, i>>] = "lesson" THEN "CANDIDATE" ELSE "none",
   children |-> {}]

\* list_reviews_by_period and list_period: the rows of one child period, by review id.
DailyRow(d, i) ==
  IF daily[<<d, i>>] = "none" THEN <<>> ELSE <<[period |-> d, body |-> DailyReport(d, i)]>>

RowsOf(c) ==
  IF c \in Day THEN DailyRow(c, 1) \o DailyRow(c, 2)
  ELSE IF Stored(c) THEN <<[period |-> c, body |-> report[c]]>> ELSE <<>>

\* Variant: every row of a child period is kept.
KeepAll(rows) == DOMAIN rows

\* _collapse_per_period: the first row of a child period is its canonical report.
Collapsed(rows) ==
  {k \in DOMAIN rows : \A l \in 1..(k - 1) : rows[l].period # rows[k].period}

\* What the kept rows say of a day, added up.
Total(rows, kept, d) ==
  LET upTo[n \in 0..Len(rows)] ==
        IF n = 0 THEN 0
        ELSE upTo[n - 1] + IF n \in kept THEN rows[n].body.days[d] ELSE 0
  IN upTo[Len(rows)]

\* weekly_review: a lesson seen on two different days is confirmed.  (The daily
\* pipeline stores no contradictions that _dec could read, so none is rejected.)
SupportDays(rows, kept) ==
  {rows[k].period : k \in {l \in kept : rows[l].body.lesson = "CANDIDATE"}}

WeeklyLesson(rows, kept) ==
  IF \E d, e \in SupportDays(rows, kept) : d # e THEN "CONFIRMED"
  ELSE IF SupportDays(rows, kept) # {} THEN "CANDIDATE" ELSE "none"

\* monthly_review and yearly_review only take over what is confirmed below.
CarriedLesson(rows, kept) ==
  IF \E k \in kept : rows[k].body.lesson = "CONFIRMED" THEN "CONFIRMED" ELSE "none"

Counts(rows, kept) == [d \in Day |-> Total(rows, kept, d)]
ChildIds(rows, kept) == {rows[k].period : k \in kept}

weekly_review(rows, kept) ==
  [days |-> Counts(rows, kept), lesson |-> WeeklyLesson(rows, kept),
   children |-> ChildIds(rows, kept)]
monthly_review(rows, kept) ==
  [days |-> Counts(rows, kept), lesson |-> CarriedLesson(rows, kept),
   children |-> ChildIds(rows, kept)]
yearly_review(rows, kept) == monthly_review(rows, kept)

Aggregate(p, rows) ==
  CASE p \in Week  -> weekly_review(rows, Collapsed(rows))
    [] p \in Month -> monthly_review(rows, Collapsed(rows))
    [] OTHER       -> yearly_review(rows, Collapsed(rows))

-----------------------------------------------------------------------------
(* Time, and the daily reviews, each stored once per review id.            *)

Midnight ==
  /\ now + 1 \in Day
  /\ now' = now + 1
  /\ UNCHANGED <<daily, report, job, runner, reviewFaults>>

\* period_for: of the weeks (months, years) that are over, the last.
Latest(kind) ==
  {p \in kind : EndOf[p] <= now /\ \A q \in kind : EndOf[q] <= now => EndOf[q] <= EndOf[p]}
PeriodFor == Latest(Week) \cup Latest(Month) \cup Latest(Year)

StoreDaily(x) ==
  /\ x[1] <= now /\ daily[x] = "none"
  /\ daily' = [daily EXCEPT ![x] = DailyReviews[x]]
  /\ UNCHANGED <<now, report, job, runner, reviewFaults>>

-----------------------------------------------------------------------------
(* HierarchicalReviewService.run.                                          *)

\* Variant: a stored report is enough to skip the run.
ReportIsEnough(r, p) == Stored(p)

\* The coordinator skips what is COMPLETED; the service asks for the report too.
ShortCircuits(r, p) == job[p] = "COMPLETED" /\ (r = Coordinator \/ Stored(p))

Begin(r, p) ==
  /\ runner[r].stage = "idle" /\ ~ShortCircuits(r, p)
  /\ runner' = [runner EXCEPT ![r] = [Resting EXCEPT !.stage = "collect", !.period = p,
                                                    !.todo = ChildrenOf[p]]]
  /\ UNCHANGED <<now, daily, report, job, reviewFaults>>

At(r, stage) == runner[r].stage = stage

\* _collect_children: one query per expected child.
CollectChild(r) ==
  /\ At(r, "collect") /\ runner[r].todo # <<>>
  /\ runner' = [runner EXCEPT ![r].todo = Tail(@),
                              ![r].found = @ \o RowsOf(Head(runner[r].todo))]
  /\ UNCHANGED <<now, daily, report, job, reviewFaults>>

Putting(r, status) ==
  [runner EXCEPT ![r] = [Resting EXCEPT !.stage = "put", !.period = runner[r].period,
                                        !.target = status]]

\* store_review: SELECT, and INSERT if there is no row.
SelectReview(r) ==
  /\ At(r, "collect") /\ runner[r].todo = <<>>
  /\ runner' = IF Stored(runner[r].period) THEN Putting(r, "COMPLETED")
               ELSE [runner EXCEPT ![r].stage = "insert"]
  /\ UNCHANGED <<now, daily, report, job, reviewFaults>>

\* A row another runner inserted meanwhile violates the unique review_id.
InsertReview(r) ==
  LET p == runner[r].period IN
  /\ At(r, "insert")
  /\ report' = [report EXCEPT ![p] =
                  IF Stored(p) THEN @ ELSE Aggregate(p, runner[r].found)]
  /\ runner' = Putting(r, IF Stored(p) THEN "FAILED" ELSE "COMPLETED")
  /\ UNCHANGED <<now, daily, job, reviewFaults>>

\* Any other database error before the report is stored.
ReviewFails(r) ==
  /\ runner[r].stage \in {"collect", "insert"} /\ reviewFaults < MaxReviewFaults
  /\ reviewFaults' = reviewFaults + 1
  /\ runner' = Putting(r, "FAILED")
  /\ UNCHANGED <<now, daily, report, job>>

\* job_store.put: SELECT, then INSERT or UPDATE.
SelectJob(r) ==
  /\ At(r, "put")
  /\ runner' = [runner EXCEPT ![r].stage = "write", ![r].known = job[runner[r].period] # "none"]
  /\ UNCHANGED <<now, daily, report, job, reviewFaults>>

\* An INSERT that meets the row of another runner raises and writes nothing.  After
\* a run that returned, the coordinator puts COMPLETED itself.
WriteJob(r) ==
  LET c == runner[r]
      raises == ~c.known /\ job[c.period] # "none" IN
  /\ At(r, "write")
  /\ job' = [job EXCEPT ![c.period] = IF raises THEN @ ELSE c.target]
  /\ runner' = IF ~raises /\ r = Coordinator /\ c.target = "COMPLETED" /\ ~c.again
               THEN [runner EXCEPT ![r].stage = "put", ![r].again = TRUE]
               ELSE [runner EXCEPT ![r] = Resting]
  /\ UNCHANGED <<now, daily, report, reviewFaults>>

Die(r) ==
  /\ runner[r].stage # "idle" /\ reviewFaults < MaxReviewFaults
  /\ reviewFaults' = reviewFaults + 1
  /\ runner' = [runner EXCEPT ![r] = Resting]
  /\ UNCHANGED <<now, daily, report, job>>

-----------------------------------------------------------------------------
RunnerStep(r) ==
  CollectChild(r) \/ SelectReview(r) \/ InsertReview(r) \/ SelectJob(r) \/ WriteJob(r)

ReviewNext ==
  \/ \E x \in DOMAIN DailyReviews : StoreDaily(x)
  \/ Midnight
  \/ \E r \in Runner : \/ \E p \in PeriodFor \cap Asked[r] : Begin(r, p)
                       \/ RunnerStep(r) \/ ReviewFails(r) \/ Die(r)

-----------------------------------------------------------------------------
ReviewTypeOK ==
  /\ now \in {0} \cup Day
  /\ daily \in [Day \X ReviewId -> {"none", "plain", "lesson"}]
  /\ \A p \in Period : report[p].days \in [Day -> Nat]
                       /\ report[p].lesson \in {"absent", "none", "CANDIDATE", "CONFIRMED"}
  /\ job \in [Period -> {"none", "FAILED", "COMPLETED"}]
  /\ \A r \in Runner : runner[r].stage \in {"idle", "collect", "insert", "put", "write"}

\* A job is only COMPLETED once its report is stored, however the runners overlap
\* and wherever they die.
CompletedHasReport == \A p \in Period : job[p] = "COMPLETED" => Stored(p)

\* A weekly and a monthly report counts every day at most once, although a day may
\* have several daily reviews.
CountedOnce ==
  \A p \in Week \cup Month, d \in Day : report[p].days[d] <= 1

\* What a month or a year calls confirmed rests on a stored week in which the lesson
\* was seen on two different days; repetition on one day confirms nothing.
ConfirmedOnTwoDays ==
  \A p \in Period : report[p].lesson = "CONFIRMED" =>
    \E w \in Week : \E d, e \in Day :
      /\ d # e /\ report[w].days[d] > 0 /\ report[w].days[e] > 0
      /\ \E i, j \in ReviewId : daily[<<d, i>>] = "lesson" /\ daily[<<e, j>>] = "lesson"

\* A stored report is never changed: what a parent was aggregated from stays true.
ReportsAreFinal ==
  [][\A p \in Period : Stored(p) => report'[p] = report[p]]_reviewVars

\* A review that is asked for again and again while its period is the last one over
\* ends up COMPLETED for good, after collisions on its row, failures and deaths.
JobsComplete == <>[](\A p \in PeriodFor : job[p] = "COMPLETED")

=============================================================================
