--------------------------- MODULE Learning_proofs --------------------------
(***************************************************************************)
(* The learning side, for any calendar, runners, reviewers, candidates and *)
(* fills: what a review counts is what there was, a stored report never    *)
(* changes, a refused change stays out, and the stored episodes are whole  *)
(* trades, in any order of the steps and calls.                            *)
(***************************************************************************)
EXTENDS MCLearning, SequenceTheorems, FiniteSetTheorems, WellFoundedInduction, TLAPS

(* Sums, as the recursive functions that define them.                      *)

LEMMA LeastNumber ==
  ASSUME NEW T \in SUBSET Nat, T # {}
  PROVE  \E n \in T : \A k \in T : n <= k
<1> DEFINE less == {p \in Nat \X Nat : p[1] < p[2]}
<1>1. IsWellFoundedOn(less, Nat)
  BY NatLessThanWellFounded DEF OpToRel
<1> HIDE DEF less
<1>2. PICK n \in T : \A k \in T : ~(<<k, n>> \in less)
  BY <1>1, WFMin
<1>3. ASSUME NEW k \in T PROVE n <= k
  <2>1. <<k, n>> \in Nat \X Nat /\ ~(<<k, n>> \in less)
    BY <1>2
  <2>2. ~(<<k, n>>[1] < <<k, n>>[2])
    BY <2>1 DEF less
  <2> QED BY <2>2
<1> QED BY <1>3

\* Induction over an interval, as a statement about the set of what was reached.
LEMMA ReachesAll ==
  ASSUME NEW n \in Nat, NEW T, 0 \in T,
         \A k \in 1..n : k - 1 \in T => k \in T
  PROVE  n \in T /\ \A k \in 0..n : k \in T
<1> DEFINE Rest == {k \in 0..n : k \notin T}
<1> SUFFICES ASSUME Rest # {} PROVE FALSE
  <2>1. n \in 0..n
    OBVIOUS
  <2> QED BY <2>1
<1>1. Rest \in SUBSET Nat
  OBVIOUS
<1>2. PICK k \in Rest : \A m \in Rest : k <= m
  <2> HIDE DEF Rest
  <2> QED BY <1>1, LeastNumber
<1>3. k \in 1..n /\ k - 1 \in 0..n
  BY <1>2
<1>4. k - 1 \in T
  BY <1>2, <1>3
<1> QED BY <1>2, <1>3, <1>4

\* The running sums of a report are the recursive function that defines them.
Runs(s, n, term) ==
  /\ s \in [0..n -> Nat] /\ s[0] = 0
  /\ \A k \in 1..n : s[k] = s[k - 1] + term[k]

LEMMA SumExists ==
  ASSUME NEW n \in Nat, NEW term \in [1..n -> Nat]
  PROVE  \E s : Runs(s, n, term)
<1> DEFINE T == {m \in 0..n : \E s : Runs(s, m, term)}
<1>1. 0 \in T
  <2>1. Runs([k \in 0..0 |-> 0], 0, term)
    BY DEF Runs
  <2> QED BY <2>1
<1>2. ASSUME NEW m \in 1..n, m - 1 \in T PROVE m \in T
  <2>1. m - 1 \in Nat /\ m \in Nat /\ 0..m = 0..(m - 1) \cup {m}
    OBVIOUS
  <2>2. PICK s : Runs(s, m - 1, term)
    BY <1>2
  <2> DEFINE r == [k \in 0..m |-> IF k = m THEN s[m - 1] + term[m] ELSE s[k]]
  <2>3. s[m - 1] \in Nat /\ term[m] \in Nat
    BY <2>1, <2>2 DEF Runs
  <2>4. r \in [0..m -> Nat]
    BY <2>1, <2>2, <2>3 DEF Runs
  <2>5. r[m] = s[m - 1] + term[m] /\ \A k \in 0..(m - 1) : r[k] = s[k]
    BY <2>1
  <2> HIDE DEF r
  <2>6. r[0] = 0
    BY <2>1, <2>2, <2>5 DEF Runs
  <2>7. ASSUME NEW k \in 1..m PROVE r[k] = r[k - 1] + term[k]
    <3>1. CASE k = m
      BY <2>1, <2>5, <3>1
    <3>2. CASE k # m
      <4>1. k \in 1..(m - 1) /\ k \in 0..(m - 1) /\ k - 1 \in 0..(m - 1)
        BY <2>1, <3>2
      <4> QED BY <2>2, <2>5, <4>1 DEF Runs
    <3> QED BY <3>1, <3>2
  <2>8. Runs(r, m, term)
    BY <2>4, <2>6, <2>7 DEF Runs
  <2> QED BY <2>8
<1> HIDE DEF T
<1>3. n \in T
  BY <1>1, <1>2, ReachesAll
<1> QED BY <1>3 DEF T

Terms(rws, kept, d) ==
  [k \in 1..Len(rws) |-> IF k \in kept THEN rws[k].body.days[d] ELSE 0]

LEMMA TotalRuns ==
  ASSUME NEW rws, NEW kept, NEW d, Len(rws) \in Nat,
         Terms(rws, kept, d) \in [1..Len(rws) -> Nat]
  PROVE  \E s : /\ Runs(s, Len(rws), Terms(rws, kept, d))
                /\ Total(rws, kept, d) = s[Len(rws)]
<1> DEFINE n == Len(rws)
           term == Terms(rws, kept, d)
           IsTotal(s) == s = [k \in 0..n |-> IF k = 0 THEN 0
                                ELSE s[k - 1] + IF k \in kept THEN rws[k].body.days[d] ELSE 0]
           total == CHOOSE s : IsTotal(s)
<1>1. Total(rws, kept, d) = total[n]
  BY DEF Total
<1>2. \A k \in 1..n : term[k] = IF k \in kept THEN rws[k].body.days[d] ELSE 0
  BY DEF Terms
<1>3. PICK s : Runs(s, n, term)
  BY SumExists
<1>4. IsTotal(s)
  <2>1. s = [k \in 0..n |-> s[k]]
    BY <1>3 DEF Runs
  <2>2. ASSUME NEW k \in 0..n
        PROVE  s[k] = IF k = 0 THEN 0
                      ELSE s[k - 1] + IF k \in kept THEN rws[k].body.days[d] ELSE 0
    BY <1>2, <1>3 DEF Runs
  <2> QED BY <2>1, <2>2
<1>5. IsTotal(total)
  <2> HIDE DEF IsTotal
  <2> QED BY <1>4
<1>6. total[0] = 0 /\ \A k \in 1..n : total[k] = total[k - 1] + term[k]
  <2> HIDE DEF total
  <2>1. total[0] = 0
    BY <1>5
  <2>2. ASSUME NEW k \in 1..n PROVE total[k] = total[k - 1] + term[k]
    <3>1. k \in 0..n /\ k # 0
      OBVIOUS
    <3>2. total[k] = total[k - 1] + (IF k \in kept THEN rws[k].body.days[d] ELSE 0)
      BY <1>5, <3>1
    <3> QED BY <1>2, <3>2
  <2> QED BY <2>1, <2>2
<1>7. \A k \in 0..n : total[k] = s[k]
  <2> DEFINE T == {k \in 0..n : total[k] = s[k]}
  <2> HIDE DEF total, term
  <2>1. 0 \in T
    BY <1>3, <1>6 DEF Runs
  <2>2. ASSUME NEW k \in 1..n, k - 1 \in T PROVE k \in T
    BY <1>3, <1>6, <2>2 DEF Runs
  <2>3. \A k \in 0..n : k \in T
    <3> HIDE DEF T
    <3> QED BY <2>1, <2>2, ReachesAll
  <2> QED BY <2>3
<1>8. total[n] = s[n]
  BY <1>7
<1> HIDE DEF total
<1> QED BY <1>1, <1>3, <1>8

\* A sum of zeros and at most one one.
LEMMA AtMostOnce ==
  ASSUME NEW n \in Nat, NEW term \in [1..n -> Nat], NEW s, Runs(s, n, term),
         \A k \in 1..n : term[k] <= 1,
         \A k, l \in 1..n : term[k] > 0 /\ term[l] > 0 => k = l
  PROVE  s[n] \in Nat /\ s[n] <= 1
<1> DEFINE T == {k \in 0..n : /\ s[k] \in {0, 1}
                              /\ s[k] = 1 => \E l \in 1..k : term[l] > 0}
<1>1. 0 \in T
  BY DEF Runs
<1>2. ASSUME NEW k \in 1..n, k - 1 \in T PROVE k \in T
  <2>1. s[k] = s[k - 1] + term[k] /\ term[k] \in {0, 1}
    <3>1. term[k] \in Nat /\ term[k] <= 1
      OBVIOUS
    <3> QED BY <3>1 DEF Runs
  <2>2. CASE term[k] = 0
    <3>1. s[k] = s[k - 1] /\ s[k] \in {0, 1}
      BY <1>2, <2>1, <2>2
    <3>2. ASSUME s[k] = 1 PROVE \E l \in 1..k : term[l] > 0
      <4>1. PICK l \in 1..(k - 1) : term[l] > 0
        BY <1>2, <3>1, <3>2
      <4> QED BY <4>1
    <3> QED BY <3>1, <3>2
  <2>3. CASE term[k] = 1
    <3>1. s[k - 1] # 1
      <4> SUFFICES ASSUME s[k - 1] = 1 PROVE FALSE
        OBVIOUS
      <4>1. PICK l \in 1..(k - 1) : term[l] > 0
        BY <1>2
      <4> QED BY <2>3, <4>1
    <3>2. s[k] = 1
      BY <1>2, <2>1, <2>3, <3>1
    <3>3. k \in 1..k /\ term[k] > 0
      BY <2>3
    <3> QED BY <3>2, <3>3
  <2> QED BY <2>1, <2>2, <2>3
<1>3. n \in T
  <2> HIDE DEF T
  <2> QED BY <1>1, <1>2, ReachesAll
<1> QED BY <1>3

\* A positive sum has a positive term.
LEMMA SomeTerm ==
  ASSUME NEW n \in Nat, NEW term \in [1..n -> Nat], NEW s, Runs(s, n, term), s[n] > 0
  PROVE  \E k \in 1..n : term[k] > 0
<1> SUFFICES ASSUME \A k \in 1..n : term[k] = 0 PROVE FALSE
  OBVIOUS
<1> DEFINE T == {k \in 0..n : s[k] = 0}
<1>1. 0 \in T
  BY DEF Runs
<1>2. ASSUME NEW k \in 1..n, k - 1 \in T PROVE k \in T
  BY <1>2 DEF Runs
<1>3. n \in T
  <2> HIDE DEF T
  <2> QED BY <1>1, <1>2, ReachesAll
<1> QED BY <1>3

\* No term exceeds the sum.
LEMMA TermInSum ==
  ASSUME NEW n \in Nat, NEW term \in [1..n -> Nat], NEW s, Runs(s, n, term), NEW l \in 1..n
  PROVE  s[n] \in Nat /\ term[l] <= s[n]
<1> DEFINE T == {k \in 0..n : k >= l => term[l] <= s[k]}
<1>1. 0 \in T
  OBVIOUS
<1>2. ASSUME NEW k \in 1..n, k - 1 \in T PROVE k \in T
  <2>1. s[k] = s[k - 1] + term[k] /\ s[k - 1] \in Nat /\ term[k] \in Nat /\ term[l] \in Nat
    BY DEF Runs
  <2>2. k = l \/ k < l \/ k - 1 >= l
    OBVIOUS
  <2> QED BY <1>2, <2>1, <2>2
<1>3. n \in T
  <2> HIDE DEF T
  <2> QED BY <1>1, <1>2, ReachesAll
<1> QED BY <1>3 DEF Runs

-----------------------------------------------------------------------------
(* The hierarchical reviews.                                               *)

Kids(p) == {ChildrenOf[p][i] : i \in DOMAIN ChildrenOf[p]}

Body == [days : [Day -> Nat], lesson : {"absent", "none", "CANDIDATE", "CONFIRMED"},
         children : SUBSET (Day \cup Period)]
Row  == [period : Day \cup Period, body : Body]
Job  == [stage : {"idle", "collect", "insert", "put", "write"}, period : Period,
         todo : Seq(Day \cup Period), found : Seq(Row),
         target : {"none", "FAILED", "COMPLETED"}, known : BOOLEAN, again : BOOLEAN]

ReviewsTyped ==
  /\ daily \in [Day \X ReviewId -> {"none", "plain", "lesson"}]
  /\ report \in [Period -> Body]
  /\ job \in [Period -> {"none", "FAILED", "COMPLETED"}]
  /\ runner \in [Runner -> Job]

\* Two of the counted days have the lesson.
OnTwoDays(days) ==
  \E d, e \in Day :
    /\ d # e /\ days[d] > 0 /\ days[e] > 0
    /\ \E i, j \in ReviewId : daily[<<d, i>>] = "lesson" /\ daily[<<e, j>>] = "lesson"

SeenOnTwoDays(w) == OnTwoDays(report[w].days)

SoundReport(p) ==
  /\ p \in Week \cup Month => \A d \in Day : report[p].days[d] <= 1
  /\ p \in Week => \A d \in Day : report[p].days[d] > 0 => d \in Kids(p)
  /\ report[p].lesson = "CONFIRMED" => \E w \in Week : SeenOnTwoDays(w)
  /\ Stored(p) => report[p].lesson # "absent"

\* A collected row is of a child, and is still what the child's rows say.
SoundRow(p, row) ==
  /\ row.period \in Kids(p)
  /\ row.period \in Day =>
       /\ \A d \in Day : row.body.days[d] = IF d = row.period THEN 1 ELSE 0
       /\ row.body.lesson \in {"none", "CANDIDATE"}
       /\ row.body.lesson = "CANDIDATE" =>
            \E i \in ReviewId : daily[<<row.period, i>>] = "lesson"
  /\ row.period \notin Day => Stored(row.period) /\ row.body = report[row.period]

SoundJob(c) ==
  /\ \A k \in DOMAIN c.todo : c.todo[k] \in Kids(c.period)
  /\ \A k \in DOMAIN c.found : SoundRow(c.period, c.found[k])
  /\ c.stage \in {"put", "write"} /\ c.target = "COMPLETED" => Stored(c.period)

ReviewInv ==
  /\ ReviewsTyped
  /\ CompletedHasReport
  /\ \A p \in Period : SoundReport(p)
  /\ \A r \in Runner : SoundJob(runner[r])

-----------------------------------------------------------------------------
(* The daily review.                                                       *)

GovernanceInv ==
  /\ date \in Date
  /\ memory \in [Date -> Nat]
  /\ rows \in [Date -> Nat \cup {NoReview}]
  /\ DOMAIN reviewer = Reviewer
  /\ \A r \in Reviewer :
       \/ reviewer[r] = Free
       \/ /\ reviewer[r] \in [date : Date, count : Nat]
          /\ reviewer[r].count <= memory[reviewer[r].date]
  /\ RowsAreOfTheirDate
-----------------------------------------------------------------------------
(* The children of a period, and what is collected of them.                *)

LEMMA KidsOf ==
  /\ \A p \in Period : /\ ChildrenOf[p] \in Seq(Day \cup Period)
                       /\ Kids(p) \subseteq Day \cup Period
  /\ \A w \in Week : Kids(w) \subseteq Day
  /\ \A m \in Month : Kids(m) \subseteq Week
  /\ \A v, w \in Week : \A d \in Day : d \in Kids(v) /\ d \in Kids(w) => v = w
  /\ Day \cap Period = {} /\ Week \cap Month = {} /\ Period = Week \cup Month \cup Year
<1>1. \A w \in Week : ChildrenOf[w] \in Seq(Day) /\ ChildrenOf[w] \in Seq(Day \cup Period)
                      /\ Kids(w) \subseteq Day
  BY CalendarAssumption DEF Kids
<1>2. \A m \in Month : ChildrenOf[m] \in Seq(Week) /\ ChildrenOf[m] \in Seq(Day \cup Period)
                       /\ Kids(m) \subseteq Week
  BY CalendarAssumption DEF Kids, Period
<1>3. \A y \in Year : ChildrenOf[y] \in Seq(Month) /\ ChildrenOf[y] \in Seq(Day \cup Period)
                      /\ Kids(y) \subseteq Month
  BY CalendarAssumption DEF Kids, Period
<1>4. \A v, w \in Week : \A d \in Day : d \in Kids(v) /\ d \in Kids(w) => v = w
  BY CalendarAssumption DEF Kids
<1> QED BY <1>1, <1>2, <1>3, <1>4, CalendarAssumption DEF Period

LEMMA DailyRowSound ==
  ASSUME ReviewsTyped, NEW p \in Period, NEW d \in Day, d \in Kids(p), NEW i \in ReviewId
  PROVE  /\ DailyRow(d, i) \in Seq(Row)
         /\ \A k \in DOMAIN DailyRow(d, i) : SoundRow(p, DailyRow(d, i)[k])
<1> DEFINE row == [period |-> d, body |-> DailyReport(d, i)]
<1>1. daily[<<d, i>>] \in {"none", "plain", "lesson"}
  BY DEF ReviewsTyped
<1>2. /\ DailyReport(d, i) \in Body
      /\ \A e \in Day : DailyReport(d, i).days[e] = IF e = d THEN 1 ELSE 0
      /\ DailyReport(d, i).lesson = IF daily[<<d, i>>] = "lesson" THEN "CANDIDATE" ELSE "none"
  BY DEF DailyReport, Body
<1>3. row \in Row /\ row.period = d /\ row.body = DailyReport(d, i)
  BY <1>2 DEF Row
<1> HIDE DEF row
<1>4. SoundRow(p, row)
  BY <1>2, <1>3 DEF SoundRow
<1>5. DailyRow(d, i) = <<>> \/ DailyRow(d, i) = <<row>>
  BY DEF DailyRow, row
<1>6. <<row>> \in Seq(Row) /\ \A k \in DOMAIN <<row>> : <<row>>[k] = row
  BY <1>3
<1>7. CASE DailyRow(d, i) = <<>>
  BY <1>7
<1>8. CASE DailyRow(d, i) = <<row>>
  <2> HIDE DEF DailyRow
  <2> QED BY <1>4, <1>6, <1>8
<1> QED BY <1>5, <1>7, <1>8

\* Two lists of sound rows make one.
LEMMA ConcatSound ==
  ASSUME NEW p, NEW s \in Seq(Row), NEW t \in Seq(Row),
         \A k \in DOMAIN s : SoundRow(p, s[k]),
         \A k \in DOMAIN t : SoundRow(p, t[k])
  PROVE  /\ s \o t \in Seq(Row)
         /\ \A k \in DOMAIN (s \o t) : SoundRow(p, (s \o t)[k])
<1>1. s \o t \in Seq(Row)
  OBVIOUS
<1>2. ASSUME NEW k \in DOMAIN (s \o t)
      PROVE  \/ k \in DOMAIN s /\ (s \o t)[k] = s[k]
             \/ k - Len(s) \in DOMAIN t /\ (s \o t)[k] = t[k - Len(s)]
  OBVIOUS
<1> QED BY <1>1, <1>2

LEMMA RowsSound ==
  ASSUME ReviewsTyped, NEW p \in Period, NEW c \in Kids(p)
  PROVE  /\ RowsOf(c) \in Seq(Row)
         /\ \A k \in DOMAIN RowsOf(c) : SoundRow(p, RowsOf(c)[k])
<1>1. CASE c \in Day
  <2>1. RowsOf(c) = DailyRow(c, 1) \o DailyRow(c, 2)
    BY <1>1 DEF RowsOf
  <2>2. 1 \in ReviewId /\ 2 \in ReviewId
    BY DEF ReviewId
  <2> QED BY <1>1, <2>1, <2>2, DailyRowSound, ConcatSound
<1>2. CASE c \notin Day
  <2> DEFINE row == [period |-> c, body |-> report[c]]
  <2>1. c \in Period /\ report[c] \in Body
    BY <1>2, KidsOf DEF ReviewsTyped
  <2>2. row \in Row /\ row.period = c /\ row.body = report[c]
    BY <2>1 DEF Row
  <2> HIDE DEF row
  <2>3. <<row>> \in Seq(Row) /\ \A k \in DOMAIN <<row>> : <<row>>[k] = row
    BY <2>2
  <2>4. CASE Stored(c)
    <3>1. SoundRow(p, row)
      BY <1>2, <2>2, <2>4 DEF SoundRow
    <3>2. RowsOf(c) = <<row>>
      BY <1>2, <2>4 DEF RowsOf, row
    <3> QED BY <2>3, <3>1, <3>2
  <2>5. CASE ~Stored(c)
    <3>1. RowsOf(c) = <<>>
      BY <1>2, <2>5 DEF RowsOf
    <3> QED BY <3>1
  <2> QED BY <2>4, <2>5
<1> QED BY <1>1, <1>2

-----------------------------------------------------------------------------
(* The aggregation.                                                        *)

\* One row is kept of a child.
LEMMA CollapsedDistinct ==
  ASSUME NEW rws \in Seq(Row)
  PROVE  /\ Collapsed(rws) \subseteq 1..Len(rws)
         /\ \A k, l \in Collapsed(rws) : rws[k].period = rws[l].period => k = l
<1>1. DOMAIN rws = 1..Len(rws) /\ Len(rws) \in Nat
  OBVIOUS
<1>2. ASSUME NEW k \in Collapsed(rws), NEW l \in Collapsed(rws),
             rws[k].period = rws[l].period, k < l
      PROVE  FALSE
  BY <1>1, <1>2 DEF Collapsed
<1>3. Collapsed(rws) \subseteq 1..Len(rws)
  BY <1>1 DEF Collapsed
<1> QED BY <1>1, <1>2, <1>3

\* A day is counted as often as the kept rows have it.
LEMMA TermsTyped ==
  ASSUME NEW rws \in Seq(Row), NEW kept, NEW d \in Day
  PROVE  /\ Len(rws) \in Nat
         /\ Terms(rws, kept, d) \in [1..Len(rws) -> Nat]
         /\ \A k \in 1..Len(rws) :
              Terms(rws, kept, d)[k] = IF k \in kept THEN rws[k].body.days[d] ELSE 0
<1>1. ASSUME NEW k \in 1..Len(rws) PROVE rws[k].body.days[d] \in Nat
  <2>1. rws[k] \in Row
    OBVIOUS
  <2> QED BY <2>1 DEF Row, Body
<1> QED BY <1>1 DEF Terms

LEMMA TotalTyped ==
  ASSUME NEW rws \in Seq(Row), NEW kept, NEW d \in Day
  PROVE  /\ Total(rws, kept, d) \in Nat
         /\ Total(rws, kept, d) > 0 =>
              \E k \in kept \cap (1..Len(rws)) : rws[k].body.days[d] > 0
         /\ \A k \in kept \cap (1..Len(rws)) : rws[k].body.days[d] <= Total(rws, kept, d)
<1> DEFINE n == Len(rws)
           term == Terms(rws, kept, d)
<1>1. n \in Nat /\ term \in [1..n -> Nat]
      /\ \A k \in 1..n : term[k] = IF k \in kept THEN rws[k].body.days[d] ELSE 0
  BY TermsTyped
<1>2. PICK s : Runs(s, n, term) /\ Total(rws, kept, d) = s[n]
  BY <1>1, TotalRuns
<1> HIDE DEF n, term
<1>3. s[n] \in Nat
  BY <1>1, <1>2 DEF Runs
<1>4. ASSUME s[n] > 0 PROVE \E k \in kept \cap (1..n) : rws[k].body.days[d] > 0
  <2>1. PICK k \in 1..n : term[k] > 0
    BY <1>1, <1>2, <1>4, SomeTerm
  <2>2. k \in kept /\ rws[k].body.days[d] > 0
    BY <1>1, <2>1
  <2> QED BY <2>2
<1>5. ASSUME NEW k \in kept \cap (1..n) PROVE rws[k].body.days[d] <= s[n]
  <2>1. term[k] <= s[n]
    BY <1>1, <1>2, TermInSum
  <2> QED BY <1>1, <2>1
<1> QED BY <1>2, <1>3, <1>4, <1>5 DEF n

LEMMA TotalOnce ==
  ASSUME NEW rws \in Seq(Row), NEW kept, NEW d \in Day,
         \A k \in kept \cap (1..Len(rws)) : rws[k].body.days[d] <= 1,
         \A k, l \in kept \cap (1..Len(rws)) :
           rws[k].body.days[d] > 0 /\ rws[l].body.days[d] > 0 => k = l
  PROVE  Total(rws, kept, d) <= 1
<1> DEFINE n == Len(rws)
           term == Terms(rws, kept, d)
<1>1. n \in Nat /\ term \in [1..n -> Nat]
      /\ \A k \in 1..n : term[k] = IF k \in kept THEN rws[k].body.days[d] ELSE 0
  BY TermsTyped
<1>2. PICK s : Runs(s, n, term) /\ Total(rws, kept, d) = s[n]
  BY <1>1, TotalRuns
<1> HIDE DEF term
<1>3. \A k \in 1..n : term[k] <= 1
  BY <1>1
<1>4. \A k, l \in 1..n : term[k] > 0 /\ term[l] > 0 => k = l
  BY <1>1
<1> HIDE DEF n
<1> QED BY <1>1, <1>2, <1>3, <1>4, AtMostOnce

\* Whatever is aggregated is a report.
LEMMA AggregateTyped ==
  ASSUME NEW p \in Period, NEW rws \in Seq(Row)
  PROVE  /\ Aggregate(p, rws) \in Body
         /\ Aggregate(p, rws).lesson # "absent"
         /\ \A d \in Day : Aggregate(p, rws).days[d] = Total(rws, Collapsed(rws), d)
         /\ Aggregate(p, rws).lesson = IF p \in Week THEN WeeklyLesson(rws, Collapsed(rws))
                                       ELSE CarriedLesson(rws, Collapsed(rws))
<1> DEFINE kept == Collapsed(rws)
           lesson == IF p \in Week THEN WeeklyLesson(rws, kept) ELSE CarriedLesson(rws, kept)
           made == [days |-> Counts(rws, kept), lesson |-> lesson,
                    children |-> ChildIds(rws, kept)]
<1>1. kept \subseteq 1..Len(rws) /\ \A k \in kept : rws[k] \in Row
  BY CollapsedDistinct
<1> HIDE DEF kept
<1>2. Counts(rws, kept) \in [Day -> Nat]
      /\ \A d \in Day : Counts(rws, kept)[d] = Total(rws, kept, d)
  BY TotalTyped DEF Counts
<1>3. lesson \in {"none", "CANDIDATE", "CONFIRMED"}
  BY DEF WeeklyLesson, CarriedLesson
<1>4. ChildIds(rws, kept) \in SUBSET (Day \cup Period)
  BY <1>1 DEF ChildIds, Row
<1>5. made \in Body /\ made.lesson = lesson /\ made.days = Counts(rws, kept)
  <2> HIDE DEF lesson
  <2> QED BY <1>2, <1>3, <1>4 DEF Body
<1>6. Aggregate(p, rws) = made
  BY CalendarAssumption DEF Aggregate, weekly_review, monthly_review, yearly_review, kept
<1> HIDE DEF made, lesson
<1>7. lesson # "absent"
  BY <1>3
<1> QED BY <1>2, <1>5, <1>6, <1>7 DEF lesson, kept

LEMMA WeekSound ==
  ASSUME ReviewsTyped, NEW p \in Week, NEW rws \in Seq(Row),
         \A k \in DOMAIN rws : SoundRow(p, rws[k]), NEW b, b = Aggregate(p, rws)
  PROVE  /\ \A d \in Day : b.days[d] <= 1 /\ (b.days[d] > 0 => d \in Kids(p))
         /\ b.lesson = "CONFIRMED" => OnTwoDays(b.days)
<1> DEFINE kept == Collapsed(rws)
<1>1. p \in Period /\ Kids(p) \subseteq Day
  BY KidsOf
<1>2. /\ \A d \in Day : b.days[d] = Total(rws, kept, d)
      /\ b.lesson = WeeklyLesson(rws, kept)
  BY <1>1, AggregateTyped
<1>3. DOMAIN rws = 1..Len(rws)
  OBVIOUS
<1>4. kept \subseteq 1..Len(rws) /\ \A k, l \in kept : rws[k].period = rws[l].period => k = l
  BY CollapsedDistinct
<1> HIDE DEF kept
<1>5. ASSUME NEW k \in 1..Len(rws)
      PROVE  /\ rws[k].period \in Kids(p) /\ rws[k].period \in Day
             /\ \A d \in Day : rws[k].body.days[d] = IF d = rws[k].period THEN 1 ELSE 0
             /\ rws[k].body.lesson = "CANDIDATE" =>
                  \E i \in ReviewId : daily[<<rws[k].period, i>>] = "lesson"
  BY <1>1, <1>3 DEF SoundRow
<1>6. ASSUME NEW d \in Day PROVE b.days[d] <= 1 /\ (b.days[d] > 0 => d \in Kids(p))
  <2>1. \A k \in kept \cap (1..Len(rws)) : rws[k].body.days[d] <= 1
    BY <1>5
  <2>2. \A k \in kept \cap (1..Len(rws)) : rws[k].body.days[d] > 0 => rws[k].period = d
    BY <1>5
  <2>3. \A k, l \in kept \cap (1..Len(rws)) :
          rws[k].body.days[d] > 0 /\ rws[l].body.days[d] > 0 => k = l
    BY <1>4, <2>2
  <2>4. Total(rws, kept, d) <= 1
    BY <2>1, <2>3, TotalOnce
  <2>5. ASSUME Total(rws, kept, d) > 0 PROVE d \in Kids(p)
    <3>1. PICK k \in kept \cap (1..Len(rws)) : rws[k].body.days[d] > 0
      BY <2>5, TotalTyped
    <3> QED BY <1>5, <2>2, <3>1
  <2> QED BY <1>2, <2>4, <2>5
<1>7. ASSUME NEW d \in SupportDays(rws, kept)
      PROVE  d \in Day /\ b.days[d] > 0 /\ \E i \in ReviewId : daily[<<d, i>>] = "lesson"
  <2>1. PICK k \in kept : rws[k].body.lesson = "CANDIDATE" /\ d = rws[k].period
    BY DEF SupportDays
  <2>2. k \in kept \cap (1..Len(rws)) /\ d \in Day /\ rws[k].body.days[d] = 1
    BY <1>4, <1>5, <2>1
  <2>3. Total(rws, kept, d) \in Nat /\ 1 <= Total(rws, kept, d)
    BY <2>2, TotalTyped
  <2> QED BY <1>2, <1>5, <2>1, <2>2, <2>3
<1>8. ASSUME b.lesson = "CONFIRMED"
      PROVE  OnTwoDays(b.days)
  <2>1. PICK d \in SupportDays(rws, kept), e \in SupportDays(rws, kept) : d # e
    BY <1>2, <1>8 DEF WeeklyLesson
  <2> QED BY <1>7, <2>1 DEF OnTwoDays
<1> QED BY <1>6, <1>8

\* The weeks of a month share no day.
LEMMA MonthSound ==
  ASSUME ReviewInv, NEW p \in Month, NEW rws \in Seq(Row),
         \A k \in DOMAIN rws : SoundRow(p, rws[k]), NEW d \in Day
  PROVE  Aggregate(p, rws).days[d] <= 1
<1> DEFINE kept == Collapsed(rws)
<1>1. p \in Period /\ Kids(p) \subseteq Week /\ Week \cap Day = {} /\ Week \subseteq Period
  BY KidsOf
<1>2. Aggregate(p, rws).days[d] = Total(rws, kept, d)
  BY <1>1, AggregateTyped
<1>3. DOMAIN rws = 1..Len(rws)
  OBVIOUS
<1>4. kept \subseteq 1..Len(rws) /\ \A k, l \in kept : rws[k].period = rws[l].period => k = l
  BY CollapsedDistinct
<1> HIDE DEF kept
<1>5. ASSUME NEW k \in 1..Len(rws)
      PROVE  /\ rws[k].period \in Week
             /\ rws[k].body.days[d] <= 1
             /\ rws[k].body.days[d] > 0 => d \in Kids(rws[k].period)
  <2>1. rws[k].period \in Week /\ rws[k].body = report[rws[k].period]
    BY <1>1, <1>3 DEF SoundRow
  <2>2. SoundReport(rws[k].period)
    BY <1>1, <2>1 DEF ReviewInv
  <2> QED BY <2>1, <2>2 DEF SoundReport
<1>6. \A k, l \in kept \cap (1..Len(rws)) :
        rws[k].body.days[d] > 0 /\ rws[l].body.days[d] > 0 => k = l
  BY <1>4, <1>5, KidsOf
<1>7. Total(rws, kept, d) <= 1
  BY <1>5, <1>6, TotalOnce
<1> QED BY <1>2, <1>7

LEMMA CarriedSound ==
  ASSUME ReviewInv, NEW p \in Period \ Week, NEW rws \in Seq(Row),
         \A k \in DOMAIN rws : SoundRow(p, rws[k]), Aggregate(p, rws).lesson = "CONFIRMED"
  PROVE  \E w \in Week : SeenOnTwoDays(w)
<1> DEFINE kept == Collapsed(rws)
<1>1. CarriedLesson(rws, kept) = "CONFIRMED"
  BY AggregateTyped
<1>2. kept \subseteq 1..Len(rws) /\ DOMAIN rws = 1..Len(rws)
  BY CollapsedDistinct
<1>3. PICK k \in kept : rws[k].body.lesson = "CONFIRMED"
  BY <1>1 DEF CarriedLesson
<1>4. SoundRow(p, rws[k])
  BY <1>2
<1>5. rws[k].period \in Period /\ report[rws[k].period].lesson = "CONFIRMED"
  BY <1>3, <1>4, KidsOf DEF SoundRow
<1> QED BY <1>5 DEF ReviewInv, SoundReport

-----------------------------------------------------------------------------
(* The steps of a runner.                                                  *)

\* Reports are only added, and what a daily review says stays.
Grown ==
  /\ \A q \in Period : Stored(q) => report'[q] = report[q]
  /\ \A d \in Day, i \in ReviewId : daily[<<d, i>>] = "lesson" => daily'[<<d, i>>] = "lesson"

LEMMA StillSound ==
  ASSUME Grown
  PROVE  /\ \A q \in Period : Stored(q) => Stored(q)'
         /\ \A p \in Period, row \in Row : SoundRow(p, row) => SoundRow(p, row)'
         /\ \A w \in Week : SeenOnTwoDays(w) => SeenOnTwoDays(w)'
<1>1. \A q \in Period : Stored(q) => Stored(q)'
  BY DEF Grown, Stored
<1>2. ASSUME NEW p \in Period, NEW row \in Row, SoundRow(p, row) PROVE SoundRow(p, row)'
  <2>1. CASE row.period \in Day
    BY <1>2, <2>1 DEF SoundRow, Grown
  <2>2. CASE row.period \notin Day
    <3>1. row.period \in Period /\ Stored(row.period) /\ row.body = report[row.period]
      BY <1>2, <2>2 DEF SoundRow, Row
    <3> QED BY <1>1, <1>2, <2>2, <3>1 DEF SoundRow, Grown
  <2> QED BY <2>1, <2>2
<1>3. ASSUME NEW w \in Week, SeenOnTwoDays(w) PROVE SeenOnTwoDays(w)'
  <2>1. PICK d \in Day, e \in Day, i \in ReviewId, j \in ReviewId :
          /\ d # e /\ report[w].days[d] > 0 /\ report[w].days[e] > 0
          /\ daily[<<d, i>>] = "lesson" /\ daily[<<e, j>>] = "lesson"
    BY <1>3 DEF SeenOnTwoDays, OnTwoDays
  <2>2. Stored(w) /\ w \in Period
    BY <2>1, KidsOf DEF Stored, NoReport
  <2>3. report'[w] = report[w]
    BY <2>2 DEF Grown
  <2> QED BY <2>1, <2>3 DEF SeenOnTwoDays, OnTwoDays, Grown
<1> QED BY <1>1, <1>2, <1>3

\* What a job has in hand stays sound while reports are added.
LEMMA JobKept ==
  ASSUME Grown, NEW c \in Job, SoundJob(c)
  PROVE  SoundJob(c)'
<1>1. c.period \in Period /\ c.found \in Seq(Row)
  BY DEF Job
<1>2. \A k \in DOMAIN c.found : SoundRow(c.period, c.found[k])'
  <2>1. \A k \in DOMAIN c.found : c.found[k] \in Row
    BY <1>1
  <2> QED BY <1>1, <2>1, StillSound DEF SoundJob
<1>3. Stored(c.period) => Stored(c.period)'
  BY <1>1, StillSound
<1> QED BY <1>2, <1>3 DEF SoundJob

LEMMA ReportKept ==
  ASSUME Grown, NEW p \in Period, SoundReport(p), report'[p] = report[p]
  PROVE  SoundReport(p)'
BY StillSound DEF SoundReport, Stored

\* What a step has to show: the reports, the completed jobs and the runners it changed.
LEMMA ReviewKept ==
  ASSUME ReviewInv, Grown, ReviewsTyped',
         \A p \in Period : report'[p] = report[p] \/ SoundReport(p)',
         \A p \in Period : job'[p] = "COMPLETED" => job[p] = "COMPLETED" \/ Stored(p)',
         \A r \in Runner : runner'[r] = runner[r] \/ SoundJob(runner[r])'
  PROVE  ReviewInv'
<1>1. CompletedHasReport'
  BY StillSound DEF ReviewInv, CompletedHasReport
<1>2. \A p \in Period : SoundReport(p)'
  BY ReportKept DEF ReviewInv
<1>3. ASSUME NEW r \in Runner, runner'[r] = runner[r] PROVE SoundJob(runner[r])'
  <2>1. PICK c \in Job : c = runner[r] /\ SoundJob(c)
    BY DEF ReviewInv, ReviewsTyped
  <2>2. SoundJob(c)'
    BY <2>1, JobKept
  <2> QED BY <1>3, <2>1, <2>2 DEF SoundJob
<1> QED BY <1>1, <1>2, <1>3 DEF ReviewInv

\* A runner moves on and nothing else changes.
LEMMA RunnerMoves ==
  ASSUME ReviewInv, NEW r \in Runner, NEW c \in Job, SoundJob(c),
         runner' = [runner EXCEPT ![r] = c],
         UNCHANGED <<daily, report, job>>
  PROVE  ReviewInv'
<1>1. Grown
  BY DEF Grown
<1>2. ReviewsTyped'
  BY DEF ReviewInv, ReviewsTyped
<1>3. SoundJob(c)'
  BY <1>1, JobKept
<1>4. runner'[r] = c /\ \A x \in Runner \ {r} : runner'[x] = runner[x]
  BY DEF ReviewInv, ReviewsTyped
<1>5. \A x \in Runner : runner'[x] = runner[x] \/ SoundJob(runner[x])'
  BY <1>3, <1>4 DEF SoundJob
<1> QED BY <1>1, <1>2, <1>5, ReviewKept

LEMMA RestingSound == Resting \in Job /\ SoundJob(Resting)
<1> DEFINE some == CHOOSE p \in Period : TRUE
<1>1. some \in Period
  BY CalendarAssumption
<1> HIDE DEF some
<1>2. Resting = [stage |-> "idle", period |-> some, todo |-> <<>>, found |-> <<>>,
                 target |-> "none", known |-> FALSE, again |-> FALSE]
  BY DEF Resting, some
<1>3. Resting \in Job
  BY <1>1, <1>2 DEF Job
<1> QED BY <1>2, <1>3 DEF SoundJob

\* A runner that puts a status.
Putter(p, status) == [Resting EXCEPT !.stage = "put", !.period = p, !.target = status]

LEMMA PutterSound ==
  ASSUME NEW p \in Period, NEW status \in {"FAILED", "COMPLETED"},
         status = "COMPLETED" => Stored(p)
  PROVE  Putter(p, status) \in Job /\ SoundJob(Putter(p, status))
<1> DEFINE c == Putter(p, status)
<1>1. /\ c.stage = "put" /\ c.period = p /\ c.todo = <<>> /\ c.found = <<>>
      /\ c.target = status
  BY DEF Putter, Resting
<1>2. c \in Job
  BY RestingSound DEF Putter, Job
<1> HIDE DEF c
<1>3. SoundJob(c)
  BY <1>1 DEF SoundJob
<1> QED BY <1>2, <1>3 DEF c

LEMMA BeginKept ==
  ASSUME ReviewInv, NEW r \in Runner, NEW p \in Period, Begin(r, p)
  PROVE  ReviewInv'
<1> DEFINE c == [Resting EXCEPT !.stage = "collect", !.period = p, !.todo = ChildrenOf[p]]
<1>1. runner' = [runner EXCEPT ![r] = c] /\ UNCHANGED <<daily, report, job>>
  BY DEF Begin
<1>2. /\ c.stage = "collect" /\ c.period = p /\ c.todo = ChildrenOf[p] /\ c.found = <<>>
  BY DEF Resting
<1>3. ChildrenOf[p] \in Seq(Day \cup Period)
  BY KidsOf
<1>4. c \in Job
  BY <1>3, RestingSound DEF Job
<1> HIDE DEF c
<1>5. SoundJob(c)
  BY <1>2 DEF SoundJob, Kids
<1> QED BY <1>1, <1>4, <1>5, RunnerMoves

\* Two fields of one runner.
GoesOn(f, r, c, todo, found) ==
  /\ [f EXCEPT ![r].todo = todo, ![r].found = found] = [f EXCEPT ![r] = c]
  /\ c.todo = todo /\ c.found = found
  /\ c.stage = f[r].stage /\ c.period = f[r].period

LEMMA TodoFound ==
  ASSUME NEW f \in [Runner -> Job], NEW r \in Runner,
         NEW todo \in Seq(Day \cup Period), NEW found \in Seq(Row)
  PROVE  \E c \in Job : GoesOn(f, r, c, todo, found)
<1> DEFINE q == [f[r] EXCEPT !.todo = todo]
           c == [q EXCEPT !.found = found]
           g == [f EXCEPT ![r] = q]
<1>1. f[r] \in Job
  OBVIOUS
<1>2. q \in Job /\ q.todo = todo /\ q.stage = f[r].stage /\ q.period = f[r].period
  BY <1>1 DEF Job
<1>3. g \in [Runner -> Job] /\ g[r] = q
  <2> HIDE DEF q
  <2> QED BY <1>2
<1>4. [f EXCEPT ![r].todo = todo, ![r].found = found] = [g EXCEPT ![r].found = found]
  OBVIOUS
<1>5. [g EXCEPT ![r].found = found] = [g EXCEPT ![r] = c]
  <2> HIDE DEF g, q
  <2> QED BY <1>3
<1>6. [g EXCEPT ![r] = c] = [f EXCEPT ![r] = c]
  <2> HIDE DEF q, c
  <2> QED OBVIOUS
<1>7. /\ c \in Job /\ c.todo = todo /\ c.found = found
      /\ c.stage = f[r].stage /\ c.period = f[r].period
  <2> HIDE DEF q
  <2> QED BY <1>2 DEF Job
<1> HIDE DEF c, g, q
<1> QED BY <1>4, <1>5, <1>6, <1>7 DEF GoesOn

LEMMA CollectKept ==
  ASSUME ReviewInv, NEW r \in Runner, CollectChild(r)
  PROVE  ReviewInv'
<1> DEFINE c == runner[r]
           todo == Tail(c.todo)
           found == c.found \o RowsOf(Head(c.todo))
<1>1. c \in Job /\ SoundJob(c) /\ runner \in [Runner -> Job]
  BY DEF ReviewInv, ReviewsTyped
<1>2. c.todo \in Seq(Day \cup Period) /\ c.todo # <<>> /\ c.found \in Seq(Row) /\ c.period \in Period
  BY <1>1 DEF CollectChild, Job
<1>3. /\ Head(c.todo) \in Kids(c.period)
      /\ todo \in Seq(Day \cup Period)
      /\ \A k \in DOMAIN todo : todo[k] \in Kids(c.period)
  <2>1. DOMAIN c.todo = 1..Len(c.todo) /\ 1 \in DOMAIN c.todo /\ Head(c.todo) = c.todo[1]
    BY <1>2
  <2>2. todo \in Seq(Day \cup Period)
    BY <1>2
  <2>3. \A k \in DOMAIN todo : k + 1 \in DOMAIN c.todo /\ todo[k] = c.todo[k + 1]
    BY <1>2
  <2> QED BY <1>1, <2>1, <2>2, <2>3 DEF SoundJob
<1>4. /\ RowsOf(Head(c.todo)) \in Seq(Row)
      /\ \A k \in DOMAIN RowsOf(Head(c.todo)) : SoundRow(c.period, RowsOf(Head(c.todo))[k])
  BY <1>2, <1>3, RowsSound DEF ReviewInv
<1>5. /\ found \in Seq(Row)
      /\ \A k \in DOMAIN found : SoundRow(c.period, found[k])
  BY <1>1, <1>2, <1>4, ConcatSound DEF SoundJob
<1>6. /\ runner' = [runner EXCEPT ![r].todo = todo, ![r].found = found]
      /\ c.stage = "collect" /\ UNCHANGED <<daily, report, job>>
  BY DEF CollectChild, At
<1> HIDE DEF todo, found
<1>7. PICK m \in Job : GoesOn(runner, r, m, todo, found)
  BY <1>1, <1>3, <1>5, TodoFound
<1>8. runner' = [runner EXCEPT ![r] = m]
  BY <1>6, <1>7 DEF GoesOn
<1>9. SoundJob(m)
  BY <1>3, <1>5, <1>6, <1>7 DEF SoundJob, GoesOn
<1> QED BY <1>6, <1>8, <1>9, RunnerMoves

LEMMA SelectReviewKept ==
  ASSUME ReviewInv, NEW r \in Runner, SelectReview(r)
  PROVE  ReviewInv'
<1> DEFINE p == runner[r].period
<1>1. runner[r] \in Job /\ SoundJob(runner[r]) /\ runner[r].stage = "collect"
  BY DEF ReviewInv, ReviewsTyped, SelectReview, At
<1>2. p \in Period
  BY <1>1 DEF Job
<1>3. CASE Stored(p)
  <2>1. runner' = [runner EXCEPT ![r] = Putter(p, "COMPLETED")] /\ UNCHANGED <<daily, report, job>>
    BY <1>3 DEF SelectReview, Putting, Putter
  <2> QED BY <1>2, <1>3, <2>1, PutterSound, RunnerMoves
<1>4. CASE ~Stored(p)
  <2> DEFINE c == [runner[r] EXCEPT !.stage = "insert"]
  <2>1. runner' = [runner EXCEPT ![r] = c] /\ UNCHANGED <<daily, report, job>>
    BY <1>4 DEF SelectReview
  <2>2. c \in Job
    BY <1>1 DEF Job
  <2>3. /\ c.stage = "insert" /\ c.period = p
        /\ c.todo = runner[r].todo /\ c.found = runner[r].found
    BY <1>1 DEF Job
  <2> HIDE DEF c
  <2>4. SoundJob(c)
    BY <1>1, <2>3 DEF SoundJob
  <2> QED BY <2>1, <2>2, <2>4, RunnerMoves
<1> QED BY <1>3, <1>4

LEMMA InsertKept ==
  ASSUME ReviewInv, NEW r \in Runner, InsertReview(r)
  PROVE  ReviewInv'
<1> DEFINE p == runner[r].period
           rws == runner[r].found
           b == Aggregate(p, rws)
<1>1. runner[r] \in Job /\ SoundJob(runner[r]) /\ runner \in [Runner -> Job]
      /\ report \in [Period -> Body] /\ ReviewsTyped
  BY DEF ReviewInv, ReviewsTyped
<1>2. p \in Period /\ rws \in Seq(Row) /\ \A k \in DOMAIN rws : SoundRow(p, rws[k])
  BY <1>1 DEF Job, SoundJob
<1>3. CASE Stored(p)
  <2>1. report' = report
    BY <1>1, <1>2, <1>3 DEF InsertReview
  <2>2. runner' = [runner EXCEPT ![r] = Putter(p, "FAILED")] /\ UNCHANGED <<daily, job>>
    BY <1>3 DEF InsertReview, Putting, Putter
  <2> QED BY <1>2, <2>1, <2>2, PutterSound, RunnerMoves
<1>4. CASE ~Stored(p)
  <2>1. report' = [report EXCEPT ![p] = b] /\ UNCHANGED <<daily, job>>
    BY <1>4 DEF InsertReview
  <2>2. runner' = [runner EXCEPT ![r] = Putter(p, "COMPLETED")]
    BY <1>4 DEF InsertReview, Putting, Putter
  <2>3. b \in Body /\ b.lesson # "absent"
    BY <1>2, AggregateTyped
  <2>4. PICK q \in Period, new \in Body : q = p /\ new = b
    BY <1>2, <2>3
  <2>5. report'[q] = new /\ \A x \in Period \ {q} : report'[x] = report[x]
    <3> HIDE DEF b
    <3> QED BY <1>1, <2>1, <2>4
  <2>6. Grown
    BY <1>4, <2>1, <2>4, <2>5 DEF Grown
  <2>7. Stored(q)'
    BY <2>3, <2>4, <2>5 DEF Stored, NoReport
  <2>8. Putter(q, "COMPLETED") \in Job /\ SoundJob(Putter(q, "COMPLETED"))'
    <3> DEFINE c == Putter(q, "COMPLETED")
    <3>1. /\ c.stage = "put" /\ c.period = q /\ c.todo = <<>> /\ c.found = <<>>
          /\ c \in Job
      BY RestingSound DEF Putter, Resting, Job
    <3> HIDE DEF c
    <3>2. SoundJob(c)'
      BY <2>7, <3>1 DEF SoundJob
    <3> QED BY <3>1, <3>2 DEF c
  <2>9. ReviewsTyped'
    <3>1. report' \in [Period -> Body]
      <4> HIDE DEF b
      <4> QED BY <1>1, <2>1, <2>3
    <3>2. runner' \in [Runner -> Job]
      BY <1>1, <2>2, <2>4, <2>8
    <3> QED BY <1>1, <2>1, <3>1, <3>2 DEF ReviewsTyped
  <2>10. SoundReport(q)'
    <3>1. q \in Week \cup Month => \A d \in Day : new.days[d] <= 1
      BY <1>1, <1>2, <2>4, WeekSound, MonthSound
    <3>2. q \in Week => \A d \in Day : new.days[d] > 0 => d \in Kids(q)
      BY <1>1, <1>2, <2>4, WeekSound
    <3>3. ASSUME new.lesson = "CONFIRMED" PROVE \E w \in Week : SeenOnTwoDays(w)'
      <4>1. CASE q \in Week
        <5>1. OnTwoDays(new.days)
          <6>1. new = Aggregate(q, rws) /\ \A k \in DOMAIN rws : SoundRow(q, rws[k])
            BY <1>2, <2>4
          <6> HIDE DEF p, rws, b
          <6> QED BY <1>1, <1>2, <3>3, <4>1, <6>1, WeekSound
        <5>2. SeenOnTwoDays(q)'
          BY <2>1, <2>5, <5>1 DEF SeenOnTwoDays, OnTwoDays
        <5> QED BY <4>1, <5>2
      <4>2. CASE q \notin Week
        <5>1. \E w \in Week : SeenOnTwoDays(w)
          BY <1>2, <2>4, <3>3, <4>2, CarriedSound
        <5> QED BY <2>6, <5>1, StillSound
      <4> QED BY <4>1, <4>2
    <3> QED BY <2>3, <2>4, <2>5, <3>1, <3>2, <3>3 DEF SoundReport
  <2>11. \A x \in Period : report'[x] = report[x] \/ SoundReport(x)'
    BY <2>5, <2>10
  <2>12. \A x \in Runner : runner'[x] = runner[x] \/ SoundJob(runner[x])'
    <3>1. runner'[r] = Putter(q, "COMPLETED") /\ \A x \in Runner \ {r} : runner'[x] = runner[x]
      BY <1>1, <2>2, <2>4
    <3>2. SoundJob(runner[r])'
      BY <2>8, <3>1 DEF SoundJob
    <3> QED BY <3>1, <3>2
  <2>13. \A x \in Period : job'[x] = "COMPLETED" => job[x] = "COMPLETED"
    BY <2>1
  <2> QED BY <2>6, <2>9, <2>11, <2>12, <2>13, ReviewKept
<1> QED BY <1>3, <1>4

LEMMA SelectJobKept ==
  ASSUME ReviewInv, NEW r \in Runner, SelectJob(r)
  PROVE  ReviewInv'
<1> DEFINE v == job[runner[r].period] # "none"
           q == [runner[r] EXCEPT !.stage = "write"]
           c == [q EXCEPT !.known = v]
           g == [runner EXCEPT ![r] = q]
<1>1. runner[r] \in Job /\ SoundJob(runner[r]) /\ runner \in [Runner -> Job]
      /\ runner[r].stage = "put"
  BY DEF ReviewInv, ReviewsTyped, SelectJob, At
<1>2. /\ runner' = [runner EXCEPT ![r].stage = "write", ![r].known = v]
      /\ v \in BOOLEAN /\ UNCHANGED <<daily, report, job>>
  BY DEF SelectJob
<1> HIDE DEF v
<1>3. /\ q \in Job /\ q.stage = "write" /\ q.period = runner[r].period
      /\ q.todo = runner[r].todo /\ q.found = runner[r].found /\ q.target = runner[r].target
  BY <1>1 DEF Job
<1>4. g \in [Runner -> Job] /\ g[r] = q
  <2> HIDE DEF q
  <2> QED BY <1>1, <1>3
<1>5. runner' = [g EXCEPT ![r].known = v]
  BY <1>2
<1>6. [g EXCEPT ![r].known = v] = [g EXCEPT ![r] = c]
  <2> HIDE DEF g, q
  <2> QED BY <1>4
<1>7. [g EXCEPT ![r] = c] = [runner EXCEPT ![r] = c]
  <2> HIDE DEF q, c
  <2> QED OBVIOUS
<1>8. /\ c \in Job /\ c.stage = "write" /\ c.period = runner[r].period
      /\ c.todo = runner[r].todo /\ c.found = runner[r].found /\ c.target = runner[r].target
  <2> HIDE DEF q
  <2> QED BY <1>2, <1>3 DEF Job
<1> HIDE DEF c, g, q
<1>9. SoundJob(c)
  BY <1>1, <1>8 DEF SoundJob
<1> QED BY <1>2, <1>5, <1>6, <1>7, <1>8, <1>9, RunnerMoves

\* A COMPLETED that is written was of a stored report.
LEMMA WriteKept ==
  ASSUME ReviewInv, NEW r \in Runner, WriteJob(r)
  PROVE  ReviewInv'
<1> DEFINE c == runner[r]
           raises == ~c.known /\ job[c.period] # "none"
           status == IF raises THEN job[c.period] ELSE c.target
<1>1. c \in Job /\ SoundJob(c) /\ runner \in [Runner -> Job] /\ c.stage = "write"
      /\ job \in [Period -> {"none", "FAILED", "COMPLETED"}]
  BY DEF ReviewInv, ReviewsTyped, WriteJob, At
<1>2. c.period \in Period /\ c.target \in {"none", "FAILED", "COMPLETED"}
  BY <1>1 DEF Job
<1>3. job' = [job EXCEPT ![c.period] = status] /\ UNCHANGED <<daily, report>>
  BY DEF WriteJob
<1>4. status \in {"none", "FAILED", "COMPLETED"}
      /\ (status = "COMPLETED" => Stored(c.period))
  BY <1>1, <1>2 DEF SoundJob, ReviewInv, CompletedHasReport
<1>5. Grown
  BY <1>3 DEF Grown
<1>6. \E m \in Job : SoundJob(m) /\ runner' = [runner EXCEPT ![r] = m]
  <2>1. CASE ~raises /\ r = Coordinator /\ c.target = "COMPLETED" /\ ~c.again
    <3> DEFINE q == [c EXCEPT !.stage = "put"]
               m == [q EXCEPT !.again = TRUE]
               g == [runner EXCEPT ![r] = q]
    <3>1. runner' = [runner EXCEPT ![r].stage = "put", ![r].again = TRUE]
      BY <2>1 DEF WriteJob
    <3>2. /\ q \in Job /\ q.period = c.period /\ q.todo = c.todo /\ q.found = c.found
          /\ q.target = c.target
      BY <1>1 DEF Job
    <3>3. g \in [Runner -> Job] /\ g[r] = q
      <4> HIDE DEF q
      <4> QED BY <1>1, <3>2
    <3>4. runner' = [g EXCEPT ![r].again = TRUE]
      BY <3>1
    <3>5. [g EXCEPT ![r].again = TRUE] = [g EXCEPT ![r] = m]
      <4> HIDE DEF g, q
      <4> QED BY <3>3
    <3>6. [g EXCEPT ![r] = m] = [runner EXCEPT ![r] = m]
      <4> HIDE DEF q, m
      <4> QED OBVIOUS
    <3>7. /\ m \in Job /\ m.period = c.period /\ m.todo = c.todo /\ m.found = c.found
          /\ m.target = c.target
      <4> HIDE DEF q
      <4> QED BY <3>2 DEF Job
    <3> HIDE DEF m, g, q
    <3>8. SoundJob(m)
      BY <1>1, <3>7 DEF SoundJob
    <3> QED BY <3>4, <3>5, <3>6, <3>7, <3>8
  <2>2. CASE ~(~raises /\ r = Coordinator /\ c.target = "COMPLETED" /\ ~c.again)
    <3>1. runner' = [runner EXCEPT ![r] = Resting]
      BY <2>2 DEF WriteJob
    <3> QED BY <3>1, RestingSound
  <2> QED BY <2>1, <2>2
<1>7. PICK m \in Job : SoundJob(m) /\ runner' = [runner EXCEPT ![r] = m]
  BY <1>6
<1>8. ReviewsTyped'
  <2>1. job' \in [Period -> {"none", "FAILED", "COMPLETED"}]
    <3> HIDE DEF status, c
    <3> QED BY <1>1, <1>3, <1>4
  <2> QED BY <1>3, <1>7, <2>1 DEF ReviewInv, ReviewsTyped
<1>9. \A p \in Period : job'[p] = "COMPLETED" => job[p] = "COMPLETED" \/ Stored(p)
  <2> HIDE DEF status, c
  <2> QED BY <1>1, <1>3, <1>4
<1>10. \A x \in Runner : runner'[x] = runner[x] \/ SoundJob(runner[x])'
  <2>1. runner'[r] = m /\ \A x \in Runner \ {r} : runner'[x] = runner[x]
    BY <1>1, <1>7
  <2>2. SoundJob(m)'
    BY <1>5, <1>7, JobKept
  <2> QED BY <2>1, <2>2 DEF SoundJob
<1>11. \A p \in Period : job'[p] = "COMPLETED" => job[p] = "COMPLETED" \/ Stored(p)'
  BY <1>5, <1>9, StillSound
<1> QED BY <1>3, <1>5, <1>8, <1>10, <1>11, ReviewKept

LEMMA StoreDailyKept ==
  ASSUME ReviewInv, NEW x \in DOMAIN DailyReviews, StoreDaily(x)
  PROVE  ReviewInv'
<1>1. /\ daily' = [daily EXCEPT ![x] = DailyReviews[x]] /\ daily[x] = "none"
      /\ UNCHANGED <<report, job, runner>>
  BY DEF StoreDaily
<1>2. DailyReviews[x] \in {"none", "plain", "lesson"}
  BY DailyReviewsAssumption
<1>3. daily \in [Day \X ReviewId -> {"none", "plain", "lesson"}]
  BY DEF ReviewInv, ReviewsTyped
<1>4. daily' \in [Day \X ReviewId -> {"none", "plain", "lesson"}]
  BY <1>1, <1>2, <1>3
<1>5. ReviewsTyped'
  BY <1>1, <1>4 DEF ReviewInv, ReviewsTyped
<1>6. Grown
  <2>1. ASSUME NEW y \in Day \X ReviewId, daily[y] = "lesson" PROVE daily'[y] = "lesson"
    BY <1>1, <1>3, <2>1
  <2>2. \A d \in Day, i \in ReviewId : <<d, i>> \in Day \X ReviewId
    OBVIOUS
  <2> QED BY <1>1, <2>1, <2>2 DEF Grown
<1>7. /\ \A p \in Period : report'[p] = report[p]
      /\ \A p \in Period : job'[p] = "COMPLETED" => job[p] = "COMPLETED"
      /\ \A r \in Runner : runner'[r] = runner[r]
  BY <1>1
<1> QED BY <1>5, <1>6, <1>7, ReviewKept

\* A runner that fails or dies.
LEMMA StopKept ==
  ASSUME ReviewInv, NEW r \in Runner, ReviewFails(r) \/ Die(r)
  PROVE  ReviewInv'
<1>1. CASE ReviewFails(r)
  <2>1. runner' = [runner EXCEPT ![r] = Putter(runner[r].period, "FAILED")]
        /\ UNCHANGED <<daily, report, job>>
    BY <1>1 DEF ReviewFails, Putting, Putter
  <2>2. runner[r].period \in Period
    BY DEF ReviewInv, ReviewsTyped, Job
  <2> QED BY <2>1, <2>2, PutterSound, RunnerMoves
<1>2. CASE Die(r)
  BY <1>2, RestingSound, RunnerMoves DEF Die
<1> QED BY <1>1, <1>2

LEMMA ReviewSame ==
  ASSUME ReviewInv, UNCHANGED <<daily, report, job, runner>>
  PROVE  ReviewInv'
<1>1. Grown
  BY DEF Grown
<1>2. ReviewsTyped'
  BY DEF ReviewInv, ReviewsTyped
<1>3. /\ \A p \in Period : report'[p] = report[p] /\ job'[p] = job[p]
      /\ \A r \in Runner : runner'[r] = runner[r]
  OBVIOUS
<1> QED BY <1>1, <1>2, <1>3, ReviewKept

LEMMA ReviewStep ==
  ASSUME ReviewInv, ReviewNext
  PROVE  ReviewInv'
<1>1. CASE Midnight
  BY <1>1, ReviewSame DEF Midnight
<1>2. \A r \in Runner : PeriodFor \cap Asked[r] \subseteq Period
  BY DEF PeriodFor, Latest, Period
<1> QED
  BY <1>1, <1>2, StoreDailyKept, BeginKept, CollectKept, SelectReviewKept, InsertKept,
     SelectJobKept, WriteKept, StopKept
  DEF ReviewNext, RunnerStep

LEMMA ReviewInitial == ReviewInit => ReviewInv
<1> SUFFICES ASSUME ReviewInit PROVE ReviewInv
  OBVIOUS
<1>1. NoReport \in Body /\ NoReport.lesson = "absent" /\ \A d \in Day : NoReport.days[d] = 0
  BY DEF NoReport, Body
<1>2. /\ daily = [x \in Day \X ReviewId |-> "none"] /\ report = [p \in Period |-> NoReport]
      /\ job = [p \in Period |-> "none"] /\ runner = [r \in Runner |-> Resting]
  BY DEF ReviewInit
<1> HIDE DEF NoReport
<1>3. ReviewsTyped
  BY <1>1, <1>2, RestingSound DEF ReviewsTyped
<1>4. \A p \in Period : report[p] = NoReport /\ ~Stored(p) /\ job[p] = "none" /\ SoundReport(p)
  <2>1. \A p \in Period : report[p] = NoReport /\ ~Stored(p) /\ job[p] = "none"
    BY <1>2 DEF Stored
  <2> QED BY <1>1, <2>1, KidsOf DEF SoundReport
<1>5. \A r \in Runner : SoundJob(runner[r])
  BY <1>2, RestingSound
<1> QED BY <1>3, <1>4, <1>5 DEF ReviewInv, CompletedHasReport

-----------------------------------------------------------------------------
(* The daily review.                                                       *)

LEMMA GovernanceInitial == GovernanceInit => GovernanceInv
<1> SUFFICES ASSUME GovernanceInit PROVE GovernanceInv
  OBVIOUS
<1>1. 1 \in Date
  BY GovernanceBoundsAssumption DEF Date
<1> QED BY <1>1 DEF GovernanceInit, GovernanceInv, NoReview, RowsAreOfTheirDate

\* What a reviewer counted, the memory of that date still has.
LEMMA LoadKept ==
  ASSUME GovernanceInv, NEW r, Load(r)
  PROVE  GovernanceInv'
<1> DEFINE held == [date |-> date, count |-> RecordsOfDate]
<1>1. held \in [date : Date, count : Nat] /\ held.date = date /\ held.count = memory[date]
  BY DEF GovernanceInv, RecordsOfDate
<1>2. reviewer' = [reviewer EXCEPT ![r] = held] /\ UNCHANGED <<date, memory, rows>>
  BY DEF Load
<1> HIDE DEF held
<1>3. \A x \in Reviewer : reviewer'[x] = reviewer[x] \/ reviewer'[x] = held
  BY <1>2 DEF GovernanceInv
<1>4. held.count <= memory[held.date]
  BY <1>1 DEF GovernanceInv
<1> QED BY <1>1, <1>2, <1>3, <1>4 DEF GovernanceInv, RowsAreOfTheirDate

LEMMA GovernanceStep ==
  ASSUME GovernanceInv, GovernanceNext
  PROVE  GovernanceInv'
<1>1. CASE SaveTrade
  <2>1. memory' = [memory EXCEPT ![date] = @ + 1] /\ UNCHANGED <<date, rows, reviewer>>
    BY <1>1 DEF SaveTrade
  <2>2. memory' \in [Date -> Nat] /\ \A d \in Date : memory[d] <= memory'[d]
    BY <2>1 DEF GovernanceInv
  <2>3. RowsAreOfTheirDate'
    BY <2>1, <2>2 DEF GovernanceInv, RowsAreOfTheirDate, NoReview
  <2>4. ASSUME NEW r \in Reviewer, reviewer[r] # Free
        PROVE  reviewer[r].count <= memory'[reviewer[r].date]
    <3>1. reviewer[r].date \in Date /\ reviewer[r].count \in Nat
          /\ reviewer[r].count <= memory[reviewer[r].date]
      BY <2>4 DEF GovernanceInv
    <3> QED BY <2>2, <3>1 DEF GovernanceInv
  <2> QED BY <2>1, <2>2, <2>3, <2>4 DEF GovernanceInv
<1>2. CASE NextDate
  BY <1>2, GovernanceBoundsAssumption DEF NextDate, GovernanceInv, Date, RowsAreOfTheirDate
<1>3. CASE WakeLoop \/ \E r \in Reviewer : RunByHand(r)
  BY <1>3, LoadKept DEF WakeLoop, RunByHand
<1>4. CASE MissSlot
  BY <1>4 DEF MissSlot, GovernanceInv, RowsAreOfTheirDate
<1>5. ASSUME NEW r \in Reviewer, SaveReview(r) PROVE GovernanceInv'
  <2>1. /\ reviewer[r] \in [date : Date, count : Nat]
        /\ reviewer[r].count <= memory[reviewer[r].date]
        /\ rows' = [rows EXCEPT ![reviewer[r].date] = reviewer[r].count]
        /\ reviewer' = [reviewer EXCEPT ![r] = Free]
        /\ UNCHANGED <<date, memory>>
    BY <1>5 DEF SaveReview, GovernanceInv
  <2>2. PICK d \in Date, n \in Nat : d = reviewer[r].date /\ n = reviewer[r].count
    BY <2>1
  <2>3. rows' = [rows EXCEPT ![d] = n] /\ n <= memory[d]
    BY <2>1, <2>2
  <2>4. rows' \in [Date -> Nat \cup {NoReview}] /\ RowsAreOfTheirDate'
    BY <2>1, <2>3 DEF GovernanceInv, RowsAreOfTheirDate
  <2>5. \A x \in Reviewer : reviewer'[x] = reviewer[x] \/ reviewer'[x] = Free
    BY <2>1 DEF GovernanceInv
  <2> QED BY <2>1, <2>4, <2>5 DEF GovernanceInv
<1>6. ASSUME NEW r \in Reviewer, ReviewModelFails(r) PROVE GovernanceInv'
  <2>1. /\ reviewer' = [reviewer EXCEPT ![r] = Free] /\ UNCHANGED <<date, memory, rows>>
    BY <1>6 DEF ReviewModelFails
  <2>2. \A x \in Reviewer : reviewer'[x] = reviewer[x] \/ reviewer'[x] = Free
    BY <2>1 DEF GovernanceInv
  <2> QED BY <2>1, <2>2 DEF GovernanceInv, RowsAreOfTheirDate
<1> QED BY <1>1, <1>2, <1>3, <1>4, <1>5, <1>6 DEF GovernanceNext

-----------------------------------------------------------------------------
(* Candidates, their workspaces and the promotions.                        *)

Entry == [content : Content \cup {"none"},
          status : {"none", "CANDIDATE", "REJECTED", "QUARANTINED"}]

\* What is registered has a content.
Registry ==
  /\ DOMAIN registry = Candidate
  /\ \A c \in Candidate : registry[c] \in Entry
  /\ \A c \in Candidate : Registered(c) => registry[c].content # "none"
  /\ NoSecondChance

Condition == {"none", "CREATED", "QUARANTINED", "MATERIALIZED"}
Space     == [status : Condition, files : SUBSET Path, added : Int]

InPolicy(files) == \A path \in files : FileOf[path] \in File /\ path \in Allowed \ Protected

Workspaces ==
  /\ DOMAIN workspace = Candidate
  /\ \A c \in Candidate : workspace[c] \in Space
  /\ ChangeSetInPolicy

PromotionRecord == [candidate : Challenger \cup {"none"},
           status : {"none", "ACTIVE", "ROLLING_BACK", "ROLLED_BACK", "SAFE_DEGRADED"}]

Promoted ==
  /\ DOMAIN records = PromotionId
  /\ \A p \in PromotionId : records[p] \in PromotionRecord
  /\ snapshots \subseteq PromotionId
  /\ active \in PromotionId \cup {NoRelease}
  /\ GateBlockedOnlyWhenDegraded /\ ActiveNotRolledBack

ReleaseInv == Registry /\ Workspaces /\ Promoted

-----------------------------------------------------------------------------
LEMMA ReleaseInitial == ReleaseInit => ReleaseInv
<1> SUFFICES ASSUME ReleaseInit PROVE ReleaseInv
  OBVIOUS
<1>1. Registry
  BY DEF ReleaseInit, CandidateInit, Registry, NoSecondChance, Registered, Unregistered, Entry
<1>2. Workspaces
  BY DEF ReleaseInit, CandidateInit, Workspaces, ChangeSetInPolicy, NoWorkspace, Space, Condition
<1>3. Promoted
  BY DEF ReleaseInit, PromotionInit, Promoted, GateBlockedOnlyWhenDegraded, ActiveNotRolledBack,
         NoRecord, PromotionRecord
<1> QED BY <1>1, <1>2, <1>3 DEF ReleaseInv

\* The content of a candidate changes when it is registered, and only then.
LEMMA RegistryKept ==
  ASSUME Registry, CandidateNext
  PROVE  Registry'
<1>1. ASSUME NEW c \in Candidate, NEW content \in Content, Register(c, content)
      PROVE  Registry'
  <2> DEFINE r == [content |-> content, status |-> "CANDIDATE"]
  <2>1. /\ content \notin Forbidden
        /\ \A d \in Candidate : registry[d].content # content
        /\ registry' = [registry EXCEPT ![c] = r]
    BY <1>1 DEF Register, Equivalent
  <2>2. r \in Entry /\ r.content = content
    BY DEF Entry
  <2>3. registry[c].content = "none"
    BY <1>1 DEF Register, Registered, Unregistered
  <2> HIDE DEF r
  <2>4. content # "none"
    BY <2>1, <2>3
  <2>5. /\ registry'[c] = r
        /\ \A d \in Candidate \ {c} : registry'[d] = registry[d]
    BY <2>1 DEF Registry
  <2> QED BY <2>1, <2>2, <2>4, <2>5 DEF Registry, NoSecondChance, Registered
<1>2. ASSUME NEW c \in Candidate, NEW status \in {"REJECTED", "QUARANTINED"}, Mark(c, status)
      PROVE  Registry'
  <2> DEFINE r == [registry[c] EXCEPT !.status = status]
  <2>1. registry' = [registry EXCEPT ![c] = r] /\ Registered(c)
    BY <1>2 DEF Mark
  <2>2. registry[c] \in Entry
    BY DEF Registry
  <2>3. r \in Entry /\ r.content = registry[c].content
    BY <2>2 DEF Entry
  <2> HIDE DEF r
  <2>4. /\ registry'[c] = r
        /\ \A d \in Candidate \ {c} : registry'[d] = registry[d]
    BY <2>1 DEF Registry
  <2>5. \A d \in Candidate : registry'[d].content = registry[d].content
    BY <2>3, <2>4
  <2>6. \A d \in Candidate : Registered(d)' => Registered(d)
    BY <2>1, <2>4 DEF Registered
  <2> QED BY <2>1, <2>3, <2>4, <2>5, <2>6 DEF Registry, NoSecondChance
<1>3. CASE UNCHANGED registry
  BY <1>3 DEF Registry, NoSecondChance, Registered
<1> QED BY <1>1, <1>2, <1>3 DEF CandidateNext, CreateWorkspace, DestroyWorkspace, Materialize

\* An edit outside the policy is not noted, whatever becomes of the workspace.
LEMMA EditKept ==
  ASSUME NEW w \in Space, InPolicy(w.files), NEW path \in Path
  PROVE  RecordWrite(w, path) \in Space /\ InPolicy(RecordWrite(w, path).files)
<1> DEFINE changed == [status |-> w.status, files |-> w.files \cup {path}, added |-> w.added + 1]
<1>1. /\ changed \in Space /\ changed.files = w.files \cup {path}
  BY DEF Space, Condition
<1>2. [w EXCEPT !.status = "QUARANTINED"] \in Space
      /\ [w EXCEPT !.status = "QUARANTINED"].files = w.files
  BY DEF Space, Condition
<1> HIDE DEF changed
<1>3. [changed EXCEPT !.status = "QUARANTINED"] \in Space
      /\ [changed EXCEPT !.status = "QUARANTINED"].files = changed.files
  BY <1>1 DEF Space, Condition
<1>4. \/ RecordWrite(w, path) = [w EXCEPT !.status = "QUARANTINED"]
      \/ Resolves(path) /\ RecordWrite(w, path) = [changed EXCEPT !.status = "QUARANTINED"]
      \/ Resolves(path) /\ RecordWrite(w, path) = changed
  BY DEF RecordWrite, changed
<1>5. Resolves(path) => InPolicy(w.files \cup {path})
  BY CandidateAssumption DEF Resolves, InPolicy
<1> QED BY <1>1, <1>2, <1>3, <1>4, <1>5

LEMMA WorkspacesKept ==
  ASSUME Workspaces, CandidateNext
  PROVE  Workspaces'
<1> DEFINE Sound(w) == w \in Space /\ InPolicy(w.files)
<1>1. \A c \in Candidate : Sound(workspace[c])
  BY DEF Workspaces, ChangeSetInPolicy, InPolicy
<1>2. ASSUME NEW w, Sound(w), NEW status \in Condition
      PROVE  Sound([w EXCEPT !.status = status])
  BY <1>2 DEF Space, Condition
<1>3. Sound(NoWorkspace) /\ Sound([NoWorkspace EXCEPT !.status = "CREATED"])
  BY DEF NoWorkspace, Space, Condition, InPolicy
<1>4. ASSUME NEW c \in Candidate, NEW w, Sound(w), workspace' = [workspace EXCEPT ![c] = w]
      PROVE  Workspaces'
  BY <1>1, <1>4 DEF Workspaces, ChangeSetInPolicy, InPolicy
<1>5. ASSUME NEW c \in Candidate, NEW edits \in {{}} \cup {{path} : path \in Path},
             Materialize(c, edits)
      PROVE  Workspaces'
  <2> DEFINE w == workspace[c]
             path == CHOOSE x \in edits : TRUE
  <2>1. Sound(w)
    BY <1>1
  <2>2. CASE edits = {}
    <3>1. workspace' = [workspace EXCEPT ![c] = [w EXCEPT !.status = "MATERIALIZED"]]
      BY <1>5, <2>2 DEF Materialize
    <3>2. Sound([w EXCEPT !.status = "MATERIALIZED"])
      BY <1>2, <2>1 DEF Condition
    <3> QED BY <1>4, <3>1, <3>2
  <2>3. CASE edits # {}
    <3>1. path \in Path
      BY <2>3
    <3>2. Sound(RecordWrite(w, path))
      BY <2>1, <3>1, EditKept
    <3>3. Sound([RecordWrite(w, path) EXCEPT !.status = "MATERIALIZED"])
      BY <1>2, <3>2 DEF Condition
    <3>4. \/ workspace' = [workspace EXCEPT ![c] = RecordWrite(w, path)]
          \/ workspace' = [workspace EXCEPT ![c] =
                             [RecordWrite(w, path) EXCEPT !.status = "MATERIALIZED"]]
      BY <1>5, <2>3 DEF Materialize
    <3> QED BY <1>4, <3>2, <3>3, <3>4
  <2> QED BY <2>2, <2>3
<1>6. CASE UNCHANGED workspace
  BY <1>6 DEF Workspaces, ChangeSetInPolicy
<1> QED
  BY <1>3, <1>4, <1>5, <1>6
  DEF CandidateNext, Register, Mark, CreateWorkspace, DestroyWorkspace

LEMMA PromotedKept ==
  ASSUME Promoted, PromotionNext
  PROVE  Promoted'
<1> USE DEF GateBlockedOnlyWhenDegraded, ActiveNotRolledBack
<1> NoRelease \notin PromotionId
  BY DEF NoRelease, PromotionId
<1>1. ASSUME NEW c \in Challenger, NEW p \in PromotionId, NEW healthy \in BOOLEAN,
             Promote(p, c, healthy)
      PROVE  Promoted'
  <2> DEFINE r == [candidate |-> c, status |-> IF healthy THEN "ACTIVE" ELSE "ROLLING_BACK"]
  <2>1. /\ records' = [records EXCEPT ![p] = r]
        /\ snapshots' = snapshots \cup {p}
        /\ active' = IF healthy THEN p ELSE active
        /\ gate' = "OPEN"
    BY <1>1 DEF Promote, GateAfterPromote
  <2>2. r \in PromotionRecord /\ r.status \in {"ACTIVE", "ROLLING_BACK"}
    BY DEF PromotionRecord
  <2> HIDE DEF r
  <2> QED BY <2>1, <2>2 DEF Promoted
<1>2. ASSUME NEW p \in PromotionId, NEW healthy \in BOOLEAN, Rollback(p, healthy)
      PROVE  Promoted'
  <2> DEFINE r == [records[p] EXCEPT !.status = IF healthy THEN "ROLLED_BACK" ELSE "SAFE_DEGRADED"]
  <2>1. /\ p \in snapshots /\ UNCHANGED snapshots
        /\ records' = [records EXCEPT ![p] = r]
        /\ active' = IF healthy THEN NoRelease ELSE active
        /\ gate' = IF healthy THEN "OPEN" ELSE "BLOCKED_FOR_UPGRADE"
    BY <1>2 DEF Rollback, AfterRollback
  <2>2. records[p] \in PromotionRecord
    BY DEF Promoted
  <2>3. r \in PromotionRecord /\ (~healthy => r.status = "SAFE_DEGRADED")
    BY <2>2 DEF PromotionRecord
  <2> HIDE DEF r
  <2> QED BY <2>1, <2>3 DEF Promoted
<1>3. CASE UNCHANGED <<records, snapshots, active, gate>>
  BY <1>3 DEF Promoted
<1> QED BY <1>1, <1>2, <1>3 DEF PromotionNext, Validate

LEMMA ReleaseStep == ReleaseInv /\ [ReleaseNext]_releaseVars => ReleaseInv'
<1> SUFFICES ASSUME ReleaseInv, [ReleaseNext]_releaseVars PROVE ReleaseInv'
  OBVIOUS
<1> USE DEF ReleaseInv
<1>1. UNCHANGED candidateVars => Registry' /\ Workspaces'
  BY DEF candidateVars, Registry, NoSecondChance, Registered, Workspaces, ChangeSetInPolicy
<1>2. UNCHANGED promotionVars => Promoted'
  BY DEF promotionVars, Promoted, GateBlockedOnlyWhenDegraded, ActiveNotRolledBack
<1>3. CASE CandidateNext /\ UNCHANGED promotionVars
  BY <1>2, <1>3, RegistryKept, WorkspacesKept
<1>4. CASE PromotionNext /\ UNCHANGED candidateVars
  BY <1>1, <1>4, PromotedKept
<1> QED BY <1>1, <1>2, <1>3, <1>4 DEF ReleaseNext, releaseVars

\* A content that was refused is not registered under another id, a change set names only
\* files of the workspace by paths written as the policy allows, the gate of new entries is closed only while a release is degraded, and the
\* active release was not rolled back, whatever is called in whatever order.
THEOREM RefusalsLast == ReleaseInit /\ [][ReleaseNext]_releaseVars => []RefusedStaysOut
<1>1. ReleaseInv => RefusedStaysOut
  BY DEF ReleaseInv, Registry, Workspaces, Promoted, RefusedStaysOut
<1> QED BY <1>1, ReleaseInitial, ReleaseStep, PTL

-----------------------------------------------------------------------------
(* Folds over sequences: the values that a fold passes through.  move is the*)
(* folded operator as a function on the states St and the elements E.      *)

Passes(f, move, base, s) == f[0] = base /\ \A k \in 1..Len(s) : f[k] = move[<<f[k - 1], s[k]>>]

\* The function that FoldLeft's definition chooses: on sets of indices, by their maximum.
IteratesTo(n, g, move, base, s) ==
  \A t \in SUBSET (1..n) :
    /\ g[t] = IF t = {} THEN base ELSE move[<<g[t \ {Max(t)}], s[Max(t)]>>]
    /\ t # {} => Max(t) \in t

Iterates(g, move, base, s) == IteratesTo(Len(s), g, move, base, s)

LEMMA MaxIs ==
  ASSUME NEW t \in SUBSET Int, NEW n \in t, \A k \in t : k <= n
  PROVE  Max(t) = n
<1>1. Max(t) \in t /\ \A k \in t : Max(t) >= k
  BY DEF Max
<1>2. Max(t) \in Int /\ n \in Int /\ Max(t) <= n /\ Max(t) >= n
  BY <1>1
<1> QED BY <1>2

LEMMA IteratesExist ==
  ASSUME NEW St, NEW E, NEW move \in [St \X E -> St], NEW base \in St, NEW s \in Seq(E)
  PROVE  \E g \in [SUBSET (1..Len(s)) -> St] : Iterates(g, move, base, s)
<1> DEFINE T == {n \in 0..Len(s) :
                   \E g \in [SUBSET (1..n) -> St] : IteratesTo(n, g, move, base, s)}
<1>1. Len(s) \in Nat
  OBVIOUS
<1>2. 0 \in T
  <2> DEFINE g == [t \in SUBSET (1..0) |-> base]
  <2>1. \A t \in SUBSET (1..0) : t = {}
    OBVIOUS
  <2>2. g \in [SUBSET (1..0) -> St] /\ IteratesTo(0, g, move, base, s)
    BY <2>1 DEF IteratesTo
  <2>3. 0 \in 0..Len(s)
    BY <1>1
  <2> HIDE DEF g
  <2> QED BY <2>2, <2>3, Zenon
<1>3. ASSUME NEW n \in 1..Len(s), n - 1 \in T PROVE n \in T
  <2>1. PICK g \in [SUBSET (1..(n - 1)) -> St] : IteratesTo(n - 1, g, move, base, s)
    BY <1>3
  <2> DEFINE h == [t \in SUBSET (1..n) |-> IF n \in t THEN move[<<g[t \ {n}], s[n]>>] ELSE g[t]]
  <2>2. ASSUME NEW t \in SUBSET (1..n)
        PROVE  /\ n \in t => t \ {n} \in SUBSET (1..(n - 1)) /\ Max(t) = n
               /\ n \notin t => t \in SUBSET (1..(n - 1))
    <3>1. n \in t => Max(t) = n
      BY MaxIs
    <3> QED BY <3>1
  <2>3. s[n] \in E
    BY <1>1
  <2>4. h \in [SUBSET (1..n) -> St]
    <3>1. ASSUME NEW t \in SUBSET (1..n) PROVE h[t] \in St
      <4>1. CASE n \in t
        <5>1. g[t \ {n}] \in St
          BY <2>2, <4>1
        <5> QED BY <2>3, <4>1, <5>1
      <4>2. CASE n \notin t
        BY <2>2, <4>2
      <4> QED BY <4>1, <4>2
    <3> QED BY <3>1
  <2>5. ASSUME NEW t \in SUBSET (1..(n - 1)) PROVE t \in SUBSET (1..n) /\ h[t] = g[t]
    <3>1. t \in SUBSET (1..n) /\ n \notin t
      BY <1>1
    <3> QED BY <3>1
  <2>6. ASSUME NEW t \in SUBSET (1..n)
        PROVE  /\ h[t] = IF t = {} THEN base ELSE move[<<h[t \ {Max(t)}], s[Max(t)]>>]
               /\ t # {} => Max(t) \in t
    <3>1. CASE n \in t
      <4>1. h[t] = move[<<g[t \ {n}], s[n]>>] /\ Max(t) = n /\ h[t \ {n}] = g[t \ {n}]
        BY <2>2, <2>5, <3>1
      <4> HIDE DEF h
      <4> QED BY <3>1, <4>1
    <3>2. CASE n \notin t
      <4>1. t \in SUBSET (1..(n - 1)) /\ h[t] = g[t]
        BY <2>2, <2>5, <3>2
      <4>2. /\ g[t] = IF t = {} THEN base ELSE move[<<g[t \ {Max(t)}], s[Max(t)]>>]
            /\ t # {} => Max(t) \in t
        BY <2>1, <4>1 DEF IteratesTo
      <4>3. h[t \ {Max(t)}] = g[t \ {Max(t)}]
        BY <2>5, <4>1
      <4> HIDE DEF h
      <4> QED BY <4>1, <4>2, <4>3
    <3> QED BY <3>1, <3>2
  <2> HIDE DEF h
  <2>7. IteratesTo(n, h, move, base, s)
    BY <2>6 DEF IteratesTo
  <2> QED BY <1>1, <2>4, <2>7
<1>4. Len(s) \in T
  <2> HIDE DEF T
  <2> QED BY <1>1, <1>2, <1>3, ReachesAll
<1> QED BY <1>4 DEF Iterates, IteratesTo

LEMMA Segments ==
  ASSUME NEW n \in Nat, NEW k \in 1..n
  PROVE  /\ 1..k \in SUBSET (1..n) /\ 1..k # {} /\ Max(1..k) = k
         /\ (1..k) \ {k} = 1..(k - 1) /\ 1..(k - 1) \in SUBSET (1..n)
<1> DEFINE t == 1..k
<1>1. t \in SUBSET (1..n) /\ t \in SUBSET Int /\ k \in t /\ \A j \in t : j <= k
  OBVIOUS
<1>2. t \ {k} = 1..(k - 1) /\ 1..(k - 1) \in SUBSET (1..n)
  OBVIOUS
<1> HIDE DEF t
<1>3. Max(t) = k
  BY <1>1, MaxIs
<1> QED BY <1>1, <1>2, <1>3 DEF t

Folds(h, move, base, s, St) ==
  /\ h[{}] = base
  /\ \A k \in 1..Len(s) : h[1..(k - 1)] \in St => h[1..k] = move[<<h[1..(k - 1)], s[k]>>]

Moves(move, base, s, St, E) == move \in [St \X E -> St] /\ base \in St /\ s \in Seq(E)

\* Whatever the fold's own function is, on the initial segments it runs through the sequence.
LEMMA SegmentsRun ==
  ASSUME NEW St, NEW E, NEW move, NEW base, NEW s, Moves(move, base, s, St, E),
         NEW h, Folds(h, move, base, s, St)
  PROVE  \E f : /\ Passes(f, move, base, s) /\ f[Len(s)] = h[1..Len(s)]
                /\ \A k \in 0..Len(s) : f[k] \in St
<1> USE DEF Folds, Moves
<1>1. Len(s) \in Nat /\ h[1..0] = base
  <2>1. 1..0 = {}
    OBVIOUS
  <2> QED BY <2>1
<1> DEFINE T == {k \in 0..Len(s) : h[1..k] \in St}
<1>2. 0 \in T
  BY <1>1
<1>3. ASSUME NEW k \in 1..Len(s), k - 1 \in T PROVE k \in T
  <2>1. h[1..(k - 1)] \in St /\ k \in 0..Len(s) /\ s[k] \in E
    BY <1>1, <1>3
  <2>2. <<h[1..(k - 1)], s[k]>> \in St \X E
    BY <2>1
  <2>3. h[1..k] \in St
    BY <2>1, <2>2
  <2> QED BY <2>1, <2>3
<1>4. \A k \in 0..Len(s) : k \in T
  <2> HIDE DEF T
  <2> QED BY <1>1, <1>2, <1>3, ReachesAll
<1> DEFINE f == [k \in 0..Len(s) |-> h[1..k]]
<1>5. \A k \in 0..Len(s) : f[k] = h[1..k] /\ f[k] \in St
  BY <1>4
<1>6. 0 \in 0..Len(s) /\ Len(s) \in 0..Len(s)
      /\ \A k \in 1..Len(s) : k \in 0..Len(s) /\ k - 1 \in 0..Len(s)
  BY <1>1
<1> HIDE DEF f
<1>7. Passes(f, move, base, s)
  BY <1>1, <1>5, <1>6 DEF Passes
<1> QED BY <1>5, <1>6, <1>7

\* Two runs over sequences that begin alike pass through the same values.
LEMMA PassesAgree ==
  ASSUME NEW move, NEW base, NEW s, NEW r, Len(s) \in Nat, Len(r) \in Nat, Len(s) <= Len(r),
         \A k \in 1..Len(s) : s[k] = r[k],
         NEW f, Passes(f, move, base, s), NEW g, Passes(g, move, base, r)
  PROVE  \A k \in 0..Len(s) : f[k] = g[k]
<1> DEFINE n == Len(s)
<1> DEFINE T == {k \in 0..n : f[k] = g[k]}
<1>1. 0 \in T
  BY DEF Passes
<1>2. ASSUME NEW k \in 1..n, k - 1 \in T PROVE k \in T
  <2>1. k \in 1..Len(s) /\ k \in 1..Len(r) /\ k \in 0..n
    OBVIOUS
  <2>2. f[k] = move[<<f[k - 1], s[k]>>] /\ g[k] = move[<<g[k - 1], r[k]>>]
    BY <2>1 DEF Passes
  <2> QED BY <1>2, <2>1, <2>2
<1>3. \A k \in 0..n : k \in T
  <2> HIDE DEF T
  <2> QED BY <1>1, <1>2, ReachesAll
<1> QED BY <1>3

-----------------------------------------------------------------------------
(* A finite set in the order R, each element at the place that the number  *)
(* of those before it gives.                                               *)

Orders(R, S) ==
  /\ IsFiniteSet(S) /\ \A x \in S : <<x, x>> \notin R
  /\ \A x, y, z \in S : <<x, y>> \in R /\ <<y, z>> \in R => <<x, z>> \in R
  /\ \A x, y \in S : x # y => <<x, y>> \in R \/ <<y, x>> \in R

Below(R, S, x) == {y \in S : <<y, x>> \in R}

LEMMA RankGrows ==
  ASSUME NEW R, NEW S, Orders(R, S), NEW x \in S, NEW y \in S, <<x, y>> \in R
  PROVE  Cardinality(Below(R, S, x)) < Cardinality(Below(R, S, y))
<1>1. Below(R, S, x) \in SUBSET Below(R, S, y)
  BY DEF Orders, Below
<1>2. x \in Below(R, S, y) /\ x \notin Below(R, S, x)
  BY DEF Orders, Below
<1>3. IsFiniteSet(S) /\ Below(R, S, x) \in SUBSET S /\ Below(R, S, y) \in SUBSET S
  BY DEF Orders, Below
<1>4. IsFiniteSet(Below(R, S, x)) /\ IsFiniteSet(Below(R, S, y))
  BY <1>3, FS_Subset
<1>5. Below(R, S, x) # Below(R, S, y)
  BY <1>2
<1>6. /\ Cardinality(Below(R, S, x)) <= Cardinality(Below(R, S, y))
      /\ Cardinality(Below(R, S, x)) # Cardinality(Below(R, S, y))
  BY <1>1, <1>4, <1>5, FS_Subset
<1>7. Cardinality(Below(R, S, x)) \in Nat /\ Cardinality(Below(R, S, y)) \in Nat
  BY <1>4, FS_CardinalityType
<1> QED BY <1>6, <1>7

LEMMA RankTyped ==
  ASSUME NEW R, NEW S, Orders(R, S), NEW x \in S
  PROVE  Cardinality(S) \in Nat /\ Cardinality(Below(R, S, x)) \in 0..(Cardinality(S) - 1)
<1>1. IsFiniteSet(S) /\ Below(R, S, x) \in SUBSET S /\ x \notin Below(R, S, x)
  BY DEF Orders, Below
<1>2. IsFiniteSet(Below(R, S, x)) /\ Cardinality(Below(R, S, x)) <= Cardinality(S)
      /\ Cardinality(Below(R, S, x)) # Cardinality(S)
  BY <1>1, FS_Subset
<1>3. Cardinality(S) \in Nat /\ Cardinality(Below(R, S, x)) \in Nat
  BY <1>1, <1>2, FS_CardinalityType
<1> QED BY <1>2, <1>3

\* Every place is taken.
LEMMA RankExists ==
  ASSUME NEW R, NEW S, Orders(R, S), NEW n \in 0..(Cardinality(S) - 1)
  PROVE  \E x \in S : Cardinality(Below(R, S, x)) = n
<1> DEFINE T == 0..(Cardinality(S) - 1)
           rank == [x \in S |-> Cardinality(Below(R, S, x))]
<1>1. IsFiniteSet(S) /\ Cardinality(S) \in Nat
  BY FS_CardinalityType DEF Orders
<1>2. IsFiniteSet(T) /\ Cardinality(T) = Cardinality(S)
  <2>1. PICK c : c = Cardinality(S)
    OBVIOUS
  <2>2. 0 \in Int /\ c - 1 \in Int /\ c \in Nat
    BY <1>1, <2>1
  <2>3. IsFiniteSet(0..(c - 1)) /\ Cardinality(0..(c - 1)) = IF 0 > c - 1 THEN 0 ELSE c - 1 - 0 + 1
    BY <2>2, FS_Interval
  <2> QED BY <2>1, <2>2, <2>3
<1>3. rank \in [S -> T]
  BY RankTyped
<1>4. \A x, y \in S : rank[x] = rank[y] => x = y
  <2> SUFFICES ASSUME NEW x \in S, NEW y \in S, x # y PROVE rank[x] # rank[y]
    OBVIOUS
  <2>1. rank[x] \in Int /\ rank[y] \in Int
    BY <1>3
  <2>2. CASE <<x, y>> \in R
    BY <2>1, <2>2, RankGrows
  <2>3. CASE <<y, x>> \in R
    BY <2>1, <2>3, RankGrows
  <2> QED BY <2>2, <2>3 DEF Orders
<1> HIDE DEF rank, T
<1>5. rank \in Injection(S, T)
  BY <1>3, <1>4 DEF Injection, IsInjective
<1>6. rank \in Surjection(S, T)
  BY <1>1, <1>2, <1>5, FS_Injection
<1>7. \E x \in S : rank[x] = n
  BY <1>6 DEF Surjection, T
<1> QED BY <1>7 DEF rank

InRankOrder(s, R, S) ==
  /\ s \in Seq(S) /\ Len(s) = Cardinality(S)
  /\ \A x \in S : \E n \in DOMAIN s : s[n] = x
  /\ \A i, j \in DOMAIN s : i < j => <<s[i], s[j]>> \in R

LEMMA ByRank ==
  ASSUME NEW R, NEW S, Orders(R, S), NEW s, s \in [1..Cardinality(S) -> S],
         \A n \in 1..Cardinality(S) : Cardinality(Below(R, S, s[n])) = n - 1
  PROVE  InRankOrder(s, R, S)
<1>1. Cardinality(S) \in Nat
  BY FS_CardinalityType DEF Orders
<1>2. s \in Seq(S) /\ Len(s) = Cardinality(S) /\ DOMAIN s = 1..Cardinality(S)
  BY <1>1
<1>3. ASSUME NEW x \in S PROVE \E n \in DOMAIN s : s[n] = x
  <2>1. PICK n : n = Cardinality(Below(R, S, x)) + 1
    OBVIOUS
  <2>2. n \in 1..Cardinality(S) /\ Cardinality(Below(R, S, x)) = n - 1
    BY <2>1, RankTyped
  <2>3. s[n] \in S /\ Cardinality(Below(R, S, s[n])) = n - 1
    BY <2>2
  <2>4. ~(<<x, s[n]>> \in R) /\ ~(<<s[n], x>> \in R)
    <3>1. n - 1 \in Int /\ ~(n - 1 < n - 1)
      BY <2>2
    <3> QED BY <2>2, <2>3, <3>1, RankGrows
  <2> QED BY <1>2, <2>2, <2>3, <2>4 DEF Orders
<1>4. ASSUME NEW i \in DOMAIN s, NEW j \in DOMAIN s, i < j PROVE <<s[i], s[j]>> \in R
  <2>1. /\ s[i] \in S /\ s[j] \in S /\ Cardinality(Below(R, S, s[i])) = i - 1
        /\ Cardinality(Below(R, S, s[j])) = j - 1 /\ i \in Int /\ j \in Int
    BY <1>2
  <2>2. s[i] # s[j]
    BY <1>4, <2>1
  <2>3. ~(<<s[j], s[i]>> \in R)
    <3>1. ~(j - 1 < i - 1)
      BY <1>4, <2>1
    <3> QED BY <2>1, <3>1, RankGrows
  <2> QED BY <2>1, <2>2, <2>3 DEF Orders
<1> QED BY <1>2, <1>3, <1>4 DEF InRankOrder

-----------------------------------------------------------------------------
(* The net quantity of a sequence of fills.                                *)

FillType == [side : {"BUY", "SELL"}, quantity : Nat \ {0}, reduceOnly : BOOLEAN, time : Nat]

SignedIn(table, i) == IF table[i].side = "BUY" THEN table[i].quantity ELSE -table[i].quantity
NetIn(table, ids)  == FoldLeft(LAMBDA n, i : n + SignedIn(table, i), 0, ids)

LEMMA NetIsIn ==
  ASSUME NEW ids
  PROVE  NetOf(ids) = NetIn(fills, ids) /\ NetOf(ids)' = NetIn(fills', ids)
<1>1. NetOf(ids) = NetIn(fills, ids)
  BY DEF NetOf, NetIn, Signed, SignedIn, FoldLeft, MapThenFoldSet
<1>2. NetOf(ids)' = NetIn(fills', ids)
  BY DEF NetOf, NetIn, Signed, SignedIn, FoldLeft, MapThenFoldSet
<1> QED BY <1>1, <1>2

Netting(table) == [x \in Int \X DOMAIN table |-> x[1] + SignedIn(table, x[2])]

LEMMA SignedTyped ==
  ASSUME NEW table \in Seq(FillType), NEW i \in DOMAIN table
  PROVE  SignedIn(table, i) \in Int \ {0}
<1>1. table[i] \in FillType
  OBVIOUS
<1>2. table[i].quantity \in Nat \ {0}
  BY <1>1 DEF FillType
<1>3. PICK q \in Nat \ {0} : q = table[i].quantity
  BY <1>2
<1>4. SignedIn(table, i) = IF table[i].side = "BUY" THEN q ELSE -q
  BY <1>3 DEF SignedIn
<1> QED BY <1>4

LEMMA NettingTyped ==
  ASSUME NEW table \in Seq(FillType)
  PROVE  Netting(table) \in [Int \X DOMAIN table -> Int]
<1>1. ASSUME NEW x \in Int \X DOMAIN table PROVE x[1] + SignedIn(table, x[2]) \in Int
  <2>1. PICK n \in Int, i \in DOMAIN table : x = <<n, i>>
    OBVIOUS
  <2>2. PICK q \in Int : q = SignedIn(table, i)
    BY SignedTyped
  <2> QED BY <2>1, <2>2
<1> QED BY <1>1 DEF Netting

LEMMA NetRuns ==
  ASSUME NEW table \in Seq(FillType), NEW s \in Seq(DOMAIN table)
  PROVE  \E f : /\ Passes(f, Netting(table), 0, s) /\ NetIn(table, s) = f[Len(s)]
                /\ \A k \in 0..Len(s) : f[k] \in Int
<1> DEFINE G(g) == g = [t \in SUBSET DOMAIN s |->
                          IF t = {} THEN 0 ELSE g[t \ {Max(t)}] + SignedIn(table, s[Max(t)])]
           h == CHOOSE g : G(g)
<1>1. NetIn(table, s) = h[DOMAIN s]
  BY DEF NetIn, FoldLeft, MapThenFoldSet
<1>2. DOMAIN s = 1..Len(s) /\ Len(s) \in Nat /\ \A k \in 1..Len(s) : s[k] \in DOMAIN table
  OBVIOUS
<1>3. PICK move : move = Netting(table)
  OBVIOUS
<1>4. move \in [Int \X DOMAIN table -> Int] /\ 0 \in Int
  <2>1. Netting(table) \in [Int \X DOMAIN table -> Int]
    BY NettingTyped
  <2> QED BY ONLY <1>3, <2>1
<1>5. PICK g \in [SUBSET (1..Len(s)) -> Int] : Iterates(g, move, 0, s)
  BY <1>4, IteratesExist
<1>6. ASSUME NEW x \in Int, NEW i \in DOMAIN table PROVE move[<<x, i>>] = x + SignedIn(table, i)
  BY <1>3 DEF Netting
<1>7. ASSUME NEW t \in SUBSET (1..Len(s))
      PROVE  g[t] = IF t = {} THEN 0 ELSE g[t \ {Max(t)}] + SignedIn(table, s[Max(t)])
  <2>1. CASE t = {}
    BY <1>5, <2>1 DEF Iterates, IteratesTo
  <2>2. CASE t # {}
    <3>1. Max(t) \in t /\ g[t] = move[<<g[t \ {Max(t)}], s[Max(t)]>>]
      BY <1>5, <2>2 DEF Iterates, IteratesTo
    <3>2. t \ {Max(t)} \in SUBSET (1..Len(s)) /\ Max(t) \in 1..Len(s)
      BY <3>1
    <3>3. g[t \ {Max(t)}] \in Int /\ s[Max(t)] \in DOMAIN table
      BY <1>2, <3>2
    <3> QED BY <1>6, <2>2, <3>1, <3>3
  <2> QED BY <2>1, <2>2
<1>8. G(h)
  <2>1. G(g)
    BY <1>2, <1>7
  <2> HIDE DEF G
  <2> QED BY <2>1
<1>9. \A t \in SUBSET (1..Len(s)) :
        h[t] = IF t = {} THEN 0 ELSE h[t \ {Max(t)}] + SignedIn(table, s[Max(t)])
  <2> HIDE DEF h
  <2> QED BY <1>2, <1>8
<1> HIDE DEF h
<1>10. ASSUME NEW k \in 1..Len(s), h[1..(k - 1)] \in Int
       PROVE  h[1..k] = move[<<h[1..(k - 1)], s[k]>>]
  <2>1. h[1..k] = h[1..(k - 1)] + SignedIn(table, s[k])
    BY <1>2, <1>9, Segments
  <2>2. s[k] \in DOMAIN table
    BY <1>2
  <2> QED BY <1>6, <1>10, <2>1, <2>2
<1>11. h[{}] = 0
  BY <1>9
<1>12. Moves(move, 0, s, Int, DOMAIN table)
  BY <1>4 DEF Moves
<1>13. Folds(h, move, 0, s, Int)
  BY <1>10, <1>11 DEF Folds
<1>14. PICK f : /\ Passes(f, move, 0, s) /\ f[Len(s)] = h[1..Len(s)]
               /\ \A k \in 0..Len(s) : f[k] \in Int
  BY <1>12, <1>13, SegmentsRun
<1> QED BY <1>1, <1>2, <1>3, <1>14

LEMMA NetStarts == ASSUME NEW table \in Seq(FillType) PROVE NetIn(table, <<>>) = 0
<1>1. <<>> \in Seq(DOMAIN table) /\ Len(<<>>) = 0
  OBVIOUS
<1> QED BY <1>1, NetRuns DEF Passes

LEMMA NetGrows ==
  ASSUME NEW table \in Seq(FillType), NEW s \in Seq(DOMAIN table), NEW i \in DOMAIN table
  PROVE  NetIn(table, s) \in Int /\ NetIn(table, Append(s, i)) = NetIn(table, s) + SignedIn(table, i)
<1> DEFINE r == Append(s, i)
           n == Len(s)
<1>1. /\ n \in Nat /\ r \in Seq(DOMAIN table) /\ Len(r) = n + 1 /\ r[n + 1] = i
      /\ \A k \in 1..n : r[k] = s[k]
  OBVIOUS
<1> HIDE DEF r
<1>2. PICK move : move = Netting(table)
  OBVIOUS
<1>3. PICK f : /\ Passes(f, move, 0, s) /\ NetIn(table, s) = f[n]
               /\ \A k \in 0..n : f[k] \in Int
  BY <1>2, NetRuns
<1>4. PICK g : /\ Passes(g, move, 0, r) /\ NetIn(table, r) = g[n + 1]
  BY <1>1, <1>2, NetRuns
<1>5. f[n] = g[n] /\ f[n] \in Int
  <2>1. Len(s) \in Nat /\ Len(r) \in Nat /\ Len(s) <= Len(r) /\ \A k \in 1..Len(s) : s[k] = r[k]
    BY <1>1
  <2>2. \A k \in 0..Len(s) : f[k] = g[k]
    BY <1>3, <1>4, <2>1, PassesAgree
  <2> QED BY <1>1, <1>3, <2>2
<1>6. g[n + 1] = move[<<g[n], i>>]
  BY <1>1, <1>4 DEF Passes
<1>7. move[<<g[n], i>>] = g[n] + SignedIn(table, i)
  BY <1>2, <1>5 DEF Netting
<1> QED BY <1>3, <1>4, <1>5, <1>6, <1>7 DEF r

\* A further fill changes nothing about the ones before it.
LEMMA NetKept ==
  ASSUME NEW table \in Seq(FillType), NEW e \in FillType, NEW s \in Seq(DOMAIN table)
  PROVE  NetIn(Append(table, e), s) = NetIn(table, s)
<1>1. PICK more : more = Append(table, e)
  OBVIOUS
<1>2. /\ more \in Seq(FillType) /\ DOMAIN table \subseteq DOMAIN more
      /\ \A i \in DOMAIN table : more[i] = table[i]
  BY <1>1
<1>3. s \in Seq(DOMAIN more)
  BY <1>2
<1>4. PICK f : /\ Passes(f, Netting(table), 0, s) /\ NetIn(table, s) = f[Len(s)]
               /\ \A k \in 0..Len(s) : f[k] \in Int
  BY NetRuns
<1>5. PICK g : /\ Passes(g, Netting(more), 0, s) /\ NetIn(more, s) = g[Len(s)]
  BY <1>2, <1>3, NetRuns
<1>6. ASSUME NEW x \in Int, NEW i \in DOMAIN table
      PROVE  Netting(more)[<<x, i>>] = Netting(table)[<<x, i>>]
  <2>1. SignedIn(more, i) = SignedIn(table, i) /\ i \in DOMAIN more
    BY <1>2 DEF SignedIn
  <2> QED BY <2>1 DEF Netting
<1> DEFINE T == {k \in 0..Len(s) : f[k] = g[k]}
<1>7. 0 \in T
  BY <1>4, <1>5 DEF Passes
<1>8. Len(s) \in Nat /\ \A k \in 1..Len(s) : s[k] \in DOMAIN table
  OBVIOUS
<1>9. ASSUME NEW k \in 1..Len(s), k - 1 \in T PROVE k \in T
  <2>1. k \in 0..Len(s) /\ k - 1 \in 0..Len(s) /\ f[k - 1] = g[k - 1] /\ f[k - 1] \in Int
    BY <1>4, <1>8, <1>9
  <2>2. f[k] = Netting(table)[<<f[k - 1], s[k]>>] /\ g[k] = Netting(more)[<<g[k - 1], s[k]>>]
    BY <1>4, <1>5 DEF Passes
  <2>3. f[k] = g[k]
    BY <1>6, <1>8, <2>1, <2>2
  <2> QED BY <2>1, <2>3
<1>10. Len(s) \in T
  <2> HIDE DEF T
  <2> QED BY <1>7, <1>8, <1>9, ReachesAll
<1> QED BY <1>1, <1>4, <1>5, <1>10

LEMMA NetOfStarts == ASSUME fills \in Seq(FillType) PROVE NetOf(<<>>) = 0
BY NetIsIn, NetStarts

LEMMA NetOfGrows ==
  ASSUME fills \in Seq(FillType), NEW s \in Seq(DOMAIN fills), NEW i \in DOMAIN fills
  PROVE  /\ NetOf(s) \in Int /\ Signed(i) \in Int /\ Signed(i) # 0
         /\ NetOf(Append(s, i)) = NetOf(s) + Signed(i)
<1>1. PICK table : table = fills
  OBVIOUS
<1>2. NetIn(table, s) \in Int /\ NetIn(table, Append(s, i)) = NetIn(table, s) + SignedIn(table, i)
  BY <1>1, NetGrows
<1>3. SignedIn(table, i) \in Int \ {0}
  BY <1>1, SignedTyped
<1>4. Signed(i) = SignedIn(table, i)
  BY <1>1 DEF Signed, SignedIn
<1> QED BY <1>1, <1>2, <1>3, <1>4, NetIsIn

LEMMA SideOf ==
  ASSUME fills \in Seq(FillType), NEW i \in DOMAIN fills
  PROVE  /\ fills[i].side \in {"BUY", "SELL"} /\ fills[i].time \in Nat
         /\ fills[i].side = "BUY" <=> Signed(i) > 0
<1>1. fills[i] \in FillType
  OBVIOUS
<1>2. fills[i].side \in {"BUY", "SELL"} /\ fills[i].time \in Nat /\ fills[i].quantity \in Nat \ {0}
  BY <1>1 DEF FillType
<1>3. PICK q \in Nat \ {0} : q = fills[i].quantity
  BY <1>2
<1>4. Signed(i) = IF fills[i].side = "BUY" THEN q ELSE -q
  BY <1>3 DEF Signed
<1> QED BY <1>2, <1>4

-----------------------------------------------------------------------------
(* The cycles of a replay.                                                 *)

CycleType == [entries : Seq(DOMAIN fills), exits : Seq(DOMAIN fills), open : Int]
WalkType  == [done : Seq(CycleType), cycle : CycleType]
Begun     == [done |-> <<>>, cycle |-> NoCycle]
Walk(acc, i) == IF acc.cycle.open = 0 THEN AtFlat(acc, i)
                ELSE [acc EXCEPT !.cycle = Extended(acc.cycle, i)]
Walking == [x \in WalkType \X DOMAIN fills |-> Walk(x[1], x[2])]

LEMMA NoCycleTyped == NoCycle \in CycleType /\ Begun \in WalkType
BY DEF NoCycle, CycleType, Begun, WalkType

LEMMA OpenedTyped ==
  ASSUME fills \in Seq(FillType), NEW i \in DOMAIN fills
  PROVE  Opened(i) \in CycleType
<1>1. Signed(i) \in Int
  <2>1. <<>> \in Seq(DOMAIN fills)
    OBVIOUS
  <2> QED BY <2>1, NetOfGrows
<1> QED BY <1>1 DEF Opened, CycleType

LEMMA ExtendedIs ==
  ASSUME fills \in Seq(FillType), NEW c \in CycleType, NEW i \in DOMAIN fills
  PROVE  /\ Extended(c, i) \in CycleType
         /\ Extended(c, i).open = c.open + Signed(i)
         /\ IF IsReduce(i, c.open) \/ fills[i].reduceOnly
            THEN Extended(c, i).exits = Append(c.exits, i) /\ Extended(c, i).entries = c.entries
            ELSE Extended(c, i).entries = Append(c.entries, i) /\ Extended(c, i).exits = c.exits
<1>1. /\ c.entries \in Seq(DOMAIN fills) /\ c.exits \in Seq(DOMAIN fills) /\ c.open \in Int
      /\ DOMAIN c = {"entries", "exits", "open"}
  BY DEF CycleType
<1>2. Signed(i) \in Int
  <2>1. <<>> \in Seq(DOMAIN fills)
    OBVIOUS
  <2> QED BY <2>1, NetOfGrows
<1>3. PICK o \in Int : o = c.open + Signed(i)
  BY <1>1, <1>2
<1>4. Append(c.exits, i) \in Seq(DOMAIN fills) /\ Append(c.entries, i) \in Seq(DOMAIN fills)
  BY <1>1
<1>5. CASE IsReduce(i, c.open) \/ fills[i].reduceOnly
  <2>1. Extended(c, i) = [entries |-> c.entries, exits |-> Append(c.exits, i), open |-> o]
    BY <1>3, <1>5 DEF Extended, CycleType
  <2> QED BY <1>1, <1>3, <1>4, <1>5, <2>1 DEF CycleType
<1>6. CASE ~(IsReduce(i, c.open) \/ fills[i].reduceOnly)
  <2>1. Extended(c, i) = [entries |-> Append(c.entries, i), exits |-> c.exits, open |-> o]
    BY <1>3, <1>6 DEF Extended, CycleType
  <2> QED BY <1>1, <1>3, <1>4, <1>6, <2>1 DEF CycleType
<1> QED BY <1>5, <1>6

LEMMA WithLastTyped ==
  ASSUME NEW acc \in WalkType
  PROVE  WithLast(acc) \in Seq(CycleType)
BY DEF WithLast, WalkType

LEMMA WalkIs ==
  ASSUME fills \in Seq(FillType), NEW acc \in WalkType, NEW i \in DOMAIN fills
  PROVE  /\ Walk(acc, i) \in WalkType
         /\ acc.cycle.open = 0 =>
              /\ Walk(acc, i).done = WithLast(acc)
              /\ Walk(acc, i).cycle = IF fills[i].reduceOnly THEN NoCycle ELSE Opened(i)
         /\ acc.cycle.open # 0 =>
              Walk(acc, i).done = acc.done /\ Walk(acc, i).cycle = Extended(acc.cycle, i)
<1>1. acc.done \in Seq(CycleType) /\ acc.cycle \in CycleType /\ DOMAIN acc = {"done", "cycle"}
  BY DEF WalkType
<1>2. CASE acc.cycle.open = 0
  <2>1. PICK c : c = IF fills[i].reduceOnly THEN NoCycle ELSE Opened(i)
    OBVIOUS
  <2>2. c \in CycleType
    BY <2>1, NoCycleTyped, OpenedTyped
  <2>3. Walk(acc, i) = [done |-> WithLast(acc), cycle |-> c]
    BY <1>2, <2>1 DEF Walk, AtFlat, WithLast
  <2> QED BY <1>2, <2>1, <2>2, <2>3, WithLastTyped DEF WalkType
<1>3. CASE acc.cycle.open # 0
  <2>1. Extended(acc.cycle, i) \in CycleType
    BY <1>1, ExtendedIs
  <2>2. Walk(acc, i) = [acc EXCEPT !.cycle = Extended(acc.cycle, i)]
    BY <1>3 DEF Walk
  <2>3. Walk(acc, i) = [done |-> acc.done, cycle |-> Extended(acc.cycle, i)]
    BY <2>2 DEF WalkType
  <2> QED BY <1>1, <1>3, <2>1, <2>3 DEF WalkType
<1> QED BY <1>2, <1>3

LEMMA WalkingTyped ==
  ASSUME fills \in Seq(FillType)
  PROVE  Walking \in [WalkType \X DOMAIN fills -> WalkType]
<1>1. \A x \in WalkType \X DOMAIN fills : Walk(x[1], x[2]) \in WalkType
  BY WalkIs
<1> QED BY <1>1 DEF Walking

LEMMA CyclesRun ==
  ASSUME fills \in Seq(FillType), NEW s, s = Replay, s \in Seq(DOMAIN fills)
  PROVE  \E f : /\ Passes(f, Walking, Begun, s) /\ build_cycles = WithLast(f[Len(s)])
                /\ \A k \in 0..Len(s) : f[k] \in WalkType
<1> DEFINE G(g) == g = [t \in SUBSET DOMAIN s |->
                          IF t = {} THEN Begun ELSE Walk(g[t \ {Max(t)}], s[Max(t)])]
           h == CHOOSE g : G(g)
<1>1. build_cycles = WithLast(h[DOMAIN s])
  BY DEF build_cycles, FoldLeft, MapThenFoldSet, Walk, Begun
<1>2. DOMAIN s = 1..Len(s) /\ Len(s) \in Nat /\ \A k \in 1..Len(s) : s[k] \in DOMAIN fills
  OBVIOUS
<1>3. PICK move, St, E : move = Walking /\ St = WalkType /\ E = DOMAIN fills
  OBVIOUS
<1>4. move \in [St \X E -> St] /\ Begun \in St
  <2>1. Walking \in [WalkType \X DOMAIN fills -> WalkType]
    BY WalkingTyped
  <2> QED BY <1>3, <2>1, NoCycleTyped
<1>5. PICK base : base = Begun
  OBVIOUS
<1>6. PICK g \in [SUBSET (1..Len(s)) -> St] : Iterates(g, move, base, s)
  <2>1. s \in Seq(E) /\ base \in St
    BY <1>3, <1>4, <1>5
  <2> QED BY <1>4, <2>1, IteratesExist
<1>7. ASSUME NEW x \in St, NEW i \in E PROVE move[<<x, i>>] = Walk(x, i)
  BY <1>3, <1>7 DEF Walking
<1>8. ASSUME NEW t \in SUBSET (1..Len(s))
      PROVE  g[t] = IF t = {} THEN Begun ELSE Walk(g[t \ {Max(t)}], s[Max(t)])
  <2>1. CASE t = {}
    BY <1>5, <1>6, <2>1 DEF Iterates, IteratesTo
  <2>2. CASE t # {}
    <3>1. Max(t) \in t /\ g[t] = move[<<g[t \ {Max(t)}], s[Max(t)]>>]
      BY <1>6, <2>2 DEF Iterates, IteratesTo
    <3>2. t \ {Max(t)} \in SUBSET (1..Len(s)) /\ Max(t) \in 1..Len(s)
      BY <3>1
    <3>3. g[t \ {Max(t)}] \in St /\ s[Max(t)] \in E
      BY <1>2, <1>3, <1>6, <3>2
    <3> QED BY <1>7, <2>2, <3>1, <3>3
  <2> QED BY <2>1, <2>2
<1>9. G(h)
  <2>1. G(g)
    BY <1>2, <1>6, <1>8
  <2> HIDE DEF G
  <2> QED BY <2>1
<1>10. \A t \in SUBSET (1..Len(s)) :
         h[t] = IF t = {} THEN Begun ELSE Walk(h[t \ {Max(t)}], s[Max(t)])
  <2> HIDE DEF h
  <2> QED BY <1>2, <1>9
<1> HIDE DEF h
<1>11. ASSUME NEW k \in 1..Len(s), h[1..(k - 1)] \in St
       PROVE  h[1..k] = move[<<h[1..(k - 1)], s[k]>>]
  <2>1. h[1..k] = Walk(h[1..(k - 1)], s[k])
    <3>1. PICK t, r : t = 1..k /\ r = 1..(k - 1)
      OBVIOUS
    <3>2. t \in SUBSET (1..Len(s)) /\ t # {} /\ Max(t) = k /\ t \ {k} = r
      BY <1>2, <3>1, Segments
    <3>3. h[t] = Walk(h[r], s[k])
      BY <1>10, <3>2
    <3> QED BY <3>1, <3>3
  <2>2. s[k] \in E
    BY <1>2, <1>3
  <2> QED BY <1>7, <1>11, <2>1, <2>2
<1>12. h[{}] = base
  BY <1>5, <1>10
<1>13. Moves(move, base, s, St, E)
  BY <1>3, <1>4, <1>5 DEF Moves
<1>14. Folds(h, move, base, s, St)
  BY <1>11, <1>12 DEF Folds
<1>15. PICK f : /\ Passes(f, move, base, s) /\ f[Len(s)] = h[1..Len(s)]
                /\ \A k \in 0..Len(s) : f[k] \in St
  BY <1>13, <1>14, SegmentsRun
<1> QED BY <1>1, <1>2, <1>3, <1>5, <1>15

\* A cycle is a stretch of the replay, and closes with an exit.
Cut(c, s, a, b) ==
  /\ c.entries # <<>> /\ c.entries[1] = s[a]
  /\ ToSet(c.entries) \cup ToSet(c.exits) = {s[j] : j \in a..b}
  /\ c.open = NetOf(c.entries) + NetOf(c.exits)
  /\ c.open = 0 => c.exits # <<>> /\ c.exits[Len(c.exits)] = s[b]

Shaped(acc, s, k) ==
  /\ \A n \in DOMAIN acc.done :
       acc.done[n].open = 0 /\ \E a, b \in 1..k : a <= b /\ Cut(acc.done[n], s, a, b)
  /\ acc.cycle = NoCycle \/ \E a \in 1..k : Cut(acc.cycle, s, a, k)

LEMMA ToSetGrows ==
  ASSUME NEW S, NEW s \in Seq(S), NEW e
  PROVE  ToSet(Append(s, e)) = ToSet(s) \cup {e}
<1>1. /\ Len(s) \in Nat /\ DOMAIN s = 1..Len(s)
      /\ DOMAIN Append(s, e) = 1..(Len(s) + 1) /\ Append(s, e)[Len(s) + 1] = e
      /\ \A k \in 1..Len(s) : Append(s, e)[k] = s[k]
  OBVIOUS
<1>2. PICK r, n : r = Append(s, e) /\ n = Len(s)
  OBVIOUS
<1>3. n \in Nat /\ DOMAIN s = 1..n /\ DOMAIN r = 1..(n + 1) /\ r[n + 1] = e /\ \A k \in 1..n : r[k] = s[k]
  BY <1>1, <1>2
<1>4. 1..(n + 1) = (1..n) \cup {n + 1}
  BY <1>3
<1>5. {r[k] : k \in 1..(n + 1)} = {s[k] : k \in 1..n} \cup {e}
  BY <1>3, <1>4
<1> QED BY <1>2, <1>3, <1>5 DEF ToSet

LEMMA AppendIs ==
  ASSUME NEW S, NEW s \in Seq(S), NEW e \in S
  PROVE  /\ Append(s, e) \in Seq(S) /\ Append(s, e) # <<>> /\ Append(s, e)[Len(Append(s, e))] = e
         /\ s # <<>> => Append(s, e)[1] = s[1]
<1>1. /\ Append(s, e) \in Seq(S) /\ Len(Append(s, e)) = Len(s) + 1 /\ Len(s) \in Nat
      /\ Append(s, e)[Len(s) + 1] = e /\ \A k \in 1..Len(s) : Append(s, e)[k] = s[k]
  OBVIOUS
<1>2. Append(s, e) # <<>>
  BY <1>1
<1>3. s # <<>> => 1 \in 1..Len(s)
  BY <1>1
<1> QED BY <1>1, <1>2, <1>3

LEMMA CutOpened ==
  ASSUME fills \in Seq(FillType), NEW s \in Seq(DOMAIN fills), NEW k \in 1..Len(s)
  PROVE  Cut(Opened(s[k]), s, k, k)
<1>1. PICK i \in DOMAIN fills : i = s[k]
  OBVIOUS
<1>2. PICK e \in Seq(DOMAIN fills) : e = <<>>
  <2>1. <<>> \in Seq(DOMAIN fills)
    OBVIOUS
  <2> QED BY <2>1
<1>3. NetOf(e) = 0 /\ Append(e, i) = <<i>>
  BY <1>2, NetOfStarts
<1>4. NetOf(<<i>>) = 0 + Signed(i) /\ Signed(i) \in Int /\ Signed(i) # 0
  BY <1>3, NetOfGrows
<1>5. ToSet(e) = {} /\ ToSet(<<i>>) = {i}
  BY <1>2 DEF ToSet
<1>6. k..k = {k}
  BY DEF Len
<1>7. {s[j] : j \in k..k} = {i}
  BY <1>1, <1>6
<1>8. Opened(i) = [entries |-> <<i>>, exits |-> e, open |-> Signed(i)]
  BY <1>2 DEF Opened
<1>9. PICK q \in Int \ {0} : q = Signed(i)
  BY <1>4
<1>10. NetOf(<<i>>) + NetOf(e) = q
  BY <1>3, <1>4, <1>9
<1>11. <<i>> # <<>> /\ <<i>>[1] = i
  OBVIOUS
<1> QED BY <1>1, <1>5, <1>7, <1>8, <1>9, <1>10, <1>11 DEF Cut

LEMMA CutExtended ==
  ASSUME fills \in Seq(FillType), NEW s \in Seq(DOMAIN fills), NEW k \in 2..Len(s),
         NEW a \in 1..(k - 1), NEW c \in CycleType, c.open # 0, Cut(c, s, a, k - 1)
  PROVE  Cut(Extended(c, s[k]), s, a, k)
<1>1. PICK i \in DOMAIN fills : i = s[k]
  OBVIOUS
<1>2. PICK d : d = Extended(c, i)
  OBVIOUS
<1>3. /\ d.open = c.open + Signed(i) /\ d \in CycleType
      /\ IF IsReduce(i, c.open) \/ fills[i].reduceOnly
         THEN d.exits = Append(c.exits, i) /\ d.entries = c.entries
         ELSE d.entries = Append(c.entries, i) /\ d.exits = c.exits
  BY <1>2, ExtendedIs
<1>4. /\ c.entries \in Seq(DOMAIN fills) /\ c.exits \in Seq(DOMAIN fills) /\ c.open \in Int
  BY DEF CycleType
<1>5. /\ c.entries # <<>> /\ c.entries[1] = s[a]
      /\ ToSet(c.entries) \cup ToSet(c.exits) = {s[j] : j \in a..(k - 1)}
      /\ c.open = NetOf(c.entries) + NetOf(c.exits)
  BY DEF Cut
<1>6. PICK m \in Int, n \in Int, q \in Int : m = NetOf(c.entries) /\ n = NetOf(c.exits) /\ q = Signed(i)
  BY <1>4, NetOfGrows
<1>7. c.open = m + n /\ d.open = m + n + q
  BY <1>3, <1>5, <1>6
<1>8. {s[j] : j \in a..k} = {s[j] : j \in a..(k - 1)} \cup {i}
  <2>1. a..k = (a..(k - 1)) \cup {k}
    OBVIOUS
  <2> QED BY <1>1, <2>1
<1>11. PICK x \in Seq(DOMAIN fills), y \in Seq(DOMAIN fills) : x = c.entries /\ y = c.exits
  BY <1>4
<1>12. /\ ToSet(Append(x, i)) = ToSet(x) \cup {i} /\ ToSet(Append(y, i)) = ToSet(y) \cup {i}
       /\ Append(y, i) # <<>> /\ Append(y, i)[Len(Append(y, i))] = i
  <2>1. ToSet(Append(x, i)) = ToSet(x) \cup {i}
    BY ToSetGrows
  <2>2. ToSet(Append(y, i)) = ToSet(y) \cup {i}
    BY ToSetGrows
  <2>3. Append(y, i) # <<>> /\ Append(y, i)[Len(Append(y, i))] = i
    BY AppendIs
  <2> QED BY <2>1, <2>2, <2>3
<1>13. Append(x, i) # <<>> /\ Append(x, i)[1] = s[a]
  <2>1. x # <<>> /\ x[1] = s[a]
    BY <1>5, <1>11
  <2> QED BY <2>1, AppendIs
<1>9. CASE IsReduce(i, c.open) \/ fills[i].reduceOnly
  <2>1. d.exits = Append(c.exits, i) /\ d.entries = c.entries
    BY <1>3, <1>9
  <2>2. NetOf(d.exits) = n + q /\ NetOf(d.entries) = m
    BY <1>4, <1>6, <2>1, NetOfGrows
  <2>3. ToSet(d.entries) \cup ToSet(d.exits) = {s[j] : j \in a..k}
    BY <1>5, <1>8, <1>11, <1>12, <2>1
  <2>4. d.exits # <<>> /\ d.exits[Len(d.exits)] = i
    BY <1>11, <1>12, <2>1
  <2>5. d.open = NetOf(d.entries) + NetOf(d.exits)
    BY <1>7, <2>2
  <2> QED BY <1>1, <1>2, <1>5, <2>1, <2>3, <2>4, <2>5 DEF Cut
<1>10. CASE ~(IsReduce(i, c.open) \/ fills[i].reduceOnly)
  <2>1. d.entries = Append(c.entries, i) /\ d.exits = c.exits
    BY <1>3, <1>10
  <2>2. NetOf(d.entries) = m + q /\ NetOf(d.exits) = n
    BY <1>4, <1>6, <2>1, NetOfGrows
  <2>3. ToSet(d.entries) \cup ToSet(d.exits) = {s[j] : j \in a..k}
    BY <1>5, <1>8, <1>11, <1>12, <2>1
  <2>4. d.entries # <<>> /\ d.entries[1] = s[a]
    BY <1>11, <1>13, <2>1
  <2>5. d.open # 0
    <3>1. PICK o \in Int : o = c.open
      BY <1>4
    <3>2. ~IsReduce(i, o) /\ o # 0 /\ d.open = o + q
      BY <1>3, <1>6, <1>10, <3>1
    <3>3. (o > 0 => fills[i].side # "SELL") /\ (o < 0 => fills[i].side # "BUY")
      BY <3>2 DEF IsReduce
    <3>4. fills[i].side \in {"BUY", "SELL"} /\ (fills[i].side = "BUY" <=> q > 0)
      BY <1>6, SideOf
    <3>5. q # 0
      BY <1>4, <1>6, NetOfGrows
    <3> QED BY <3>2, <3>3, <3>4, <3>5
  <2>6. d.open = NetOf(d.entries) + NetOf(d.exits)
    BY <1>7, <2>2
  <2> QED BY <1>1, <1>2, <2>3, <2>4, <2>5, <2>6 DEF Cut
<1> QED BY <1>9, <1>10

LEMMA LastCut ==
  ASSUME NEW s, NEW k \in Nat, NEW acc \in WalkType, Shaped(acc, s, k)
  PROVE  \A n \in DOMAIN WithLast(acc) :
           /\ WithLast(acc)[n].open = 0
           /\ \E a, b \in 1..k : a <= b /\ Cut(WithLast(acc)[n], s, a, b)
<1>1. acc.done \in Seq(CycleType)
  BY DEF WalkType
<1>2. CASE ~Complete(acc.cycle)
  BY <1>2 DEF WithLast, Shaped
<1>3. CASE Complete(acc.cycle)
  <2>1. acc.cycle.open = 0 /\ acc.cycle.entries # <<>>
    BY <1>3 DEF Complete
  <2>2. acc.cycle # NoCycle
    BY <2>1 DEF NoCycle
  <2>3. PICK a \in 1..k : Cut(acc.cycle, s, a, k)
    BY <2>2 DEF Shaped
  <2>4. a <= k /\ k \in 1..k
    OBVIOUS
  <2>5. WithLast(acc) = Append(acc.done, acc.cycle)
    BY <1>3 DEF WithLast
  <2>6. ASSUME NEW n \in DOMAIN WithLast(acc)
        PROVE  WithLast(acc)[n] = acc.cycle \/ (n \in DOMAIN acc.done /\ WithLast(acc)[n] = acc.done[n])
    BY <1>1, <2>5
  <2> QED BY <2>1, <2>3, <2>4, <2>6 DEF Shaped
<1> QED BY <1>2, <1>3

LEMMA ShapedStep ==
  ASSUME fills \in Seq(FillType), NEW s \in Seq(DOMAIN fills), NEW k \in 1..Len(s),
         NEW acc \in WalkType, Shaped(acc, s, k - 1)
  PROVE  Shaped(Walk(acc, s[k]), s, k)
<1>1. PICK i \in DOMAIN fills : i = s[k]
  OBVIOUS
<1>2. PICK r \in WalkType : r = Walk(acc, i)
  BY WalkIs
<1>3. CASE acc.cycle.open = 0
  <2>1. PICK t : t = WithLast(acc)
    OBVIOUS
  <2>2. r.done = t /\ r.cycle = IF fills[i].reduceOnly THEN NoCycle ELSE Opened(i)
    BY <1>2, <1>3, <2>1, WalkIs
  <2>3. \A n \in DOMAIN t : t[n].open = 0 /\ \E a, b \in 1..(k - 1) : a <= b /\ Cut(t[n], s, a, b)
    <3>1. k - 1 \in Nat
      OBVIOUS
    <3> QED BY <2>1, <3>1, LastCut
  <2>4. \A a \in 1..(k - 1) : a \in 1..k
    OBVIOUS
  <2>5. k \in 1..k /\ Cut(Opened(i), s, k, k)
    BY <1>1, CutOpened
  <2> QED BY <1>1, <1>2, <2>2, <2>3, <2>4, <2>5 DEF Shaped
<1>4. CASE acc.cycle.open # 0
  <2>1. r.done = acc.done /\ r.cycle = Extended(acc.cycle, i)
    BY <1>2, <1>4, WalkIs
  <2>2. PICK c \in CycleType : c = acc.cycle
    BY DEF WalkType
  <2>3. c # NoCycle /\ c.open # 0
    BY <1>4, <2>2 DEF NoCycle
  <2>4. PICK a \in 1..(k - 1) : Cut(c, s, a, k - 1)
    BY <2>2, <2>3 DEF Shaped
  <2>5. k \in 2..Len(s) /\ a \in 1..k
    OBVIOUS
  <2>6. Cut(Extended(c, i), s, a, k)
    BY <1>1, <2>3, <2>4, <2>5, CutExtended
  <2>7. \A b \in 1..(k - 1) : b \in 1..k
    OBVIOUS
  <2> QED BY <1>1, <1>2, <2>1, <2>2, <2>5, <2>6, <2>7 DEF Shaped
<1> QED BY <1>3, <1>4

LEMMA CyclesShaped ==
  ASSUME fills \in Seq(FillType), NEW s, s = Replay, s \in Seq(DOMAIN fills)
  PROVE  /\ build_cycles \in Seq(CycleType)
         /\ \A n \in DOMAIN build_cycles :
              build_cycles[n].open = 0 /\ \E a, b \in 1..Len(s) : a <= b /\ Cut(build_cycles[n], s, a, b)
<1>1. PICK f : /\ Passes(f, Walking, Begun, s) /\ build_cycles = WithLast(f[Len(s)])
               /\ \A k \in 0..Len(s) : f[k] \in WalkType
  BY CyclesRun
<1>2. Len(s) \in Nat /\ \A k \in 1..Len(s) : s[k] \in DOMAIN fills
  OBVIOUS
<1> DEFINE T == {k \in 0..Len(s) : Shaped(f[k], s, k)}
<1>3. 0 \in T
  <2>1. f[0] = Begun
    BY <1>1 DEF Passes
  <2>2. Shaped(Begun, s, 0)
    BY DEF Shaped, Begun
  <2> QED BY <1>2, <2>1, <2>2
<1>4. ASSUME NEW k \in 1..Len(s), k - 1 \in T PROVE k \in T
  <2>1. PICK acc \in WalkType : acc = f[k - 1] /\ Shaped(acc, s, k - 1)
    BY <1>1, <1>4
  <2>2. f[k] = Walking[<<acc, s[k]>>]
    BY <1>1, <2>1 DEF Passes
  <2>3. s[k] \in DOMAIN fills
    BY <1>2
  <2>4. f[k] = Walk(acc, s[k])
    BY <2>2, <2>3 DEF Walking
  <2>5. Shaped(Walk(acc, s[k]), s, k)
    BY <2>1, ShapedStep
  <2> QED BY <2>4, <2>5
<1>5. Len(s) \in T
  <2> HIDE DEF T
  <2> QED BY <1>2, <1>3, <1>4, ReachesAll
<1>6. PICK acc \in WalkType : acc = f[Len(s)] /\ Shaped(acc, s, Len(s))
  BY <1>1, <1>2, <1>5
<1>7. build_cycles = WithLast(acc)
  BY <1>1, <1>6
<1> QED BY <1>2, <1>6, <1>7, WithLastTyped, LastCut

\* The replay has the fills that are not quarantined, in the order of their times.
LEMMA ReplayIs ==
  ASSUME fills \in Seq(FillType)
  PROVE  /\ Replay \in Seq(DOMAIN fills)
         /\ \A n \in 1..Len(Replay) : Replay[n] \notin quarantined
         /\ Len(Replay) = Cardinality(Unquarantined)
         /\ \A i \in Unquarantined : \E n \in 1..Len(Replay) : Replay[n] = i
         /\ \A m, n \in 1..Len(Replay) : m < n => Earlier(Replay[m], Replay[n])
<1>1. PICK U : U = Unquarantined
  OBVIOUS
<1>2. PICK table \in Seq(FillType) : table = fills
  OBVIOUS
<1> DEFINE Precedes(x, y) == table[x].time < table[y].time \/ (table[x].time = table[y].time /\ x < y)
           R == {x \in U \X U : Precedes(x[1], x[2])}
<1>3. U \in SUBSET (1..Len(table)) /\ U \in SUBSET DOMAIN fills /\ Len(table) \in Nat
  BY <1>1, <1>2 DEF Unquarantined
<1>4. ASSUME NEW x \in U PROVE x \in Int /\ table[x].time \in Int
  <2>1. x \in Int /\ table[x] \in FillType
    BY <1>2, <1>3
  <2> QED BY <2>1 DEF FillType
<1>5. \A x, y \in U : Earlier(x, y) <=> Precedes(x, y)
  BY <1>2 DEF Earlier
<1>6. ASSUME NEW x \in U, NEW y \in U PROVE <<x, y>> \in R <=> Precedes(x, y)
  OBVIOUS
<1>7. IsFiniteSet(U)
  <2>1. PICK S : S = 1..Len(table)
    OBVIOUS
  <2>2. IsFiniteSet(S)
    <3>1. PICK n \in Int, o \in Int : n = Len(table) /\ o = 1
      BY <1>3
    <3>2. IsFiniteSet(o..n)
      BY FS_Interval
    <3> QED BY <2>1, <3>1, <3>2
  <2>3. U \in SUBSET S
    BY <1>3, <2>1
  <2> QED BY ONLY <2>2, <2>3, FS_Subset
<1>8. \A x \in U : ~Precedes(x, x)
  BY <1>4
<1>9. \A x, y, z \in U : Precedes(x, y) /\ Precedes(y, z) => Precedes(x, z)
  BY <1>4
<1>10. \A x, y \in U : x # y => Precedes(x, y) \/ Precedes(y, x)
  BY <1>4
<1> HIDE DEF Precedes
<1>11. Orders(R, U)
  <2> HIDE DEF R
  <2> QED BY <1>6, <1>7, <1>8, <1>9, <1>10 DEF Orders
<1>12. PICK s : s = Replay
  OBVIOUS
<1>13. s = [n \in 1..Cardinality(U) |-> Nth(n)]
  BY <1>1, <1>12 DEF Replay
<1>14. ASSUME NEW i \in U PROVE {j \in U : Earlier(j, i)} = Below(R, U, i)
  <2>1. ASSUME NEW j PROVE j \in {x \in U : Earlier(x, i)} <=> j \in Below(R, U, i)
    <3>1. j \in U => (Earlier(j, i) <=> <<j, i>> \in R)
      BY <1>5, <1>6
    <3> HIDE DEF R
    <3> QED BY <3>1 DEF Below
  <2> QED BY <2>1
<1> HIDE DEF R
<1>15. ASSUME NEW n \in 1..Cardinality(U)
       PROVE  s[n] \in U /\ Cardinality(Below(R, U, s[n])) = n - 1
  <2>1. Cardinality(U) \in Nat
    BY <1>7, FS_CardinalityType
  <2>2. n - 1 \in 0..(Cardinality(U) - 1)
    BY <2>1
  <2>3. \E i \in U : Cardinality(Below(R, U, i)) = n - 1
    BY <1>11, <2>2, RankExists
  <2>4. \E i \in U : Cardinality({j \in U : Earlier(j, i)}) = n - 1
    BY <1>14, <2>3
  <2>5. Nth(n) \in U /\ Cardinality({j \in U : Earlier(j, Nth(n))}) = n - 1
    BY <1>1, <2>4 DEF Nth
  <2>6. s[n] = Nth(n)
    BY <1>13
  <2> QED BY <1>14, <2>5, <2>6
<1>16. s \in [1..Cardinality(U) -> U]
  BY <1>13, <1>15
<1>17. InRankOrder(s, R, U)
  BY <1>11, <1>15, <1>16, ByRank
<1>18. /\ s \in Seq(U) /\ Len(s) = Cardinality(U)
       /\ \A x \in U : \E n \in DOMAIN s : s[n] = x
       /\ \A i, j \in DOMAIN s : i < j => <<s[i], s[j]>> \in R
  BY <1>17 DEF InRankOrder
<1>19. DOMAIN s = 1..Len(s) /\ \A n \in 1..Len(s) : s[n] \in U
  BY <1>18
<1>20. s \in Seq(DOMAIN fills)
  BY <1>3, <1>18
<1>21. \A n \in 1..Len(s) : s[n] \notin quarantined
  BY <1>1, <1>19 DEF Unquarantined
<1>22. \A m, n \in 1..Len(s) : m < n => Earlier(s[m], s[n])
  BY <1>5, <1>6, <1>18, <1>19
<1> QED BY <1>1, <1>12, <1>18, <1>19, <1>20, <1>21, <1>22

\* A cycle that is stored: closed, of fills that are not quarantined, from the first to the last.
Closed(key) ==
  /\ key \in Seq(DOMAIN fills) \X Seq(DOMAIN fills)
  /\ key[1] # <<>> /\ key[2] # <<>>
  /\ NetOf(key[1]) + NetOf(key[2]) = 0

Within(key) ==
  \A i \in Members(key) :
    /\ i \in DOMAIN fills /\ i \notin quarantined
    /\ fills[key[1][1]].time <= fills[i].time /\ fills[i].time <= fills[key[2][Len(key[2])]].time

LEMMA CyclesClosed ==
  ASSUME fills \in Seq(FillType), NEW n \in DOMAIN build_cycles
  PROVE  Closed(Key(build_cycles[n])) /\ Within(Key(build_cycles[n]))
<1>1. PICK s : s = Replay
  OBVIOUS
<1>2. /\ s \in Seq(DOMAIN fills) /\ \A m \in 1..Len(s) : s[m] \notin quarantined
      /\ \A l, m \in 1..Len(s) : l < m => Earlier(s[l], s[m])
  BY <1>1, ReplayIs
<1>3. /\ build_cycles \in Seq(CycleType)
      /\ build_cycles[n].open = 0 /\ \E a, b \in 1..Len(s) : a <= b /\ Cut(build_cycles[n], s, a, b)
  BY <1>1, <1>2, CyclesShaped
<1>4. PICK c \in CycleType : c = build_cycles[n]
  BY <1>3
<1>5. PICK a \in 1..Len(s), b \in 1..Len(s) : a <= b /\ Cut(c, s, a, b)
  BY <1>3, <1>4
<1>6. /\ c.entries # <<>> /\ c.entries[1] = s[a] /\ c.exits # <<>> /\ c.exits[Len(c.exits)] = s[b]
      /\ ToSet(c.entries) \cup ToSet(c.exits) = {s[j] : j \in a..b}
      /\ 0 = NetOf(c.entries) + NetOf(c.exits)
  BY <1>3, <1>4, <1>5 DEF Cut
<1>7. c.entries \in Seq(DOMAIN fills) /\ c.exits \in Seq(DOMAIN fills)
  BY DEF CycleType
<1>8. PICK key : key = Key(c)
  OBVIOUS
<1>9. key = <<c.entries, c.exits>> /\ key[1] = c.entries /\ key[2] = c.exits
  BY <1>8 DEF Key
<1>10. Closed(key)
  BY <1>6, <1>7, <1>9 DEF Closed
<1>11. ASSUME NEW i \in Members(key)
       PROVE  /\ i \in DOMAIN fills /\ i \notin quarantined
              /\ fills[s[a]].time <= fills[i].time /\ fills[i].time <= fills[s[b]].time
  <2>1. Len(s) \in Nat
    BY <1>2
  <2>2. PICK j \in a..b : i = s[j]
    BY <1>6, <1>9 DEF Members
  <2>3. j \in 1..Len(s) /\ a <= j /\ j <= b
    BY <2>1
  <2>4. i \in DOMAIN fills /\ i \notin quarantined
    BY <1>2, <2>2, <2>3
  <2>5. ASSUME NEW l \in 1..Len(s), NEW m \in 1..Len(s), l <= m
        PROVE  fills[s[l]].time <= fills[s[m]].time
    <3>1. s[l] \in DOMAIN fills /\ s[m] \in DOMAIN fills
      BY <1>2
    <3>2. fills[s[l]].time \in Nat /\ fills[s[m]].time \in Nat
      BY <3>1, SideOf
    <3>3. CASE l = m
      BY <3>2, <3>3
    <3>4. CASE l # m
      <4>1. l < m
        BY <2>1, <2>5, <3>4
      <4>2. Earlier(s[l], s[m])
        BY <1>2, <4>1
      <4> QED BY <3>2, <4>2 DEF Earlier
    <3> QED BY <3>3, <3>4
  <2>6. fills[s[a]].time <= fills[s[j]].time
    BY <2>3, <2>5
  <2>7. fills[s[j]].time <= fills[s[b]].time
    BY <2>3, <2>5
  <2> QED BY <2>2, <2>4, <2>6, <2>7
<1>12. Within(key)
  BY <1>6, <1>9, <1>11 DEF Within
<1> QED BY <1>4, <1>8, <1>10, <1>12

LEMMA KeysClosed ==
  ASSUME fills \in Seq(FillType), NEW key \in Admissible
  PROVE  Closed(key) /\ Within(key) /\ ~Tainted(key)
<1>1. ~Tainted(key) /\ key \in {Key(c) : c \in ToSet(build_cycles)}
  BY DEF Admissible
<1>2. PICK c \in ToSet(build_cycles) : key = Key(c)
  BY <1>1
<1>3. PICK n \in DOMAIN build_cycles : c = build_cycles[n]
  BY <1>2 DEF ToSet
<1> QED BY <1>1, <1>2, <1>3, CyclesClosed

\* What a hook stores is not quarantined, in its fills or in its time.
LEMMA HonoursQuarantine ==
  ASSUME fills \in Seq(FillType), windows \in SUBSET Nat, NEW key \in Admissible
  PROVE  /\ Members(key) \cap quarantined = {}
         /\ \A w \in windows : \A i, j \in Members(key) : ~(fills[i].time <= w /\ w <= fills[j].time)
<1>1. Closed(key) /\ Within(key) /\ ~Tainted(key)
  BY KeysClosed
<1>2. Members(key) \cap quarantined = {}
  BY <1>1 DEF Within
<1>3. ASSUME NEW w \in windows, NEW i \in Members(key), NEW j \in Members(key),
             fills[i].time <= w, w <= fills[j].time
      PROVE  FALSE
  <2>1. PICK f, l : f = key[1][1] /\ l = key[2][Len(key[2])]
    OBVIOUS
  <2>2. /\ i \in DOMAIN fills /\ j \in DOMAIN fills
        /\ fills[f].time <= fills[i].time /\ fills[j].time <= fills[l].time
    BY <1>1, <2>1 DEF Within
  <2>3. f \in DOMAIN fills /\ l \in DOMAIN fills
    <3>1. PICK x \in Seq(DOMAIN fills), y \in Seq(DOMAIN fills) : x = key[1] /\ y = key[2] /\ x # <<>> /\ y # <<>>
      BY <1>1 DEF Closed
    <3>2. Len(x) \in Nat /\ 1 \in 1..Len(x)
      BY <3>1
    <3>3. Len(y) \in Nat /\ Len(y) \in 1..Len(y)
      BY <3>1
    <3>4. x[1] \in DOMAIN fills
      BY <3>2
    <3>5. y[Len(y)] \in DOMAIN fills
      BY <3>3
    <3> QED BY <2>1, <3>1, <3>4, <3>5
  <2>4. /\ fills[f].time \in Nat /\ fills[i].time \in Nat /\ fills[j].time \in Nat
        /\ fills[l].time \in Nat /\ w \in Nat
    BY <2>2, <2>3, SideOf
  <2>5. fills[f].time <= w /\ w <= fills[l].time
    BY <1>3, <2>2, <2>4
  <2>6. Tainted(key)
    BY <2>1, <2>5 DEF Tainted, InWindow
  <2> QED BY <1>1, <2>6
<1> QED BY <1>2, <1>3

-----------------------------------------------------------------------------
(* Undisturbed: the replay is the table, and its cycles are the trades.    *)

Pos(k) == NetOf(SubSeq(Booked, 1, k))

\* An exit is booked while a position is open, an entry adds to the position or opens one.
Orderly ==
  \A i \in DOMAIN fills :
    /\ fills[i].time = 2 * i
    /\ IF fills[i].reduceOnly THEN Pos(i - 1) # 0
       ELSE Pos(i - 1) = 0 \/ (Pos(i - 1) > 0) = (fills[i].side = "BUY")

IsTrade(a, b) == a <= b /\ Pos(a - 1) = 0 /\ Pos(b) = 0 /\ \A m \in a..(b - 1) : Pos(m) # 0

LEMMA BookedIs ==
  ASSUME fills \in Seq(FillType)
  PROVE  /\ Booked \in Seq(DOMAIN fills) /\ Len(Booked) = Len(fills)
         /\ \A i \in 1..Len(fills) : Booked[i] = i /\ i \in DOMAIN fills
         /\ SubSeq(Booked, 1, Len(fills)) = Booked /\ SubSeq(Booked, 1, 0) = <<>>
         /\ \A k \in 1..Len(fills) :
              /\ SubSeq(Booked, 1, k - 1) \in Seq(DOMAIN fills)
              /\ SubSeq(Booked, 1, k) = Append(SubSeq(Booked, 1, k - 1), k)
<1>1. PICK n \in Nat : n = Len(fills)
  OBVIOUS
<1>2. DOMAIN fills = 1..n
  BY <1>1
<1>3. PICK s : s = [i \in 1..n |-> i]
  OBVIOUS
<1>4. Booked = s
  BY <1>2, <1>3 DEF Booked
<1>5. s \in Seq(1..n) /\ Len(s) = n /\ \A i \in 1..n : s[i] = i
  BY <1>3
<1>6. SubSeq(s, 1, n) = s /\ SubSeq(s, 1, 0) = <<>>
  BY <1>5
<1>7. ASSUME NEW k \in 1..n
      PROVE  SubSeq(s, 1, k - 1) \in Seq(1..n) /\ SubSeq(s, 1, k) = Append(SubSeq(s, 1, k - 1), k)
  <2>1. PICK p, q : p = SubSeq(s, 1, k - 1) /\ q = SubSeq(s, 1, k)
    OBVIOUS
  <2>2. p \in Seq(1..n) /\ Len(p) = k - 1 /\ \A i \in 1..(k - 1) : p[i] = i
    BY <1>5, <2>1
  <2>3. q \in Seq(1..n) /\ Len(q) = k /\ \A i \in 1..k : q[i] = i
    BY <1>5, <2>1
  <2>4. PICK r : r = Append(p, k)
    OBVIOUS
  <2>5. r \in Seq(1..n) /\ Len(r) = k /\ \A i \in 1..k : r[i] = i
    BY <2>2, <2>4
  <2>6. q = r
    BY <2>3, <2>5
  <2> QED BY <2>1, <2>2, <2>4, <2>6
<1> QED BY <1>1, <1>2, <1>4, <1>5, <1>6, <1>7

LEMMA PosIs ==
  ASSUME fills \in Seq(FillType)
  PROVE  /\ Pos(0) = 0 /\ Position = Pos(Len(fills))
         /\ \A k \in 1..Len(fills) :
              Pos(k) = Pos(k - 1) + Signed(k) /\ Pos(k - 1) \in Int /\ Signed(k) \in Int /\ Signed(k) # 0
         /\ \A k \in 0..Len(fills) : Pos(k) \in Int
<1>1. Pos(0) = 0 /\ Position = Pos(Len(fills))
  BY BookedIs, NetOfStarts DEF Pos, Position
<1>2. ASSUME NEW k \in 1..Len(fills)
      PROVE  /\ Pos(k) = Pos(k - 1) + Signed(k) /\ Pos(k - 1) \in Int /\ Signed(k) \in Int /\ Signed(k) # 0
             /\ Pos(k) \in Int
  <2>1. PICK i \in DOMAIN fills : i = k
    OBVIOUS
  <2>2. PICK p \in Seq(DOMAIN fills) : p = SubSeq(Booked, 1, k - 1) /\ SubSeq(Booked, 1, k) = Append(p, k)
    BY BookedIs
  <2>3. /\ NetOf(p) \in Int /\ Signed(i) \in Int /\ Signed(i) # 0
        /\ NetOf(Append(p, i)) = NetOf(p) + Signed(i)
    BY NetOfGrows
  <2>4. Pos(k - 1) = NetOf(p) /\ Pos(k) = NetOf(Append(p, i))
    BY <2>1, <2>2 DEF Pos
  <2>5. PICK x \in Int, y \in Int : x = NetOf(p) /\ y = Signed(i)
    BY <2>3
  <2> QED BY <2>1, <2>3, <2>4, <2>5
<1>3. ASSUME NEW k \in 0..Len(fills) PROVE Pos(k) \in Int
  <2>1. CASE k = 0
    BY <1>1, <2>1
  <2>2. CASE k # 0
    <3>1. k \in 1..Len(fills)
      BY <2>2
    <3> QED BY <1>2, <3>1
  <2> QED BY <2>1, <2>2
<1> QED BY <1>1, <1>2, <1>3

LEMMA TradesAre ==
  ASSUME fills \in Seq(FillType)
  PROVE  \A x : x \in Trades <=>
           \E a, b \in 1..Len(fills) : x = <<a, b>> /\ IsTrade(a, b)
<1>1. PICK n \in Nat : n = Len(fills)
  OBVIOUS
<1>2. PICK flat : flat = {i \in 0..n : Pos(i) = 0}
  OBVIOUS
<1>3. Trades = {<<x[1] + 1, x[2]>> :
                  x \in {y \in flat \X flat : y[1] < y[2] /\ \A k \in flat : k <= y[1] \/ k >= y[2]}}
  BY <1>1, <1>2 DEF Trades, Pos
<1>4. ASSUME NEW x, x \in Trades
      PROVE  \E a, b \in 1..n : x = <<a, b>> /\ IsTrade(a, b)
  <2>1. PICK p \in flat, q \in flat : /\ x = <<p + 1, q>> /\ p < q
                                      /\ \A k \in flat : k <= p \/ k >= q
    BY <1>3, <1>4
  <2>2. p \in 0..n /\ q \in 0..n /\ Pos(p) = 0 /\ Pos(q) = 0
    BY <1>2
  <2>3. PICK a \in 1..n, b \in 1..n : a = p + 1 /\ b = q
    BY <2>1, <2>2
  <2>4. a - 1 = p /\ a <= b
    BY <2>1, <2>2, <2>3
  <2>5. ASSUME NEW m \in a..(b - 1) PROVE Pos(m) # 0
    <3>1. m \in 0..n /\ ~(m <= p) /\ ~(m >= q)
      BY <2>2, <2>3
    <3> QED BY <1>2, <2>1, <3>1
  <2> QED BY <2>1, <2>2, <2>3, <2>4, <2>5 DEF IsTrade
<1>5. ASSUME NEW a \in 1..n, NEW b \in 1..n, IsTrade(a, b)
      PROVE  <<a, b>> \in Trades
  <2>1. a <= b /\ Pos(a - 1) = 0 /\ Pos(b) = 0 /\ \A m \in a..(b - 1) : Pos(m) # 0
    BY <1>5 DEF IsTrade
  <2>2. PICK p \in 0..n : p = a - 1
    OBVIOUS
  <2>3. p \in flat /\ b \in flat /\ p < b
    BY <1>2, <2>1, <2>2
  <2>4. ASSUME NEW k \in flat PROVE k <= p \/ k >= b
    <3>1. k \in 0..n /\ Pos(k) = 0
      BY <1>2
    <3>2. ~(k \in a..(b - 1))
      BY <2>1, <3>1
    <3> QED BY <2>2, <3>1, <3>2
  <2>5. PICK y \in flat \X flat : y = <<p, b>>
    BY <2>3
  <2>6. y[1] = p /\ y[2] = b
    BY <2>5
  <2>7. <<p + 1, b>> \in Trades
    BY <1>3, <2>3, <2>4, <2>6
  <2>8. p + 1 = a
    BY <2>2
  <2> QED BY <2>7, <2>8
<1> QED BY <1>1, <1>4, <1>5

LEMMA ReplayIsTable ==
  ASSUME fills \in Seq(FillType), quarantined = {}, Orderly
  PROVE  Replay = Booked
<1>1. PICK n \in Nat : n = Len(fills)
  OBVIOUS
<1>2. DOMAIN fills = 1..n
  BY <1>1
<1>3. PICK U : U = 1..n
  OBVIOUS
<1>4. Unquarantined = U
  BY <1>2, <1>3 DEF Unquarantined
<1>5. Cardinality(U) = n
  <2>1. PICK o \in Int : o = 1
    OBVIOUS
  <2>2. Cardinality(o..n) = IF o > n THEN 0 ELSE n - o + 1
    BY FS_Interval
  <2> QED BY <1>3, <2>1, <2>2
<1>6. \A i \in U : fills[i].time = 2 * i
  BY <1>2, <1>3 DEF Orderly
<1>7. ASSUME NEW i \in U PROVE Cardinality({j \in U : Earlier(j, i)}) = i - 1
  <2>1. \A j \in U : Earlier(j, i) <=> j < i
    <3> SUFFICES ASSUME NEW j \in U PROVE Earlier(j, i) <=> j < i
      OBVIOUS
    <3>1. PICK p \in Int, q \in Int : p = j /\ q = i
      BY <1>3
    <3>2. fills[j].time = 2 * p /\ fills[i].time = 2 * q
      BY <1>6, <3>1
    <3> QED BY <3>1, <3>2 DEF Earlier
  <2>2. {j \in U : Earlier(j, i)} = 1..(i - 1)
    BY <1>3, <2>1
  <2>3. PICK o \in Int, m \in Int : o = 1 /\ m = i - 1
    BY <1>3
  <2>4. Cardinality(o..m) = IF o > m THEN 0 ELSE m - o + 1
    BY FS_Interval
  <2>5. PICK q \in Int : q = i /\ q >= 1
    BY <1>3
  <2>6. Cardinality(o..m) = q - 1
    <3>1. m = q - 1
      BY <2>3, <2>5
    <3>2. CASE o > m
      BY <2>3, <2>4, <2>5, <3>1, <3>2
    <3>3. CASE ~(o > m)
      BY <2>3, <2>4, <2>5, <3>1, <3>3
    <3> QED BY <3>2, <3>3
  <2> QED BY <2>2, <2>3, <2>5, <2>6
<1>8. PICK s : s = Replay
  OBVIOUS
<1>9. s = [k \in 1..n |-> Nth(k)]
  BY <1>4, <1>5, <1>8 DEF Replay
<1>10. ASSUME NEW k \in 1..n PROVE Nth(k) = k
  <2>1. \E i \in U : Cardinality({j \in U : Earlier(j, i)}) = k - 1
    BY <1>3, <1>7
  <2>2. Nth(k) \in U /\ Cardinality({j \in U : Earlier(j, Nth(k))}) = k - 1
    BY <1>4, <2>1 DEF Nth
  <2>3. PICK i \in U : i = Nth(k)
    BY <2>2
  <2>4. i - 1 = k - 1
    BY <1>7, <2>2, <2>3
  <2> QED BY <1>3, <2>3, <2>4
<1>12. s = [k \in 1..n |-> k]
  BY <1>9, <1>10
<1> QED BY <1>2, <1>8, <1>12 DEF Booked

\* A stretch of the booked fills during which the position is not flat.
Stretch(c, a, b) ==
  /\ a <= b /\ Cut(c, Booked, a, b)
  /\ Pos(a - 1) = 0 /\ \A m \in a..(b - 1) : Pos(m) # 0
  /\ \A i \in ToSet(c.exits) : fills[i].reduceOnly

\* The cycles of the list are the trades of the first k fills.
Told(list, k) ==
  /\ \A n \in DOMAIN list : \E a, b \in 1..k : IsTrade(a, b) /\ Stretch(list[n], a, b)
  /\ \A a, b \in 1..k : IsTrade(a, b) => \E n \in DOMAIN list : Stretch(list[n], a, b)

Steady(acc, k) ==
  /\ acc.cycle.open = Pos(k) /\ Told(WithLast(acc), k)
  /\ k > 0 => \E a \in 1..k : Stretch(acc.cycle, a, k)

LEMMA OrderlyStep ==
  ASSUME fills \in Seq(FillType), Orderly, NEW k \in 1..Len(fills)
  PROVE  /\ Pos(k - 1) = 0 => ~fills[k].reduceOnly /\ Pos(k) = Signed(k) /\ Pos(k) # 0
         /\ IsReduce(k, Pos(k - 1)) => fills[k].reduceOnly
<1>1. k \in DOMAIN fills
  OBVIOUS
<1>2. PICK p \in Int, d \in Int : p = Pos(k - 1) /\ d = Signed(k) /\ d # 0 /\ Pos(k) = p + d
  BY PosIs
<1>3. IF fills[k].reduceOnly THEN p # 0 ELSE p = 0 \/ (p > 0) = (fills[k].side = "BUY")
  BY <1>1, <1>2 DEF Orderly
<1>4. fills[k].side \in {"BUY", "SELL"}
  BY <1>1, SideOf
<1> QED BY <1>2, <1>3, <1>4 DEF IsReduce

LEMMA ToldKeeps ==
  ASSUME NEW k \in Nat \ {0}, NEW list, Told(list, k - 1), Pos(k) # 0
  PROVE  Told(list, k)
<1>1. ASSUME NEW n \in DOMAIN list
      PROVE  \E a, b \in 1..k : IsTrade(a, b) /\ Stretch(list[n], a, b)
  <2>1. PICK a \in 1..(k - 1), b \in 1..(k - 1) : IsTrade(a, b) /\ Stretch(list[n], a, b)
    BY DEF Told
  <2>2. a \in 1..k /\ b \in 1..k
    OBVIOUS
  <2> QED BY <2>1, <2>2
<1>2. ASSUME NEW a \in 1..k, NEW b \in 1..k, IsTrade(a, b)
      PROVE  \E n \in DOMAIN list : Stretch(list[n], a, b)
  <2>1. b # k /\ a <= b
    BY <1>2 DEF IsTrade
  <2>2. a \in 1..(k - 1) /\ b \in 1..(k - 1)
    BY <2>1
  <2> QED BY <1>2, <2>2 DEF Told
<1> QED BY <1>1, <1>2 DEF Told

LEMMA ToldGrows ==
  ASSUME NEW k \in Nat \ {0}, NEW list \in Seq(CycleType), Told(list, k - 1),
         NEW c \in CycleType, NEW a \in 1..k, Stretch(c, a, k), Pos(k) = 0
  PROVE  Told(Append(list, c), k)
<1>1. PICK more : more = Append(list, c)
  OBVIOUS
<1>2. /\ DOMAIN more = 1..(Len(list) + 1) /\ DOMAIN list = 1..Len(list) /\ Len(list) \in Nat
      /\ more[Len(list) + 1] = c /\ \A n \in 1..Len(list) : more[n] = list[n]
  BY <1>1
<1>3. a <= k /\ Pos(a - 1) = 0 /\ \A m \in a..(k - 1) : Pos(m) # 0
  BY DEF Stretch
<1>4. IsTrade(a, k)
  BY <1>3 DEF IsTrade
<1>5. ASSUME NEW n \in DOMAIN more
      PROVE  \E x, y \in 1..k : IsTrade(x, y) /\ Stretch(more[n], x, y)
  <2>1. CASE n = Len(list) + 1
    <3>1. k \in 1..k /\ more[n] = c
      BY <1>2, <2>1
    <3> QED BY <1>4, <3>1
  <2>2. CASE n # Len(list) + 1
    <3>1. n \in DOMAIN list /\ more[n] = list[n]
      BY <1>2, <2>2
    <3>2. PICK x \in 1..(k - 1), y \in 1..(k - 1) : IsTrade(x, y) /\ Stretch(list[n], x, y)
      BY <3>1 DEF Told
    <3>3. x \in 1..k /\ y \in 1..k
      OBVIOUS
    <3> QED BY <3>1, <3>2, <3>3
  <2> QED BY <2>1, <2>2
<1>6. ASSUME NEW x \in 1..k, NEW y \in 1..k, IsTrade(x, y)
      PROVE  \E n \in DOMAIN more : Stretch(more[n], x, y)
  <2>1. x <= y /\ Pos(x - 1) = 0 /\ \A m \in x..(y - 1) : Pos(m) # 0
    BY <1>6 DEF IsTrade
  <2>2. CASE y = k
    <3>1. ~(x < a)
      <4>1. ASSUME x < a PROVE FALSE
        <5>1. a - 1 \in x..(y - 1)
          BY <2>2, <4>1
        <5> QED BY <1>3, <2>1, <5>1
      <4> QED BY <4>1
    <3>2. ~(a < x)
      <4>1. ASSUME a < x PROVE FALSE
        <5>1. x - 1 \in a..(k - 1)
          BY <4>1
        <5> QED BY <1>3, <2>1, <5>1
      <4> QED BY <4>1
    <3>3. x = a
      BY <3>1, <3>2
    <3>4. Len(list) + 1 \in DOMAIN more
      BY <1>2
    <3> QED BY <1>2, <2>2, <3>3, <3>4
  <2>3. CASE y # k
    <3>1. x \in 1..(k - 1) /\ y \in 1..(k - 1)
      BY <2>1, <2>3
    <3>2. PICK n \in DOMAIN list : Stretch(list[n], x, y)
      BY <1>6, <3>1 DEF Told
    <3>3. n \in DOMAIN more /\ more[n] = list[n]
      BY <1>2
    <3> QED BY <3>2, <3>3
  <2> QED BY <2>2, <2>3
<1> QED BY <1>1, <1>5, <1>6 DEF Told

LEMMA StretchOpened ==
  ASSUME fills \in Seq(FillType), NEW k \in 1..Len(fills), Pos(k - 1) = 0
  PROVE  Stretch(Opened(k), k, k)
<1>1. Booked \in Seq(DOMAIN fills) /\ Len(Booked) = Len(fills) /\ Booked[k] = k
  BY BookedIs
<1>2. Cut(Opened(k), Booked, k, k)
  BY <1>1, CutOpened
<1>3. Opened(k).exits = <<>> /\ ToSet(<<>>) = {}
  BY DEF Opened, ToSet
<1> QED BY <1>2, <1>3 DEF Stretch

LEMMA StretchExtended ==
  ASSUME fills \in Seq(FillType), Orderly, NEW k \in 1..Len(fills), NEW c \in CycleType,
         c.open = Pos(k - 1), Pos(k - 1) # 0, NEW a \in 1..(k - 1), Stretch(c, a, k - 1)
  PROVE  Stretch(Extended(c, k), a, k)
<1>1. Booked \in Seq(DOMAIN fills) /\ Len(Booked) = Len(fills) /\ Booked[k] = k /\ k \in DOMAIN fills
  BY BookedIs
<1>2. k \in 2..Len(Booked)
  BY <1>1
<1>3. Cut(Extended(c, k), Booked, a, k)
  <2>1. Cut(c, Booked, a, k - 1)
    BY DEF Stretch
  <2> QED BY <1>1, <1>2, <2>1, CutExtended
<1>4. ASSUME NEW m \in a..(k - 1) PROVE Pos(m) # 0
  <2>1. CASE m = k - 1
    BY <2>1
  <2>2. CASE m # k - 1
    <3>1. m \in a..(k - 1 - 1)
      BY <2>2
    <3> QED BY <3>1 DEF Stretch
  <2> QED BY <2>1, <2>2
<1>5. Pos(a - 1) = 0 /\ a <= k
  BY DEF Stretch
<1>6. ASSUME NEW i \in ToSet(Extended(c, k).exits) PROVE fills[i].reduceOnly
  <2>1. \A j \in ToSet(c.exits) : fills[j].reduceOnly
    BY DEF Stretch
  <2>2. IF fills[k].reduceOnly
        THEN Extended(c, k).exits = Append(c.exits, k) ELSE Extended(c, k).exits = c.exits
    BY <1>1, ExtendedIs, OrderlyStep
  <2>3. c.exits \in Seq(DOMAIN fills)
    BY DEF CycleType
  <2>4. ToSet(Append(c.exits, k)) = ToSet(c.exits) \cup {k}
    BY <2>3, ToSetGrows
  <2> QED BY <2>1, <2>2, <2>4
<1> QED BY <1>3, <1>4, <1>5, <1>6 DEF Stretch

LEMMA SteadyStep ==
  ASSUME fills \in Seq(FillType), Orderly, NEW k \in 1..Len(fills),
         NEW acc \in WalkType, Steady(acc, k - 1)
  PROVE  Steady(Walk(acc, k), k)
<1>1. k \in DOMAIN fills /\ k \in Nat \ {0}
  OBVIOUS
<1>2. PICK next \in WalkType : next = Walk(acc, k)
  BY <1>1, WalkIs
<1>3. /\ acc.cycle.open = 0 =>
           /\ next.done = WithLast(acc)
           /\ next.cycle = IF fills[k].reduceOnly THEN NoCycle ELSE Opened(k)
      /\ acc.cycle.open # 0 =>
           next.done = acc.done /\ next.cycle = Extended(acc.cycle, k)
  BY <1>1, <1>2, WalkIs
<1>4. /\ acc.cycle \in CycleType /\ acc.done \in Seq(CycleType)
      /\ next.cycle \in CycleType /\ next.done \in Seq(CycleType)
  BY <1>2 DEF WalkType
<1>5. acc.cycle.open = Pos(k - 1) /\ Told(WithLast(acc), k - 1)
  BY DEF Steady
<1>6. PICK p \in Int, d \in Int : p = Pos(k - 1) /\ d = Signed(k) /\ d # 0 /\ Pos(k) = p + d
  BY PosIs
<1>7. CASE Pos(k - 1) = 0
  <2>1. next.done = WithLast(acc) /\ next.cycle = Opened(k) /\ Pos(k) = Signed(k) /\ Pos(k) # 0
    BY <1>3, <1>5, <1>7, OrderlyStep
  <2>2. next.cycle.open = Pos(k)
    BY <2>1 DEF Opened
  <2>3. WithLast(next) = next.done
    BY <2>1, <2>2 DEF WithLast, Complete
  <2>4. Told(WithLast(next), k)
    BY <1>1, <1>5, <2>1, <2>3, ToldKeeps
  <2>5. Stretch(next.cycle, k, k)
    BY <1>7, <2>1, StretchOpened
  <2>6. \E a \in 1..k : Stretch(next.cycle, a, k)
    BY <1>1, <2>5
  <2> QED BY <1>2, <2>2, <2>4, <2>6 DEF Steady
<1>8. CASE Pos(k - 1) # 0
  <2>1. next.done = acc.done /\ next.cycle = Extended(acc.cycle, k)
    BY <1>3, <1>5, <1>8
  <2>2. WithLast(acc) = acc.done
    BY <1>5, <1>8 DEF WithLast, Complete
  <2>3. next.cycle.open = Pos(k)
    <3>1. Extended(acc.cycle, k).open = acc.cycle.open + Signed(k)
      BY <1>1, <1>4, ExtendedIs
    <3> QED BY <1>5, <1>6, <2>1, <3>1
  <2>4. k - 1 > 0
    <3>1. k - 1 # 0
      BY <1>8, PosIs
    <3> QED BY <3>1
  <2>5. PICK a \in 1..(k - 1) : Stretch(acc.cycle, a, k - 1)
    BY <2>4 DEF Steady
  <2>6. Stretch(next.cycle, a, k) /\ a \in 1..k
    <3>1. Stretch(Extended(acc.cycle, k), a, k)
      BY <1>4, <1>5, <1>8, <2>5, StretchExtended
    <3> QED BY <2>1, <3>1
  <2>7. Told(WithLast(next), k)
    <3>1. CASE Pos(k) # 0
      <4>1. WithLast(next) = next.done
        BY <2>3, <3>1 DEF WithLast, Complete
      <4> QED BY <1>1, <1>5, <2>1, <2>2, <3>1, <4>1, ToldKeeps
    <3>2. CASE Pos(k) = 0
      <4>1. next.cycle.entries # <<>> /\ next.cycle.exits # <<>>
        BY <2>3, <2>6, <3>2 DEF Stretch, Cut
      <4>2. WithLast(next) = Append(next.done, next.cycle)
        BY <2>3, <3>2, <4>1 DEF WithLast, Complete
      <4> QED BY <1>1, <1>4, <1>5, <2>1, <2>2, <2>6, <3>2, <4>2, ToldGrows
    <3> QED BY <3>1, <3>2
  <2>8. \E x \in 1..k : Stretch(next.cycle, x, k)
    BY <2>6
  <2> QED BY <1>2, <2>3, <2>7, <2>8 DEF Steady
<1> QED BY <1>7, <1>8

LEMMA CyclesAreTrades ==
  ASSUME fills \in Seq(FillType), quarantined = {}, Orderly
  PROVE  build_cycles \in Seq(CycleType) /\ Told(build_cycles, Len(fills))
<1>1. PICK s \in Seq(DOMAIN fills) : s = Booked
  BY BookedIs
<1>2. s = Replay /\ Len(s) = Len(fills) /\ \A k \in 1..Len(fills) : s[k] = k /\ k \in DOMAIN fills
  BY <1>1, BookedIs, ReplayIsTable
<1>3. PICK n \in Nat : n = Len(fills)
  OBVIOUS
<1>4. PICK f : /\ Passes(f, Walking, Begun, s) /\ build_cycles = WithLast(f[Len(s)])
               /\ \A k \in 0..Len(s) : f[k] \in WalkType
  BY <1>2, CyclesRun
<1>5. f[0] = Begun /\ \A k \in 1..n : f[k] = Walking[<<f[k - 1], k>>]
  BY <1>2, <1>3, <1>4 DEF Passes
<1>6. Steady(f[0], 0)
  <2>1. Begun.cycle.open = 0 /\ WithLast(Begun) = <<>>
    BY DEF Begun, NoCycle, WithLast, Complete
  <2>2. Told(<<>>, 0)
    BY DEF Told
  <2> QED BY <1>5, <2>1, <2>2, PosIs DEF Steady
<1>7. ASSUME NEW k \in 1..n, Steady(f[k - 1], k - 1) PROVE Steady(f[k], k)
  <2>1. f[k - 1] \in WalkType /\ k \in DOMAIN fills
    BY <1>2, <1>3, <1>4
  <2>2. f[k] = Walk(f[k - 1], k)
    <3>1. PICK x \in WalkType, i \in DOMAIN fills : x = f[k - 1] /\ i = k
      BY <2>1
    <3>2. Walking[<<x, i>>] = Walk(x, i)
      BY DEF Walking
    <3> QED BY <1>5, <3>1, <3>2
  <2>3. Steady(Walk(f[k - 1], k), k)
    BY <1>3, <1>7, <2>1, SteadyStep
  <2> QED BY <2>2, <2>3
<1> DEFINE T == {k \in 0..n : Steady(f[k], k)}
<1>8. n \in T
  <2>1. 0 \in T
    BY <1>3, <1>6
  <2>2. ASSUME NEW k \in 1..n, k - 1 \in T PROVE k \in T
    BY <1>7, <2>2
  <2> HIDE DEF T
  <2> QED BY <1>3, <2>1, <2>2, ReachesAll
<1>9. f[n] \in WalkType /\ Steady(f[n], n) /\ build_cycles = WithLast(f[n])
  BY <1>2, <1>3, <1>4, <1>8
<1> QED BY <1>3, <1>9, WithLastTyped DEF Steady

\* An episode of the trade from fill a to fill b.
Trip(key, a, b) ==
  /\ key[1][1] = a /\ key[2][Len(key[2])] = b /\ Members(key) = a..b
  /\ \A i \in ToSet(key[2]) : fills[i].reduceOnly

LEMMA TripIs ==
  ASSUME fills \in Seq(FillType), NEW c \in CycleType, c.open = 0,
         NEW a \in 1..Len(fills), NEW b \in 1..Len(fills), Stretch(c, a, b)
  PROVE  Trip(Key(c), a, b)
<1>1. PICK s : s = Booked
  OBVIOUS
<1>2. \A i \in 1..Len(fills) : s[i] = i
  BY <1>1, BookedIs
<1>3. /\ c.entries[1] = s[a] /\ ToSet(c.entries) \cup ToSet(c.exits) = {s[j] : j \in a..b}
      /\ c.exits[Len(c.exits)] = s[b]
  BY <1>1 DEF Stretch, Cut
<1>4. {s[j] : j \in a..b} = a..b
  <2>1. \A j \in a..b : s[j] = j
    BY <1>2
  <2> QED BY <2>1
<1>5. s[a] = a /\ s[b] = b
  BY <1>2
<1>6. Key(c)[1] = c.entries /\ Key(c)[2] = c.exits
  BY DEF Key
<1>7. \A i \in ToSet(c.exits) : fills[i].reduceOnly
  BY DEF Stretch
<1> QED BY <1>3, <1>4, <1>5, <1>6, <1>7 DEF Trip, Members

LEMMA AdmissibleAreTrades ==
  ASSUME fills \in Seq(FillType), quarantined = {}, windows = {}, Orderly
  PROVE  /\ \A key \in Admissible : \E a, b \in 1..Len(fills) : IsTrade(a, b) /\ Trip(key, a, b)
         /\ \A a, b \in 1..Len(fills) : IsTrade(a, b) => \E key \in Admissible : Trip(key, a, b)
<1>1. PICK list \in Seq(CycleType) : list = build_cycles /\ Told(list, Len(fills))
  BY CyclesAreTrades
<1>2. ASSUME NEW n \in DOMAIN list PROVE list[n] \in CycleType /\ list[n].open = 0
  <2>1. Replay \in Seq(DOMAIN fills)
    BY ReplayIs
  <2>2. PICK s \in Seq(DOMAIN fills) : s = Replay
    BY <2>1
  <2>3. \A m \in DOMAIN build_cycles : build_cycles[m].open = 0
    BY <2>2, CyclesShaped
  <2> QED BY <1>1, <2>3
<1>3. \A x : x \in Admissible <=> \E n \in DOMAIN list : x = Key(list[n])
  <2>1. Admissible = {k \in {Key(c) : c \in ToSet(list)} : ~Tainted(k)}
    BY <1>1 DEF Admissible
  <2>2. \A k : ~Tainted(k)
    BY DEF Tainted
  <2>3. ToSet(list) = {list[n] : n \in DOMAIN list}
    BY DEF ToSet
  <2> QED BY <2>1, <2>2, <2>3
<1>4. ASSUME NEW key \in Admissible
      PROVE  \E a, b \in 1..Len(fills) : IsTrade(a, b) /\ Trip(key, a, b)
  <2>1. PICK n \in DOMAIN list : key = Key(list[n])
    BY <1>3
  <2>2. PICK a \in 1..Len(fills), b \in 1..Len(fills) : IsTrade(a, b) /\ Stretch(list[n], a, b)
    BY <1>1 DEF Told
  <2>3. Trip(Key(list[n]), a, b)
    BY <1>2, <2>2, TripIs
  <2> QED BY <2>1, <2>2, <2>3
<1>5. ASSUME NEW a \in 1..Len(fills), NEW b \in 1..Len(fills), IsTrade(a, b)
      PROVE  \E key \in Admissible : Trip(key, a, b)
  <2>1. PICK n \in DOMAIN list : Stretch(list[n], a, b)
    BY <1>1, <1>5 DEF Told
  <2>2. Trip(Key(list[n]), a, b)
    BY <1>2, <2>1, TripIs
  <2> QED BY <1>3, <2>2
<1> QED BY <1>4, <1>5

-----------------------------------------------------------------------------
(* A step leaves the fills as they are, or books one more.                 *)

Kept == fills' = fills \/ \E e \in FillType : fills' = Append(fills, e)

LEMMA TableKept ==
  ASSUME fills \in Seq(FillType), Kept
  PROVE  /\ fills' \in Seq(FillType) /\ Len(fills) <= Len(fills')
         /\ \A i \in DOMAIN fills : i \in DOMAIN fills' /\ fills'[i] = fills[i]
<1>1. CASE fills' = fills
  BY <1>1
<1>2. ASSUME NEW e \in FillType, fills' = Append(fills, e)
      PROVE  /\ fills' \in Seq(FillType) /\ Len(fills) <= Len(fills')
             /\ \A i \in DOMAIN fills : i \in DOMAIN fills' /\ fills'[i] = fills[i]
  BY <1>2
<1> QED BY <1>1, <1>2 DEF Kept

LEMMA NetOfKept ==
  ASSUME fills \in Seq(FillType), Kept, NEW s \in Seq(DOMAIN fills)
  PROVE  NetOf(s)' = NetOf(s) /\ s \in Seq(DOMAIN fills')
<1>1. NetOf(s) = NetIn(fills, s) /\ NetOf(s)' = NetIn(fills', s)
  BY NetIsIn
<1>2. s \in Seq(DOMAIN fills')
  BY TableKept
<1>3. CASE fills' = fills
  BY <1>1, <1>2, <1>3
<1>4. ASSUME NEW e \in FillType, fills' = Append(fills, e)
      PROVE  NetOf(s)' = NetOf(s)
  <2>1. PICK table \in Seq(FillType) : table = fills
    OBVIOUS
  <2>2. NetIn(Append(table, e), s) = NetIn(table, s)
    BY <2>1, NetKept
  <2> QED BY <1>1, <1>4, <2>1, <2>2
<1> QED BY <1>2, <1>3, <1>4 DEF Kept

LEMMA PosKept ==
  ASSUME fills \in Seq(FillType), Kept, NEW k \in 0..Len(fills)
  PROVE  Pos(k)' = Pos(k)
<1>1. PICK n \in Nat, m \in Nat : n = Len(fills) /\ m = Len(fills') /\ n <= m
  BY TableKept
<1>2. DOMAIN fills = 1..n /\ DOMAIN fills' = 1..m
  BY <1>1, TableKept
<1>3. PICK s, t : s = [i \in 1..n |-> i] /\ t = [i \in 1..m |-> i]
  OBVIOUS
<1>4. Booked = s /\ Booked' = t
  BY <1>2, <1>3 DEF Booked
<1>5. s \in Seq(1..n) /\ Len(s) = n /\ t \in Seq(1..m) /\ Len(t) = m
  BY <1>3
<1>6. PICK p, q : p = SubSeq(s, 1, k) /\ q = SubSeq(t, 1, k)
  OBVIOUS
<1>7. p \in Seq(1..n) /\ Len(p) = k /\ \A i \in 1..k : p[i] = i
  BY <1>1, <1>3, <1>5, <1>6
<1>8. q \in Seq(1..m) /\ Len(q) = k /\ \A i \in 1..k : q[i] = i
  BY <1>1, <1>3, <1>5, <1>6
<1>9. p = q
  BY <1>7, <1>8
<1>10. Pos(k) = NetOf(p) /\ Pos(k)' = NetOf(p)'
  BY <1>4, <1>6, <1>9 DEF Pos
<1>11. p \in Seq(DOMAIN fills)
  BY <1>2, <1>7
<1> QED BY <1>10, <1>11, NetOfKept

\* What a further fill makes of the position.
LEMMA PosNext ==
  ASSUME fills \in Seq(FillType), NEW e \in FillType, fills' = Append(fills, e),
         NEW n \in Nat, n = Len(fills)
  PROVE  /\ Pos(n + 1)' = Position + (IF e.side = "BUY" THEN e.quantity ELSE -e.quantity)
         /\ Position \in Int
<1>1. PICK table : table = Append(fills, e)
  OBVIOUS
<1>2. /\ table \in Seq(FillType) /\ DOMAIN table = 1..(n + 1) /\ table[n + 1] = e
      /\ DOMAIN fills = 1..n
  BY <1>1
<1>3. PICK s : s = [i \in 1..n |-> i]
  OBVIOUS
<1>4. Booked = s /\ Booked' = [i \in 1..(n + 1) |-> i]
  BY <1>1, <1>2, <1>3 DEF Booked
<1>5. s \in Seq(1..n) /\ s \in Seq(1..(n + 1)) /\ Len(s) = n
  BY <1>3
<1>6. SubSeq([i \in 1..(n + 1) |-> i], 1, n + 1) = Append(s, n + 1)
  <2> PICK m \in Nat : m = n + 1
    OBVIOUS
  <2>1. PICK p, q : p = SubSeq([i \in 1..(n + 1) |-> i], 1, n + 1) /\ q = Append(s, n + 1)
    OBVIOUS
  <2>2. p \in Seq(1..m) /\ Len(p) = m /\ \A i \in 1..m : p[i] = i
    BY <2>1
  <2>3. q \in Seq(1..m) /\ Len(q) = m /\ \A i \in 1..m : q[i] = i
    BY <1>3, <1>5, <2>1
  <2>4. p = q
    BY <2>2, <2>3
  <2> QED BY <2>1, <2>4
<1>7. Pos(n + 1)' = NetOf(Append(s, n + 1))'
  BY <1>4, <1>6 DEF Pos
<1>8. NetOf(Append(s, n + 1))' = NetIn(table, Append(s, n + 1))
  BY <1>1, NetIsIn
<1>9. PICK i \in DOMAIN table : i = n + 1
  BY <1>2
<1>10. s \in Seq(DOMAIN table) /\ s \in Seq(DOMAIN fills)
  BY <1>2, <1>5
<1>11. NetIn(table, Append(s, n + 1)) = NetIn(table, s) + SignedIn(table, n + 1)
  BY <1>2, <1>9, <1>10, NetGrows
<1>12. NetIn(table, s) = NetIn(fills, s)
  BY <1>1, <1>10, NetKept
<1>13. Position = NetIn(fills, s) /\ DOMAIN fills = 1..n
  BY <1>4, NetIsIn DEF Position
<1>14. SignedIn(table, n + 1) = IF e.side = "BUY" THEN e.quantity ELSE -e.quantity
  BY <1>2 DEF SignedIn
<1>15. Position \in Int
  BY PosIs
<1> QED BY <1>1, <1>7, <1>8, <1>11, <1>12, <1>13, <1>14, <1>15

LEMMA ClosedKept ==
  ASSUME fills \in Seq(FillType), Kept, NEW key, Closed(key)
  PROVE  Closed(key)'
<1>1. PICK x \in Seq(DOMAIN fills), y \in Seq(DOMAIN fills) : key = <<x, y>>
  BY DEF Closed
<1>2. x # <<>> /\ y # <<>> /\ NetOf(x) + NetOf(y) = 0
  BY <1>1 DEF Closed
<1>3. NetOf(x)' = NetOf(x) /\ NetOf(y)' = NetOf(y) /\ x \in Seq(DOMAIN fills') /\ y \in Seq(DOMAIN fills')
  BY NetOfKept
<1>4. key[1] = x /\ key[2] = y
  BY <1>1
<1> QED BY <1>1, <1>2, <1>3, <1>4 DEF Closed

LEMMA TradeKept ==
  ASSUME fills \in Seq(FillType), Kept, NEW a \in 1..Len(fills), NEW b \in 1..Len(fills)
  PROVE  /\ IsTrade(a, b)' <=> IsTrade(a, b)
         /\ \A key : Trip(key, a, b)' <=> Trip(key, a, b)
<1>1. Pos(a - 1)' = Pos(a - 1) /\ Pos(b)' = Pos(b)
  BY PosKept
<1>2. ASSUME NEW m \in a..(b - 1) PROVE Pos(m)' = Pos(m)
  <2>1. m \in 0..Len(fills)
    OBVIOUS
  <2> QED BY <2>1, PosKept
<1>3. IsTrade(a, b)' <=> IsTrade(a, b)
  BY <1>1, <1>2 DEF IsTrade
<1>4. ASSUME NEW key PROVE Trip(key, a, b)' <=> Trip(key, a, b)
  <2>1. ASSUME Members(key) = a..b, NEW i \in ToSet(key[2]) PROVE fills'[i] = fills[i]
    <3>1. i \in a..b
      BY <2>1 DEF Members
    <3>2. i \in DOMAIN fills
      BY <3>1
    <3> QED BY <3>2, TableKept
  <2> QED BY <2>1 DEF Trip, Members
<1> QED BY <1>3, <1>4

-----------------------------------------------------------------------------
(* The episodes, step by step.                                             *)

\* The undisturbed fills: their trades are what is stored, or what the next hook stores.
Traded ==
  /\ quarantined = {} /\ windows = {} /\ Orderly
  /\ \A key \in episodes : \E a, b \in 1..Len(fills) : IsTrade(a, b) /\ Trip(key, a, b)
  /\ recorded => \A a, b \in 1..Len(fills) : IsTrade(a, b) => \E key \in episodes : Trip(key, a, b)

EpisodeInv ==
  /\ fills \in Seq(FillType) /\ windows \in SUBSET Nat /\ disturbances \in Nat
  /\ \A key \in episodes : Closed(key)
  /\ disturbances = 0 => Traded

LEMMA EpisodeInitial == EpisodeInit => EpisodeInv
<1> SUFFICES ASSUME EpisodeInit PROVE EpisodeInv
  OBVIOUS
<1>1. /\ fills = <<>> /\ quarantined = {} /\ windows = {} /\ episodes = {} /\ disturbances = 0
      /\ Len(fills) = 0 /\ DOMAIN fills = {} /\ fills \in Seq(FillType)
  BY DEF EpisodeInit
<1>2. Orderly
  BY <1>1 DEF Orderly
<1>3. 1..Len(fills) = {}
  BY <1>1
<1> QED BY <1>1, <1>2, <1>3 DEF EpisodeInv, Traded

\* What the fills are is kept by a further one that is in order.
LEMMA OrderlyKept ==
  ASSUME fills \in Seq(FillType), Orderly, NEW e \in FillType, fills' = Append(fills, e),
         e.time = 2 * (Len(fills) + 1),
         IF e.reduceOnly THEN Position # 0
         ELSE Position = 0 \/ (Position > 0) = (e.side = "BUY")
  PROVE  Orderly'
<1>1. PICK n \in Nat : n = Len(fills)
  OBVIOUS
<1>2. /\ DOMAIN fills = 1..n /\ DOMAIN fills' = 1..(n + 1) /\ fills'[n + 1] = e
      /\ \A i \in 1..n : fills'[i] = fills[i]
  BY <1>1
<1>3. \A k \in 0..n : Pos(k)' = Pos(k)
  BY <1>1, PosKept DEF Kept
<1>4. Position = Pos(n)
  BY <1>1, PosIs
<1>5. ASSUME NEW i \in DOMAIN fills'
      PROVE  /\ fills'[i].time = 2 * i
             /\ IF fills'[i].reduceOnly THEN Pos(i - 1)' # 0
                ELSE Pos(i - 1)' = 0 \/ (Pos(i - 1)' > 0) = (fills'[i].side = "BUY")
  <2>1. CASE i = n + 1
    <3>1. i - 1 = n /\ Pos(n)' = Position /\ fills'[i] = e
      BY <1>2, <1>3, <1>4, <2>1
    <3>2. Pos(i - 1)' = Position
      BY <3>1
    <3> QED BY <1>1, <2>1, <3>1, <3>2
  <2>2. CASE i # n + 1
    <3>1. i \in DOMAIN fills /\ i - 1 \in 0..n
      BY <1>2, <2>2
    <3>2. Pos(i - 1)' = Pos(i - 1) /\ fills'[i] = fills[i]
      BY <1>2, <1>3, <3>1
    <3>3. /\ fills[i].time = 2 * i
          /\ IF fills[i].reduceOnly THEN Pos(i - 1) # 0
             ELSE Pos(i - 1) = 0 \/ (Pos(i - 1) > 0) = (fills[i].side = "BUY")
      BY <3>1 DEF Orderly
    <3> QED BY <3>2, <3>3
  <2> QED BY <2>1, <2>2
<1> QED BY <1>5 DEF Orderly

LEMMA EpisodesKept ==
  ASSUME EpisodeInv, Kept, episodes' = episodes
  PROVE  /\ \A key \in episodes' : Closed(key)'
         /\ disturbances = 0 =>
              \A key \in episodes' :
                 \E a, b \in 1..Len(fills') : IsTrade(a, b)' /\ Trip(key, a, b)'
<1>1. fills \in Seq(FillType)
  BY DEF EpisodeInv
<1>2. ASSUME NEW key \in episodes' PROVE Closed(key)'
  <2>1. Closed(key)
    BY <1>2 DEF EpisodeInv
  <2> QED BY <1>1, <2>1, ClosedKept
<1>3. ASSUME disturbances = 0, NEW key \in episodes'
      PROVE  \E a, b \in 1..Len(fills') : IsTrade(a, b)' /\ Trip(key, a, b)'
  <2>1. PICK a \in 1..Len(fills), b \in 1..Len(fills) : IsTrade(a, b) /\ Trip(key, a, b)
    BY <1>3 DEF EpisodeInv, Traded
  <2>2. IsTrade(a, b)' /\ Trip(key, a, b)'
    BY <1>1, <2>1, TradeKept
  <2>3. Len(fills) \in Nat /\ Len(fills') \in Nat /\ Len(fills) <= Len(fills')
    BY <1>1, TableKept
  <2>4. a \in 1..Len(fills') /\ b \in 1..Len(fills')
    BY <2>3
  <2> QED BY <2>2, <2>4
<1> QED BY <1>2, <1>3

\* A fill that is booked in order.
LEMMA InOrderStep ==
  ASSUME EpisodeInv, NEW side \in {"BUY", "SELL"}, NEW q \in Quantities, NEW reduce \in BOOLEAN,
         Book(side, q, reduce, InOrder), UNCHANGED disturbances,
         IF reduce THEN Position # 0 ELSE Position = 0 \/ (Position > 0) = (side = "BUY")
  PROVE  EpisodeInv'
<1>1. fills \in Seq(FillType) /\ windows \in SUBSET Nat /\ disturbances \in Nat
  BY DEF EpisodeInv
<1>2. PICK e : e = [side |-> side, quantity |-> q, reduceOnly |-> reduce, time |-> InOrder]
  OBVIOUS
<1>3. InOrder = 2 * (Len(fills) + 1) /\ InOrder \in Nat
  BY <1>1 DEF InOrder
<1>4. e \in FillType
  BY <1>2, <1>3, EpisodeBoundsAssumption DEF FillType
<1>5. /\ fills' = Append(fills, e) /\ (recorded' => recorded /\ ~CallsHook(side, q, reduce))
      /\ quarantined' = quarantined /\ windows' = windows /\ episodes' = episodes
  BY <1>2 DEF Book
<1>6. Kept
  BY <1>4, <1>5 DEF Kept
<1>7. fills' \in Seq(FillType)
  BY <1>1, <1>6, TableKept
<1>8. ASSUME disturbances = 0 PROVE Orderly'
  <2>1. Orderly
    BY <1>8 DEF EpisodeInv, Traded
  <2>2. e.time = 2 * (Len(fills) + 1) /\ e.reduceOnly = reduce /\ e.side = side
    BY <1>2, <1>3
  <2> QED BY <1>1, <1>4, <1>5, <2>1, <2>2, OrderlyKept
<1> PICK n \in Nat : n = Len(fills)
  BY <1>1
<1>9. ~CallsHook(side, q, reduce) => Pos(n + 1)' # 0
  <2>1. PICK d \in Int, x \in Int : d = (IF side = "BUY" THEN q ELSE -q) /\ x = Position
    BY <1>1, <1>4, <1>5, PosNext, EpisodeBoundsAssumption
  <2>2. e.side = side /\ e.quantity = q
    BY <1>2
  <2>3. Pos(n + 1)' = x + d
    BY <1>1, <1>4, <1>5, <2>1, <2>2, PosNext
  <2>4. (side = "BUY" => d > 0) /\ (side = "SELL" => d < 0)
    BY <2>1, EpisodeBoundsAssumption
  <2>5. ~CallsHook(side, q, reduce) => x + d # 0 \/ ~reduce
    BY <2>1 DEF CallsHook
  <2>6. ~reduce => x = 0 \/ (x > 0) = (side = "BUY")
    BY <2>1
  <2>7. ~reduce => x + d # 0
    BY <2>4, <2>6
  <2> QED BY <2>3, <2>5, <2>7
<1>10. ASSUME disturbances' = 0 PROVE Traded'
  <2>1. disturbances = 0
    BY <1>10
  <2>2. quarantined = {} /\ windows = {}
    BY <2>1 DEF EpisodeInv, Traded
  <2>3. ASSUME recorded', NEW a \in 1..Len(fills'), NEW b \in 1..Len(fills'), IsTrade(a, b)'
        PROVE  \E key \in episodes' : Trip(key, a, b)'
    <3>1. recorded /\ ~CallsHook(side, q, reduce)
      BY <1>5, <2>3
    <3>2. Pos(n + 1)' # 0
      BY <3>1, <1>9
    <3>3. Len(fills) \in Nat /\ Len(fills') = Len(fills) + 1
      BY <1>1, <1>5
    <3>4. b # n + 1
      BY <2>3, <3>2 DEF IsTrade
    <3>5. a <= b
      BY <2>3 DEF IsTrade
    <3>6. a \in 1..Len(fills) /\ b \in 1..Len(fills)
      BY <3>3, <3>4, <3>5
    <3>7. IsTrade(a, b)
      BY <1>1, <1>6, <2>3, <3>6, TradeKept
    <3>8. PICK key \in episodes : Trip(key, a, b)
      BY <2>1, <3>1, <3>6, <3>7 DEF EpisodeInv, Traded
    <3> QED BY <1>1, <1>5, <1>6, <3>6, <3>8, TradeKept
  <2> QED BY <1>5, <1>6, <1>8, <2>1, <2>2, <2>3, EpisodesKept DEF Traded
<1> QED BY <1>1, <1>5, <1>6, <1>7, <1>10, EpisodesKept DEF EpisodeInv

\* A step that disturbs: the undisturbed part of the invariant says nothing any more.
LEMMA DisturbedStep ==
  ASSUME EpisodeInv, Disturb, Kept, episodes' = episodes, windows' \in SUBSET Nat
  PROVE  EpisodeInv'
<1>1. fills \in Seq(FillType) /\ disturbances \in Nat
  BY DEF EpisodeInv
<1>2. disturbances' \in Nat /\ disturbances' # 0
  BY <1>1 DEF Disturb
<1>3. fills' \in Seq(FillType)
  BY <1>1, TableKept
<1> QED BY <1>2, <1>3, EpisodesKept DEF EpisodeInv

LEMMA BookLate ==
  ASSUME EpisodeInv, Disturb, NEW side \in {"BUY", "SELL"}, NEW q \in Quantities,
         NEW reduce \in BOOLEAN, NEW t \in Nat, Book(side, q, reduce, t)
  PROVE  EpisodeInv'
<1>1. fills \in Seq(FillType) /\ windows \in SUBSET Nat
  BY DEF EpisodeInv
<1>2. PICK e : e = [side |-> side, quantity |-> q, reduceOnly |-> reduce, time |-> t]
  OBVIOUS
<1>3. e \in FillType
  BY <1>2, EpisodeBoundsAssumption DEF FillType
<1>4. fills' = Append(fills, e) /\ windows' = windows /\ episodes' = episodes
  BY <1>2 DEF Book
<1>5. Kept
  BY <1>3, <1>4 DEF Kept
<1> QED BY <1>1, <1>4, <1>5, DisturbedStep

LEMMA RecordStep == EpisodeInv /\ Record => EpisodeInv'
<1> SUFFICES ASSUME EpisodeInv, Record PROVE EpisodeInv'
  OBVIOUS
<1>1. /\ fills \in Seq(FillType) /\ windows \in SUBSET Nat /\ disturbances \in Nat
      /\ \A key \in episodes : Closed(key)
  BY DEF EpisodeInv
<1>2. /\ fills' = fills /\ windows' = windows /\ quarantined' = quarantined
      /\ disturbances' = disturbances /\ episodes' = episodes \cup Admissible
  BY DEF Record, Persisted
<1>3. Kept
  BY <1>2 DEF Kept
<1>4. ASSUME NEW key \in episodes' PROVE Closed(key)'
  <2>1. key \in episodes \/ key \in Admissible
    BY <1>2
  <2>2. Closed(key)
    BY <1>1, <2>1, KeysClosed
  <2> QED BY <1>1, <1>3, <2>2, ClosedKept
<1>5. ASSUME disturbances' = 0 PROVE Traded'
  <2>1. /\ quarantined = {} /\ windows = {} /\ Orderly
        /\ \A key \in episodes : \E a, b \in 1..Len(fills) : IsTrade(a, b) /\ Trip(key, a, b)
    BY <1>2, <1>5 DEF EpisodeInv, Traded
  <2>2. /\ \A key \in Admissible : \E a, b \in 1..Len(fills) : IsTrade(a, b) /\ Trip(key, a, b)
        /\ \A a, b \in 1..Len(fills) : IsTrade(a, b) => \E key \in Admissible : Trip(key, a, b)
    BY <1>1, <2>1, AdmissibleAreTrades
  <2>3. Orderly'
    <3>1. \A k \in 0..Len(fills) : Pos(k)' = Pos(k)
      BY <1>1, <1>3, PosKept
    <3>2. ASSUME NEW i \in DOMAIN fills
          PROVE  /\ fills[i].time = 2 * i
                 /\ IF fills[i].reduceOnly THEN Pos(i - 1)' # 0
                    ELSE Pos(i - 1)' = 0 \/ (Pos(i - 1)' > 0) = (fills[i].side = "BUY")
      <4>1. i - 1 \in 0..Len(fills)
        BY <1>1
      <4>2. Pos(i - 1)' = Pos(i - 1)
        BY <3>1, <4>1
      <4> QED BY <2>1, <4>2 DEF Orderly
    <3> QED BY <1>2, <3>2 DEF Orderly
  <2>4. ASSUME NEW a \in 1..Len(fills), NEW b \in 1..Len(fills)
        PROVE  /\ IsTrade(a, b)' <=> IsTrade(a, b)
               /\ \A key : Trip(key, a, b)' <=> Trip(key, a, b)
    BY <1>1, <1>3, TradeKept
  <2>5. ASSUME NEW key \in episodes'
        PROVE  \E a, b \in 1..Len(fills') : IsTrade(a, b)' /\ Trip(key, a, b)'
    <3>1. key \in episodes \/ key \in Admissible
      BY <1>2
    <3>2. PICK a \in 1..Len(fills), b \in 1..Len(fills) : IsTrade(a, b) /\ Trip(key, a, b)
      BY <2>1, <2>2, <3>1
    <3> QED BY <1>2, <2>4, <3>2
  <2>6. ASSUME NEW a \in 1..Len(fills'), NEW b \in 1..Len(fills'), IsTrade(a, b)'
        PROVE  \E key \in episodes' : Trip(key, a, b)'
    <3>1. a \in 1..Len(fills) /\ b \in 1..Len(fills)
      BY <1>2
    <3>2. IsTrade(a, b)
      BY <2>4, <2>6, <3>1
    <3>3. PICK key \in Admissible : Trip(key, a, b)
      BY <2>2, <3>1, <3>2
    <3> QED BY <1>2, <2>4, <3>1, <3>3
  <2> QED BY <1>2, <2>1, <2>3, <2>5, <2>6 DEF Traded
<1> QED BY <1>1, <1>2, <1>4, <1>5 DEF EpisodeInv

\* Where fills, quarantines and episodes stay, so does the invariant.
LEMMA EpisodeStays ==
  ASSUME EpisodeInv, fills' = fills, quarantined' = quarantined, windows' = windows,
         episodes' = episodes, recorded' = recorded, disturbances' = disturbances
  PROVE  EpisodeInv'
<1>1. Kept /\ fills \in Seq(FillType)
  BY DEF Kept, EpisodeInv
<1>2. ASSUME NEW key, Closed(key) PROVE Closed(key)'
  BY <1>1, <1>2, ClosedKept
<1>3. ASSUME disturbances' = 0 PROVE Traded'
  <2>1. Traded
    BY <1>3 DEF EpisodeInv
  <2>2. \A k \in 0..Len(fills) : Pos(k)' = Pos(k)
    BY <1>1, PosKept
  <2>3. Orderly'
    <3>1. ASSUME NEW i \in DOMAIN fills
          PROVE  /\ fills[i].time = 2 * i
                 /\ IF fills[i].reduceOnly THEN Pos(i - 1)' # 0
                    ELSE Pos(i - 1)' = 0 \/ (Pos(i - 1)' > 0) = (fills[i].side = "BUY")
      <4>1. i - 1 \in 0..Len(fills)
        BY <1>1
      <4>2. Pos(i - 1)' = Pos(i - 1)
        BY <2>2, <4>1
      <4>3. Orderly
        BY <2>1 DEF Traded
      <4> QED BY <4>2, <4>3 DEF Orderly
    <3> QED BY <3>1 DEF Orderly
  <2>4. ASSUME NEW a \in 1..Len(fills), NEW b \in 1..Len(fills)
        PROVE  /\ IsTrade(a, b)' <=> IsTrade(a, b)
               /\ \A key : Trip(key, a, b)' <=> Trip(key, a, b)
    BY <1>1, TradeKept
  <2>5. ASSUME NEW key \in episodes'
        PROVE  \E a, b \in 1..Len(fills') : IsTrade(a, b)' /\ Trip(key, a, b)'
    <3>1. PICK a \in 1..Len(fills), b \in 1..Len(fills) : IsTrade(a, b) /\ Trip(key, a, b)
      BY <2>1, <2>5 DEF Traded
    <3> QED BY <2>4, <3>1
  <2>6. ASSUME recorded', NEW a \in 1..Len(fills'), NEW b \in 1..Len(fills'), IsTrade(a, b)'
        PROVE  \E key \in episodes' : Trip(key, a, b)'
    <3>1. a \in 1..Len(fills) /\ b \in 1..Len(fills)
      OBVIOUS
    <3>2. IsTrade(a, b)
      BY <2>4, <2>6, <3>1
    <3>3. PICK key \in episodes : Trip(key, a, b)
      BY <2>1, <2>6, <3>1, <3>2 DEF Traded
    <3> QED BY <2>4, <3>1, <3>3
  <2> QED BY <2>1, <2>3, <2>5, <2>6 DEF Traded
<1> QED BY <1>1, <1>2, <1>3 DEF EpisodeInv

LEMMA EpisodeStep == EpisodeInv /\ EpisodeNext => EpisodeInv'
<1> SUFFICES ASSUME EpisodeInv, EpisodeNext PROVE EpisodeInv'
  OBVIOUS
<1>1. /\ fills \in Seq(FillType) /\ windows \in SUBSET Nat
      /\ Quantities \subseteq Nat \ {0} /\ MaxFills \in Nat
  BY EpisodeBoundsAssumption DEF EpisodeInv
<1>2. ASSUME NEW side \in {"BUY", "SELL"}, NEW q \in Quantities, Enter(side, q) PROVE EpisodeInv'
  BY <1>2, InOrderStep DEF Enter
<1>3. ASSUME NEW q \in Quantities, Exit(q) PROVE EpisodeInv'
  <2>1. PICK side \in {"BUY", "SELL"} : side = IF Position > 0 THEN "SELL" ELSE "BUY"
    OBVIOUS
  <2>2. Position # 0 /\ Book(side, q, TRUE, InOrder) /\ UNCHANGED disturbances
    BY <1>3, <2>1 DEF Exit
  <2> QED BY <2>2, InOrderStep
<1>4. ASSUME NEW side \in {"BUY", "SELL"}, NEW q \in Quantities, ExitAgain(side, q) PROVE EpisodeInv'
  <2>1. Disturb /\ Book(side, q, TRUE, InOrder)
    BY <1>4 DEF ExitAgain
  <2>2. InOrder \in Nat
    BY <1>1 DEF InOrder
  <2> QED BY <2>1, <2>2, BookLate
<1>5. ASSUME NEW side \in {"BUY", "SELL"}, NEW q \in Quantities, EnterLate(side, q) PROVE EpisodeInv'
  <2>1. PICK t \in 0..Len(fills) : Disturb /\ Book(side, q, FALSE, 2 * t + 1)
    BY <1>5 DEF EnterLate
  <2>2. 2 * t + 1 \in Nat
    OBVIOUS
  <2> QED BY <2>1, <2>2, BookLate
<1>6. ASSUME NEW i, Quarantine(i) PROVE EpisodeInv'
  <2>1. Disturb /\ Kept /\ episodes' = episodes /\ windows' = windows
    BY <1>6 DEF Quarantine, Kept
  <2> QED BY <1>1, <2>1, DisturbedStep
<1>7. ASSUME NEW i \in 1..MaxFills, QuarantineSymbol(2 * i - 1) PROVE EpisodeInv'
  <2>1. Disturb /\ Kept /\ episodes' = episodes /\ windows' = windows \cup {2 * i - 1}
    BY <1>7 DEF QuarantineSymbol, Kept
  <2>2. 2 * i - 1 \in Nat
    BY <1>1
  <2> QED BY <1>1, <2>1, <2>2, DisturbedStep
<1>8. CASE Record
  BY <1>8, RecordStep
<1>9. CASE RecordFails
  BY <1>9, EpisodeStays DEF RecordFails
<1> QED BY <1>2, <1>3, <1>4, <1>5, <1>6, <1>7, <1>8, <1>9 DEF EpisodeNext

LEMMA EpisodeSame == EpisodeInv /\ UNCHANGED episodeVars => EpisodeInv'
BY EpisodeStays DEF episodeVars

LEMMA EpisodesSound == EpisodeInv => EpisodesAreTrades /\ EpisodesNetToZero
<1> SUFFICES ASSUME EpisodeInv PROVE EpisodesAreTrades /\ EpisodesNetToZero
  OBVIOUS
<1>1. fills \in Seq(FillType)
  BY DEF EpisodeInv
<1>2. EpisodesNetToZero
  BY DEF EpisodeInv, Closed, EpisodesNetToZero
<1>3. ASSUME disturbances = 0
      PROVE  \E spans : /\ spans = {<<key[1][1], key[2][Len(key[2])]>> : key \in episodes}
                        /\ spans \subseteq Trades /\ (recorded => spans = Trades)
  <2>1. /\ \A key \in episodes : \E a, b \in 1..Len(fills) : IsTrade(a, b) /\ Trip(key, a, b)
        /\ recorded => \A a, b \in 1..Len(fills) : IsTrade(a, b) => \E key \in episodes : Trip(key, a, b)
    BY <1>3 DEF EpisodeInv, Traded
  <2>2. PICK spans : spans = {<<key[1][1], key[2][Len(key[2])]>> : key \in episodes}
    OBVIOUS
  <2>3. ASSUME NEW x \in spans PROVE x \in Trades
    <3>1. PICK key \in episodes : x = <<key[1][1], key[2][Len(key[2])]>>
      BY <2>2
    <3>2. PICK a \in 1..Len(fills), b \in 1..Len(fills) : IsTrade(a, b) /\ Trip(key, a, b)
      BY <2>1
    <3>3. x = <<a, b>>
      BY <3>1, <3>2 DEF Trip
    <3> QED BY <1>1, <3>2, <3>3, TradesAre
  <2>4. ASSUME recorded, NEW x \in Trades PROVE x \in spans
    <3>1. PICK a \in 1..Len(fills), b \in 1..Len(fills) : x = <<a, b>> /\ IsTrade(a, b)
      BY <1>1, TradesAre
    <3>2. PICK key \in episodes : Trip(key, a, b)
      BY <2>1, <2>4, <3>1
    <3>3. x = <<key[1][1], key[2][Len(key[2])]>>
      BY <3>1, <3>2 DEF Trip
    <3> QED BY <2>2, <3>3
  <2> QED BY <2>2, <2>3, <2>4
<1>4. ASSUME disturbances = 0, NEW key \in episodes
      PROVE  /\ Members(key) = key[1][1]..key[2][Len(key[2])]
             /\ \A i \in ToSet(key[2]) : fills[i].reduceOnly
  <2>1. PICK a \in 1..Len(fills), b \in 1..Len(fills) : Trip(key, a, b)
    BY <1>4 DEF EpisodeInv, Traded
  <2> QED BY <2>1 DEF Trip
<1> QED BY <1>2, <1>3, <1>4 DEF EpisodesAreTrades

\* Only a hook stores episodes, and it asks for the quarantines.
LEMMA QuarantineStep ==
  ASSUME EpisodeInv, EpisodeNext \/ UNCHANGED episodeVars, NEW key \in episodes' \ episodes
  PROVE  /\ Members(key) \cap quarantined = {}
         /\ \A w \in windows : \A i, j \in Members(key) : ~(fills[i].time <= w /\ w <= fills[j].time)
<1>1. fills \in Seq(FillType) /\ windows \in SUBSET Nat
  BY DEF EpisodeInv
<1>2. CASE Record
  <2>1. key \in Admissible
    BY <1>2 DEF Record, Persisted
  <2> QED BY <1>1, <2>1, HonoursQuarantine
<1>3. CASE episodes' = episodes
  BY <1>3
<1>4. ASSUME EpisodeNext, ~Record PROVE episodes' = episodes
  BY <1>4 DEF EpisodeNext, Enter, Exit, ExitAgain, EnterLate, Book, Quarantine, QuarantineSymbol, RecordFails
<1>5. UNCHANGED episodeVars => episodes' = episodes
  BY DEF episodeVars
<1> QED BY <1>2, <1>3, <1>4, <1>5

-----------------------------------------------------------------------------
(* The learning side as a whole: each part moves alone.                    *)

LearningInv == ReviewInv /\ GovernanceInv

LEMMA LearningInitial == Init => LearningInv
BY ReviewInitial, GovernanceInitial DEF Init, LearningInv

LEMMA GovernanceSame ==
  ASSUME GovernanceInv, UNCHANGED governanceVars
  PROVE  GovernanceInv'
BY DEF governanceVars, GovernanceInv, RowsAreOfTheirDate

LEMMA LearningStep ==
  LearningInv /\ [Reviews \/ Episodes \/ Governance \/ Candidates \/ Promotions]_learningVars
    => LearningInv'
<1> SUFFICES ASSUME LearningInv,
                    [Reviews \/ Episodes \/ Governance \/ Candidates \/ Promotions]_learningVars
             PROVE  LearningInv'
  OBVIOUS
<1>1. CASE Reviews
  BY <1>1, ReviewStep, GovernanceSame DEF Reviews, LearningInv
<1>2. CASE Governance
  <2>1. ReviewInv'
    BY <1>2, ReviewSame DEF Governance, LearningInv, reviewVars
  <2> QED BY <1>2, <2>1, GovernanceStep DEF Governance, LearningInv
<1>3. CASE UNCHANGED reviewVars /\ UNCHANGED governanceVars
  <2>1. ReviewInv'
    BY <1>3, ReviewSame DEF LearningInv, reviewVars
  <2> QED BY <1>3, <2>1, GovernanceSame DEF LearningInv
<1> QED BY <1>1, <1>2, <1>3 DEF Episodes, Candidates, Promotions, learningVars

LEMMA LearningInvariant == Spec => []LearningInv
BY LearningInitial, LearningStep, PTL DEF Spec

LEMMA HonestInside == LearningInv => CountsAreHonest
<1> SUFFICES ASSUME LearningInv PROVE CountsAreHonest
  OBVIOUS
<1>1. CompletedHasReport /\ RowsAreOfTheirDate
  BY DEF LearningInv, ReviewInv, GovernanceInv
<1>2. \A p \in Period : SoundReport(p)
  BY DEF LearningInv, ReviewInv
<1>3. CountedOnce
  BY <1>2 DEF CountedOnce, SoundReport, Period
<1>4. ConfirmedOnTwoDays
  BY <1>2 DEF ConfirmedOnTwoDays, SoundReport, SeenOnTwoDays, OnTwoDays
<1> QED BY <1>1, <1>3, <1>4 DEF CountsAreHonest

\* However the runners of the hierarchical reviews overlap, fail and die, a job is only
\* COMPLETED once its report is stored, a week and a month count every day at most once
\* though it may have several reviews, and what is called confirmed was seen on two days of
\* a stored week; and the row of a date never counts more trades than that date had.
THEOREM ReviewsCountHonestly == Spec => []CountsAreHonest
BY LearningInvariant, HonestInside, PTL

LEMMA ReportsKept ==
  ASSUME LearningInv,
         [Reviews \/ Episodes \/ Governance \/ Candidates \/ Promotions]_learningVars
  PROVE  [\A p \in Period : Stored(p) => report'[p] = report[p]]_reviewVars
<1>1. ASSUME NEW r \in Runner, InsertReview(r)
      PROVE  \A p \in Period : Stored(p) => report'[p] = report[p]
  <2>1. PICK b : report' = [report EXCEPT ![runner[r].period] =
                              IF Stored(runner[r].period) THEN @ ELSE b]
    BY <1>1 DEF InsertReview
  <2>2. DOMAIN report = Period
    BY DEF LearningInv, ReviewInv, ReviewsTyped
  <2> QED BY <2>1, <2>2
<1>2. UNCHANGED report \/ \E r \in Runner : InsertReview(r)
  BY DEF Reviews, Episodes, Governance, Candidates, Promotions, learningVars, reviewVars,
         ReviewNext, RunnerStep, StoreDaily, Midnight, Begin, CollectChild, SelectReview,
         SelectJob, WriteJob, ReviewFails, Die
<1> QED BY <1>1, <1>2

\* A stored report is never changed, whoever reviews its period again: what a month or a
\* year was aggregated from stays what it was.
THEOREM ReportsStay == Spec => ReportsAreFinal
<1>1. Spec => [][Reviews \/ Episodes \/ Governance \/ Candidates \/ Promotions]_learningVars
  BY DEF Spec
<1> QED BY <1>1, LearningInvariant, ReportsKept, PTL DEF ReportsAreFinal

-----------------------------------------------------------------------------
(* The episodes beside the rest of the learning side.                      *)

LEMMA EpisodeInitially == Init => EpisodeInv
BY EpisodeInitial DEF Init

LEMMA EpisodeMoves ==
  ASSUME [Reviews \/ Episodes \/ Governance \/ Candidates \/ Promotions]_learningVars
  PROVE  EpisodeNext \/ UNCHANGED episodeVars
BY DEF Reviews, Episodes, Governance, Candidates, Promotions, learningVars

LEMMA EpisodesMove ==
  EpisodeInv /\ [Reviews \/ Episodes \/ Governance \/ Candidates \/ Promotions]_learningVars
    => EpisodeInv'
BY EpisodeMoves, EpisodeStep, EpisodeSame

LEMMA EpisodeInvariant == Spec => []EpisodeInv
<1>1. Spec => Init /\ [][Reviews \/ Episodes \/ Governance \/ Candidates \/ Promotions]_learningVars
  BY DEF Spec
<1> QED BY <1>1, EpisodeInitially, EpisodesMove, PTL

LEMMA QuarantineKept ==
  ASSUME EpisodeInv,
         [Reviews \/ Episodes \/ Governance \/ Candidates \/ Promotions]_learningVars
  PROVE  [\A key \in episodes' \ episodes :
            /\ Members(key) \cap quarantined = {}
            /\ \A w \in windows : \A i, j \in Members(key) :
                 ~(fills[i].time <= w /\ w <= fills[j].time)]_episodeVars
BY EpisodeMoves, QuarantineStep

\* What is learned from are whole trades, whatever the fills were, however many there are
\* and in whatever order they, the quarantines and the hooks that fail come: a stored
\* episode nets to zero; while nothing disturbed the fills the stored episodes are
\* trades from flat to flat with every fill between, and all of them once a hook
\* succeeded; and no hook stores an episode with a quarantined fill or across a
\* quarantine of the symbol.
THEOREM EpisodesStaySound == Spec => EpisodesAreSound
<1>1. Spec => [][Reviews \/ Episodes \/ Governance \/ Candidates \/ Promotions]_learningVars
  BY DEF Spec
<1>2. Spec => [](EpisodesAreTrades /\ EpisodesNetToZero)
  BY EpisodeInvariant, EpisodesSound, PTL
<1>3. Spec => QuarantineIsHonoured
  BY <1>1, EpisodeInvariant, QuarantineKept, PTL DEF QuarantineIsHonoured
<1> QED BY <1>2, <1>3, PTL DEF EpisodesAreSound
=============================================================================
