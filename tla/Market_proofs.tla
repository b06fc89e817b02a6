---------------------------- MODULE Market_proofs ----------------------------
(***************************************************************************)
(* The market data, for any number of deltas, copies, callers, commands    *)
(* and candles: a healthy order book is the exchange's, nothing acts on    *)
(* stale or invented data, the registry forgets no row, and the pages of a *)
(* backfill meet.                                                          *)
(***************************************************************************)
EXTENDS MarketBook, MarketFeed, InstrumentRegistry, CandleBackfill,
        FiniteSetTheorems, SequenceTheorems, WellFoundedInduction, TLAPS

(* Minima and maxima.                                                      *)

LEMMA LeastNumber ==
  ASSUME NEW T \in SUBSET Nat, T # {}
  PROVE  \E n \in T : \A k \in T : n <= k
<1> DEFINE less == {p \in Nat \X Nat : p[1] < p[2]}
<1>1. IsWellFoundedOn(less, Nat)
  BY NatLessThanWellFounded DEF OpToRel
<1> HIDE DEF less
<1>2. PICK n \in T : \A k \in T : ~(<<k, n>> \in less)
  BY <1>1, WFMin
<1>3. ASSUME NEW k \in T PROVE n <= k
  <2>1. <<k, n>> \in Nat \X Nat /\ ~(<<k, n>> \in less)
    BY <1>2
  <2>2. ~(<<k, n>>[1] < <<k, n>>[2])
    BY <2>1 DEF less
  <2> QED BY <2>2
<1> QED BY <1>3

LEMMA MaxOfSet ==
  ASSUME NEW n \in Nat, NEW S \in SUBSET (0..n), S # {}
  PROVE  Max(S) \in S /\ \A k \in S : k <= Max(S)
<1> DEFINE T == {n - k : k \in S}
<1>1. T \in SUBSET Nat
  <2> SUFFICES ASSUME NEW k \in S PROVE n - k \in Nat
    OBVIOUS
  <2> QED BY k \in 0..n
<1>2. T # {}
  OBVIOUS
<1> HIDE DEF T
<1>3. PICK m \in T : \A k \in T : m <= k
  BY <1>1, <1>2, LeastNumber
<1>4. PICK x \in S : m = n - x
  BY <1>3 DEF T
<1>5. ASSUME NEW k \in S PROVE x >= k
  <2>1. m <= n - k
    BY <1>3 DEF T
  <2> QED BY <1>4, <2>1, x \in 0..n, k \in 0..n
<1> QED BY <1>5 DEF Max

-----------------------------------------------------------------------------
(* MarketDataService: the order book.                                      *)

BookType ==
  [sequence : {NoSequence} \cup 0..MaxDeltas, levels : [Level -> 0..MaxDeltas],
   status : {"HEALTHY", "UNHEALTHY", "RESYNCING"}]

\* Its levels are those the exchange had at its number.
Exact(b) == b.sequence # NoSequence => b.levels = Truth(b.sequence)

BookInv ==
  /\ BookTypeOK /\ Exact(book)
  /\ IsHealthy => book.sequence # NoSequence

\* Odd and even numbers alternate between the two levels.
LEMMA LevelsAlternate ==
  ASSUME NEW n \in Nat
  PROVE  /\ LevelOf(n) \in Level /\ LevelOf(n + 1) \in Level
         /\ LevelOf(n + 1) # LevelOf(n) /\ LevelOf(n + 2) = LevelOf(n)
         /\ \A l \in Level : l = LevelOf(n) \/ l = LevelOf(n + 1)
BY DEF LevelOf, Level

LEMMA TruthTyped ==
  ASSUME NEW n \in 0..MaxDeltas
  PROVE  Truth(n) \in [Level -> 0..MaxDeltas] /\ LevelOf(n) \in Level
<1>1. n \in Nat /\ MaxDeltas \in Nat
  BY BookBoundsAssumption
<1>2. n # 0 => n - 1 \in 0..MaxDeltas
  BY <1>1
<1> QED BY <1>1, <1>2 DEF Truth, LevelOf, Level

LEMMA FreshExact ==
  ASSUME NEW n \in 0..MaxDeltas
  PROVE  Fresh(n) \in BookType /\ Exact(Fresh(n)) /\ Fresh(n).sequence = n
         /\ n # NoSequence
<1>1. n \in Nat
  BY BookBoundsAssumption
<1> QED BY <1>1, TruthTyped DEF Fresh, BookType, Exact, NoSequence

\* A delta that follows the book keeps it exact.
LEMMA DeltaExact ==
  ASSUME NEW b \in BookType, Exact(b), b.sequence # NoSequence, NEW n \in 1..MaxDeltas,
         n = b.sequence + 1
  PROVE  ApplyDelta(b, n) \in BookType /\ Exact(ApplyDelta(b, n))
         /\ ApplyDelta(b, n).sequence # NoSequence
         /\ ApplyDelta(b, n).status = b.status
<1>1. /\ MaxDeltas \in Nat /\ b.sequence \in 0..MaxDeltas /\ n \in 0..MaxDeltas
      /\ b.levels \in [Level -> 0..MaxDeltas] /\ b.levels = Truth(b.sequence)
  BY BookBoundsAssumption DEF BookType, Exact
<1> DEFINE levels == [b.levels EXCEPT ![LevelOf(n)] = n]
<1>2. ApplyDelta(b, n) = [sequence |-> n, levels |-> levels, status |-> b.status]
  <2>1. b = [sequence |-> b.sequence, levels |-> b.levels, status |-> b.status]
    BY DEF BookType
  <2> DEFINE s == b.sequence  v == b.levels  t == b.status
  <2>2. b = [sequence |-> s, levels |-> v, status |-> t]
    BY <2>1
  <2>3. ApplyDelta(b, n) = [b EXCEPT !.sequence = n, !.levels = [v EXCEPT ![LevelOf(n)] = n]]
    BY <2>2 DEF ApplyDelta
  <2> QED BY <2>1, <2>3
<1>3. levels \in [Level -> 0..MaxDeltas]
  BY <1>1
<1>4. levels = Truth(n)
  <2> SUFFICES ASSUME NEW l \in Level PROVE levels[l] = Truth(n)[l]
    BY <1>1, <1>3, TruthTyped
  <2>1. n - 1 = b.sequence /\ n \in Nat /\ b.sequence \in Nat
    BY <1>1
  <2>2. CASE l = LevelOf(n)
    BY <1>1, <2>1, <2>2 DEF Truth
  <2>3. CASE l # LevelOf(n)
    <3>1. levels[l] = Truth(b.sequence)[l]
      BY <1>1, <2>3
    <3>2. b.sequence # 0 => LevelOf(b.sequence) = l
      BY <2>1, <2>3 DEF LevelOf, Level
    <3> QED BY <2>1, <2>3, <3>1, <3>2 DEF Truth
  <2> QED BY <2>2, <2>3
<1> HIDE DEF levels
<1> QED BY <1>1, <1>2, <1>3, <1>4 DEF BookType, Exact, NoSequence

\* So do the buffered deltas that follow it one by one.
LEMMA ApplyAllExact ==
  ASSUME NEW n \in 0..MaxDeltas, NEW deltas \in Seq(1..MaxDeltas),
         \A i \in 1..Len(deltas) : deltas[i] = n + i
  PROVE  ApplyAll(Fresh(n), deltas) \in BookType /\ Exact(ApplyAll(Fresh(n), deltas))
         /\ ApplyAll(Fresh(n), deltas).sequence # NoSequence
<1> DEFINE b == ApplyAll(Fresh(n), deltas)
           k == Len(deltas)
           touching(l) == {i \in DOMAIN deltas : LevelOf(deltas[i]) = l}
           levels == [l \in Level |-> IF touching(l) = {} THEN Truth(n)[l]
                                      ELSE deltas[Max(touching(l))]]
<1>1. n \in Nat /\ k \in Nat /\ DOMAIN deltas = 1..k /\ MaxDeltas \in Nat
  BY BookBoundsAssumption
<1>2. k # 0 => deltas[k] = n + k /\ deltas[k] \in 1..MaxDeltas
  BY <1>1
<1>3. deltas = <<>> <=> k = 0
  BY <1>1
<1>4. n + k \in 0..MaxDeltas
  BY <1>1, <1>2
<1>5. b = [sequence |-> n + k, levels |-> levels, status |-> "HEALTHY"]
  <2>1. (IF deltas = <<>> THEN n ELSE Last(deltas)) = n + k
    BY <1>1, <1>2, <1>3 DEF Last
  <2>2. Fresh(n).sequence = n /\ Fresh(n).levels = Truth(n) /\ Fresh(n).status = "HEALTHY"
    BY DEF Fresh
  <2>3. b = [sequence |-> IF deltas = <<>> THEN n ELSE Last(deltas), levels |-> levels,
             status |-> "HEALTHY"]
    BY <2>2 DEF ApplyAll
  <2> HIDE DEF b, levels
  <2> QED BY <2>1, <2>3
<1>6. ASSUME NEW l \in Level
      PROVE  (IF touching(l) = {} THEN Truth(n)[l] ELSE deltas[Max(touching(l))])
               = Truth(n + k)[l]
  <2>1. /\ \A i \in touching(l) : i \in 1..k /\ LevelOf(n + i) = l
        /\ \A i \in 1..k : LevelOf(n + i) = l => i \in touching(l)
    BY <1>1
  <2>2. CASE k = 0
    BY <1>1, <2>1, <2>2
  <2>3. ASSUME k # 0 PROVE k - 1 \in Nat /\ n + k - 1 = n + (k - 1)
    BY <1>1, <2>3
  <2>4. CASE k # 0 /\ LevelOf(n + k) = l
    <3>1. k \in touching(l)
      BY <1>1, <2>1, <2>4
    <3>2. Max(touching(l)) = k
      <4>1. touching(l) \in SUBSET (0..k) /\ touching(l) # {}
        BY <1>1, <3>1
      <4> HIDE DEF touching
      <4>2. Max(touching(l)) \in touching(l) /\ k <= Max(touching(l))
        BY <1>1, <3>1, <4>1, MaxOfSet
      <4> QED BY <1>1, <2>1, <4>2
    <3>3. Truth(n + k)[l] = n + k
      BY <1>1, <2>4 DEF Truth
    <3> QED BY <1>2, <2>4, <3>1, <3>2, <3>3
  <2>5. CASE k = 1 /\ LevelOf(n + k) # l
    <3>1. LevelOf(n) = l
      BY <1>1, <2>5, LevelsAlternate
    <3>2. Truth(n)[l] = n /\ Truth(n + 1)[l] = n
      BY <1>1, <2>5, <3>1 DEF Truth
    <3>3. touching(l) = {}
      BY <1>1, <2>1, <2>5
    <3> QED BY <2>5, <3>2, <3>3
  <2>6. CASE k \notin {0, 1} /\ LevelOf(n + k) # l
    <3>1. k - 1 \in 1..k /\ n + (k - 1) \in Nat /\ n + k = (n + (k - 1)) + 1
      BY <1>1, <2>6
    <3>2. LevelOf(n + (k - 1)) = l
      BY <2>6, <3>1, LevelsAlternate
    <3>3. k - 1 \in touching(l)
      BY <2>1, <3>1, <3>2
    <3>4. Max(touching(l)) = k - 1
      <4>1. touching(l) \in SUBSET (0..k) /\ touching(l) # {}
        BY <1>1, <3>3
      <4> HIDE DEF touching
      <4>2. Max(touching(l)) \in touching(l) /\ k - 1 <= Max(touching(l))
        BY <1>1, <3>3, <4>1, MaxOfSet
      <4>3. Max(touching(l)) \in 1..k /\ Max(touching(l)) # k
        BY <2>1, <2>6, <4>2
      <4> QED BY <1>1, <4>2, <4>3
    <3>5. Truth(n + k)[l] = n + (k - 1)
      BY <1>1, <2>6, <3>1 DEF Truth
    <3>6. deltas[k - 1] = n + (k - 1)
      BY <1>1, <3>1
    <3> QED BY <3>3, <3>4, <3>5, <3>6
  <2> QED BY <2>2, <2>4, <2>5, <2>6
<1>7. Truth(n + k) \in [Level -> 0..MaxDeltas]
  BY <1>4, TruthTyped
<1>8. levels = Truth(n + k)
  BY <1>6 DEF Truth, levels
<1> HIDE DEF b, levels
<1>9. b \in BookType /\ Exact(b) /\ b.sequence # NoSequence
  BY <1>1, <1>4, <1>5, <1>7, <1>8 DEF BookType, Exact, NoSequence
<1> QED BY <1>9 DEF b

\* The replay of the buffer on a snapshot.
LEMMA LeadingCounts ==
  ASSUME NEW n \in 0..MaxDeltas, NEW pending \in Seq(1..MaxDeltas)
  PROVE  /\ Leading(Fresh(n), pending) \in 0..Len(pending)
         /\ Leading(Fresh(n), pending) = Len(pending)
              => \A i \in 1..Len(pending) : pending[i] = n + i
<1>0. \A i \in 1..Len(pending) : pending[i] \in 1..MaxDeltas
  BY ElementOfSeq
<1> DEFINE number(i)   == IF i = 1 THEN n ELSE pending[i - 1]
           unbroken(k) == \A i \in 1..k : pending[i] = number(i) + 1
           S           == {k \in 0..Len(pending) : unbroken(k)}
<1>1. n \in Nat /\ Len(pending) \in Nat
  BY BookBoundsAssumption
<1>2. Leading(Fresh(n), pending) = Max(S)
  <2>1. \A i : [Fresh(n) EXCEPT !.sequence = IF i = 1 THEN @ ELSE pending[i - 1]].sequence
                 = number(i)
    BY DEF Fresh
  <2>2. \A i \in 1..Len(pending) : number(i) # NoSequence
    <3> SUFFICES ASSUME NEW i \in 1..Len(pending) PROVE number(i) \in Nat
      BY DEF NoSequence
    <3>1. i # 1 => i - 1 \in 1..Len(pending)
      BY <1>1
    <3>2. i # 1 => pending[i - 1] \in 1..MaxDeltas
      BY <1>0, <3>1
    <3> QED BY <1>1, <3>2, BookBoundsAssumption
  <2>3. \A k \in 0..Len(pending) : \A i \in 1..k :
          Contiguous([Fresh(n) EXCEPT !.sequence = IF i = 1 THEN @ ELSE pending[i - 1]],
                     pending[i])
            <=> pending[i] = number(i) + 1
    BY <1>1, <2>1, <2>2 DEF Contiguous
  <2>4. S = {k \in 0..Len(pending) : \A i \in 1..k :
               Contiguous([Fresh(n) EXCEPT !.sequence = IF i = 1 THEN @ ELSE pending[i - 1]],
                          pending[i])}
    BY <2>3
  <2> HIDE DEF S
  <2> QED BY <2>4 DEF Leading
<1>3. S \in SUBSET (0..Len(pending)) /\ 0 \in S
  BY <1>1
<1>4. Max(S) \in S
  <2> HIDE DEF S
  <2> QED BY <1>1, <1>3, MaxOfSet
<1>5. ASSUME unbroken(Len(pending))
      PROVE  \A i \in 1..Len(pending) : pending[i] = n + i
  <2> DEFINE T == {i \in 1..Len(pending) : pending[i] # n + i}
  <2> SUFFICES ASSUME T # {} PROVE FALSE
    OBVIOUS
  <2>1. T \in SUBSET Nat
    OBVIOUS
  <2>2. PICK i \in T : \A j \in T : i <= j
    <3> HIDE DEF T
    <3> QED BY <2>1, LeastNumber
  <2>3. CASE i = 1
    BY <1>1, <1>5, <2>2, <2>3
  <2>4. CASE i # 1
    <3>1. i - 1 \in 1..Len(pending) /\ i - 1 \notin T
      BY <1>1, <2>2, <2>4
    <3>2. pending[i - 1] = n + (i - 1)
      BY <3>1
    <3>3. pending[i] = pending[i - 1] + 1
      BY <1>5, <2>2, <2>4
    <3> QED BY <1>1, <2>2, <3>2, <3>3
  <2> QED BY <2>3, <2>4
<1> QED BY <1>2, <1>4, <1>5

\* What a synchronous part of the service may leave: a book of its type that
\* is exact and, when healthy, has a number.
Sound(o) ==
  /\ o.book \in BookType /\ Exact(o.book)
  /\ o.status \in {"HEALTHY", "UNHEALTHY", "RESYNCING"}
  /\ o.buffer \in Seq(1..MaxDeltas)
  /\ o.status = "HEALTHY" => o.book.sequence # NoSequence

LEMMA BrokenSound ==
  ASSUME BookInv, NEW pending \in Seq(1..MaxDeltas)
  PROVE  Sound(Broken(pending)) /\ Broken(pending).status # "HEALTHY"
BY BookBoundsAssumption
   DEF Broken, Outcome, Invalidated, NoBook, Sound, BookType, Exact, NoSequence, Level

LEMMA ReplayedSound ==
  ASSUME BookInv, NEW n \in 0..MaxDeltas
  PROVE  Sound(Ingested(n))
<1>1. buffer \in Seq(1..MaxDeltas) /\ Len(buffer) \in Nat
  BY DEF BookInv, BookTypeOK
<1> DEFINE k == Leading(Fresh(n), buffer)
<1>2. k \in 0..Len(buffer)
  BY <1>1, LeadingCounts
<1>3. CASE k = Len(buffer)
  <2>1. Ingested(n) = Outcome(ApplyAll(Fresh(n), buffer), "HEALTHY", <<>>)
    BY <1>3 DEF Ingested, Replayed
  <2>2. \A i \in 1..Len(buffer) : buffer[i] = n + i
    BY <1>1, <1>3, LeadingCounts
  <2> QED BY <1>1, <2>1, <2>2, ApplyAllExact DEF Outcome, Sound
<1>4. CASE k # Len(buffer)
  <2>1. Ingested(n) = Broken(SubSeq(buffer, k + 2, Len(buffer)))
    BY <1>4 DEF Ingested, Replayed
  <2>2. SubSeq(buffer, k + 2, Len(buffer)) \in Seq(1..MaxDeltas)
    <3> HIDE DEF k
    <3>1. k + 2 \in Int /\ Len(buffer) \in Int
      BY <1>1, <1>2
    <3>2. \A i \in 1..Len(buffer) : buffer[i] \in 1..MaxDeltas
      BY <1>1, ElementOfSeq
    <3>3. \A i \in (k + 2)..Len(buffer) : i \in 1..Len(buffer)
      BY <1>1, <1>2
    <3> QED BY <3>1, <3>2, <3>3, SubSeqProperties
  <2> QED BY <2>1, <2>2, BrokenSound
<1> QED BY <1>3, <1>4

LEMMA ResyncedSound ==
  ASSUME BookInv, NEW f \in Feeder, feeder[f].fetched # NoSequence
  PROVE  Sound(Resynced(f))
<1> DEFINE n == feeder[f].fetched
           o == IF provider = "dict" THEN Ingested(n) ELSE Outcome(Fresh(n), "HEALTHY", buffer)
           d == feeder[f].delta
<1>1. n \in 0..MaxDeltas /\ d \in 0..MaxDeltas /\ buffer \in Seq(1..MaxDeltas)
  BY DEF BookInv, BookTypeOK, NoSequence
<1>2. Sound(o)
  <2>1. CASE provider = "dict"
    BY <1>1, <2>1, ReplayedSound
  <2>2. CASE provider # "dict"
    BY <1>1, <2>2, FreshExact DEF Outcome, Sound
  <2> QED BY <2>1, <2>2
<1>3. Resynced(f) = Resumed(f, o)
  BY DEF Resynced
<1> HIDE DEF o
<1>4. CASE o.status # "HEALTHY" \/ feeder[f].stage = "gap"
  BY <1>2, <1>3, <1>4 DEF Resumed
<1>5. CASE /\ o.status = "HEALTHY" /\ feeder[f].stage # "gap"
           /\ d = o.book.sequence + 1
  <2>1. o.book \in BookType /\ Exact(o.book) /\ o.book.sequence \in 0..MaxDeltas
    BY <1>2, <1>5 DEF Sound, BookType
  <2>2. d \in 1..MaxDeltas
    BY <1>1, <1>5, <2>1, BookBoundsAssumption
  <2>3. Resynced(f) = [o EXCEPT !.book = ApplyDelta(o.book, d)]
    BY <1>2, <1>3, <1>5 DEF Resumed, Sound
  <2>4. o = Outcome(o.book, o.status, o.buffer)
    <3>1. ASSUME NEW p \in Seq(1..MaxDeltas)
          PROVE  Broken(p) = Outcome(Broken(p).book, Broken(p).status, Broken(p).buffer)
      BY DEF Broken, Outcome
    <3>2. Ingested(n) = Outcome(Ingested(n).book, Ingested(n).status, Ingested(n).buffer)
      BY DEF Ingested, Replayed, Outcome, Broken
    <3> QED BY <3>2 DEF o, Outcome
  <2>5. Resynced(f) = Outcome(ApplyDelta(o.book, d), o.status, o.buffer)
    <3> DEFINE x == o.book  y == o.status  z == o.buffer  w == ApplyDelta(o.book, d)
    <3>1. o = [book |-> x, status |-> y, buffer |-> z]
      BY <2>4 DEF Outcome
    <3>2. Resynced(f) = [o EXCEPT !.book = w]
      BY <2>3
    <3>3. Outcome(ApplyDelta(o.book, d), o.status, o.buffer)
            = [book |-> w, status |-> y, buffer |-> z]
      BY DEF Outcome
    <3> HIDE DEF x, y, z, w
    <3> QED BY <3>1, <3>2, <3>3
  <2>6. /\ ApplyDelta(o.book, d) \in BookType /\ Exact(ApplyDelta(o.book, d))
        /\ ApplyDelta(o.book, d).sequence # NoSequence
    BY <1>2, <1>5, <2>1, <2>2, DeltaExact DEF Sound
  <2> QED BY <1>2, <2>5, <2>6 DEF Sound, Outcome
<1>6. CASE /\ o.status = "HEALTHY" /\ feeder[f].stage # "gap"
           /\ d # o.book.sequence + 1
  BY <1>2, <1>3, <1>6, BrokenSound DEF Resumed, Sound
<1> QED BY <1>4, <1>5, <1>6

LEMMA BookInitInv == BookInit => BookInv
<1> SUFFICES ASSUME BookInit PROVE BookInv
  OBVIOUS
<1>1. 0 \in 0..MaxDeltas /\ 0 \in 0..MaxFaults
  BY BookBoundsAssumption
<1>2. book \in BookType /\ book.sequence = NoSequence
  BY <1>1 DEF BookInit, NoBook, BookType
<1>3. provider \in ProviderKind
  BY ProvidersAssumption DEF BookInit
<1> QED BY <1>1, <1>2, <1>3
        DEF BookInit, BookInv, BookTypeOK, BookType, Exact, IsHealthy, Idle, NoSequence

\* A step that leaves a sound book, and the rest of its type.
LEMMA BecomesInv ==
  ASSUME BookInv, NEW o, Sound(o), Becomes(o),
         /\ provider' \in ProviderKind /\ sent' \in 0..MaxDeltas /\ faults' \in 0..MaxFaults
         /\ inbox' \in [Feeder -> Seq(1..MaxDeltas)]
         /\ feeder' \in [Feeder -> [stage : {"idle", "first", "gap"}, delta : 0..MaxDeltas,
                                    fetched : {NoSequence} \cup 0..MaxDeltas]]
         /\ reader' \in {NoSequence} \cup 0..MaxDeltas
  PROVE  BookInv'
BY DEF BookInv, BookTypeOK, Sound, Becomes, IsHealthy, BookType, Exact

LEMMA TakeTyped ==
  ASSUME BookInv, NEW f \in Feeder, Take(f)
  PROVE  /\ provider' \in ProviderKind /\ sent' \in 0..MaxDeltas /\ faults' \in 0..MaxFaults
         /\ inbox' \in [Feeder -> Seq(1..MaxDeltas)]
         /\ reader' \in {NoSequence} \cup 0..MaxDeltas
         /\ Head(inbox[f]) \in 1..MaxDeltas
<1>1. inbox[f] \in Seq(1..MaxDeltas) /\ inbox[f] # <<>>
  BY DEF BookInv, BookTypeOK, Take
<1>2. Head(inbox[f]) \in 1..MaxDeltas /\ Tail(inbox[f]) \in Seq(1..MaxDeltas)
  BY <1>1, HeadTailProperties
<1> QED BY <1>2 DEF BookInv, BookTypeOK, Take

LEMMA BookStepInv == BookInv /\ [BookNext]_bookVars => BookInv'
<1> SUFFICES ASSUME BookInv, [BookNext]_bookVars PROVE BookInv'
  OBVIOUS
<1> DEFINE Feeding == [stage : {"idle", "first", "gap"}, delta : 0..MaxDeltas,
                       fetched : {NoSequence} \cup 0..MaxDeltas]
<1>1. /\ provider \in ProviderKind /\ sent \in 0..MaxDeltas /\ faults \in 0..MaxFaults
      /\ inbox \in [Feeder -> Seq(1..MaxDeltas)] /\ buffer \in Seq(1..MaxDeltas)
      /\ book \in BookType /\ Exact(book)
      /\ status \in {"HEALTHY", "UNHEALTHY", "RESYNCING"}
      /\ feeder \in [Feeder -> Feeding]
      /\ reader \in {NoSequence} \cup 0..MaxDeltas
      /\ MaxDeltas \in Nat /\ MaxFaults \in Nat /\ Copies \in Nat
      /\ IsHealthy => book.sequence # NoSequence
  BY BookBoundsAssumption DEF BookInv, BookTypeOK, BookType
<1>2. ASSUME NEW s \in {"UNHEALTHY", "RESYNCING"}
      PROVE  /\ [book EXCEPT !.status = s] \in BookType
             /\ Exact([book EXCEPT !.status = s])
             /\ [Invalidated(book) EXCEPT !.status = s] \in BookType
             /\ Exact([Invalidated(book) EXCEPT !.status = s])
  <2> DEFINE zero == [l \in Level |-> 0]
  <2>1. zero \in [Level -> 0..MaxDeltas]
    BY <1>1
  <2>2. Invalidated(book) = [sequence |-> NoSequence, levels |-> zero, status |-> "UNHEALTHY"]
    <3>1. NoBook = [sequence |-> NoSequence, levels |-> zero, status |-> "HEALTHY"]
      BY DEF NoBook
    <3> HIDE DEF zero
    <3> QED BY <3>1 DEF Invalidated
  <2> HIDE DEF zero
  <2>3. [Invalidated(book) EXCEPT !.status = s]
          = [sequence |-> NoSequence, levels |-> zero, status |-> s]
    BY <2>2
  <2>4. /\ [Invalidated(book) EXCEPT !.status = s] \in BookType
        /\ Exact([Invalidated(book) EXCEPT !.status = s])
    BY <2>1, <2>3 DEF BookType, Exact
  <2>5. [book EXCEPT !.status = s] \in BookType /\ Exact([book EXCEPT !.status = s])
    BY <1>1 DEF BookType, Exact
  <2> QED BY <2>4, <2>5
<1>3. Invalidated(book) \in BookType /\ Exact(Invalidated(book))
  <2>1. Invalidated(book) = [Invalidated(book) EXCEPT !.status = "UNHEALTHY"]
    <3> DEFINE zero == [l \in Level |-> 0]
    <3>1. NoBook = [sequence |-> NoSequence, levels |-> zero, status |-> "HEALTHY"]
      BY DEF NoBook
    <3> HIDE DEF zero
    <3> QED BY <3>1 DEF Invalidated
  <2> QED BY <1>2, <2>1
<1>4. CASE Publish
  <2>1. sent' \in 0..MaxDeltas /\ sent + 1 \in 1..MaxDeltas
    BY <1>1, <1>4 DEF Publish
  <2>2. [n \in 1..Copies |-> sent + 1] \in Seq(1..MaxDeltas)
    BY <1>1, <2>1, SeqDef
  <2>3. \A f \in Feeder : inbox[f] \o [n \in 1..Copies |-> sent + 1] \in Seq(1..MaxDeltas)
    BY <1>1, <2>2, ConcatProperties
  <2>4. inbox' \in [Feeder -> Seq(1..MaxDeltas)]
    BY <1>4, <2>3 DEF Publish
  <2> QED BY <1>1, <1>4, <2>1, <2>4
          DEF Publish, BookInv, BookTypeOK, BookType, Exact, IsHealthy
<1>5. CASE Skip
  <2>1. sent' \in 0..MaxDeltas /\ faults' \in 0..MaxFaults
    BY <1>1, <1>5 DEF Skip
  <2> QED BY <1>1, <1>5, <2>1 DEF Skip, BookInv, BookTypeOK, BookType, Exact, IsHealthy
<1>6. ASSUME NEW f \in Feeder, Buffer(f) PROVE BookInv'
  <2>1. buffer' \in Seq(1..MaxDeltas)
    BY <1>1, <1>6, TakeTyped, AppendProperties DEF Buffer
  <2> QED BY <1>1, <1>6, <2>1, TakeTyped
          DEF Buffer, BookInv, BookTypeOK, BookType, Exact, IsHealthy
<1>7. ASSUME NEW f \in Feeder, Apply(f) PROVE BookInv'
  <2> DEFINE d == Head(inbox[f])
  <2>1. d \in 1..MaxDeltas /\ book.sequence # NoSequence /\ d = book.sequence + 1
    BY <1>7, TakeTyped DEF Apply, Contiguous
  <2>2. /\ book' \in BookType /\ Exact(book') /\ book'.sequence # NoSequence
    BY <1>1, <1>7, <2>1, DeltaExact DEF Apply
  <2>3. status' \in {"HEALTHY", "UNHEALTHY", "RESYNCING"}
    BY <1>1, <1>7 DEF Apply, BookType
  <2> QED BY <1>1, <1>7, <2>2, <2>3, TakeTyped
          DEF Apply, BookInv, BookTypeOK, BookType, Exact, IsHealthy
<1>8. ASSUME NEW f \in Feeder, NEW b \in {book, Invalidated(book)},
             NEW stage \in {"first", "gap"}, Take(f), StartResync(f, b, stage)
      PROVE  BookInv'
  <2>1. CASE provider = "none"
    <3> DEFINE o == Outcome([b EXCEPT !.status = "UNHEALTHY"], "UNHEALTHY", buffer)
    <3>1. Sound(o)
      BY <1>1, <1>2 DEF Sound, Outcome
    <3>2. Becomes(o) /\ feeder' = feeder
      BY <1>8, <2>1 DEF StartResync
    <3> HIDE DEF o
    <3> QED BY <1>1, <1>8, <3>1, <3>2, TakeTyped, BecomesInv
  <2>2. CASE provider # "none"
    <3>1. book' \in BookType /\ Exact(book') /\ status' = "RESYNCING" /\ buffer' = buffer
      BY <1>2, <1>8, <2>2 DEF StartResync
    <3>2. feeder' \in [Feeder -> Feeding]
      <4>1. [stage |-> stage, delta |-> Head(inbox[f]), fetched |-> NoSequence] \in Feeding
        BY <1>1, <1>8, TakeTyped
      <4>2. feeder' = [feeder EXCEPT ![f] = [stage |-> stage, delta |-> Head(inbox[f]),
                                             fetched |-> NoSequence]]
        BY <1>8, <2>2 DEF StartResync
      <4> HIDE DEF Feeding
      <4> QED BY <1>1, <4>1, <4>2
    <3> QED BY <1>1, <1>8, <3>1, <3>2, TakeTyped
            DEF BookInv, BookTypeOK, BookType, Exact, IsHealthy
  <2> QED BY <2>1, <2>2
<1>9. ASSUME NEW f \in Feeder, FirstDelta(f) \/ Gap(f) PROVE BookInv'
  BY <1>8, <1>9 DEF FirstDelta, Gap
<1>10. ASSUME NEW f \in Feeder, Fetch(f) PROVE BookInv'
  <2>1. feeder' \in [Feeder -> Feeding]
    <3>1. feeder' = [feeder EXCEPT ![f] = [feeder[f] EXCEPT !.fetched = sent]]
      BY <1>1, <1>10 DEF Fetch
    <3>2. [feeder[f] EXCEPT !.fetched = sent] \in Feeding
      BY <1>1
    <3> HIDE DEF Feeding
    <3> QED BY <1>1, <3>1, <3>2
  <2> QED BY <1>1, <1>10, <2>1
          DEF Fetch, BookInv, BookTypeOK, BookType, Exact, IsHealthy
<1>11. Idle \in Feeding
  BY <1>1 DEF Idle
<1>12. ASSUME NEW f \in Feeder, Reply(f) PROVE BookInv'
  <2>1. Sound(Resynced(f)) /\ Becomes(Resynced(f))
    BY <1>12, ResyncedSound DEF Reply
  <2>2. feeder' \in [Feeder -> Feeding]
    <3> HIDE DEF Feeding
    <3> QED BY <1>1, <1>11, <1>12 DEF Reply
  <2> QED BY <1>1, <1>12, <2>1, <2>2, BecomesInv DEF Reply
<1>13. ASSUME NEW f \in Feeder, ReplyFails(f) PROVE BookInv'
  <2> DEFINE o == Outcome([book EXCEPT !.status = "UNHEALTHY"], "UNHEALTHY", buffer)
  <2>1. Sound(o)
    BY <1>1, <1>2 DEF Sound, Outcome
  <2>2. Becomes(o)
    BY <1>13 DEF ReplyFails
  <2>3. feeder' \in [Feeder -> Feeding]
    <3> HIDE DEF Feeding
    <3> QED BY <1>1, <1>11, <1>13 DEF ReplyFails
  <2>4. faults' \in 0..MaxFaults
    BY <1>1, <1>13 DEF ReplyFails
  <2> HIDE DEF o
  <2> QED BY <1>1, <1>13, <2>1, <2>2, <2>3, <2>4, BecomesInv DEF ReplyFails
<1>14. CASE ReadBook
  BY <1>1, <1>14 DEF ReadBook, BookInv, BookTypeOK, BookType, Exact, IsHealthy
<1>15. CASE IngestBook
  <2>1. Sound(Ingested(reader)) /\ Becomes(Ingested(reader))
    BY <1>1, <1>15, ReplayedSound DEF IngestBook
  <2> QED BY <1>1, <1>15, <2>1, BecomesInv DEF IngestBook
<1>16. CASE ReadFails
  <2>1. /\ book' \in BookType /\ Exact(book')
        /\ book' = book \/ book'.status = "UNHEALTHY"
    BY <1>1, <1>3, <1>16 DEF ReadFails, Invalidated, NoBook
  <2>2. faults' \in 0..MaxFaults /\ reader' = NoSequence
    BY <1>1, <1>16 DEF ReadFails
  <2> QED BY <1>1, <1>16, <2>1, <2>2
          DEF ReadFails, BookInv, BookTypeOK, BookType, Exact, IsHealthy
<1>17. CASE UNCHANGED bookVars
  BY <1>1, <1>17 DEF bookVars, BookInv, BookTypeOK, BookType, Exact, IsHealthy
<1> QED BY <1>4, <1>5, <1>6, <1>7, <1>9, <1>10, <1>12, <1>13, <1>14, <1>15, <1>16, <1>17
        DEF BookNext, FeederStep, TickStep

\* For any number of deltas, copies, feeders and faults, a book that is_healthy
\* is the one the exchange had at its sequence number: what a gap lost, a resync
\* overtook or the buffer kept cannot hide behind a healthy status.
THEOREM BookIsTheExchanges ==
  BookInit /\ [][BookNext]_bookVars => []HealthyBookIsExact
<1>1. BookInv => HealthyBookIsExact
  BY DEF BookInv, HealthyBookIsExact, Exact
<1> QED BY <1>1, BookInitInv, BookStepInv, PTL

-----------------------------------------------------------------------------
(* MarketState: the feed.                                                  *)

MarketType ==
  [observed : [Priced -> Never..MaxTime],
   status : [AllSources -> {"ABSENT", "HEALTHY", "UNAVAILABLE"}],
   updated : [Priced -> Never..MaxTime],
   health : {"UNAVAILABLE", "HEALTHY", "DEGRADED"},
   generation : BOOLEAN, allowed : BOOLEAN]

CallType == [stage : 0..4, start : Never..MaxTime, observed : Never..MaxTime]

\* The stamps and the statuses of a source agree.
MarketSound ==
  /\ \A s \in Priced :
       /\ market.observed[s] <= now
       /\ market.status[s] = "HEALTHY" => market.observed[s] # Never
       /\ market.observed[s] # Never => market.status[s] # "ABSENT"
       /\ feed = "OKX" /\ market.updated[s] # Never
            => market.updated[s] <= market.observed[s]
  /\ feed = "BINANCE" => ~market.generation /\ ~market.allowed
  /\ market.allowed => market.health = "HEALTHY"

\* A refresh that reached a stage has filled the sources of the ones before.
CallSound(c) ==
  /\ call[c].stage \in 0..Len(Stages(feed))
  /\ call[c].stage > 0 => call[c].start \in 0..now
  /\ call[c].observed # Never
       => call[c].stage > 0 /\ call[c].start <= call[c].observed /\ call[c].observed <= now
  /\ \A i \in DOMAIN Stages(feed) :
       i < call[c].stage => \A s \in Stages(feed)[i] : market.status[s] # "ABSENT"

FeedInv ==
  /\ FeedTypeOK /\ MarketSound /\ (\A c \in Caller : CallSound(c))
  /\ HealthyIsWhole /\ FillIsReal

LEMMA StagesOfFeed ==
  /\ Len(Stages("OKX")) = 2 /\ DOMAIN Stages("OKX") = 1..2
  /\ Stages("OKX")[1] = {"ticker", "orderbook"}
  /\ Stages("OKX")[2] = {"mark_price", "index_price", "funding", "open_interest"}
  /\ Len(Stages("BINANCE")) = 4 /\ DOMAIN Stages("BINANCE") = 1..4
  /\ Stages("BINANCE")[1] = {"orderbook"} /\ Stages("BINANCE")[2] = {"mark_price"}
  /\ Stages("BINANCE")[3] = {"open_interest"} /\ Stages("BINANCE")[4] = {"trades"}
BY DEF Stages

LEMMA StagesTyped ==
  ASSUME NEW f \in {"OKX", "BINANCE"}
  PROVE  /\ Len(Stages(f)) \in 1..4 /\ DOMAIN Stages(f) = 1..Len(Stages(f))
         /\ \A i \in DOMAIN Stages(f) : Stages(f)[i] \subseteq AllSources
         /\ \A s \in Priced : \E i \in DOMAIN Stages(f) : s \in Stages(f)[i]
<1>1. CASE f = "OKX"
  BY <1>1, StagesOfFeed DEF AllSources, Priced
<1>2. CASE f = "BINANCE"
  BY <1>2, StagesOfFeed DEF AllSources, Priced
<1> QED BY <1>1, <1>2

LEMMA HealthOfSources ==
  ASSUME NEW v \in [AllSources -> {"ABSENT", "HEALTHY", "UNAVAILABLE"}]
  PROVE  /\ OverallHealth(v) \in {"UNAVAILABLE", "HEALTHY", "DEGRADED"}
         /\ OverallHealth(v) = "HEALTHY" => \A s \in AllSources : v[s] \in {"ABSENT", "HEALTHY"}
<1> DEFINE present == {v[s] : s \in AllSources} \ {"ABSENT"}
<1>1. OverallHealth(v) = "HEALTHY" => present = {"HEALTHY"}
  BY DEF OverallHealth
<1>2. OverallHealth(v) \in {"UNAVAILABLE", "HEALTHY", "DEGRADED"}
  BY DEF OverallHealth
<1>3. present = {"HEALTHY"} => \A s \in AllSources : v[s] \in {"ABSENT", "HEALTHY"}
  OBVIOUS
<1> QED BY <1>1, <1>2, <1>3

\* What the helpers of MarketState return.
LEMMA StoreTyped ==
  ASSUME NEW m \in MarketType, NEW group, NEW stamp \in Never..MaxTime
  PROVE  LET r == Store(m, group, stamp) IN
         /\ r \in MarketType
         /\ \A s \in Priced : r.observed[s] = IF s \in group THEN stamp ELSE m.observed[s]
         /\ r.status = m.status /\ r.updated = m.updated /\ r.health = m.health
         /\ r.generation = m.generation /\ r.allowed = m.allowed
<1> DEFINE x == [s \in Priced |-> IF s \in group THEN stamp ELSE m.observed[s]]
<1>1. x \in [Priced -> Never..MaxTime]
  BY DEF MarketType
<1>2. Store(m, group, stamp) = [m EXCEPT !.observed = x]
  BY DEF Store
<1>3. \A s \in Priced : x[s] = IF s \in group THEN stamp ELSE m.observed[s]
  OBVIOUS
<1> HIDE DEF x
<1> QED BY <1>1, <1>2, <1>3 DEF MarketType

Marks(r, m, group, verdict, stamp) ==
  /\ r \in MarketType
  /\ \A s \in AllSources : r.status[s] = IF s \in group THEN verdict ELSE m.status[s]
  /\ \A s \in Priced : r.updated[s] = IF s \in group THEN stamp ELSE m.updated[s]
  /\ r.observed = m.observed /\ r.health = m.health
  /\ r.generation = m.generation /\ r.allowed = m.allowed

LEMMA MarkTyped ==
  ASSUME NEW m \in MarketType, NEW group, NEW verdict \in {"HEALTHY", "UNAVAILABLE"},
         NEW stamp \in Never..MaxTime
  PROVE  Marks(MarkFrom(m, group, verdict, stamp), m, group, verdict, stamp)
<1> DEFINE y == [s \in AllSources |-> IF s \in group THEN verdict ELSE m.status[s]]
           z == [s \in Priced |-> IF s \in group THEN stamp ELSE m.updated[s]]
<1>1. /\ y \in [AllSources -> {"ABSENT", "HEALTHY", "UNAVAILABLE"}]
      /\ z \in [Priced -> Never..MaxTime]
  BY DEF MarketType
<1>2. MarkFrom(m, group, verdict, stamp) = [m EXCEPT !.status = y, !.updated = z]
  BY DEF MarkFrom
<1>3. /\ \A s \in AllSources : y[s] = IF s \in group THEN verdict ELSE m.status[s]
      /\ \A s \in Priced : z[s] = IF s \in group THEN stamp ELSE m.updated[s]
  OBVIOUS
<1> HIDE DEF y, z
<1> QED BY <1>1, <1>2, <1>3 DEF MarketType, Marks

\* The last stage adds the verdict on the whole, and touches no source.
LEMMA FinishedTyped ==
  ASSUME NEW m \in MarketType
  PROVE  LET r == Finished(m) IN
         /\ r \in MarketType
         /\ r.observed = m.observed /\ r.status = m.status /\ r.updated = m.updated
         /\ r.generation = m.generation /\ r.health = OverallHealth(m.status)
         /\ r.allowed = IF feed = "OKX" THEN OverallHealth(m.status) = "HEALTHY" ELSE m.allowed
<1> DEFINE x == OverallHealth(m.status)  y == (x = "HEALTHY")
<1>1. x \in {"UNAVAILABLE", "HEALTHY", "DEGRADED"} /\ y \in BOOLEAN
  BY HealthOfSources DEF MarketType
<1>2. CASE feed = "OKX"
  <2>1. Finished(m) = [m EXCEPT !.health = x, !.allowed = y]
    BY <1>2 DEF Finished
  <2>2. \A b \in BOOLEAN : \A h \in {"UNAVAILABLE", "HEALTHY", "DEGRADED"} :
          LET r == [m EXCEPT !.health = h, !.allowed = b] IN
          /\ r \in MarketType /\ r.observed = m.observed /\ r.status = m.status
          /\ r.updated = m.updated /\ r.generation = m.generation
          /\ r.health = h /\ r.allowed = b
    BY DEF MarketType
  <2> HIDE DEF x, y
  <2>3. LET r == [m EXCEPT !.health = x, !.allowed = y] IN
        /\ r \in MarketType /\ r.observed = m.observed /\ r.status = m.status
        /\ r.updated = m.updated /\ r.generation = m.generation
        /\ r.health = x /\ r.allowed = y
    BY <1>1, <2>2
  <2>4. /\ Finished(m) \in MarketType /\ Finished(m).observed = m.observed
        /\ Finished(m).status = m.status /\ Finished(m).updated = m.updated
        /\ Finished(m).generation = m.generation /\ Finished(m).health = x
        /\ Finished(m).allowed = y
    BY <2>1, <2>3
  <2> QED BY <1>2, <2>4, Zenon DEF x, y
<1>3. CASE feed # "OKX"
  <2>1. Finished(m) = [m EXCEPT !.health = x]
    BY <1>3 DEF Finished
  <2> HIDE DEF x, y
  <2>2. /\ Finished(m) \in MarketType /\ Finished(m).observed = m.observed
        /\ Finished(m).status = m.status /\ Finished(m).updated = m.updated
        /\ Finished(m).generation = m.generation /\ Finished(m).health = x
        /\ Finished(m).allowed = m.allowed
    BY <1>1, <2>1 DEF MarketType
  <2> QED BY <1>3, <2>2 DEF x
<1> QED BY <1>2, <1>3

LEMMA InvalidateTyped ==
  ASSUME NEW m \in MarketType
  PROVE  LET r == Invalidate(m) IN
         /\ r \in MarketType
         /\ \A s \in AllSources : r.status[s] = IF m.status[s] = "ABSENT" THEN "ABSENT"
                                                ELSE "UNAVAILABLE"
         /\ \A s \in Priced : r.updated[s] = Never
         /\ r.observed = m.observed /\ r.health = "UNAVAILABLE" /\ ~r.allowed
<1> DEFINE y == [s \in AllSources |-> IF m.status[s] = "ABSENT" THEN "ABSENT" ELSE "UNAVAILABLE"]
           z == [s \in Priced |-> Never]
<1>1. /\ y \in [AllSources -> {"ABSENT", "HEALTHY", "UNAVAILABLE"}]
      /\ z \in [Priced -> Never..MaxTime]
  BY FeedAssumption DEF MarketType, Never
<1>2. Invalidate(m) = [m EXCEPT !.generation = TRUE, !.health = "UNAVAILABLE", !.allowed = FALSE,
                                !.status = y, !.updated = z]
  BY DEF Invalidate
<1>3. /\ \A s \in AllSources : y[s] = IF m.status[s] = "ABSENT" THEN "ABSENT" ELSE "UNAVAILABLE"
      /\ \A s \in Priced : z[s] = Never
  OBVIOUS
<1> HIDE DEF y, z
<1> QED BY <1>1, <1>2, <1>3 DEF MarketType

\* The stage a refresh is at, and the callers a step leaves alone.
LEMMA StageOfCall ==
  ASSUME FeedInv, NEW c \in Caller, Refreshing(c)
  PROVE  /\ call[c].stage \in DOMAIN Stages(feed) /\ Group(c) = Stages(feed)[call[c].stage]
         /\ Group(c) \subseteq AllSources
         /\ ~LastStage(c) => call[c].stage + 1 \in DOMAIN Stages(feed)
<1>1. feed \in {"OKX", "BINANCE"} /\ call[c].stage \in 0..Len(Stages(feed))
  BY DEF FeedInv, FeedTypeOK, CallSound
<1> QED BY <1>1, StagesTyped DEF Refreshing, Group, LastStage

\* No status goes back to ABSENT.
Kept == \A s \in AllSources : market.status[s] # "ABSENT" => market'.status[s] # "ABSENT"

LEMMA CallKept ==
  ASSUME FeedInv, NEW c \in Caller, call'[c] = call[c], feed' = feed, now' \in Nat,
         now <= now', Kept
  PROVE  CallSound(c)'
<1>1. /\ feed \in {"OKX", "BINANCE"} /\ CallSound(c) /\ call[c] \in CallType /\ now \in Nat
  BY FeedAssumption DEF FeedInv, FeedTypeOK, CallType
<1>2. \A i \in DOMAIN Stages(feed) : Stages(feed)[i] \subseteq AllSources
  BY <1>1, StagesTyped
<1>3. call'[c].stage \in 0..Len(Stages(feed'))
  BY <1>1 DEF CallSound
<1>4. call'[c].stage > 0 => call'[c].start \in 0..now'
  BY <1>1 DEF CallSound, CallType
<1>5. call'[c].observed # Never
        => call'[c].stage > 0 /\ call'[c].start <= call'[c].observed /\ call'[c].observed <= now'
  BY <1>1 DEF CallSound, CallType, Never
<1>6. \A i \in DOMAIN Stages(feed') :
        i < call'[c].stage => \A s \in Stages(feed')[i] : market'.status[s] # "ABSENT"
  BY <1>1, <1>2 DEF CallSound, Kept
<1> QED BY <1>3, <1>4, <1>5, <1>6 DEF CallSound

LEMMA IdleSound ==
  ASSUME feed' \in {"OKX", "BINANCE"}, NEW c \in Caller, call'[c] = IdleCall
  PROVE  CallSound(c)'
<1>1. Len(Stages(feed')) \in 1..4 /\ DOMAIN Stages(feed') \subseteq Nat
      /\ \A i \in DOMAIN Stages(feed') : i >= 1
  BY StagesTyped
<1>2. call'[c].stage = 0 /\ call'[c].observed = Never
  BY DEF IdleCall
<1> QED BY <1>1, <1>2 DEF CallSound

\* A stage ends: its caller goes on to the next one, or is done.
LEMMA LeaveRecord ==
  ASSUME NEW f \in [Caller -> CallType], NEW c \in Caller, NEW n
  PROVE  [f EXCEPT ![c].stage = n, ![c].observed = Never]
           = [f EXCEPT ![c] = [f[c] EXCEPT !.stage = n, !.observed = Never]]
<1> DEFINE q == [f[c] EXCEPT !.stage = n]
           r == [f[c] EXCEPT !.stage = n, !.observed = Never]
<1>1. [f EXCEPT ![c].stage = n, ![c].observed = Never]
        = [[f EXCEPT ![c] = q] EXCEPT ![c].observed = Never]
  OBVIOUS
<1>2. [f EXCEPT ![c] = q][c] = q /\ r = [q EXCEPT !.observed = Never]
  OBVIOUS
<1>3. [[f EXCEPT ![c] = q] EXCEPT ![c].observed = Never]
        = [[f EXCEPT ![c] = q] EXCEPT ![c] = r]
  <2> HIDE DEF q, r
  <2> QED BY <1>2
<1>4. [[f EXCEPT ![c] = q] EXCEPT ![c] = r] = [f EXCEPT ![c] = r]
  <2> HIDE DEF q, r
  <2> QED OBVIOUS
<1> HIDE DEF q, r
<1>5. [f EXCEPT ![c].stage = n, ![c].observed = Never] = [f EXCEPT ![c] = r]
  BY <1>1, <1>3, <1>4
<1> QED BY <1>5 DEF r

LEMMA LeaveSound ==
  ASSUME FeedInv, NEW c \in Caller, Refreshing(c), Leave(c), Kept,
         feed' = feed, now' = now, \A s \in Group(c) : market'.status[s] # "ABSENT"
  PROVE  call' \in [Caller -> CallType] /\ \A d \in Caller : CallSound(d)'
<1>1. /\ feed \in {"OKX", "BINANCE"} /\ CallSound(c) /\ now \in Nat
      /\ call \in [Caller -> CallType] /\ call[c] \in CallType
  BY FeedAssumption DEF FeedInv, FeedTypeOK, CallType
<1>2. CASE LastStage(c)
  <2>1. call' = [call EXCEPT ![c] = IdleCall]
    BY <1>2 DEF Leave
  <2>2. IdleCall \in CallType
    BY FeedAssumption DEF IdleCall, CallType, Never
  <2>3. call' \in [Caller -> CallType]
    BY <1>1, <2>1, <2>2
  <2>4. call'[c] = IdleCall
    BY <1>1, <2>1
  <2>5. \A d \in Caller \ {c} : call'[d] = call[d]
    BY <1>1, <2>1
  <2> QED BY <1>1, <2>3, <2>4, <2>5, IdleSound, CallKept
<1>3. CASE ~LastStage(c)
  <2> DEFINE n == call[c].stage + 1
             r == [call[c] EXCEPT !.stage = n, !.observed = Never]
  <2>1. call' = [call EXCEPT ![c] = r]
    <3>1. call' = [call EXCEPT ![c].stage = n, ![c].observed = Never]
      BY <1>3 DEF Leave
    <3> HIDE DEF n
    <3>2. call' = [call EXCEPT ![c] = [call[c] EXCEPT !.stage = n, !.observed = Never]]
      BY <1>1, <3>1, LeaveRecord, Zenon
    <3> QED BY <3>2, Zenon
  <2>2. call[c].stage + 1 \in DOMAIN Stages(feed) /\ DOMAIN Stages(feed) = 1..Len(Stages(feed))
        /\ Len(Stages(feed)) \in 1..4
    BY <1>1, <1>3, StageOfCall, StagesTyped
  <2>3. /\ r \in CallType /\ r.stage = call[c].stage + 1 /\ r.observed = Never
        /\ r.start = call[c].start
    <3>1. n \in 0..4 /\ Never \in Never..MaxTime
      BY <2>2, FeedAssumption DEF Never
    <3> HIDE DEF n
    <3>2. r \in CallType /\ r.stage = n /\ r.observed = Never /\ r.start = call[c].start
      BY <1>1, <3>1 DEF CallType
    <3> QED BY <3>2 DEF n
  <2>4. call' \in [Caller -> CallType] /\ call'[c] = r
    <3> HIDE DEF r
    <3> QED BY <1>1, <2>1, <2>3
  <2>5. \A d \in Caller \ {c} : call'[d] = call[d]
    BY <1>1, <2>1
  <2>6. CallSound(c)'
    <3>1. \A i \in DOMAIN Stages(feed) : Stages(feed)[i] \subseteq AllSources
      BY <1>1, StagesTyped
    <3>2. call[c].stage \in Nat /\ call[c].stage > 0
          /\ Group(c) = Stages(feed)[call[c].stage]
      BY <1>1, StageOfCall DEF Refreshing, CallType
    <3>3. ASSUME NEW i \in DOMAIN Stages(feed), i < call[c].stage + 1, NEW s \in Stages(feed)[i]
          PROVE  market'.status[s] # "ABSENT"
      <4>1. i = call[c].stage \/ i < call[c].stage
        BY <2>2, <3>2, <3>3
      <4> QED BY <1>1, <3>1, <3>2, <3>3, <4>1 DEF CallSound, Kept
    <3> HIDE DEF r
    <3>4. /\ call'[c].stage \in 0..Len(Stages(feed')) /\ call'[c].start \in 0..now'
          /\ call'[c].observed = Never
      BY <1>1, <2>2, <2>3, <2>4, <3>2 DEF CallSound
    <3>5. \A i \in DOMAIN Stages(feed') :
            i < call'[c].stage => \A s \in Stages(feed')[i] : market'.status[s] # "ABSENT"
      BY <2>3, <2>4, <3>3
    <3> QED BY <3>4, <3>5 DEF CallSound
  <2> QED BY <1>1, <2>4, <2>5, <2>6, CallKept
<1> QED BY <1>2, <1>3

\* When the last stage of a refresh is over no source of the feed is ABSENT.
LEMMA AllPresent ==
  ASSUME FeedInv, NEW c \in Caller, Refreshing(c), LastStage(c), Kept,
         \A s \in Group(c) : market'.status[s] # "ABSENT"
  PROVE  \A i \in DOMAIN Stages(feed) : \A s \in Stages(feed)[i] : market'.status[s] # "ABSENT"
<1> SUFFICES ASSUME NEW i \in DOMAIN Stages(feed), NEW s \in Stages(feed)[i]
             PROVE  market'.status[s] # "ABSENT"
  OBVIOUS
<1>1. feed \in {"OKX", "BINANCE"} /\ CallSound(c)
  BY DEF FeedInv, FeedTypeOK
<1>2. /\ DOMAIN Stages(feed) = 1..call[c].stage /\ call[c].stage \in Nat
      /\ Stages(feed)[i] \subseteq AllSources /\ Group(c) = Stages(feed)[call[c].stage]
  BY <1>1, StagesTyped, StageOfCall DEF LastStage
<1>3. i = call[c].stage \/ i < call[c].stage
  BY <1>2
<1> QED BY <1>1, <1>2, <1>3 DEF CallSound, Kept

\* The verdict of the last stage is about every source of the feed.
LEMMA WholeAtTheEnd ==
  ASSUME FeedInv, NEW c \in Caller, Refreshing(c), LastStage(c), Kept, feed' = feed,
         \A s \in Group(c) : market'.status[s] # "ABSENT",
         market' \in MarketType, market'.health = OverallHealth(market'.status),
         market'.allowed => market'.health = "HEALTHY",
         \A s \in Priced : market'.status[s] = "HEALTHY" => market'.observed[s] # Never
  PROVE  HealthyIsWhole'
<1> SUFFICES ASSUME market'.health = "HEALTHY", NEW i \in DOMAIN Stages(feed),
                    NEW s \in Stages(feed)[i]
             PROVE  /\ s \in Priced => market'.observed[s] # Never
                    /\ feed = "OKX" => market'.status[s] = "HEALTHY"
  BY DEF HealthyIsWhole
<1>1. feed \in {"OKX", "BINANCE"} /\ market'.status[s] # "ABSENT"
  BY AllPresent DEF FeedInv, FeedTypeOK
<1>2. s \in AllSources
  BY <1>1, StagesTyped
<1>3. market'.status[s] = "HEALTHY"
  BY <1>1, <1>2, HealthOfSources DEF MarketType
<1> QED BY <1>3

LEMMA FeedFacts ==
  ASSUME FeedInv
  PROVE  /\ feed \in {"OKX", "BINANCE"} /\ now \in 0..MaxTime /\ outages \in 0..MaxOutages
         /\ market \in MarketType /\ call \in [Caller -> CallType]
         /\ fill \in {Synthetic} \cup (Never..MaxTime)
         /\ MaxTime \in Nat /\ MaxOutages \in Nat /\ MarketSound /\ HealthyIsWhole
         /\ FillIsReal /\ \A c \in Caller : CallSound(c) /\ call[c] \in CallType
         /\ Never \in Never..MaxTime /\ Priced \subseteq AllSources
BY FeedAssumption
   DEF FeedInv, FeedTypeOK, MarketType, CallType, Never, Priced, AllSources

LEMMA StoreStageInv ==
  ASSUME FeedInv, NEW c \in Caller, StoreStage(c)
  PROVE  FeedInv'
<1> DEFINE m == Healthy(market, Group(c), c)
           x == call[c].observed
           t == call[c].start
<1>1. /\ feed' = feed /\ now' = now /\ outages' = outages /\ Refreshing(c) /\ x # Never
      /\ market' = (IF LastStage(c) THEN Finished(m) ELSE m) /\ Leave(c)
  BY DEF StoreStage, Stored
<1>2. /\ x \in 0..MaxTime /\ t \in 0..MaxTime /\ t <= x /\ x <= now
      /\ x \in Never..MaxTime /\ t \in Never..MaxTime
  BY <1>1, FeedFacts DEF CallSound, CallType, Never, Refreshing
<1>3. /\ m \in MarketType
      /\ \A s \in AllSources : m.status[s] = IF s \in Group(c) THEN "HEALTHY" ELSE market.status[s]
      /\ \A s \in Priced : m.updated[s] = IF s \in Group(c) THEN t ELSE market.updated[s]
      /\ \A s \in Priced : m.observed[s] = IF s \in Group(c) THEN x ELSE market.observed[s]
      /\ m.health = market.health /\ m.generation = market.generation
      /\ m.allowed = market.allowed
  <2> DEFINE r == Store(market, Group(c), x)
  <2>1. /\ r \in MarketType
        /\ \A s \in Priced : r.observed[s] = IF s \in Group(c) THEN x ELSE market.observed[s]
        /\ r.status = market.status /\ r.updated = market.updated /\ r.health = market.health
        /\ r.generation = market.generation /\ r.allowed = market.allowed
    BY <1>2, FeedFacts, StoreTyped
  <2>2. m = MarkFrom(r, Group(c), "HEALTHY", t)
    BY DEF Healthy
  <2>3. "HEALTHY" \in {"HEALTHY", "UNAVAILABLE"}
    OBVIOUS
  <2> HIDE DEF r, m, x, t
  <2>4. Marks(m, r, Group(c), "HEALTHY", t)
    BY <1>2, <2>1, <2>2, <2>3, MarkTyped
  <2> QED BY <2>1, <2>4 DEF Marks
<1> HIDE DEF m, x, t
<1>4. /\ market' \in MarketType
      /\ market'.observed = m.observed /\ market'.status = m.status
      /\ market'.updated = m.updated /\ market'.generation = m.generation
      /\ ~LastStage(c) => market'.health = market.health /\ market'.allowed = market.allowed
      /\ LastStage(c) => market'.health = OverallHealth(market'.status)
      /\ LastStage(c) /\ feed = "OKX" => market'.allowed = (market'.health = "HEALTHY")
      /\ feed # "OKX" => market'.allowed = market.allowed
  BY <1>1, <1>3, FinishedTyped
<1>5. Kept /\ \A s \in Group(c) : market'.status[s] = "HEALTHY"
  BY <1>1, <1>3, <1>4, StageOfCall DEF Kept
<1>6. call' \in [Caller -> CallType] /\ \A d \in Caller : CallSound(d)'
  BY <1>1, <1>5, LeaveSound
<1>7. ASSUME NEW s \in Priced
      PROVE  /\ market'.observed[s] <= now'
             /\ market'.status[s] = "HEALTHY" => market'.observed[s] # Never
             /\ market'.observed[s] # Never => market'.status[s] # "ABSENT"
             /\ feed' = "OKX" /\ market'.updated[s] # Never
                  => market'.updated[s] <= market'.observed[s]
  <2>1. /\ market'.observed[s] = IF s \in Group(c) THEN x ELSE market.observed[s]
        /\ market'.status[s] = IF s \in Group(c) THEN "HEALTHY" ELSE market.status[s]
        /\ market'.updated[s] = IF s \in Group(c) THEN t ELSE market.updated[s]
    BY <1>3, <1>4, FeedFacts
  <2> QED BY <1>1, <1>2, <2>1, FeedFacts DEF MarketSound
<1>8. market'.allowed => market'.health = "HEALTHY"
  BY <1>4, FeedFacts DEF MarketSound
<1>9. MarketSound'
  <2>1. feed' = "BINANCE" => ~market'.generation /\ ~market'.allowed
    BY <1>1, <1>3, <1>4, FeedFacts DEF MarketSound
  <2> QED BY <1>7, <1>8, <2>1 DEF MarketSound
<1>10. HealthyIsWhole'
  <2>1. CASE LastStage(c)
    BY <1>1, <1>4, <1>5, <1>7, <1>8, <2>1, WholeAtTheEnd
  <2>2. CASE ~LastStage(c)
    <3> SUFFICES ASSUME market'.allowed \/ market'.health = "HEALTHY",
                        NEW i \in DOMAIN Stages(feed), NEW s \in Stages(feed)[i]
                 PROVE  /\ s \in Priced => market'.observed[s] # Never
                        /\ feed = "OKX" => market'.status[s] = "HEALTHY"
      BY <1>1 DEF HealthyIsWhole
    <3>1. /\ s \in Priced => market.observed[s] # Never
          /\ feed = "OKX" => market.status[s] = "HEALTHY"
      BY <1>4, <2>2, FeedFacts DEF HealthyIsWhole
    <3>2. s \in AllSources
      BY FeedFacts, StagesTyped
    <3> QED BY <1>1, <1>3, <1>4, <3>1, <3>2
  <2> QED BY <2>1, <2>2
<1>11. FillIsReal' /\ fill' \in {Synthetic} \cup (Never..MaxTime)
  <2>1. CASE Submits(c)
    <3>1. fill' = market'.observed["orderbook"] /\ "orderbook" \in Priced
      BY <2>1 DEF StoreStage, Filled, Priced
    <3>2. fill' \in Never..MaxTime /\ fill' <= now'
      BY <1>4, <1>7, <3>1 DEF MarketType
    <3> QED BY <3>2, FeedFacts DEF FillIsReal, Synthetic, Never
  <2>2. CASE ~Submits(c)
    BY <1>1, <2>2, FeedFacts DEF StoreStage, Filled, FillIsReal
  <2> QED BY <2>1, <2>2
<1> QED BY <1>1, <1>4, <1>6, <1>9, <1>10, <1>11, FeedFacts
        DEF FeedInv, FeedTypeOK, MarketType, CallType

LEMMA SourceFailsInv ==
  ASSUME FeedInv, NEW c \in Caller, SourceFails(c)
  PROVE  FeedInv'
<1> DEFINE t == call[c].start
           m == MarkFrom(market, Group(c), "UNAVAILABLE", t)
<1>1. /\ feed' = feed /\ feed = "BINANCE" /\ now' = now /\ Refreshing(c) /\ fill' = fill
      /\ outages' \in 0..MaxOutages /\ Leave(c)
      /\ market' = (IF LastStage(c) THEN Finished(m) ELSE m)
  BY FeedFacts DEF SourceFails
<1>2. t \in Never..MaxTime
  BY FeedFacts DEF CallType
<1>3. /\ m \in MarketType
      /\ \A s \in AllSources :
           m.status[s] = IF s \in Group(c) THEN "UNAVAILABLE" ELSE market.status[s]
      /\ m.observed = market.observed /\ m.health = market.health
      /\ m.generation = market.generation /\ m.allowed = market.allowed
  <2>1. market \in MarketType /\ "UNAVAILABLE" \in {"HEALTHY", "UNAVAILABLE"}
    BY FeedFacts
  <2> HIDE DEF t
  <2>2. Marks(m, market, Group(c), "UNAVAILABLE", t)
    BY <1>2, <2>1, MarkTyped
  <2> HIDE DEF m
  <2> QED BY <2>2 DEF Marks
<1> HIDE DEF m, t
<1>4. /\ market' \in MarketType
      /\ market'.observed = market.observed /\ market'.status = m.status
      /\ market'.generation = market.generation /\ market'.allowed = market.allowed
      /\ ~LastStage(c) => market'.health = market.health
      /\ LastStage(c) => market'.health = OverallHealth(market'.status)
  BY <1>1, <1>3, FinishedTyped
<1>5. Kept /\ \A s \in Group(c) : market'.status[s] = "UNAVAILABLE"
  BY <1>1, <1>3, <1>4, StageOfCall DEF Kept
<1>6. call' \in [Caller -> CallType] /\ \A d \in Caller : CallSound(d)'
  BY <1>1, <1>5, LeaveSound
<1>7. ~market'.generation /\ ~market'.allowed
  BY <1>1, <1>4, FeedFacts DEF MarketSound
<1>8. \A s \in Priced :
        /\ market'.observed[s] <= now'
        /\ market'.status[s] = "HEALTHY" => market'.observed[s] # Never
        /\ market'.observed[s] # Never => market'.status[s] # "ABSENT"
  BY <1>1, <1>3, <1>4, FeedFacts DEF MarketSound
<1>9. MarketSound'
  BY <1>1, <1>7, <1>8 DEF MarketSound
<1>10. HealthyIsWhole'
  <2>1. CASE LastStage(c)
    BY <1>1, <1>4, <1>5, <1>7, <1>8, <2>1, WholeAtTheEnd
  <2>2. CASE ~LastStage(c)
    BY <1>1, <1>4, <1>7, <2>2, FeedFacts DEF HealthyIsWhole
  <2> QED BY <2>1, <2>2
<1>11. FillIsReal'
  BY <1>1, FeedFacts DEF FillIsReal
<1> QED BY <1>1, <1>4, <1>6, <1>9, <1>10, <1>11, FeedFacts
        DEF FeedInv, FeedTypeOK, MarketType, CallType

LEMMA RefreshFailsInv ==
  ASSUME FeedInv, NEW c \in Caller, RefreshFails(c)
  PROVE  FeedInv'
<1>1. /\ feed' = feed /\ feed = "OKX" /\ now' = now /\ Refreshing(c) /\ fill' = fill
      /\ outages' \in 0..MaxOutages /\ market' = Invalidate(market)
      /\ call' = [call EXCEPT ![c] = IdleCall]
  BY FeedFacts DEF RefreshFails, RefusedFill
<1>2. /\ market' \in MarketType
      /\ \A s \in AllSources : market'.status[s] = IF market.status[s] = "ABSENT" THEN "ABSENT"
                                                  ELSE "UNAVAILABLE"
      /\ \A s \in Priced : market'.updated[s] = Never
      /\ market'.observed = market.observed /\ market'.health = "UNAVAILABLE"
      /\ ~market'.allowed
  BY <1>1, FeedFacts, InvalidateTyped
<1>3. Kept
  BY <1>2 DEF Kept
<1>4. IdleCall \in CallType
  BY FeedFacts DEF IdleCall, CallType
<1>5. call' \in [Caller -> CallType] /\ \A d \in Caller : CallSound(d)'
  BY <1>1, <1>3, <1>4, FeedFacts, CallKept, IdleSound
<1>6. MarketSound'
  BY <1>1, <1>2, FeedFacts DEF MarketSound
<1>7. HealthyIsWhole' /\ FillIsReal'
  BY <1>1, <1>2, FeedFacts DEF HealthyIsWhole, FillIsReal
<1> QED BY <1>1, <1>2, <1>5, <1>6, <1>7, FeedFacts
        DEF FeedInv, FeedTypeOK, MarketType, CallType

\* Steps that leave the market alone.
LEMMA MarketUnchanged ==
  ASSUME FeedInv, feed' = feed, now' \in 0..MaxTime, now <= now', market' = market, fill' = fill,
         outages' \in 0..MaxOutages, call' \in [Caller -> CallType],
         \A c \in Caller : call'[c] = call[c] \/ CallSound(c)'
  PROVE  FeedInv'
<1>1. Kept
  BY DEF Kept
<1>2. \A c \in Caller : CallSound(c)'
  BY <1>1, CallKept, FeedFacts
<1>3. MarketSound'
  BY FeedFacts DEF MarketSound, MarketType, Never
<1>4. HealthyIsWhole' /\ FillIsReal'
  BY FeedFacts DEF HealthyIsWhole, FillIsReal, Synthetic, Never
<1> QED BY <1>2, <1>3, <1>4, FeedFacts DEF FeedInv, FeedTypeOK, MarketType, CallType

LEMMA FeedStepInv == FeedInv /\ [FeedNext]_feedVars => FeedInv'
<1> SUFFICES ASSUME FeedInv, [FeedNext]_feedVars PROVE FeedInv'
  OBVIOUS
<1>1. ASSUME NEW c \in Caller, Refresh(c) PROVE FeedInv'
  <2> DEFINE r == [stage |-> 1, start |-> now, observed |-> Never]
  <2>1. r \in CallType /\ call' = [call EXCEPT ![c] = r]
    BY <1>1, FeedFacts DEF Refresh, CallType, Never
  <2>2. call' \in [Caller -> CallType] /\ \A d \in Caller \ {c} : call'[d] = call[d]
    <3> HIDE DEF r
    <3> QED BY <2>1, FeedFacts
  <2>3. CallSound(c)'
    <3>1. call'[c].stage = 1 /\ call'[c].start = now /\ call'[c].observed = Never
      BY <2>1, FeedFacts
    <3>2. /\ Len(Stages(feed)) \in 1..4 /\ DOMAIN Stages(feed) = 1..Len(Stages(feed))
          /\ feed' = feed /\ now' = now
      BY <1>1, FeedFacts, StagesTyped DEF Refresh
    <3> QED BY <3>1, <3>2, FeedFacts DEF CallSound
  <2> QED BY <1>1, <2>2, <2>3, FeedFacts, MarketUnchanged DEF Refresh
<1>2. ASSUME NEW c \in Caller, Observe(c) PROVE FeedInv'
  <2> DEFINE r == [call[c] EXCEPT !.observed = now]
  <2>1. /\ r \in CallType /\ call' = [call EXCEPT ![c] = r]
        /\ r.stage = call[c].stage /\ r.start = call[c].start /\ r.observed = now
    BY <1>2, FeedFacts DEF Observe, CallType, Never
  <2>2. call' \in [Caller -> CallType] /\ call'[c] = r
        /\ \A d \in Caller \ {c} : call'[d] = call[d]
    <3> HIDE DEF r
    <3> QED BY <2>1, FeedFacts
  <2>3. CallSound(c)'
    <3> HIDE DEF r
    <3>1. /\ call[c].stage > 0 /\ call[c].start \in 0..now /\ CallSound(c)
          /\ feed' = feed /\ now' = now /\ market' = market
      BY <1>2, FeedFacts DEF Observe, Refreshing, CallSound
    <3> QED BY <2>1, <2>2, <3>1, FeedFacts DEF CallSound
  <2> QED BY <1>2, <2>2, <2>3, FeedFacts, MarketUnchanged DEF Observe
<1>3. ASSUME NEW c \in Caller, RefreshRaises(c) PROVE FeedInv'
  <2>1. IdleCall \in CallType
    BY FeedFacts DEF IdleCall, CallType
  <2>2. call' \in [Caller -> CallType] /\ call'[c] = IdleCall
        /\ \A d \in Caller \ {c} : call'[d] = call[d]
    BY <1>3, <2>1, FeedFacts DEF RefreshRaises
  <2>3. CallSound(c)'
    BY <1>3, <2>2, FeedFacts, IdleSound DEF RefreshRaises
  <2> QED BY <1>3, <2>2, <2>3, FeedFacts, MarketUnchanged DEF RefreshRaises
<1>4. CASE Pass
  BY <1>4, FeedFacts, MarketUnchanged DEF Pass
<1>5. CASE UNCHANGED feedVars
  BY <1>5, FeedFacts, MarketUnchanged DEF feedVars
<1> QED BY <1>1, <1>2, <1>3, <1>4, <1>5, StoreStageInv, SourceFailsInv, RefreshFailsInv
        DEF FeedNext, CallerStep

LEMMA FeedInitInv == FeedInit => FeedInv
<1> SUFFICES ASSUME FeedInit PROVE FeedInv
  OBVIOUS
<1>1. 0 \in 0..MaxTime /\ 0 \in 0..MaxOutages /\ Never \in Never..MaxTime /\ now = 0
      /\ Priced \subseteq AllSources
  BY FeedAssumption DEF FeedInit, Never, Priced, AllSources
<1>2. /\ market \in MarketType /\ ~market.generation /\ ~market.allowed
      /\ market.health = "UNAVAILABLE"
      /\ \A s \in Priced : market.observed[s] = Never /\ market.updated[s] = Never
      /\ \A s \in AllSources : market.status[s] = "ABSENT"
  BY <1>1 DEF FeedInit, NewMarket, MarketType
<1>3. call \in [Caller -> CallType] /\ \A c \in Caller : call[c] = IdleCall
  BY <1>1 DEF FeedInit, IdleCall, CallType
<1>4. \A c \in Caller : CallSound(c)
  <2> SUFFICES ASSUME NEW c \in Caller PROVE CallSound(c)
    OBVIOUS
  <2>1. call[c].stage = 0 /\ call[c].observed = Never
    BY <1>3 DEF IdleCall
  <2>2. Len(Stages(feed)) \in 1..4 /\ DOMAIN Stages(feed) = 1..Len(Stages(feed))
    BY StagesTyped DEF FeedInit
  <2> QED BY <2>1, <2>2 DEF CallSound
<1>5. MarketSound
  BY <1>1, <1>2 DEF MarketSound, Never
<1>6. HealthyIsWhole /\ FillIsReal
  BY <1>2 DEF HealthyIsWhole, FillIsReal, FeedInit, Never, Synthetic
<1> QED BY <1>1, <1>2, <1>3, <1>4, <1>5, <1>6
        DEF FeedInv, FeedTypeOK, MarketType, CallType, FeedInit

LEMMA FreshFromInv == FeedInv => RiskOnFreshData
<1> SUFFICES ASSUME FeedInv, NEW side \in {-1, 1}, NEW position \in {-1, 0, 1},
                    ~new_risk_blocked(side, position)
             PROVE  \/ (position + side) * (position + side) < position * position
                    \/ /\ now - market.observed["orderbook"] <= MaxAge
                       /\ now - market.observed["mark_price"] <= MaxAge
  BY DEF RiskOnFreshData
<1>1. CASE Reduces(side, position)
  BY <1>1 DEF Reduces
<1>2. CASE can_add_risk
  <2>1. {"orderbook", "mark_price"} = Priced
    BY DEF Priced
  <2>2. feed = "OKX" /\ market.status["mark_price"] # "ABSENT"
    BY <1>2, <2>1, FeedFacts DEF can_add_risk, HasGeneration, MarketSound
  <2>3. ASSUME NEW s \in Priced, ~Stale(s) PROVE now - market.observed[s] <= MaxAge
    BY <2>2, <2>3, FeedFacts, FeedAssumption DEF Stale, MarketSound, MarketType, Never
  <2> QED BY <1>2, <2>1, <2>2, <2>3 DEF can_add_risk
<1> QED BY <1>1, <1>2 DEF new_risk_blocked

\* For any number of overlapping refreshes, of either feed, nothing acts on data
\* the exchange did not give or gave too long ago, and no paper order is filled
\* at an invented price.
THEOREM FeedActsOnTruth ==
  FeedInit /\ [][FeedNext]_feedVars => []FeedIsHonest
<1>1. FeedInv => FeedIsHonest
  BY FreshFromInv DEF FeedInv, FeedIsHonest
<1> QED BY <1>1, FeedInitInv, FeedStepInv, PTL

-----------------------------------------------------------------------------
(* The registry.                                                           *)

CommandType ==
  [stage : {"idle", "second", "read", "write"},
   fetched : [Instrument -> {"live", "suspend", "absent"}], existing : SUBSET Instrument]

RowType ==
  [state : {"none", "live", "suspend", "DELISTED"}, first : 0..(MaxListings + 1)]

\* One field of a command's refresh changes at a time.
LEMMA CommandTyped ==
  ASSUME NEW c \in Command, command \in [Command -> CommandType], NEW r \in CommandType
  PROVE  [command EXCEPT ![c] = r] \in [Command -> CommandType]
OBVIOUS

LEMMA FetchTyped ==
  ASSUME NEW g \in [Command -> CommandType], NEW c \in Command,
         NEW stage \in {"idle", "second", "read", "write"},
         NEW f \in [Instrument -> {"live", "suspend", "absent"}]
  PROVE  [g EXCEPT ![c].stage = stage, ![c].fetched = f] \in [Command -> CommandType]
<1> DEFINE h == [g EXCEPT ![c].stage = stage]
<1>1. h \in [Command -> CommandType]
  BY DEF CommandType
<1>2. [g EXCEPT ![c].stage = stage, ![c].fetched = f] = [h EXCEPT ![c].fetched = f]
  OBVIOUS
<1> HIDE DEF h
<1>3. [h EXCEPT ![c].fetched = f] \in [Command -> CommandType]
  BY <1>1 DEF CommandType
<1> QED BY <1>2, <1>3

LEMMA FetchedTyped ==
  ASSUME RegistryTypeOK, NEW c \in Command, NEW class
  PROVE  Fetched(c, class) \in [Instrument -> {"live", "suspend", "absent"}]
BY DEF RegistryTypeOK, Fetched

LEMMA RegistryStepTyped ==
  RegistryTypeOK /\ [RegistryNext]_registryVars => RegistryTypeOK'
<1> SUFFICES ASSUME RegistryTypeOK, [RegistryNext]_registryVars PROVE RegistryTypeOK'
  OBVIOUS
<1>1. /\ listing \in [Instrument -> {"live", "suspend", "absent"}] /\ breaks \in 0..MaxBreaks
      /\ listings \in 0..MaxListings /\ registry \in [Instrument -> RowType]
      /\ command \in [Command -> CommandType] /\ MaxListings \in Nat /\ MaxBreaks \in Nat
  BY RegistryAssumption DEF RegistryTypeOK, RowType, CommandType
<1>2. IdleCommand \in CommandType
  BY DEF IdleCommand, CommandType
<1>3. ASSUME NEW i \in Instrument, Relist(i) PROVE RegistryTypeOK'
  BY <1>1, <1>3 DEF Relist, RegistryTypeOK, RowType, CommandType
<1>4. ASSUME NEW c \in Command, FetchFirst(c) PROVE RegistryTypeOK'
  <2> DEFINE f == Fetched(c, Class[1])
  <2>1. f \in [Instrument -> {"live", "suspend", "absent"}]
    BY FetchedTyped
  <2>2. command' = [command EXCEPT ![c].stage = "second", ![c].fetched = f]
    BY <1>4 DEF FetchFirst
  <2> HIDE DEF f
  <2>3. command' \in [Command -> CommandType]
    BY <1>1, <2>1, <2>2, FetchTyped
  <2> QED BY <1>1, <1>4, <2>3 DEF FetchFirst, RegistryTypeOK, RowType, CommandType
<1>5. ASSUME NEW c \in Command, FetchSecond(c) PROVE RegistryTypeOK'
  <2> DEFINE f == Fetched(c, Class[2])
  <2>1. f \in [Instrument -> {"live", "suspend", "absent"}]
    BY FetchedTyped
  <2>2. command' = [command EXCEPT ![c].stage = "read", ![c].fetched = f]
    BY <1>5 DEF FetchSecond
  <2> HIDE DEF f
  <2>3. command' \in [Command -> CommandType]
    BY <1>1, <2>1, <2>2, FetchTyped
  <2> QED BY <1>1, <1>5, <2>3 DEF FetchSecond, RegistryTypeOK, RowType, CommandType
<1>6. ASSUME NEW c \in Command, FetchFails(c) PROVE RegistryTypeOK'
  BY <1>1, <1>2, <1>6, CommandTyped
     DEF FetchFails, RegistryTypeOK, RowType, CommandType
<1>7. ASSUME NEW c \in Command, ReadExisting(c) PROVE RegistryTypeOK'
  <2>1. Rows \in SUBSET Instrument
    BY DEF Rows
  <2>2. command' \in [Command -> CommandType]
    BY <1>1, <1>7, <2>1 DEF ReadExisting, CommandType
  <2> QED BY <1>1, <1>7, <2>2 DEF ReadExisting, RegistryTypeOK, RowType, CommandType
<1>8. ASSUME NEW c \in Command, Write(c) PROVE RegistryTypeOK'
  <2>1. ASSUME NEW i \in Instrument, i \in Seen(c) PROVE Upserted(c, i) \in RowType
    <3>1. command[c].fetched[i] \in {"live", "suspend"}
      BY <1>1, <2>1 DEF Seen, CommandType
    <3>2. (IF i \in command[c].existing THEN registry[i].first ELSE listings + 1)
            \in 0..(MaxListings + 1)
      BY <1>1 DEF RowType
    <3> QED BY <3>1, <3>2 DEF Upserted, RowType
  <2>2. ASSUME NEW i \in Instrument
        PROVE  [registry[i] EXCEPT !.state = "DELISTED"] \in RowType
    BY <1>1 DEF RowType
  <2>3. registry' \in [Instrument -> RowType]
    BY <1>1, <1>8, <2>1, <2>2 DEF Write
  <2>4. command' \in [Command -> CommandType]
    BY <1>1, <1>2, <1>8 DEF Write
  <2> QED BY <1>1, <1>8, <2>3, <2>4 DEF Write, RegistryTypeOK, RowType, CommandType
<1>9. CASE UNCHANGED registryVars
  BY <1>9 DEF registryVars, RegistryTypeOK
<1> QED BY <1>3, <1>4, <1>5, <1>6, <1>7, <1>8, <1>9 DEF RegistryNext, CommandStep

LEMMA RegistryInitTyped == RegistryInit => RegistryTypeOK
  BY RegistryAssumption DEF RegistryInit, RegistryTypeOK, IdleCommand, NoRow

\* However commands overlap, fail half-way or collide on a key, a row of the
\* registry is never lost and keeps the time it was first seen.
THEOREM RegistryForgetsNothing ==
  RegistryInit /\ [][RegistryNext]_registryVars => HistoryIsKept
<1> DEFINE Kept1 == \A i \in Instrument : registry[i].state # "none" =>
                     registry'[i].state # "none" /\ registry'[i].first = registry[i].first
<1>1. RegistryTypeOK /\ [RegistryNext]_registryVars => [Kept1]_registryVars
  <2> SUFFICES ASSUME RegistryTypeOK, RegistryNext, NEW i \in Instrument,
                      registry[i].state # "none"
               PROVE  registry'[i].state # "none" /\ registry'[i].first = registry[i].first
    OBVIOUS
  <2>1. CASE registry' = registry
    BY <2>1
  <2>2. ASSUME NEW c \in Command, Write(c), ~Conflict(c)
        PROVE  registry'[i].state # "none" /\ registry'[i].first = registry[i].first
    <3>1. registry'[i] = IF i \in Seen(c) THEN Upserted(c, i)
                         ELSE IF i \in Gone(c) THEN [registry[i] EXCEPT !.state = "DELISTED"]
                         ELSE registry[i]
      <4>1. registry' = [j \in Instrument |->
                           IF j \in Seen(c) THEN Upserted(c, j)
                           ELSE IF j \in Gone(c) THEN [registry[j] EXCEPT !.state = "DELISTED"]
                           ELSE registry[j]]
        BY <2>2 DEF Write
      <4> QED BY <4>1
    <3>2. CASE i \in Seen(c)
      <4>1. i \in command[c].existing
        BY <2>2, <3>2 DEF Conflict, Rows
      <4>2. command[c].fetched[i] # "none"
        BY DEF RegistryTypeOK
      <4> QED BY <3>1, <3>2, <4>1, <4>2 DEF Upserted
    <3>3. CASE i \notin Seen(c)
      <4>1. registry[i] \in RowType
        BY DEF RegistryTypeOK, RowType
      <4> QED BY <3>1, <3>3, <4>1 DEF RowType
    <3> QED BY <3>2, <3>3
  <2> QED BY <2>1, <2>2
          DEF RegistryNext, CommandStep, Relist, FetchFirst, FetchSecond, FetchFails,
              ReadExisting, Write
<1>2. [][RegistryNext]_registryVars /\ []RegistryTypeOK => HistoryIsKept
  BY <1>1, PTL DEF HistoryIsKept
<1> QED BY <1>2, RegistryInitTyped, RegistryStepTyped, PTL

-----------------------------------------------------------------------------
(* backfill_candles.                                                       *)

\* What has been read so far is one interval that ends at the cursor.
Whole(rows, after, top) ==
  \/ rows = {} /\ after = 0
  \/ /\ after \in Nat \ {0}
     /\ \E newest \in Nat : newest >= top /\ newest >= after /\ rows = after..newest

BackfillTyped ==
  /\ candles \in Nat /\ maxPages \in Nat
  /\ backfill \in [stage : {"idle", "page", "done"}, after : Nat, rows : SUBSET Nat,
                   pages : Nat, top : Nat]
  /\ backfill.top <= candles

BackfillReads ==
  backfill.stage = "page" => Whole(backfill.rows, backfill.after, backfill.top)

BackfillInv == BackfillTyped /\ BackfillReads /\ BackfillHasNoHole

-----------------------------------------------------------------------------
LEMMA OldestOfInterval ==
  ASSUME NEW lo \in Nat, NEW hi \in Nat, lo <= hi
  PROVE  Oldest(lo..hi) = lo
<1>1. lo \in lo..hi /\ \A k \in lo..hi : lo <= k
  OBVIOUS
<1>2. \A n \in lo..hi : (\A k \in lo..hi : n <= k) => n = lo
  BY <1>1
<1> QED BY <1>1, <1>2 DEF Oldest

\* The end of the history that a page begins at.
NewestOf(after) == IF after = 0 THEN candles ELSE after - 1

\* A page is an interval up to the cursor; a short one reaches the first candle.
LEMMA PageIsInterval ==
  ASSUME candles \in Nat, PageSize \in Nat \ {0}, NEW after \in Nat, Page(after) # {}
  PROVE  \E lo \in Nat \ {0} :
            /\ lo <= NewestOf(after) /\ Page(after) = lo..NewestOf(after)
            /\ Cardinality(Page(after)) < PageSize => lo = 1
<1> DEFINE hi == NewestOf(after)
           lo == IF hi > PageSize THEN hi - PageSize + 1 ELSE 1
<1>1. hi \in Nat /\ Page(after) = {n \in 1..hi : n > hi - PageSize}
  BY DEF Page, NewestOf
<1>2. hi >= 1
  BY <1>1
<1>3. lo \in Nat \ {0} /\ lo <= hi /\ Page(after) = lo..hi
  BY <1>1, <1>2
<1> HIDE DEF lo
<1>4. Cardinality(lo..hi) = hi - lo + 1
  BY <1>1, <1>3, FS_Interval
<1>5. Cardinality(Page(after)) < PageSize => lo = 1
  <2>1. hi > PageSize => hi - lo + 1 = PageSize
    BY <1>1 DEF lo
  <2>2. hi <= PageSize => lo = 1
    BY <1>1 DEF lo
  <2>3. Cardinality(Page(after)) = hi - lo + 1
    BY <1>3, <1>4, Zenon
  <2> HIDE DEF hi
  <2> QED BY <1>1, <1>3, <2>1, <2>2, <2>3
<1> QED BY <1>3, <1>5

-----------------------------------------------------------------------------
LEMMA BackfillInitial == BackfillInit => BackfillInv
  BY BackfillAssumption DEF BackfillInit, NotStarted, BackfillInv, BackfillTyped, BackfillReads, BackfillHasNoHole

\* The pages read and the next one are one interval again.
LEMMA NextPageKeeps ==
  ASSUME BackfillInv, NextPage
  PROVE  BackfillInv'
<1> DEFINE b == backfill
           page == Page(b.after)
           rows == b.rows \cup page
<1> USE BackfillAssumption DEF BackfillInv, BackfillTyped
<1>1. b.stage = "page" /\ Whole(b.rows, b.after, b.top) /\ UNCHANGED <<candles, maxPages>>
  BY DEF NextPage, BackfillReads
<1>2. CASE page = {}
  <2>1. b' = [b EXCEPT !.stage = "done"]
    BY <1>2 DEF NextPage
  <2>2. ASSUME b.rows # {} PROVE b.after = 1
    <3>1. b.after \in Nat \ {0}
      BY <1>1, <2>2 DEF Whole
    <3>2. b.after > 1 => b.after - 1 \in page
      BY <3>1 DEF Page
    <3> QED BY <1>2, <3>1, <3>2
  <2>3. b.rows # {} =>
          \E newest \in b.rows : newest >= b.top /\ b.rows = Oldest(b.rows)..newest
    BY <1>1, OldestOfInterval DEF Whole
  <2>4. b.rows # {} => 1 \in b.rows
    BY <1>1, <2>2 DEF Whole
  <2> QED BY <1>1, <2>1, <2>3, <2>4 DEF BackfillReads, BackfillHasNoHole
<1>3. CASE page # {}
  <2>1. PICK lo \in Nat \ {0} : /\ lo <= NewestOf(b.after) /\ page = lo..NewestOf(b.after)
                                /\ Cardinality(page) < PageSize => lo = 1
    BY <1>3, PageIsInterval
  <2>2. \E newest \in Nat : newest >= b.top /\ newest >= lo /\ rows = lo..newest
    <3>1. CASE b.after = 0
      BY <1>1, <2>1, <3>1 DEF Whole, NewestOf
    <3>2. CASE b.after # 0
      <4>1. PICK newest \in Nat : /\ newest >= b.top /\ newest >= b.after
                                  /\ b.rows = b.after..newest
        BY <1>1, <3>2 DEF Whole
      <4>2. rows = lo..newest
        BY <2>1, <3>2, <4>1 DEF NewestOf
      <4> QED BY <2>1, <3>2, <4>1, <4>2 DEF NewestOf
    <3> QED BY <3>1, <3>2
  <2>3. PICK newest \in Nat : newest >= b.top /\ newest >= lo /\ rows = lo..newest
    BY <2>2
  <2>4. Oldest(page) = lo /\ Oldest(rows) = lo /\ newest \in rows
    <3>1. NewestOf(b.after) \in Nat
      BY DEF NewestOf
    <3>2. Oldest(lo..NewestOf(b.after)) = lo /\ Oldest(lo..newest) = lo
      BY <2>1, <2>3, <3>1, OldestOfInterval
    <3>3. newest \in lo..newest
      BY <2>1, <2>3
    <3> HIDE DEF page, rows
    <3> QED BY <2>1, <2>3, <3>2, <3>3
  <2>5. lo # b.after
    BY <2>1 DEF NewestOf
  <2>6. CASE Exhausted(page)
    <3>1. lo = 1
      BY <2>1, <2>4, <2>5, <2>6 DEF Exhausted, NextAfter
    <3>2. b' = [stage |-> "done", after |-> b.after, rows |-> rows, pages |-> b.pages + 1,
                top |-> b.top]
      BY <1>3, <2>6 DEF NextPage
    <3>3. b'.rows = rows /\ b'.top = b.top /\ b'.stage = "done"
      BY <3>2
    <3>4. BackfillTyped'
      <4>1. rows \in SUBSET Nat
        BY <2>3
      <4> HIDE DEF page, rows
      <4> QED BY <1>1, <3>2, <4>1
    <3>5. 1 \in rows
      BY <2>3, <3>1
    <3> HIDE DEF page, rows
    <3> QED BY <1>1, <2>3, <2>4, <3>1, <3>3, <3>4, <3>5 DEF BackfillReads, BackfillHasNoHole
  <2>7. CASE ~Exhausted(page)
    <3>1. b' = [stage |-> "page", after |-> lo, rows |-> rows, pages |-> b.pages + 1,
                top |-> b.top]
      BY <1>1, <1>3, <2>4, <2>7 DEF NextPage, NextAfter
    <3>2. b'.rows = rows /\ b'.top = b.top /\ b'.stage = "page" /\ b'.after = lo
      BY <3>1
    <3>3. BackfillTyped'
      <4>1. rows \in SUBSET Nat
        BY <2>3
      <4> HIDE DEF page, rows
      <4> QED BY <1>1, <3>1, <4>1
    <3>4. Whole(rows, lo, b.top)
      BY <2>1, <2>3 DEF Whole
    <3> HIDE DEF page, rows
    <3> QED BY <1>1, <3>2, <3>3, <3>4 DEF BackfillReads, BackfillHasNoHole
  <2> QED BY <2>6, <2>7
<1> QED BY <1>2, <1>3

LEMMA BackfillStepKeeps == BackfillInv /\ [BackfillNext]_backfillVars => BackfillInv'
<1> SUFFICES ASSUME BackfillInv, [BackfillNext]_backfillVars PROVE BackfillInv'
  OBVIOUS
<1> USE BackfillAssumption DEF BackfillInv, BackfillTyped
<1>1. CASE NewCandle
  BY <1>1 DEF NewCandle, BackfillReads, BackfillHasNoHole
<1>2. CASE Begin
  <2>1. /\ backfill' = [stage |-> "page", after |-> 0, rows |-> {}, pages |-> 0, top |-> candles]
        /\ UNCHANGED <<candles, maxPages>>
    BY <1>2 DEF Begin, NotStarted
  <2> QED BY <2>1 DEF BackfillReads, Whole, BackfillHasNoHole
<1>3. CASE NextPage
  BY <1>3, NextPageKeeps
<1>4. CASE LastPage
  <2>1. backfill' = [backfill EXCEPT !.stage = "done"] /\ UNCHANGED <<candles, maxPages>>
    BY <1>4 DEF LastPage
  <2>2. maxPages # 0 /\ Whole(backfill.rows, backfill.after, backfill.top)
    BY <1>4 DEF LastPage, OutOfPages, BackfillReads
  <2>3. backfill.rows # {} =>
          \E newest \in backfill.rows :
             newest >= backfill.top /\ backfill.rows = Oldest(backfill.rows)..newest
    BY <2>2, OldestOfInterval DEF Whole
  <2> QED BY <2>1, <2>2, <2>3 DEF BackfillReads, BackfillHasNoHole
<1>5. CASE PageFails
  BY <1>5 DEF PageFails, NotStarted, BackfillReads, BackfillHasNoHole
<1>6. CASE UNCHANGED backfillVars
  BY <1>6 DEF backfillVars, BackfillReads, BackfillHasNoHole
<1> QED BY <1>1, <1>2, <1>3, <1>4, <1>5, <1>6 DEF BackfillNext, BackfillStep

\* Whatever the size and the number of the pages, however many candles come
\* while they are read and whichever requests fail, a backfill that ends has no
\* hole, and without a page limit it has the first candle (backfill_candles).
THEOREM BackfillIsWhole ==
  BackfillInit /\ [][BackfillNext]_backfillVars => []BackfillHasNoHole
<1>1. BackfillInv => BackfillHasNoHole
  BY DEF BackfillInv
<1> QED BY BackfillInitial, BackfillStepKeeps, <1>1, PTL

=============================================================================
