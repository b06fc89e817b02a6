-------------------------- MODULE EngineLease_proofs --------------------------
(***************************************************************************)
(* Theorems about EngineLease for any set of processes, any lease time and *)
(* any delay of the database: types, no theft of a live lease, and at most *)
(* one order sent after the lease is lost or the kill switch is engaged.   *)
(***************************************************************************)
EXTENDS EngineLease, TLAPS

Assumptions ==
  /\ TTL \in Nat /\ MaxDelay \in Nat /\ MaxTokens \in Nat
  /\ None \notin Nat /\ None \notin [token : Nat, left : Int]

LEMMA AssumptionsHold == Assumptions
  BY TTLAssumption, MaxDelayAssumption, MaxTokensAssumption, NoneAssumption
     DEF Assumptions

USE DEF Call, Gate, NoCall, NoGate

(* The types of what one action writes. *)
LEMMA TypeInit == Init => TypeOK
  BY AssumptionsHold DEF Init, TypeOK, NoCall, NoGate, Token, Age, Assumptions

LEMMA LeaveTypes ==
  ASSUME TypeOK, NEW e \in Engine, Leave(e), lease' \in [token : Token, left : Int] \cup {None}
  PROVE  TypeOK'
  BY AssumptionsHold DEF Leave, TypeOK, NoCall, NoGate, Token, Age, Assumptions

LEMMA DrawTypes ==
  ASSUME TypeOK, NEW e \in Engine, Draw(e)
  PROVE  /\ drawn' \in 0..MaxTokens
         /\ call' \in [Engine -> [stage : {"none", "read", "insert", "cas", "renew", "ended"},
                                  token : Token \cup {None}, age : Age]]
  BY AssumptionsHold DEF Draw, TypeOK, Token, Age, Assumptions

LEMMA TakeTypes ==
  ASSUME TypeOK, NEW e \in Engine, Take(e), call[e].token \in Token
  PROVE  TypeOK'
  BY AssumptionsHold DEF Take, TypeOK, NoCall, Token, Age, Assumptions

(* A call that acquires has drawn its token; this much of the invariant is *)
(* needed for the types already.                                           *)
Acquiring(e) == call[e].stage \in {"read", "insert", "cas"}

Drawn == \A e \in Engine : Acquiring(e) => call[e].token \in 1..drawn

TypeInv == TypeOK /\ Drawn

LEMMA TypeStep ==
  ASSUME TypeInv, [Next]_vars
  PROVE  TypeOK'
<1> USE AssumptionsHold
<1> USE DEF TypeInv
<1>a. ASSUME NEW e \in Engine, Start(e) PROVE TypeOK'
  BY <1>a, DrawTypes DEF Start, TypeOK
<1>b. ASSUME NEW e \in Engine, AcquireRead(e) PROVE TypeOK'
  <2>1. CASE lease # None /\ ~ExpiredAt(call[e].age)
    BY <1>b, <2>1, LeaveTypes DEF AcquireRead, TypeOK
  <2>2. CASE ~(lease # None /\ ~ExpiredAt(call[e].age))
    BY <1>b, <2>2 DEF AcquireRead, TypeOK
  <2> QED BY <2>1, <2>2
<1>c. ASSUME NEW e \in Engine, AcquireInsert(e) PROVE TypeOK'
  <2>1. CASE Take(e)
    <3>1. call[e].token \in Token
      BY <1>c DEF AcquireInsert, Drawn, Acquiring, TypeOK, Token, Assumptions
    <3> QED BY <2>1, <3>1, TakeTypes
  <2>2. CASE Draw(e) /\ UNCHANGED <<lease, state, token, gate, kill, late, defied>>
    BY <2>2, DrawTypes DEF TypeOK
  <2> QED BY <1>c, <2>1, <2>2 DEF AcquireInsert
<1>d. ASSUME NEW e \in Engine, AcquireCas(e) PROVE TypeOK'
  <2>1. CASE TakesRow(call[e].age)
    <3>1. call[e].token \in Token
      BY <1>d DEF AcquireCas, Drawn, Acquiring, TypeOK, Token, Assumptions
    <3> QED BY <1>d, <2>1, <3>1, TakeTypes DEF AcquireCas
  <2>2. CASE ~TakesRow(call[e].age)
    BY <1>d, <2>2, LeaveTypes DEF AcquireCas, TypeOK
  <2> QED BY <2>1, <2>2
<1>e. ASSUME NEW e \in Engine, Recovered(e) PROVE TypeOK'
  BY <1>e DEF Recovered, TypeOK
<1>f. ASSUME NEW e \in Engine, RenewBegin(e) PROVE TypeOK'
  BY <1>f DEF RenewBegin, TypeOK, NoCall, Age, Assumptions
<1>g. ASSUME NEW e \in Engine, RenewEnd(e) PROVE TypeOK'
  <2>1. CASE RenewsRow(e)
    <3>1. call[e].age \in Int /\ lease \in [token : Token, left : Int]
      BY <2>1 DEF RenewsRow, Has, TypeOK, Age
    <3> QED BY <1>g, <2>1, <3>1 DEF RenewEnd, TypeOK, Age, Assumptions
  <2>2. CASE ~RenewsRow(e)
    <3>1. /\ call' = [call EXCEPT ![e] = NoCall]
          /\ kill' = [kill EXCEPT ![e] = TRUE]
          /\ UNCHANGED <<lease, drawn, state, token, gate, late, defied>>
      BY <1>g, <2>2 DEF RenewEnd
    <3> QED BY <3>1 DEF TypeOK, Age, Assumptions
  <2> QED BY <2>1, <2>2
<1>h. ASSUME NEW e \in Engine, RenewRaises(e) PROVE TypeOK'
  BY <1>h DEF RenewRaises, TypeOK, NoCall, Age, Assumptions
<1>i. ASSUME NEW e \in Engine, Stop(e) PROVE TypeOK'
  BY <1>i, LeaveTypes DEF Stop, TypeOK
<1>j. ASSUME NEW e \in Engine, Crash(e) PROVE TypeOK'
  BY <1>j, LeaveTypes DEF Crash, TypeOK
<1>k. ASSUME NEW e \in Engine, NEW on \in BOOLEAN, SetKill(e, on) PROVE TypeOK'
  BY <1>k DEF SetKill, TypeOK
<1>l. ASSUME NEW e \in Engine, Ask(e) PROVE TypeOK'
  BY <1>l DEF Ask, TypeOK, Age, Assumptions
<1>m. ASSUME NEW e \in Engine, Authorize(e) PROVE TypeOK'
  BY <1>m DEF Authorize, TypeOK, NoGate, Age, Assumptions
<1>n. ASSUME NEW e \in Engine, Send(e) PROVE TypeOK'
  BY <1>n DEF Send, TypeOK, NoGate, Age, Assumptions
<1>o. CASE Tick
  BY <1>o DEF Tick, TypeOK, Age, Assumptions
<1>p. CASE UNCHANGED vars
  BY <1>p DEF vars, process, TypeOK
<1> QED
  BY <1>a, <1>b, <1>c, <1>d, <1>e, <1>f, <1>g, <1>h, <1>i, <1>j, <1>k, <1>l,
     <1>m, <1>n, <1>o, <1>p
     DEF Next, Acquire, LeaseLoop, TickLoop

LEMMA DrawnKept ==
  ASSUME TypeInv, drawn' = drawn,
         \A x \in Engine : Acquiring(x)' => Acquiring(x) /\ call'[x].token = call[x].token
  PROVE  Drawn'
  BY DEF TypeInv, Drawn

LEMMA DrawnStep ==
  ASSUME TypeInv, [Next]_vars
  PROVE  Drawn'
<1> USE AssumptionsHold
<1> USE DEF TypeInv
<1>a. ASSUME NEW e \in Engine, Draw(e) PROVE Drawn'
  BY <1>a DEF Draw, Drawn, Acquiring, TypeOK, Assumptions
<1>b. ASSUME NEW e \in Engine, Leave(e) PROVE Drawn'
  <2>1. \A x \in Engine : Acquiring(x)' => Acquiring(x) /\ call'[x].token = call[x].token
    BY <1>b DEF Leave, Acquiring, TypeOK
  <2> QED BY <1>b, <2>1, DrawnKept DEF Leave
<1>c. ASSUME NEW e \in Engine, Take(e) PROVE Drawn'
  <2>1. \A x \in Engine : Acquiring(x)' => Acquiring(x) /\ call'[x].token = call[x].token
    BY <1>c DEF Take, Acquiring, TypeOK
  <2> QED BY <1>c, <2>1, DrawnKept DEF Take
<1>d. ASSUME NEW e \in Engine, Acquire(e) PROVE Drawn'
  <2>1. CASE AcquireRead(e) /\ ~Leave(e)
    <3>1. \A x \in Engine : Acquiring(x)' => Acquiring(x) /\ call'[x].token = call[x].token
      BY <2>1 DEF AcquireRead, Acquiring, TypeOK
    <3> QED BY <2>1, <3>1, DrawnKept DEF AcquireRead
  <2> QED BY <1>a, <1>b, <1>c, <1>d, <2>1 DEF Acquire, AcquireRead, AcquireInsert, AcquireCas
<1>e. ASSUME NEW e \in Engine, Recovered(e) PROVE Drawn'
  BY <1>e, DrawnKept DEF Recovered, Acquiring
<1>f. ASSUME NEW e \in Engine, LeaseLoop(e) PROVE Drawn'
  <2>1. \A x \in Engine : Acquiring(x)' => Acquiring(x) /\ call'[x].token = call[x].token
    BY <1>f DEF LeaseLoop, RenewBegin, RenewEnd, RenewRaises, Acquiring, TypeOK
  <2> QED BY <1>f, <2>1, DrawnKept DEF LeaseLoop, RenewBegin, RenewEnd, RenewRaises
<1>k. ASSUME NEW e \in Engine, NEW on \in BOOLEAN, SetKill(e, on) PROVE Drawn'
  BY <1>k, DrawnKept DEF SetKill, Acquiring
<1>l. ASSUME NEW e \in Engine, TickLoop(e) PROVE Drawn'
  BY <1>l, DrawnKept DEF TickLoop, Ask, Authorize, Send, Acquiring
<1>o. CASE Tick
  <2>1. \A x \in Engine : Acquiring(x)' => Acquiring(x) /\ call'[x].token = call[x].token
    BY <1>o DEF Tick, Acquiring, TypeOK
  <2> QED BY <1>o, <2>1, DrawnKept DEF Tick
<1>p. CASE UNCHANGED vars
  BY <1>p, DrawnKept DEF vars, process, Acquiring
<1> QED
  BY <1>a, <1>b, <1>d, <1>e, <1>f, <1>k, <1>l, <1>o, <1>p
     DEF Next, Start, Stop, Crash

LEMMA TypeInvariance == Spec => []TypeInv
<1>1. Init => TypeInv
  BY TypeInit DEF TypeInv, Init, Drawn, Acquiring, NoCall
<1>2. TypeInv /\ [Next]_vars => TypeInv'
  BY TypeStep, DrawnStep DEF TypeInv
<1> QED BY <1>1, <1>2, PTL DEF Spec

\* Every variable of the lease and of the engines that use it keeps its type,
\* whatever the delays of the database (runtime/lease.py, runtime/engine.py).
THEOREM TypeCorrect == Spec => []TypeOK
  BY TypeInvariance, PTL DEF TypeInv

-----------------------------------------------------------------------------
(* NeverStolen needs no more than the types: the only update that gives the *)
(* row to another process requires that it had expired, and a stale clock   *)
(* only makes that harder.                                                  *)

LEMMA NotStolen ==
  ASSUME TypeInv, [Next]_vars, lease # None, lease.left > 0,
         lease' = None \/ lease'.token # lease.token
  PROVE  \E e \in Engine : Has(e) /\ state[e] = "running" /\ state'[e] = "down"
<1> USE DEF TypeInv
<1>1. lease' # lease
  OBVIOUS
<1>2. ASSUME NEW e \in Engine, AcquireInsert(e) \/ AcquireCas(e) PROVE FALSE
  <2>1. ~ExpiredAt(call[e].age)
    BY AssumptionsHold DEF ExpiredAt, TypeOK, Age, Assumptions
  <2> QED BY <1>1, <1>2, <2>1 DEF AcquireInsert, AcquireCas, TakesRow
<1>3. ASSUME NEW e \in Engine, RenewEnd(e) PROVE FALSE
  <2>1. CASE RenewsRow(e)
    <3>1. lease \in [token : Token, left : Int] /\ call[e].age \in Int
      BY <2>1 DEF RenewsRow, Has, TypeOK, Age
    <3>2. lease' \in [token : Nat, left : Int] /\ lease'.token = lease.token
      BY <1>3, <2>1, <3>1, AssumptionsHold DEF RenewEnd, Token, Assumptions
    <3> QED BY <3>2, AssumptionsHold DEF Assumptions
  <2>2. CASE ~RenewsRow(e)
    BY <1>1, <1>3, <2>2 DEF RenewEnd
  <2> QED BY <2>1, <2>2
<1>4. ASSUME NEW e \in Engine, Stop(e)
      PROVE  Has(e) /\ state[e] = "running" /\ state'[e] = "down"
  BY <1>1, <1>4 DEF Stop, Leave, TypeOK
<1>5. ~Tick
  <2> SUFFICES ASSUME Tick PROVE FALSE
    OBVIOUS
  <2>1. lease' \in [token : Nat, left : Int] /\ lease'.token = lease.token
    BY DEF Tick, TypeOK, Token
  <2> QED BY <2>1, AssumptionsHold DEF Assumptions
<1>6. ASSUME NEW e \in Engine,
             Start(e) \/ AcquireRead(e) \/ Recovered(e) \/ RenewBegin(e) \/ RenewRaises(e)
               \/ TickLoop(e) \/ Crash(e) \/ \E on \in BOOLEAN : SetKill(e, on)
      PROVE  FALSE
  BY <1>1, <1>6 DEF Start, AcquireRead, Recovered, RenewBegin, RenewRaises,
                      TickLoop, Ask, Authorize, Send, Crash, SetKill
<1>7. ~UNCHANGED vars
  BY <1>1 DEF vars
<1> QED
  BY <1>2, <1>3, <1>4, <1>5, <1>6, <1>7 DEF Next, Acquire, LeaseLoop

\* acquire never takes a lease that has not expired away from its holder
\* (the WHERE clause of LeaseManager.acquire), for any delay between its
\* reading of the clock and its update.
THEOREM LeaseIsNeverStolen == Spec => NeverStolen
<1>1. TypeInv /\ [Next]_vars =>
        [lease # None /\ lease.left > 0 /\ (lease' = None \/ lease'.token # lease.token)
           => \E e \in Engine : Has(e) /\ state[e] = "running" /\ state'[e] = "down"]_vars
  BY NotStolen
<1> QED BY <1>1, TypeInvariance, PTL DEF Spec, NeverStolen

-----------------------------------------------------------------------------
(* One late order, one defiant order.  The inductive invariant: an engine   *)
(* that still acquires has sent nothing and works on nothing; the token it  *)
(* has drawn belongs to nobody else, so that what one engine takes is never *)
(* mistaken for another's; and an order sent without the lease leaves an    *)
(* engine that has not got the lease and no second order past is_held.      *)

Starting ==
  \A e \in Engine :
    /\ Acquiring(e) => state[e] = "starting" /\ late[e] = 0 /\ defied[e] = 0
    /\ gate[e].stage # "idle" => state[e] = "running"

Known == \A e \in Engine : token[e] # None => token[e] \in 1..drawn

Fresh ==
  \A e, f \in Engine :
    Acquiring(e) =>
      /\ token[f] # call[e].token
      /\ f # e /\ Acquiring(f) => call[f].token # call[e].token

Lost ==
  \A e \in Engine :
    late[e] > 0 => late[e] = 1 /\ gate[e].stage # "send" /\ ~Has(e)

Obedient ==
  \A e \in Engine :
    defied[e] > 0 => defied[e] = 1 /\ gate[e].stage # "send" /\ kill[e]

Inv == TypeInv /\ Starting /\ Known /\ Fresh /\ Lost /\ Obedient

LEMMA StartingStep ==
  ASSUME TypeInv, Starting, TypeInv', [Next]_vars
  PROVE  Starting'
<1> USE DEF TypeInv, Starting
<1>1. ASSUME NEW e \in Engine, Start(e) PROVE Starting'
  BY <1>1 DEF Start, Draw, Acquiring, TypeOK
<1>2. ASSUME NEW e \in Engine, Leave(e), lease' = lease \/ lease' = None PROVE Starting'
  BY <1>2 DEF Leave, Acquiring, TypeOK
<1>3. ASSUME NEW e \in Engine, AcquireRead(e) /\ ~Leave(e) PROVE Starting'
  BY <1>3 DEF AcquireRead, Acquiring, TypeOK
<1>4. ASSUME NEW e \in Engine, Take(e), Acquiring(e) PROVE Starting'
  BY <1>4 DEF Take, Acquiring, TypeOK
<1>5. ASSUME NEW e \in Engine, AcquireInsert(e) /\ ~Take(e) PROVE Starting'
  BY <1>5 DEF AcquireInsert, Draw, Acquiring, TypeOK
<1>6. ASSUME NEW e \in Engine, Recovered(e) PROVE Starting'
  BY <1>6 DEF Recovered, Acquiring, TypeOK
<1>7. ASSUME NEW e \in Engine, RenewBegin(e) PROVE Starting'
  BY <1>7 DEF RenewBegin, Acquiring, TypeOK
<1>8. ASSUME NEW e \in Engine, RenewEnd(e) PROVE Starting'
  BY <1>8 DEF RenewEnd, Acquiring, TypeOK
<1>9. ASSUME NEW e \in Engine, RenewRaises(e) PROVE Starting'
  BY <1>9 DEF RenewRaises, Acquiring, TypeOK
<1>10. ASSUME NEW e \in Engine, Ask(e) PROVE Starting'
  BY <1>10 DEF Ask, Acquiring, TypeOK
<1>11. ASSUME NEW e \in Engine, Authorize(e) PROVE Starting'
  BY <1>11 DEF Authorize, Acquiring, TypeOK
<1>12. ASSUME NEW e \in Engine, Send(e) PROVE Starting'
  BY <1>12 DEF Send, Acquiring, TypeOK
<1>13. ASSUME NEW e \in Engine, NEW on \in BOOLEAN, SetKill(e, on) PROVE Starting'
  BY <1>13 DEF SetKill, Acquiring, TypeOK
<1>14. CASE Tick
  BY <1>14 DEF Tick, Acquiring, TypeOK
<1>15. CASE UNCHANGED vars
  BY <1>15 DEF vars, process, Acquiring
<1> QED
  BY <1>1, <1>2, <1>3, <1>4, <1>5, <1>6, <1>7, <1>8, <1>9, <1>10, <1>11, <1>12, <1>13, <1>14, <1>15
     DEF Next, Acquire, AcquireRead, AcquireInsert, AcquireCas, LeaseLoop, TickLoop, Stop, Crash, Acquiring

LEMMA KnownStep ==
  ASSUME TypeInv, Starting, Known, TypeInv', [Next]_vars
  PROVE  Known'
<1> USE DEF TypeInv, Known
<1>1. ASSUME NEW e \in Engine, Start(e) PROVE Known'
  BY <1>1, AssumptionsHold DEF Start, Draw, Drawn, Acquiring, TypeOK, Token, Assumptions
<1>2. ASSUME NEW e \in Engine, Leave(e), lease' = lease \/ lease' = None PROVE Known'
  BY <1>2, AssumptionsHold DEF Leave, Drawn, Acquiring, TypeOK, Token, Assumptions
<1>3. ASSUME NEW e \in Engine, AcquireRead(e) /\ ~Leave(e) PROVE Known'
  BY <1>3, AssumptionsHold DEF AcquireRead, Drawn, Acquiring, TypeOK, Token, Assumptions
<1>4. ASSUME NEW e \in Engine, Take(e), Acquiring(e) PROVE Known'
  BY <1>4, AssumptionsHold DEF Take, Drawn, Acquiring, TypeOK, Token, Assumptions
<1>5. ASSUME NEW e \in Engine, AcquireInsert(e) /\ ~Take(e) PROVE Known'
  BY <1>5, AssumptionsHold DEF AcquireInsert, Draw, Drawn, Acquiring, TypeOK, Token, Assumptions
<1>6. ASSUME NEW e \in Engine, Recovered(e) PROVE Known'
  BY <1>6, AssumptionsHold DEF Recovered, Drawn, Acquiring, TypeOK, Token, Assumptions
<1>7. ASSUME NEW e \in Engine, RenewBegin(e) PROVE Known'
  BY <1>7, AssumptionsHold DEF RenewBegin, Drawn, Acquiring, TypeOK, Token, Assumptions
<1>8. ASSUME NEW e \in Engine, RenewEnd(e) PROVE Known'
  BY <1>8, AssumptionsHold DEF RenewEnd, Drawn, Acquiring, TypeOK, Token, Assumptions
<1>9. ASSUME NEW e \in Engine, RenewRaises(e) PROVE Known'
  BY <1>9, AssumptionsHold DEF RenewRaises, Drawn, Acquiring, TypeOK, Token, Assumptions
<1>10. ASSUME NEW e \in Engine, Ask(e) PROVE Known'
  BY <1>10, AssumptionsHold DEF Ask, Drawn, Acquiring, TypeOK, Token, Assumptions
<1>11. ASSUME NEW e \in Engine, Authorize(e) PROVE Known'
  BY <1>11, AssumptionsHold DEF Authorize, Drawn, Acquiring, TypeOK, Token, Assumptions
<1>12. ASSUME NEW e \in Engine, Send(e) PROVE Known'
  BY <1>12, AssumptionsHold DEF Send, Drawn, Acquiring, TypeOK, Token, Assumptions
<1>13. ASSUME NEW e \in Engine, NEW on \in BOOLEAN, SetKill(e, on) PROVE Known'
  BY <1>13, AssumptionsHold DEF SetKill, Drawn, Acquiring, TypeOK, Token, Assumptions
<1>14. CASE Tick
  BY <1>14, AssumptionsHold DEF Tick, Drawn, Acquiring, TypeOK, Token, Assumptions
<1>15. CASE UNCHANGED vars
  BY <1>15 DEF vars, process
<1> QED
  BY <1>1, <1>2, <1>3, <1>4, <1>5, <1>6, <1>7, <1>8, <1>9, <1>10, <1>11, <1>12, <1>13, <1>14, <1>15
     DEF Next, Acquire, AcquireRead, AcquireInsert, AcquireCas, LeaseLoop, TickLoop, Stop, Crash, Acquiring

LEMMA FreshKept ==
  ASSUME Fresh, token' = token,
         \A x \in Engine : Acquiring(x)' => Acquiring(x) /\ call'[x].token = call[x].token
  PROVE  Fresh'
  BY DEF Fresh

LEMMA FreshStep ==
  ASSUME TypeInv, Starting, Known, Fresh, TypeInv', [Next]_vars
  PROVE  Fresh'
<1> USE DEF TypeInv, Fresh
<1>1. ASSUME NEW e \in Engine, Start(e) PROVE Fresh'
  BY <1>1, AssumptionsHold DEF Start, Draw, Drawn, Known, Acquiring, TypeOK, Token, Assumptions
<1>2. ASSUME NEW e \in Engine, Leave(e), lease' = lease \/ lease' = None PROVE Fresh'
  BY <1>2, AssumptionsHold DEF Leave, Drawn, Known, Acquiring, TypeOK, Token, Assumptions
<1>3. ASSUME NEW e \in Engine, AcquireRead(e) /\ ~Leave(e) PROVE Fresh'
  <2>1. /\ Acquiring(e) /\ token' = token
        /\ \E s \in {"insert", "cas"} :
             call' = [call EXCEPT ![e] = Call(s, call[e].token, call[e].age)]
    BY <1>3 DEF AcquireRead, Acquiring
  <2>2. \A x \in Engine : Acquiring(x)' => Acquiring(x) /\ call'[x].token = call[x].token
    BY <2>1 DEF Acquiring, TypeOK
  <2> QED BY <2>1, <2>2, FreshKept
<1>4. ASSUME NEW e \in Engine, Take(e), Acquiring(e) PROVE Fresh'
  BY <1>4, AssumptionsHold DEF Take, Drawn, Known, Acquiring, TypeOK, Token, Assumptions
<1>5. ASSUME NEW e \in Engine, AcquireInsert(e) /\ ~Take(e) PROVE Fresh'
  <2>1. Acquiring(e) /\ Draw(e) /\ token' = token
    BY <1>5 DEF AcquireInsert, Acquiring
  <2>2. /\ call'[e].token = drawn + 1
        /\ \A x \in Engine \ {e} : call'[x] = call[x]
    BY <2>1 DEF Draw, TypeOK
  <2>3. \A x \in Engine : /\ token[x] # drawn + 1
                          /\ Acquiring(x) => call[x].token # drawn + 1
    <3>1. drawn + 1 \in Nat /\ drawn + 1 \notin 1..drawn /\ None # drawn + 1
      BY AssumptionsHold DEF TypeOK, Assumptions
    <3> QED BY <3>1 DEF Drawn, Known
  <2> SUFFICES ASSUME NEW x \in Engine, NEW y \in Engine, Acquiring(x)'
               PROVE  /\ token'[y] # call'[x].token
                      /\ y # x /\ Acquiring(y)' => call'[y].token # call'[x].token
    BY DEF Fresh
  <2> QED BY <2>1, <2>2, <2>3 DEF Acquiring
<1>6. ASSUME NEW e \in Engine, Recovered(e) PROVE Fresh'
  BY <1>6, AssumptionsHold DEF Recovered, Drawn, Known, Acquiring, TypeOK, Token, Assumptions
<1>7. ASSUME NEW e \in Engine, RenewBegin(e) PROVE Fresh'
  <2>1. \A x \in Engine : Acquiring(x)' => Acquiring(x) /\ call'[x].token = call[x].token
    BY <1>7 DEF RenewBegin, Acquiring, TypeOK
  <2> QED BY <1>7, <2>1, FreshKept DEF RenewBegin
<1>8. ASSUME NEW e \in Engine, RenewEnd(e) PROVE Fresh'
  <2>1. \A x \in Engine : Acquiring(x)' => Acquiring(x) /\ call'[x].token = call[x].token
    BY <1>8 DEF RenewEnd, Acquiring, TypeOK
  <2> QED BY <1>8, <2>1, FreshKept DEF RenewEnd
<1>9. ASSUME NEW e \in Engine, RenewRaises(e) PROVE Fresh'
  <2>1. \A x \in Engine : Acquiring(x)' => Acquiring(x) /\ call'[x].token = call[x].token
    BY <1>9 DEF RenewRaises, Acquiring, TypeOK
  <2> QED BY <1>9, <2>1, FreshKept DEF RenewRaises
<1>10. ASSUME NEW e \in Engine, Ask(e) PROVE Fresh'
  BY <1>10, AssumptionsHold DEF Ask, Drawn, Known, Acquiring, TypeOK, Token, Assumptions
<1>11. ASSUME NEW e \in Engine, Authorize(e) PROVE Fresh'
  BY <1>11, AssumptionsHold DEF Authorize, Drawn, Known, Acquiring, TypeOK, Token, Assumptions
<1>12. ASSUME NEW e \in Engine, Send(e) PROVE Fresh'
  BY <1>12, AssumptionsHold DEF Send, Drawn, Known, Acquiring, TypeOK, Token, Assumptions
<1>13. ASSUME NEW e \in Engine, NEW on \in BOOLEAN, SetKill(e, on) PROVE Fresh'
  BY <1>13, AssumptionsHold DEF SetKill, Drawn, Known, Acquiring, TypeOK, Token, Assumptions
<1>14. CASE Tick
  BY <1>14, AssumptionsHold DEF Tick, Drawn, Known, Acquiring, TypeOK, Token, Assumptions
<1>15. CASE UNCHANGED vars
  BY <1>15 DEF vars, process, Acquiring
<1> QED
  BY <1>1, <1>2, <1>3, <1>4, <1>5, <1>6, <1>7, <1>8, <1>9, <1>10, <1>11, <1>12, <1>13, <1>14, <1>15
     DEF Next, Acquire, AcquireRead, AcquireInsert, AcquireCas, LeaseLoop, TickLoop, Stop, Crash, Acquiring

LEMMA LostStep ==
  ASSUME Inv, TypeInv', [Next]_vars
  PROVE  Lost'
<1> USE DEF TypeInv, Lost
<1>1. ASSUME NEW e \in Engine, Start(e) PROVE Lost'
  BY <1>1, AssumptionsHold DEF Start, Draw, Inv, Starting, Has, Acquiring, TypeOK, Token, Assumptions
<1>2. ASSUME NEW e \in Engine, Leave(e), lease' = lease \/ lease' = None PROVE Lost'
  BY <1>2, AssumptionsHold DEF Leave, Inv, Starting, Has, Acquiring, TypeOK, Token, Assumptions
<1>3. ASSUME NEW e \in Engine, AcquireRead(e) /\ ~Leave(e) PROVE Lost'
  BY <1>3, AssumptionsHold DEF AcquireRead, Inv, Starting, Has, Acquiring, TypeOK, Token, Assumptions
<1>4. ASSUME NEW e \in Engine, Take(e), Acquiring(e) PROVE Lost'
  <2> SUFFICES ASSUME NEW x \in Engine, late'[x] > 0
               PROVE  late'[x] = 1 /\ gate'[x].stage # "send" /\ ~Has(x)'
    BY DEF Lost
  <2>1. late' = late /\ gate' = gate /\ lease'.token = call[e].token
    BY <1>4 DEF Take
  <2>2. x # e
    BY <1>4, <2>1 DEF Inv, Starting
  <2>3. token'[x] = token[x] /\ token[x] # call[e].token
    BY <1>4, <2>2 DEF Take, Inv, Fresh, TypeOK
  <2> QED BY <2>1, <2>3 DEF Inv, Has
<1>5. ASSUME NEW e \in Engine, AcquireInsert(e) /\ ~Take(e) PROVE Lost'
  BY <1>5, AssumptionsHold DEF AcquireInsert, Draw, Inv, Starting, Has, Acquiring, TypeOK, Token, Assumptions
<1>6. ASSUME NEW e \in Engine, Recovered(e) PROVE Lost'
  BY <1>6, AssumptionsHold DEF Recovered, Inv, Starting, Has, Acquiring, TypeOK, Token, Assumptions
<1>7. ASSUME NEW e \in Engine, RenewBegin(e) PROVE Lost'
  BY <1>7, AssumptionsHold DEF RenewBegin, Inv, Starting, Has, Acquiring, TypeOK, Token, Assumptions
<1>8. ASSUME NEW e \in Engine, RenewEnd(e) PROVE Lost'
  <2>1. late' = late /\ gate' = gate /\ token' = token
    BY <1>8 DEF RenewEnd
  <2>2. \A x \in Engine : Has(x)' => Has(x)
    <3>1. CASE RenewsRow(e)
      BY <1>8, <3>1 DEF RenewEnd, RenewsRow, Has
    <3>2. CASE ~RenewsRow(e)
      BY <1>8, <3>2 DEF RenewEnd, Has
    <3> QED BY <3>1, <3>2
  <2> QED BY <2>1, <2>2 DEF Inv
<1>9. ASSUME NEW e \in Engine, RenewRaises(e) PROVE Lost'
  BY <1>9, AssumptionsHold DEF RenewRaises, Inv, Starting, Has, Acquiring, TypeOK, Token, Assumptions
<1>10. ASSUME NEW e \in Engine, Ask(e) PROVE Lost'
  BY <1>10, AssumptionsHold DEF Ask, Inv, Starting, Has, Acquiring, TypeOK, Token, Assumptions
<1>11. ASSUME NEW e \in Engine, Authorize(e) PROVE Lost'
  <2>1. late' = late /\ token' = token /\ lease' = lease
    BY <1>11 DEF Authorize
  <2>2. \A x \in Engine : gate'[x].stage = "send" => gate[x].stage = "send" \/ Has(x)
    BY <1>11 DEF Authorize, IsHeld, Inv, TypeOK
  <2> QED BY <2>1, <2>2 DEF Inv, Has
<1>12. ASSUME NEW e \in Engine, Send(e) PROVE Lost'
  BY <1>12, AssumptionsHold DEF Send, Inv, Starting, Has, Acquiring, TypeOK, Token, Assumptions
<1>13. ASSUME NEW e \in Engine, NEW on \in BOOLEAN, SetKill(e, on) PROVE Lost'
  BY <1>13, AssumptionsHold DEF SetKill, Inv, Starting, Has, Acquiring, TypeOK, Token, Assumptions
<1>14. CASE Tick
  BY <1>14, AssumptionsHold DEF Tick, Inv, Starting, Has, Acquiring, TypeOK, Token, Assumptions
<1>15. CASE UNCHANGED vars
  BY <1>15 DEF vars, process, Has, Inv
<1> QED
  BY <1>1, <1>2, <1>3, <1>4, <1>5, <1>6, <1>7, <1>8, <1>9, <1>10, <1>11, <1>12, <1>13, <1>14, <1>15
     DEF Next, Acquire, AcquireRead, AcquireInsert, AcquireCas, LeaseLoop, TickLoop, Stop, Crash, Acquiring

LEMMA ObedientStep ==
  ASSUME Inv, TypeInv', [Next]_vars
  PROVE  Obedient'
<1> USE DEF TypeInv, Obedient
<1>1. ASSUME NEW e \in Engine, Start(e) PROVE Obedient'
  BY <1>1, AssumptionsHold DEF Start, Draw, Inv, Starting, Killed, Acquiring, TypeOK
<1>2. ASSUME NEW e \in Engine, Leave(e), lease' = lease \/ lease' = None PROVE Obedient'
  BY <1>2, AssumptionsHold DEF Leave, Inv, Starting, Killed, Acquiring, TypeOK
<1>3. ASSUME NEW e \in Engine, AcquireRead(e) /\ ~Leave(e) PROVE Obedient'
  BY <1>3, AssumptionsHold DEF AcquireRead, Inv, Starting, Killed, Acquiring, TypeOK
<1>4. ASSUME NEW e \in Engine, Take(e), Acquiring(e) PROVE Obedient'
  BY <1>4, AssumptionsHold DEF Take, Inv, Starting, Killed, Acquiring, TypeOK
<1>5. ASSUME NEW e \in Engine, AcquireInsert(e) /\ ~Take(e) PROVE Obedient'
  BY <1>5, AssumptionsHold DEF AcquireInsert, Draw, Inv, Starting, Killed, Acquiring, TypeOK
<1>6. ASSUME NEW e \in Engine, Recovered(e) PROVE Obedient'
  BY <1>6, AssumptionsHold DEF Recovered, Inv, Starting, Killed, Acquiring, TypeOK
<1>7. ASSUME NEW e \in Engine, RenewBegin(e) PROVE Obedient'
  BY <1>7, AssumptionsHold DEF RenewBegin, Inv, Starting, Killed, Acquiring, TypeOK
<1>8. ASSUME NEW e \in Engine, RenewEnd(e) PROVE Obedient'
  BY <1>8, AssumptionsHold DEF RenewEnd, Inv, Starting, Killed, Acquiring, TypeOK
<1>9. ASSUME NEW e \in Engine, RenewRaises(e) PROVE Obedient'
  BY <1>9, AssumptionsHold DEF RenewRaises, Inv, Starting, Killed, Acquiring, TypeOK
<1>10. ASSUME NEW e \in Engine, Ask(e) PROVE Obedient'
  BY <1>10, AssumptionsHold DEF Ask, Inv, Starting, Killed, Acquiring, TypeOK
<1>11. ASSUME NEW e \in Engine, Authorize(e) PROVE Obedient'
  BY <1>11, AssumptionsHold DEF Authorize, Inv, Starting, Killed, Acquiring, TypeOK
<1>12. ASSUME NEW e \in Engine, Send(e) PROVE Obedient'
  BY <1>12, AssumptionsHold DEF Send, Inv, Starting, Killed, Acquiring, TypeOK
<1>13. ASSUME NEW e \in Engine, NEW on \in BOOLEAN, SetKill(e, on) PROVE Obedient'
  BY <1>13, AssumptionsHold DEF SetKill, Inv, Starting, Killed, Acquiring, TypeOK
<1>14. CASE Tick
  BY <1>14, AssumptionsHold DEF Tick, Inv, Starting, Killed, Acquiring, TypeOK
<1>15. CASE UNCHANGED vars
  BY <1>15 DEF vars, process, Inv
<1> QED
  BY <1>1, <1>2, <1>3, <1>4, <1>5, <1>6, <1>7, <1>8, <1>9, <1>10, <1>11, <1>12, <1>13, <1>14, <1>15
     DEF Next, Acquire, AcquireRead, AcquireInsert, AcquireCas, LeaseLoop, TickLoop, Stop, Crash, Acquiring

LEMMA Invariance == Spec => []Inv
<1>1. Init => Inv
  <2> SUFFICES ASSUME Init PROVE Inv
    OBVIOUS
  <2>1. TypeInv
    BY TypeInit DEF TypeInv, Init, Drawn, Acquiring
  <2> QED
    BY <2>1 DEF Init, Inv, Starting, Known, Fresh, Lost, Obedient, Acquiring
<1>2. Inv /\ [Next]_vars => Inv'
  <2> SUFFICES ASSUME Inv, [Next]_vars PROVE Inv'
    OBVIOUS
  <2>1. TypeInv'
    BY TypeStep, DrawnStep DEF TypeInv, Inv
  <2> QED
    BY <2>1, StartingStep, KnownStep, FreshStep, LostStep, ObedientStep DEF Inv
<1> QED BY <1>1, <1>2, PTL DEF Spec

\* Whatever the clock, the database and the other processes do, an engine
\* sends at most one order between losing its lease and its next start
\* (is_held in process_signal), for any number of processes.
THEOREM AtMostOneLateOrder == Spec => []OneLateOrder
<1>1. Inv => OneLateOrder
  <2> SUFFICES ASSUME Inv, NEW e \in Engine PROVE late[e] <= 1
    BY DEF OneLateOrder
  <2>1. late[e] \in Nat /\ (late[e] > 0 => late[e] = 1)
    BY DEF Inv, Lost, TypeInv, TypeOK
  <2> QED BY <2>1
<1> QED BY <1>1, Invariance, PTL

\* The same for an engaged kill switch (ExecutionAuthority.authorize).
THEOREM AtMostOneDefiantOrder == Spec => []OneDefiantOrder
<1>1. Inv => OneDefiantOrder
  <2> SUFFICES ASSUME Inv, NEW e \in Engine PROVE defied[e] <= 1
    BY DEF OneDefiantOrder
  <2>1. defied[e] \in Nat /\ (defied[e] > 0 => defied[e] = 1)
    BY DEF Inv, Obedient, TypeInv, TypeOK
  <2> QED BY <2>1
<1> QED BY <1>1, Invariance, PTL
=============================================================================
