----------------------------- MODULE EngineLease -----------------------------
(***************************************************************************)
(* Engine processes that share one database and contend for the execution  *)
(* lease: LeaseManager (runtime/lease.py), the part of TradingEngine that  *)
(* acquires, renews and releases the lease, and the gates of               *)
(* process_signal that ask for it and for the kill switch before an order  *)
(* goes out.                                                               *)
(*                                                                         *)
(* Every LeaseManager method reads the clock first and the table later, so *)
(* each is a step that notes the time (age 0) and a step that uses it age  *)
(* ticks afterwards.  Instants are kept relative to the present: the row   *)
(* holds the ticks left before expires_at, negative once it has passed.    *)
(* A process runs one TradingEngine, started and stopped by the lifespan   *)
(* of the API; run_id, and with it the owner of the lease, is new at every *)
(* start, so the branch for an owner that already has the lease is never   *)
(* taken here and the token stands for the owner as well.                  *)
(***************************************************************************)
EXTENDS Integers

CONSTANTS
  Engine,     \* the engine processes
  None,       \* no row, no token
  TTL,        \* run_lease_ttl_seconds
  MaxDelay,   \* bound: ticks between reading the clock and using the table
  MaxTokens   \* bound: tokens drawn per behaviour

ASSUME TTLAssumption == TTL \in Nat \ {0}
ASSUME MaxDelayAssumption == MaxDelay \in Nat
ASSUME MaxTokensAssumption == MaxTokens \in Nat
ASSUME NoneAssumption == None \notin Nat /\ None \notin [token : Nat, left : Int]

VARIABLES
  lease,      \* the row of runtime_leases: [token, left], or None
  drawn,      \* the number of tokens drawn with new_id("lease")
  state,      \* engine -> "down", "starting", "recovering" or "running"
  token,      \* engine -> the token of self.lease, or None
  call,       \* engine -> its acquire or renew in progress, or "ended" when
              \* its lease loop is no more
  gate,       \* engine -> [stage, age]: the order its tick task works on
  kill,       \* engine -> its kill switch
  late,       \* engine -> orders sent since its lease was lost
  defied      \* engine -> orders sent since its kill switch was engaged

process == <<state, token, call, gate, kill, late, defied>>
vars    == <<lease, drawn, process>>

Token  == 1..MaxTokens
Age    == 0..MaxDelay

\* A call of the lease manager and the work of the tick task, with the ticks
\* since each of them read the clock.
Call(stage, tok, age) == [stage |-> stage, token |-> tok, age |-> age]
Gate(stage, age) == [stage |-> stage, age |-> age]
NoCall == Call("none", None, 0)
NoGate == Gate("idle", 0)

TypeOK ==
  /\ lease \in [token : Token, left : Int] \cup {None}
  /\ drawn \in 0..MaxTokens
  /\ state \in [Engine -> {"down", "starting", "recovering", "running"}]
  /\ token \in [Engine -> Token \cup {None}]
  /\ call \in [Engine -> [stage : {"none", "read", "insert", "cas", "renew", "ended"},
                          token : Token \cup {None}, age : Age]]
  /\ gate \in [Engine -> [stage : {"idle", "ask", "send"}, age : Age]]
  /\ kill \in [Engine -> BOOLEAN]
  /\ late \in [Engine -> Nat]
  /\ defied \in [Engine -> Nat]

Init ==
  /\ lease = None
  /\ drawn = 0
  /\ state = [e \in Engine |-> "down"]
  /\ token = [e \in Engine |-> None]
  /\ call = [e \in Engine |-> NoCall]
  /\ gate = [e \in Engine |-> NoGate]
  /\ kill = [e \in Engine |-> FALSE]
  /\ late = [e \in Engine |-> 0]
  /\ defied = [e \in Engine |-> 0]

\* The row has expired at the instant that was age ticks ago.
ExpiredAt(age) == lease.left + age <= 0

\* Engine e's lease is the row of the table.
Has(e) == lease # None /\ lease.token = token[e]

-----------------------------------------------------------------------------
(* LeaseManager.acquire, called by start().                                *)

\* acquire reads the clock and draws a token.
Draw(e) ==
  /\ drawn < MaxTokens
  /\ drawn' = drawn + 1
  /\ call' = [call EXCEPT ![e] = Call("read", drawn + 1, 0)]

\* A new process: its kill switch is off and nothing was sent.
Start(e) ==
  /\ state[e] = "down"
  /\ Draw(e)
  /\ state' = [state EXCEPT ![e] = "starting"]
  /\ kill' = [kill EXCEPT ![e] = FALSE]
  /\ late' = [late EXCEPT ![e] = 0]
  /\ defied' = [defied EXCEPT ![e] = 0]
  /\ UNCHANGED <<lease, token, gate>>

\* The process is gone, and what it was doing with it.
Leave(e) ==
  /\ state' = [state EXCEPT ![e] = "down"]
  /\ token' = [token EXCEPT ![e] = None]
  /\ call' = [call EXCEPT ![e] = NoCall]
  /\ gate' = [gate EXCEPT ![e] = NoGate]
  /\ UNCHANGED <<drawn, kill, late, defied>>

\* acquire looks at the row: LeaseNotHeld while it has not expired, which
\* fails the startup of the process.
AcquireRead(e) ==
  /\ call[e].stage = "read"
  /\ IF lease # None /\ ~ExpiredAt(call[e].age)
     THEN Leave(e)
     ELSE /\ call' = [call EXCEPT ![e] =
                        Call(IF lease = None THEN "insert" ELSE "cas",
                             call[e].token, call[e].age)]
          /\ UNCHANGED <<drawn, state, token, gate, kill, late, defied>>
  /\ UNCHANGED lease

\* The row is e's from here on.
Take(e) ==
  /\ lease' = [token |-> call[e].token, left |-> TTL - call[e].age]
  /\ token' = [token EXCEPT ![e] = call[e].token]
  /\ call' = [call EXCEPT ![e] = NoCall]
  /\ state' = [state EXCEPT ![e] = "recovering"]
  /\ UNCHANGED <<drawn, gate, kill, late, defied>>

\* The lease_key is unique: when another process inserted its row first,
\* acquire starts again.
AcquireInsert(e) ==
  /\ call[e].stage = "insert"
  /\ \/ lease = None /\ Take(e)
     \/ /\ lease # None /\ Draw(e)
        /\ UNCHANGED <<lease, state, token, gate, kill, late, defied>>

\* Variant: the update is not conditional on the row having expired.
TakesAnyRow(age) == lease # None

\* The WHERE clause of the update that takes an expired row.
TakesRow(age) == lease # None /\ ExpiredAt(age)

\* The conditional update changes one row or none; none fails the startup.
AcquireCas(e) ==
  /\ call[e].stage = "cas"
  /\ IF TakesRow(call[e].age)
     THEN Take(e)
     ELSE Leave(e) /\ UNCHANGED lease

-----------------------------------------------------------------------------
(* The life of an engine that has acquired the lease.                      *)

\* Recovery is over; only now are the tick and lease loops started.
Recovered(e) ==
  /\ state[e] = "recovering"
  /\ state' = [state EXCEPT ![e] = "running"]
  /\ UNCHANGED <<lease, drawn, token, call, gate, kill, late, defied>>

\* Variant: a renewal extends the row whoever has it.
RenewsAnyRow(e) == lease # None /\ ~ExpiredAt(call[e].age)

\* The WHERE clause of renew.
RenewsRow(e) == Has(e) /\ ~ExpiredAt(call[e].age)

\* The lease loop wakes up.
RenewBegin(e) ==
  /\ state[e] = "running" /\ call[e].stage = "none"
  /\ call' = [call EXCEPT ![e] = Call("renew", None, 0)]
  /\ UNCHANGED <<lease, drawn, state, token, gate, kill, late, defied>>

\* renew extends the row from the instant the clock was read; when there is
\* nothing to extend, the kill switch is engaged.
RenewEnd(e) ==
  /\ call[e].stage = "renew"
  /\ IF RenewsRow(e)
     THEN /\ lease' = [token |-> lease.token, left |-> TTL - call[e].age]
          /\ UNCHANGED kill
     ELSE /\ kill' = [kill EXCEPT ![e] = TRUE]
          /\ UNCHANGED lease
  /\ call' = [call EXCEPT ![e] = NoCall]
  /\ UNCHANGED <<drawn, state, token, gate, late, defied>>

\* The database call of renew raises: nothing catches it, the lease loop is
\* over, and nobody looks at its task before stop().
RenewRaises(e) ==
  /\ call[e].stage = "renew"
  /\ call' = [call EXCEPT ![e] = Call("ended", None, 0)]
  /\ UNCHANGED <<lease, drawn, state, token, gate, kill, late, defied>>

\* stop() cancels the loops and deletes the row if it is still e's.  When the
\* lease loop died of an exception, awaiting its task raises that exception
\* in stop(), which then never reaches the release.
Stop(e) ==
  /\ state[e] = "running"
  /\ Leave(e)
  /\ lease' = IF Has(e) /\ call[e].stage # "ended" THEN None ELSE lease

\* The process dies; or recovery fails and start() with it; or the tick task
\* died before and stop() fails without releasing the lease.
Crash(e) ==
  /\ state[e] # "down"
  /\ Leave(e)
  /\ UNCHANGED lease

\* POST /killswitch.
SetKill(e, on) ==
  /\ state[e] = "running" /\ kill[e] # on
  /\ kill' = [kill EXCEPT ![e] = on]
  /\ defied' = [defied EXCEPT ![e] = 0]
  /\ UNCHANGED <<lease, drawn, state, token, call, gate, late>>

-----------------------------------------------------------------------------
(* process_signal in the one tick task.                                    *)

\* Variants: the kill switch is not looked at; the lease is believed in
\* rather than looked up.
NeverKilled(e)  == FALSE
BelievedHeld(e) == token[e] # None

\* The kill switch, read by RiskEngine.check and by ExecutionAuthority.
Killed(e) == kill[e]

\* is_held, with the instant at which it was called.
IsHeld(e) == Has(e) /\ ~ExpiredAt(gate[e].age)

\* RiskEngine.check approves, and is_held is called.
Ask(e) ==
  /\ state[e] = "running" /\ gate[e].stage = "idle"
  /\ ~Killed(e)
  /\ gate' = [gate EXCEPT ![e] = Gate("ask", 0)]
  /\ UNCHANGED <<lease, drawn, state, token, call, kill, late, defied>>

\* is_held returns and ExecutionAuthority decides without a pause.
Authorize(e) ==
  /\ gate[e].stage = "ask"
  /\ gate' = [gate EXCEPT ![e] =
                IF IsHeld(e) /\ ~Killed(e)
                THEN Gate("send", 0) ELSE NoGate]
  /\ UNCHANGED <<lease, drawn, state, token, call, kill, late, defied>>

\* The order is persisted, in several database calls, and submitted.
Send(e) ==
  /\ gate[e].stage = "send"
  /\ gate' = [gate EXCEPT ![e] = NoGate]
  /\ late' = [late EXCEPT ![e] = IF Has(e) THEN @ ELSE @ + 1]
  /\ defied' = [defied EXCEPT ![e] = IF kill[e] THEN @ + 1 ELSE @]
  /\ UNCHANGED <<lease, drawn, state, token, call, kill>>

-----------------------------------------------------------------------------
\* One tick of the clock; no call is kept waiting longer than MaxDelay, and
\* a row that expired longer ago than that is simply expired.
Tick ==
  /\ \A e \in Engine : call[e].age < MaxDelay /\ gate[e].age < MaxDelay
  /\ lease' = IF lease = None THEN None
              ELSE [token |-> lease.token,
                    left |-> IF lease.left > -MaxDelay THEN lease.left - 1
                             ELSE lease.left]
  /\ call' = [e \in Engine |-> IF call[e].stage \in {"none", "ended"} THEN call[e]
                               ELSE Call(call[e].stage, call[e].token, call[e].age + 1)]
  /\ gate' = [e \in Engine |-> IF gate[e].stage # "ask" THEN gate[e]
                               ELSE Gate(gate[e].stage, gate[e].age + 1)]
  /\ UNCHANGED <<drawn, state, token, kill, late, defied>>

Acquire(e) == AcquireRead(e) \/ AcquireInsert(e) \/ AcquireCas(e)
LeaseLoop(e) == RenewBegin(e) \/ RenewEnd(e) \/ RenewRaises(e)
TickLoop(e) == Ask(e) \/ Authorize(e) \/ Send(e)

Next ==
  \/ \E e \in Engine :
       \/ Start(e) \/ Acquire(e) \/ Recovered(e) \/ LeaseLoop(e) \/ TickLoop(e)
       \/ Stop(e) \/ Crash(e) \/ \E on \in BOOLEAN : SetKill(e, on)
  \/ Tick

Spec == Init /\ [][Next]_vars

\* asyncio wakes the lease loop after its sleep and resumes it when the
\* database has answered.
FairSpec == Spec /\ \A e \in Engine : WF_vars(LeaseLoop(e))

-----------------------------------------------------------------------------
(* Properties.                                                             *)

\* A lease that has not expired changes hands only when its holder lets go
\* of it: acquire never takes it away, however stale its reading of the clock
\* or of the row.
NeverStolen ==
  [][lease # None /\ lease.left > 0 /\ (lease' = None \/ lease'.token # lease.token)
       => \E e \in Engine : Has(e) /\ state[e] = "running" /\ state'[e] = "down"]_vars

\* Between losing its lease and its next start an engine sends at most one
\* order, the one that had passed is_held before.
OneLateOrder == \A e \in Engine : late[e] <= 1

\* The same for the kill switch: it stops everything but the order that had
\* passed both of its readings before it was engaged.
OneDefiantOrder == \A e \in Engine : defied[e] <= 1

\* An engine that runs without its lease engages its kill switch or ends,
\* unless the loop that would notice has died of a database error.
LossIsNoticed ==
  \A e \in Engine :
    state[e] = "running" /\ ~Has(e)
      ~> state[e] # "running" \/ kill[e] \/ call[e].stage = "ended"

\* Only the holder of the execution lease submits orders.
OnlyHolderSubmits == \A e \in Engine : late[e] = 0
=============================================================================
