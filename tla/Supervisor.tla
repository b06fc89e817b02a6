------------------------------ MODULE Supervisor ------------------------------
(***************************************************************************)
(* TradingRuntimeSupervisor: its loops, the tasks that watch over them and *)
(* the execution lease it holds under a fixed owner, which another process *)
(* may take once it has expired.  A loop may run in several copies: start  *)
(* makes a new one of each and remembers no other task.                    *)
(***************************************************************************)
EXTENDS Integers

CONSTANTS
  Loop,            \* the loops, with the two that use the lease:
  Execution, LeaseRenew,
  NoLease,         \* no row
  Mine, Other,     \* owners of the lease
  MaxTokens,       \* bound: tokens of leases drawn
  MaxCopies,       \* bound: copies of one loop that run at one time
  MaxBreakdowns    \* bound: loops that crash, failed renewals, and deaths of the process

ASSUME SupervisorAssumption ==
  /\ {Execution, LeaseRenew} \subseteq Loop /\ Mine # Other
  /\ {MaxTokens, MaxCopies, MaxBreakdowns} \subseteq Nat

VARIABLES
  row,         \* the row of runtime_leases, NoLease without
  tokens,      \* tokens drawn so far
  held,        \* token of _lease, 0 without
  fence,       \* fence_generation of _lease
  state,       \* status.runtime_state
  valid,       \* status.lease_valid
  stopping,    \* _stopping
  leaving,     \* a stop is under way
  copies,      \* loop -> copies that run
  task,        \* loop -> what its entry in _tasks is: a copy that runs, a finished
               \* loop that is restarted over and over, or nothing
  breakdowns

supervisorVars == <<row, tokens, held, fence, state, valid, stopping, leaving, copies, task, breakdowns>>

SupervisorInit ==
  /\ row = NoLease /\ tokens = 0 /\ held = 0 /\ fence = 0
  /\ state = "STOPPED" /\ valid = FALSE /\ stopping = FALSE /\ leaving = FALSE
  /\ copies = [l \in Loop |-> 0] /\ task = [l \in Loop |-> "none"]
  /\ breakdowns = 0

IsLive == row # NoLease /\ row.live

IsHeld == IsLive /\ row.token = held

Breakdown == breakdowns < MaxBreakdowns /\ breakdowns' = breakdowns + 1

-----------------------------------------------------------------------------
(* start and stop.                                                         *)

\* A row is made with generation 1, an expired one is taken over with the next.
Taken(owner) == [owner |-> owner, token |-> tokens + 1, live |-> TRUE,
                 generation |-> IF row = NoLease THEN 1 ELSE row.generation + 1]

StartRefused ==
  /\ state # "RUNNING" /\ ~leaving
  /\ IsLive /\ row.owner # Mine
  /\ state' = "HALTED" /\ held' = 0
  /\ UNCHANGED <<row, tokens, fence, valid, stopping, leaving, copies, task, breakdowns>>

\* acquire by the owner of a live lease extends it, and returns its token with the default
\* of fence_generation.
Reacquire ==
  /\ IsLive /\ row.owner = Mine
  /\ held' = row.token /\ fence' = 1
  /\ UNCHANGED <<row, tokens>>

Acquire ==
  /\ ~IsLive /\ tokens < MaxTokens
  /\ row' = Taken(Mine) /\ tokens' = tokens + 1
  /\ held' = tokens + 1 /\ fence' = Taken(Mine).generation

\* A new copy of every loop; the tasks of the loops before are forgotten.
Start ==
  /\ state # "RUNNING" /\ ~leaving
  /\ Reacquire \/ Acquire
  /\ state' = "RUNNING" /\ stopping' = FALSE
  /\ \A l \in Loop : copies[l] < MaxCopies
  /\ copies' = [l \in Loop |-> copies[l] + 1]
  /\ task' = [l \in Loop |-> "running"]
  /\ UNCHANGED <<valid, leaving, breakdowns>>

\* Variant: stop only cancels the tasks it knows.
NoFlag == stopping

Flagged == TRUE

\* Every task in _tasks is cancelled.
BeginStop ==
  /\ state # "STOPPED" /\ ~leaving
  /\ stopping' = Flagged /\ leaving' = TRUE
  /\ copies' = [l \in Loop |-> IF task[l] = "running" THEN copies[l] - 1 ELSE copies[l]]
  /\ task' = [l \in Loop |-> "none"]
  /\ UNCHANGED <<row, tokens, held, fence, state, valid, breakdowns>>

\* release deletes the row of this token.
Released == IF row # NoLease THEN IF row.token = held THEN NoLease ELSE row ELSE row

EndStop ==
  /\ leaving
  /\ row' = Released
  /\ state' = "STOPPED" /\ leaving' = FALSE
  /\ UNCHANGED <<tokens, held, fence, valid, stopping, copies, task, breakdowns>>

\* The process dies, and another one may start.
Die ==
  /\ Breakdown
  /\ held' = 0 /\ fence' = 0 /\ state' = "STOPPED" /\ valid' = FALSE
  /\ stopping' = FALSE /\ leaving' = FALSE
  /\ copies' = [l \in Loop |-> 0] /\ task' = [l \in Loop |-> "none"]
  /\ UNCHANGED <<row, tokens>>

-----------------------------------------------------------------------------
(* The loops.                                                              *)

\* A copy sees the flag.
Leave(l) ==
  /\ stopping /\ copies[l] > 0
  /\ copies' = [copies EXCEPT ![l] = @ - 1]
  /\ task' = [task EXCEPT ![l] = IF copies[l] = 1 THEN "none" ELSE @]
  /\ UNCHANGED <<row, tokens, held, fence, state, valid, stopping, leaving, breakdowns>>

\* _supervised awaits the same coroutine again, which has finished: it raises at once,
\* and a task is created for it again.
Respawned(l) ==
  /\ copies' = [copies EXCEPT ![l] = @ - 1]
  /\ task' = [task EXCEPT ![l] = "finished"]

\* A callback or the database raises.
Crash(l) ==
  /\ copies[l] > 0 /\ ~stopping /\ Breakdown
  /\ Respawned(l)
  /\ UNCHANGED <<row, tokens, held, fence, state, valid, stopping, leaving>>

\* is_current asks for the generation as well as for the token.
Execute ==
  /\ copies[Execution] > 0 /\ ~stopping
  /\ valid' = (IsHeld /\ row.generation = fence)
  /\ UNCHANGED <<row, tokens, held, fence, state, stopping, leaving, copies, task, breakdowns>>

AfterFailedRenewal == "HALTED"

Renew ==
  /\ copies[LeaseRenew] > 0 /\ ~stopping /\ held # 0
  /\ state' = IF IsHeld THEN state ELSE AfterFailedRenewal
  /\ UNCHANGED <<row, tokens, held, fence, valid, stopping, leaving, copies, task, breakdowns>>

-----------------------------------------------------------------------------
(* The lease, and the other process.                                       *)

IsRenewed == IsHeld /\ copies[LeaseRenew] > 0

\* No renewal has come in time; of the lease that is renewed, only by a breakdown.
Expire ==
  /\ IsLive
  /\ IF IsRenewed THEN Breakdown ELSE UNCHANGED breakdowns
  /\ row' = [row EXCEPT !.live = FALSE]
  /\ UNCHANGED <<tokens, held, fence, state, valid, stopping, leaving, copies, task>>

OtherTakes ==
  /\ ~IsLive /\ tokens < MaxTokens
  /\ row' = Taken(Other) /\ tokens' = tokens + 1
  /\ UNCHANGED <<held, fence, state, valid, stopping, leaving, copies, task, breakdowns>>

-----------------------------------------------------------------------------
LoopStep(l) == Leave(l) \/ (l = Execution /\ Execute) \/ (l = LeaseRenew /\ Renew)

SupervisorNext ==
  \/ StartRefused \/ Start \/ BeginStop \/ EndStop \/ Die \/ Expire \/ OtherTakes
  \/ \E l \in Loop : LoopStep(l) \/ Crash(l)

-----------------------------------------------------------------------------
SupervisorTypeOK ==
  /\ row \in [owner : {Mine, Other}, token : 1..MaxTokens, generation : 1..MaxTokens,
              live : BOOLEAN] \cup {NoLease}
  /\ held \in 0..MaxTokens
  /\ state \in {"STOPPED", "RUNNING", "HALTED"}
  /\ copies \in [Loop -> 0..MaxCopies]
  /\ task \in [Loop -> {"none", "running", "finished"}]

\* A stop ends every loop, those of an earlier start among them, of which no task is
\* remembered.
StopEndsEverything ==
  \A l \in Loop : state = "STOPPED" ~> copies[l] = 0 \/ state # "STOPPED"

\* A supervisor whose lease is gone does not go on as RUNNING, as long as the loop that
\* renews it has not crashed.
LossHalts ==
  state = "RUNNING" /\ ~IsHeld ~> state # "RUNNING" \/ IsHeld \/ copies[LeaseRenew] = 0

\* Stopping does not take the lease away from the process that holds it by now.
ReleasesItsOwn ==
  [][row # NoLease /\ row' = NoLease => row.token = held]_supervisorVars

\* A supervisor ends what it started and nothing else.
EndsItsOwn == StopEndsEverything /\ LossHalts /\ ReleasesItsOwn

\* "Each loop owns its own heartbeat and can be supervised/restarted independently."
LoopsRestart ==
  \A l \in Loop : task[l] = "finished" ~> copies[l] > 0 \/ state # "RUNNING"
=============================================================================
