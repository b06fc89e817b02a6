---------------------------- MODULE OKXConnection ----------------------------
(***************************************************************************)
(* The keys of the OKX demo account: the API stores and deletes them in a  *)
(* file, and validates them with a sequence of requests while it holds a   *)
(* lock that storing and deleting do not take.                             *)
(***************************************************************************)
EXTENDS Integers, Sequences

CONSTANTS
  Keys,        \* credentials that the API can store, for the demo account
  LiveKeys,    \* credentials that a file of an earlier installation may hold
  NoKeys,
  Validator,   \* validations that can wait at the same time
  Startup,     \* the one that the start of the application creates
  MaxEdits     \* bound: stored or deleted keys, restarts and revocations

ASSUME ConnectionAssumption == Startup \in Validator /\ MaxEdits \in Nat

AnyKeys == Keys \cup LiveKeys

\* The requests of a validation, in their order; all but the first are signed.
Stage == <<"PUBLIC_TIME", "ACCOUNT_CONFIG", "BALANCE", "POSITIONS", "PENDING_ORDERS">>
Attempts == 3

VARIABLES
  file,       \* the keys that the store holds
  conn,       \* OKXConnectionState
  waiting,    \* queue of okx_validation_lock, its head holds the lock
  check,      \* validator -> where its validation is, and its own copy of the keys
  open,       \* validators whose HTTP client is open
  accepted,   \* the keys the venue accepts (external)
  late,       \* verdicts of other keys that were shown since the keys last changed
  edits

connectionVars == <<file, conn, waiting, check, open, accepted, late, edits>>

Idle == [pc |-> "idle", keys |-> NoKeys, stage |-> 1, attempt |-> 0]

\* configure(): what the API shows of keys it has just read; account is the keys whose
\* account_mode and position_mode it shows.
configure(k) ==
  [keys |-> k, configured |-> k # NoKeys, authenticated |-> FALSE,
   health |-> IF k = NoKeys THEN "NOT_CONFIGURED" ELSE "UNVERIFIED", account |-> NoKeys]

\* validation(): a verdict, which keeps the account data of an earlier one unless it is positive.
validation(health, k) ==
  [conn EXCEPT !.authenticated = health = "HEALTHY", !.health = health,
               !.account = IF health = "HEALTHY" THEN k ELSE @]

\* The application starts, and validates keys that are there.
Started(k) ==
  /\ conn = configure(k) /\ open = {} /\ late = 0
  /\ waiting = IF k = NoKeys THEN <<>> ELSE <<Startup>>
  /\ check = [v \in Validator |-> IF v = Startup /\ k # NoKeys THEN [Idle EXCEPT !.pc = "waiting"] ELSE Idle]

ConnectionInit ==
  /\ file \in AnyKeys \cup {NoKeys} /\ Started(file)
  /\ accepted \in SUBSET Keys /\ edits = 0

Edit == edits < MaxEdits /\ edits' = edits + 1

-----------------------------------------------------------------------------
(* The operator's endpoints; none of them waits.                           *)

\* Variant: the file changes, and what is shown of it does not.
StoresQuietly(k) ==
  /\ file' = k /\ late' = 0
  /\ UNCHANGED <<conn, waiting, check, open, accepted>>

Store(k) ==
  /\ file' = k /\ conn' = configure(k) /\ late' = 0
  /\ UNCHANGED <<waiting, check, open, accepted>>

save_okx_credentials == Edit /\ \E k \in Keys : Store(k)

delete_okx_credentials == Edit /\ file # NoKeys /\ Store(NoKeys)

\* The venue accepts or revokes keys.
Revoke ==
  /\ Edit /\ \E k \in Keys : accepted' = IF k \in accepted THEN accepted \ {k} ELSE accepted \cup {k}
  /\ UNCHANGED <<file, conn, waiting, check, open, late>>

ConnectionRestarts ==
  /\ Edit
  /\ conn' = configure(file) /\ open' = {} /\ late' = 0
  /\ waiting' = IF file = NoKeys THEN <<>> ELSE <<Startup>>
  /\ check' = [v \in Validator |->
                 IF v = Startup /\ file # NoKeys THEN [Idle EXCEPT !.pc = "waiting"] ELSE Idle]
  /\ UNCHANGED <<file, accepted>>

-----------------------------------------------------------------------------
(* _validate_okx_credentials of v.                                         *)

validate_okx_credentials(v) ==
  /\ v # Startup /\ check[v] = Idle
  /\ waiting' = Append(waiting, v) /\ check' = [check EXCEPT ![v].pc = "waiting"]
  /\ UNCHANGED <<file, conn, open, accepted, late, edits>>

Holds(v) == waiting # <<>> /\ Head(waiting) = v

\* Variant: a validation that ends keeps the lock.
KeepsLock(v) == check' = [check EXCEPT ![v] = Idle] /\ UNCHANGED waiting

Released(v) == waiting' = Tail(waiting) /\ check' = [check EXCEPT ![v] = Idle]

\* A positive verdict is not repeated.
Reuse(v) ==
  /\ check[v].pc = "waiting" /\ Holds(v) /\ conn.authenticated
  /\ Released(v) /\ UNCHANGED <<file, conn, open, accepted, late, edits>>

\* Without keys, and for keys of a live account, nothing is asked.
Decline(v) ==
  /\ check[v].pc = "waiting" /\ Holds(v) /\ ~conn.authenticated
  /\ file \in LiveKeys \cup {NoKeys}
  /\ conn' = validation(IF file = NoKeys THEN "NOT_CONFIGURED" ELSE "DEGRADED", file)
  /\ Released(v) /\ UNCHANGED <<file, open, accepted, late, edits>>

Connect(v) ==
  /\ check[v].pc = "waiting" /\ Holds(v) /\ ~conn.authenticated /\ file \in Keys
  /\ check' = [check EXCEPT ![v] = [pc |-> "asking", keys |-> file, stage |-> 1, attempt |-> 1]]
  /\ open' = open \cup {v}
  /\ UNCHANGED <<file, conn, waiting, accepted, late, edits>>

Signed(v) == check[v].stage > 1

\* _request: a signed request that gets no answer is sent again.
Repeat(v) ==
  /\ check[v].pc = "asking" /\ Signed(v) /\ check[v].attempt < Attempts
  /\ check' = [check EXCEPT ![v].attempt = @ + 1]
  /\ UNCHANGED <<file, conn, waiting, open, accepted, late, edits>>

Ended(v, health) ==
  /\ conn' = validation(health, check[v].keys)
  /\ check' = [check EXCEPT ![v].pc = "closing"]
  /\ late' = IF check[v].keys = file THEN late ELSE late + 1
  /\ UNCHANGED <<file, waiting, open, accepted, edits>>

\* An answer to the stage's request; the venue answers a signed one if it accepts the keys.
Answered(v) ==
  /\ check[v].pc = "asking" /\ (Signed(v) => check[v].keys \in accepted)
  /\ \/ /\ check[v].stage < Len(Stage)
        /\ check' = [check EXCEPT ![v].stage = @ + 1, ![v].attempt = 1]
        /\ UNCHANGED <<file, conn, waiting, open, accepted, late, edits>>
     \/ check[v].stage = Len(Stage) /\ Ended(v, "HEALTHY")

\* Every error, and a clock that is off, end it: refused or malformed, or no answer at last.
Failed(v) == check[v].pc = "asking" /\ Ended(v, "DEGRADED")

\* finally: the client is closed, and the lock is released after it.
Disconnect(v) ==
  /\ check[v].pc = "closing"
  /\ open' = open \ {v} /\ Released(v)
  /\ UNCHANGED <<file, conn, accepted, late, edits>>

\* The application stops while its first validation asks; it states no verdict.
Cancel ==
  /\ check[Startup].pc = "asking"
  /\ check' = [check EXCEPT ![Startup].pc = "closing"]
  /\ UNCHANGED <<file, conn, waiting, open, accepted, late, edits>>

ValidatorStep(v) ==
  Reuse(v) \/ Decline(v) \/ Connect(v) \/ Repeat(v) \/ Answered(v) \/ Failed(v) \/ Disconnect(v)

ConnectionNext ==
  \/ save_okx_credentials \/ delete_okx_credentials \/ Revoke \/ ConnectionRestarts \/ Cancel
  \/ \E v \in Validator : validate_okx_credentials(v) \/ ValidatorStep(v)

-----------------------------------------------------------------------------

\* The connection's share of the type invariant.
ConnectionTypeOK ==
  /\ file \in AnyKeys \cup {NoKeys}
  /\ conn \in [keys : AnyKeys \cup {NoKeys}, configured : BOOLEAN, authenticated : BOOLEAN,
               health : {"NOT_CONFIGURED", "UNVERIFIED", "DEGRADED", "HEALTHY"},
               account : AnyKeys \cup {NoKeys}]
  /\ \A v \in Validator :
       check[v] \in [pc : {"idle", "waiting", "asking", "closing"}, keys : AnyKeys \cup {NoKeys},
                     stage : 1..Len(Stage), attempt : 0..Attempts]
  /\ open \subseteq Validator /\ accepted \subseteq Keys
  /\ late \in Nat /\ edits \in 0..MaxEdits

\* One validation at a time asks the venue, and only demo keys are ever sent; every client
\* it opens is closed by the time the next one asks.
AsksOneAtATime ==
  /\ \A v \in open : Holds(v) /\ check[v].keys \in Keys
  /\ \A v \in Validator : check[v].pc \in {"asking", "closing"} <=> v \in open

\* What is shown is always of the keys that are stored, and an account that is shown as
\* verified is theirs, but for one verdict: keys may change while a validation of the
\* old ones is under way, whose verdict is then shown, and no second one of such keys.
VerdictIsOfTheKeys ==
  /\ conn.keys = file /\ late <= 1
  /\ conn.authenticated /\ conn.account # file => late = 1

\* Every validation is answered, whatever else waits: its requests are bounded, and the lock
\* is released on every way out.
ValidationIsAnswered == \A v \in Validator : check[v].pc = "waiting" ~> check[v].pc = "idle"

\* CONNECTION_STATUS_SYNC_FINAL_REPORT.md, line 7: saving and deleting keys synchronises the
\* state that the status shows.  Without keys it shows no authenticated account.
DeletedIsNotAuthenticated == file = NoKeys => ~conn.authenticated
=============================================================================
