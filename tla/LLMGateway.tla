----------------------------- MODULE LLMGateway ------------------------------
(***************************************************************************)
(* The gateway to the language models: operators edit providers and routes *)
(* in the database and reload the copy the gateway works with, while the   *)
(* brains (live, daily, evolution) invoke routes.  An invocation looks at  *)
(* the copy and at the circuit of its provider once, then calls, retries,  *)
(* and notes its outcome; between two awaits it is one step.               *)
(***************************************************************************)
EXTENDS Integers, FiniteSets

CONSTANTS
  Provider, Route,
  None,        \* no provider
  Caller,      \* the brains that invoke
  RouteOf,     \* caller -> the route it invokes
  Operator,    \* concurrent requests of the settings page
  Threshold,   \* circuit_threshold
  MaxRetries,  \* max_retries of every provider
  MaxTroubles  \* bound: requests of the settings page, answers that fail and usage rows
               \* that cannot be written, together

ASSUME GatewayAssumption ==
  /\ None \notin Provider \cup Operator /\ RouteOf \in [Caller -> Route]
  /\ Threshold \in Nat \ {0} /\ MaxRetries \in Nat
  /\ MaxTroubles \in Nat
  /\ IsFiniteSet(Caller) /\ Caller # {}

VARIABLES
  db,        \* llm_providers (provider -> status) and llm_routes (route -> provider)
  keys,      \* providers with a key in the secret store
  config,    \* LLMGateway.providers and .routes
  lock,      \* holder of _config_lock
  operator,  \* operator -> its request and where it is
  circuit,   \* provider -> its CircuitState
  health,    \* provider -> last_check
  caller,    \* caller -> its invocation
  troubles,
  late       \* calls begun while the circuit of their provider was open

configVars  == <<db, keys, config, lock, operator>>
callVars    == <<circuit, health, caller, troubles, late>>
gatewayVars == <<configVars, callVars>>

Status  == {"absent", "enabled", "disabled"}
NoRoute == [r \in Route |-> None]
Closed  == [failures |-> 0, opened |-> "no"]
Asleep  == [stage |-> "idle", provider |-> None, status |-> "absent", routes |-> NoRoute,
            read |-> NoRoute]
Resting == [stage |-> "idle", provider |-> None, attempt |-> 0, ok |-> FALSE]

\* Every provider and route is configured at first; bootstrap has reloaded.
GatewayInit ==
  /\ \E p \in Provider :
       db = [providers |-> [q \in Provider |-> "enabled"], routes |-> [r \in Route |-> p]]
  /\ config = db /\ keys = Provider /\ lock = None
  /\ operator = [o \in Operator |-> Asleep]
  /\ circuit = [p \in Provider |-> Closed]
  /\ health = [p \in Provider |-> "none"]
  /\ caller = [c \in Caller |-> Resting]
  /\ troubles = 0 /\ late = [p \in Provider |-> 0]

Trouble == troubles < MaxTroubles /\ troubles' = troubles + 1

-----------------------------------------------------------------------------
(* save_provider, delete_provider and save_routes.                         *)

Edit(o, request) ==
  /\ operator[o].stage = "idle" /\ Trouble
  /\ operator' = [operator EXCEPT ![o] = request]
  /\ UNCHANGED <<circuit, health, caller, late>>

Commit(o, tables) ==
  /\ db' = tables
  /\ operator' = [operator EXCEPT ![o] = [Asleep EXCEPT !.stage = "reload"]]
  /\ UNCHANGED <<keys, config, lock>>

\* A provider without a row needs a key, else the request fails; the key is stored
\* before the row.
BeginSave(o, p, status, withKey) ==
  /\ withKey \/ db.providers[p] # "absent"
  /\ Edit(o, [Asleep EXCEPT !.stage = "save", !.provider = p, !.status = status])
  /\ keys' = IF withKey THEN keys \cup {p} ELSE keys
  /\ UNCHANGED <<db, config, lock>>

CommitSave(o) ==
  /\ operator[o].stage = "save"
  /\ Commit(o, [db EXCEPT !.providers[operator[o].provider] = operator[o].status])

\* The key goes first, if there is a row.
BeginDelete(o, p) ==
  /\ Edit(o, [Asleep EXCEPT !.stage = "delete", !.provider = p])
  /\ keys' = IF db.providers[p] # "absent" THEN keys \ {p} ELSE keys
  /\ UNCHANGED <<db, config, lock>>

CommitDelete(o) ==
  /\ operator[o].stage = "delete"
  /\ Commit(o, [providers |-> [db.providers EXCEPT ![operator[o].provider] = "absent"],
                routes |-> [r \in Route |-> IF db.routes[r] = operator[o].provider
                                            THEN None ELSE db.routes[r]]])

\* The providers are looked up in the copy, not in the database.
BeginRoutes(o, r, p) ==
  /\ config.providers[p] # "absent"
  /\ Edit(o, [Asleep EXCEPT !.stage = "routes", !.routes = [NoRoute EXCEPT ![r] = p]])
  /\ UNCHANGED <<db, keys, config, lock>>

\* replace_routes inserts or overwrites, and removes none.
CommitRoutes(o) ==
  /\ operator[o].stage = "routes"
  /\ Commit(o, [db EXCEPT !.routes = [r \in Route |-> IF operator[o].routes[r] # None
                                                      THEN operator[o].routes[r] ELSE db.routes[r]]])

\* Variant: reloads do not wait for each other.
Unlocked == TRUE

LockIsFree == lock = None

\* reload reads the providers and assigns them, then the routes.
ReadProviders(o) ==
  /\ operator[o].stage = "reload" /\ LockIsFree
  /\ lock' = o
  /\ operator' = [operator EXCEPT ![o].stage = "providers", ![o].read = db.providers]
  /\ UNCHANGED <<db, keys, config>>

ReadRoutes(o) ==
  /\ operator[o].stage = "providers"
  /\ config' = [config EXCEPT !.providers = operator[o].read]
  /\ operator' = [operator EXCEPT ![o].stage = "routing", ![o].read = db.routes]
  /\ UNCHANGED <<db, keys, lock>>

FinishReload(o) ==
  /\ operator[o].stage = "routing"
  /\ config' = [config EXCEPT !.routes = operator[o].read]
  /\ lock' = None
  /\ operator' = [operator EXCEPT ![o] = Asleep]
  /\ UNCHANGED <<db, keys>>

OperatorStep(o) ==
  /\ \/ CommitSave(o) \/ CommitDelete(o) \/ CommitRoutes(o)
     \/ ReadProviders(o) \/ ReadRoutes(o) \/ FinishReload(o)
  /\ UNCHANGED callVars

-----------------------------------------------------------------------------
(* invoke.                                                                 *)

IsOpen(p) == circuit[p].opened = "recent"

\* Variant: a circuit that has opened stays open, whatever time it is.
StaysOpen(p) == circuit[p].opened # "no"

\* _circuit_open: once circuit_reset_seconds are over, all is forgotten.
_circuit_open(p) == IsOpen(p)

Elapse(p) ==
  /\ IsOpen(p)
  /\ circuit' = [circuit EXCEPT ![p].opened = "elapsed"]
  /\ late' = [late EXCEPT ![p] = 0]
  /\ UNCHANGED <<configVars, health, caller, troubles>>

Usable(p) == config.providers[p] = "enabled" /\ p \in keys

Begun(c, invocation) == caller' = [caller EXCEPT ![c] = invocation]

\* No route, or no provider behind it: _failure, which knows no provider.
Unconfigured(c) ==
  LET p == config.routes[RouteOf[c]] IN
  /\ caller[c].stage = "idle" /\ (p # None => config.providers[p] = "absent")
  /\ Begun(c, [Resting EXCEPT !.stage = "usage"])
  /\ UNCHANGED <<configVars, circuit, health, troubles, late>>

Declined(c) ==
  LET p == config.routes[RouteOf[c]] IN
  /\ caller[c].stage = "idle" /\ p # None /\ config.providers[p] # "absent"
  /\ ~Usable(p) \/ _circuit_open(p)
  /\ Begun(c, [Resting EXCEPT !.stage = "usage", !.provider = p])
  /\ UNCHANGED <<configVars, circuit, health, troubles, late>>

Begin(c) ==
  LET p == config.routes[RouteOf[c]] IN
  /\ caller[c].stage = "idle" /\ p # None /\ Usable(p) /\ ~_circuit_open(p)
  /\ circuit' = [circuit EXCEPT ![p] = IF @.opened = "no" THEN @ ELSE Closed]
  /\ Begun(c, [Resting EXCEPT !.stage = "call", !.provider = p])
  /\ late' = [late EXCEPT ![p] = IF IsOpen(p) THEN @ + 1 ELSE @]
  /\ UNCHANGED <<configVars, health, troubles>>

Done(c, ok) == caller' = [caller EXCEPT ![c].stage = "usage", ![c].ok = ok]

Succeed(c) ==
  /\ caller[c].stage = "call"
  /\ circuit' = [circuit EXCEPT ![caller[c].provider] = Closed]
  /\ late' = [late EXCEPT ![caller[c].provider] = 0]
  /\ Done(c, TRUE)
  /\ UNCHANGED <<configVars, health, troubles>>

MayRetry(c) == caller[c].attempt < MaxRetries

\* A timeout, a network error, 429 or 5xx, with a retry left.
Retry(c) ==
  LET p == caller[c].provider IN
  /\ caller[c].stage = "call" /\ MayRetry(c) /\ Trouble
  /\ caller' = [caller EXCEPT ![c].attempt = @ + 1]
  /\ late' = [late EXCEPT ![p] = IF IsOpen(p) THEN @ + 1 ELSE @]
  /\ UNCHANGED <<configVars, circuit, health>>

\* Failures beyond the threshold make no difference and are not counted.
_record_failure(p) ==
  LET n == IF circuit[p].failures < Threshold THEN circuit[p].failures + 1 ELSE Threshold
  IN  circuit' = [circuit EXCEPT ![p] =
        [failures |-> n, opened |-> IF n >= Threshold THEN "recent" ELSE @.opened]]

\* The last retryable answer, one that cannot be retried, or invalid content.
Fail(c) ==
  /\ caller[c].stage = "call" /\ Trouble
  /\ _record_failure(caller[c].provider)
  /\ Done(c, FALSE)
  /\ UNCHANGED <<configVars, health, late>>

\* httpx raises what complete() does not catch (a protocol error): the invocation
\* raises, and neither the circuit nor the usage hears of it.
Raise(c) ==
  /\ caller[c].stage = "call" /\ Trouble
  /\ Begun(c, Resting)
  /\ UNCHANGED <<configVars, circuit, health, late>>

\* _record_usage, and only then last_check.
WriteUsage(c) ==
  LET p == caller[c].provider IN
  /\ caller[c].stage = "usage"
  /\ health' = IF p = None THEN health
               ELSE [health EXCEPT ![p] = IF caller[c].ok THEN "HEALTHY" ELSE "DEGRADED"]
  /\ Begun(c, Resting)
  /\ UNCHANGED <<configVars, circuit, troubles, late>>

UsageFails(c) ==
  /\ caller[c].stage = "usage" /\ Trouble
  /\ Begun(c, Resting)
  /\ UNCHANGED <<configVars, circuit, health, late>>

CallerStep(c) ==
  Unconfigured(c) \/ Declined(c) \/ Begin(c) \/ Succeed(c) \/ WriteUsage(c)

-----------------------------------------------------------------------------
SettingsNext(o) ==
  \/ \E p \in Provider :
       \/ \E status \in {"enabled", "disabled"}, withKey \in BOOLEAN : BeginSave(o, p, status, withKey)
       \/ BeginDelete(o, p)
       \/ \E r \in Route : BeginRoutes(o, r, p)
  \/ OperatorStep(o)

CallsNext ==
  \/ \E p \in Provider : Elapse(p)
  \/ \E c \in Caller : CallerStep(c) \/ Retry(c) \/ Fail(c) \/ Raise(c) \/ UsageFails(c)

-----------------------------------------------------------------------------
GatewayTypeOK ==
  /\ db \in [providers : [Provider -> Status], routes : [Route -> Provider \cup {None}]]
  /\ config \in [providers : [Provider -> Status], routes : [Route -> Provider \cup {None}]]
  /\ keys \subseteq Provider /\ lock \in Operator \cup {None}
  /\ circuit \in [Provider -> [failures : 0..Threshold, opened : {"no", "recent", "elapsed"}]]
  /\ caller \in [Caller -> [stage : {"idle", "call", "usage"}, provider : Provider \cup {None},
                            attempt : 0..MaxRetries, ok : BOOLEAN]]

\* When no request of the settings page is under way, the gateway works with what the
\* database holds, however the requests overlapped.
ConfigSettles == (\A o \in Operator : operator[o].stage = "idle") => config = db

\* An open circuit bounds the calls to a provider that fails: only the invocations that
\* were under way when it opened still call it, and only their retries.
FewLateCalls == \A p \in Provider : late[p] <= (Cardinality(Caller) - 1) * MaxRetries

\* After an outage the routes come back by themselves: circuits close, and whatever
\* route is usable is healthy again.
ServiceResumes ==
  \A p \in Provider :
    <>[](Usable(p) /\ (\E c \in Caller : config.routes[RouteOf[c]] = p)
           => circuit[p] = Closed /\ health[p] = "HEALTHY")
=============================================================================
