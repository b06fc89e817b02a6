------------------------ MODULE InstrumentRegistry --------------------------
(***************************************************************************)
(* The registry of instruments, which an operator's command refreshes from *)
(* the exchange while the exchange relists and other commands are running. *)
(* A command reads the ids of the table before the transaction of its      *)
(* writes begins.                                                          *)
(***************************************************************************)
EXTENDS Integers

CONSTANTS
  Instrument,   \* instrument ids
  Swaps,        \* those of the product class SWAP; the others are SPOT
  Command,      \* refresh commands that may overlap
  MaxListings,  \* bound: changes of the exchange's listing
  MaxBreaks     \* bound: requests that fail

ASSUME RegistryAssumption ==
  Swaps \subseteq Instrument /\ MaxListings \in Nat /\ MaxBreaks \in Nat

VARIABLES
  listing,    \* what the exchange lists: "live", "suspend" or "absent"
  listings,   \* its changes so far
  registry,   \* okx_instruments
  command,    \* command -> its refresh_sync
  breaks

registryVars == <<listing, listings, registry, command, breaks>>

Class == <<Swaps, Instrument \ Swaps>>
NoRow == [state |-> "none", first |-> 0]
IdleCommand == [stage |-> "idle", fetched |-> [i \in Instrument |-> "absent"],
                existing |-> {}]

RegistryInit ==
  /\ listing \in [Instrument -> {"live", "absent"}]
  /\ listings = 0
  /\ registry = [i \in Instrument |-> NoRow]
  /\ command = [c \in Command |-> IdleCommand]
  /\ breaks = 0

-----------------------------------------------------------------------------
Relist(i) ==
  /\ listings < MaxListings
  /\ \E s \in {"live", "suspend", "absent"} \ {listing[i]} : listing' = [listing EXCEPT ![i] = s]
  /\ listings' = listings + 1
  /\ UNCHANGED <<registry, command, breaks>>

-----------------------------------------------------------------------------
(* fetch_registry_snapshot: one request per product class.                 *)

Fetched(c, class) ==
  [i \in Instrument |-> IF i \in class THEN listing[i] ELSE command[c].fetched[i]]

FetchFirst(c) ==
  /\ command[c].stage = "idle"
  /\ command' = [command EXCEPT ![c].stage = "second", ![c].fetched = Fetched(c, Class[1])]
  /\ UNCHANGED <<listing, listings, registry, breaks>>

FetchSecond(c) ==
  /\ command[c].stage = "second"
  /\ command' = [command EXCEPT ![c].stage = "read", ![c].fetched = Fetched(c, Class[2])]
  /\ UNCHANGED <<listing, listings, registry, breaks>>

\* A request that fails ends the command before anything is written.
FetchFails(c) ==
  /\ command[c].stage = "second" /\ breaks < MaxBreaks
  /\ command' = [command EXCEPT ![c] = IdleCommand]
  /\ breaks' = breaks + 1
  /\ UNCHANGED <<listing, listings, registry>>

(* persist_registry_sync: the ids are read before the transaction of the    *)
(* writes begins.                                                          *)

Rows == {i \in Instrument : registry[i].state # "none"}

ReadExisting(c) ==
  /\ command[c].stage = "read"
  /\ command' = [command EXCEPT ![c].stage = "write", ![c].existing = Rows]
  /\ UNCHANGED <<listing, listings, registry, breaks>>

Seen(c) == {i \in Instrument : command[c].fetched[i] # "absent"}

\* An INSERT of a row another command has inserted meanwhile breaks the key, and
\* the transaction is rolled back.
Conflict(c) == (Seen(c) \ command[c].existing) \cap Rows # {}

\* A refresh that saw nothing at all delists nothing.
Gone(c) == IF Seen(c) = {} THEN {} ELSE command[c].existing \ Seen(c)

Upserted(c, i) ==
  [state |-> command[c].fetched[i],
   first |-> IF i \in command[c].existing THEN registry[i].first ELSE listings + 1]

Write(c) ==
  /\ command[c].stage = "write"
  /\ registry' = IF Conflict(c) THEN registry
                 ELSE [i \in Instrument |->
                         IF i \in Seen(c) THEN Upserted(c, i)
                         ELSE IF i \in Gone(c) THEN [registry[i] EXCEPT !.state = "DELISTED"]
                         ELSE registry[i]]
  /\ command' = [command EXCEPT ![c] = IdleCommand]
  /\ UNCHANGED <<listing, listings, breaks>>

tradeable_universe == {i \in Instrument : registry[i].state = "live"}

-----------------------------------------------------------------------------
CommandStep(c) == FetchFirst(c) \/ FetchSecond(c) \/ ReadExisting(c) \/ Write(c)

RegistryNext ==
  \/ \E i \in Instrument : Relist(i)
  \/ \E c \in Command : CommandStep(c) \/ FetchFails(c)

-----------------------------------------------------------------------------
RegistryTypeOK ==
  /\ listing \in [Instrument -> {"live", "suspend", "absent"}] /\ breaks \in 0..MaxBreaks
  /\ listings \in 0..MaxListings
  /\ registry \in [Instrument -> [state : {"none", "live", "suspend", "DELISTED"},
                                  first : 0..(MaxListings + 1)]]
  /\ command \in [Command -> [stage : {"idle", "second", "read", "write"},
                              fetched : [Instrument -> {"live", "suspend", "absent"}],
                              existing : SUBSET Instrument]]

\* A row is never lost and keeps the time it was first seen, through delistings,
\* relistings and commands that overlap.
HistoryIsKept ==
  [][\A i \in Instrument : registry[i].state # "none" =>
       registry'[i].state # "none" /\ registry'[i].first = registry[i].first]_registryVars

\* When the exchange changes no more, the universe becomes what it lists live,
\* whatever commands overlapped, failed half-way or collided on a key; an exchange
\* that lists nothing at all changes nothing.
UniverseSettles ==
  <>[]((\E i \in Instrument : listing[i] # "absent") =>
         tradeable_universe = {i \in Instrument : listing[i] = "live"})
=============================================================================
