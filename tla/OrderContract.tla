---------------------------- MODULE OrderContract ----------------------------
(***************************************************************************)
(* What the order path promises, whatever fails or interleaves: an order   *)
(* is recorded before it is submitted, and is submitted at most once; a    *)
(* fill is booked once, for a submitted order, and settled in the ledger   *)
(* at most once, after it is booked.  Nothing recorded is ever taken back. *)
(* This is the promise of the docstring of order/manager.py, with "exactly *)
(* once" weakened to "at most once" for settlement.                        *)
(***************************************************************************)
EXTENDS Naturals

CONSTANTS Client, FillId, Qty

VARIABLES recorded, submitted, booked, posted

vars == <<recorded, submitted, booked, posted>>

Init ==
  /\ recorded = {}
  /\ submitted = [c \in Client |-> 0]
  /\ booked = [i \in FillId |-> 0]
  /\ posted = [i \in FillId |-> 0]

Record(c) ==
  /\ c \notin recorded
  /\ recorded' = recorded \cup {c}
  /\ UNCHANGED <<submitted, booked, posted>>

Submit(c) ==
  /\ c \in recorded /\ submitted[c] = 0
  /\ submitted' = [submitted EXCEPT ![c] = 1]
  /\ UNCHANGED <<recorded, booked, posted>>

Book(i, q) ==
  /\ submitted[i.client] = 1 /\ booked[i] = 0
  /\ booked' = [booked EXCEPT ![i] = q]
  /\ UNCHANGED <<recorded, submitted, posted>>

Post(i) ==
  /\ booked[i] > 0 /\ posted[i] = 0
  /\ posted' = [posted EXCEPT ![i] = 1]
  /\ UNCHANGED <<recorded, submitted, booked>>

Next ==
  \/ \E c \in Client : Record(c) \/ Submit(c)
  \/ \E i \in FillId : Post(i) \/ \E q \in 1..Qty : Book(i, q)

Spec == Init /\ [][Next]_vars
=============================================================================
