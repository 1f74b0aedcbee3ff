----------------------------- MODULE SerialQueue -----------------------------
(***************************************************************************)
(* What the operation queue promises its callers: one request at a time is *)
(* served, in the order of admission, a request is turned away only while  *)
(* Capacity of them are inside, and every admitted request leaves, served. *)
(* No promise chain, no watchdog, no task.                                 *)
(***************************************************************************)
EXTENDS Integers, FiniteSets

CONSTANTS Request, Capacity

VARIABLES
    stage,  \* "outside", "refused", "waiting", "serving" or "served"
    rank,   \* the order of admission
    last    \* the last rank given

vars == <<stage, rank, last>>

Init ==
    /\ stage = [r \in Request |-> "outside"]
    /\ rank = [r \in Request |-> 0]
    /\ last = 0

Inside == {r \in Request : stage[r] \in {"waiting", "serving"}}

Refuse(r) ==
    /\ stage[r] = "outside"
    /\ Cardinality(Inside) = Capacity
    /\ stage' = [stage EXCEPT ![r] = "refused"]
    /\ UNCHANGED <<rank, last>>

Admit(r) ==
    /\ stage[r] = "outside"
    /\ Cardinality(Inside) < Capacity
    /\ stage' = [stage EXCEPT ![r] = "waiting"]
    /\ rank' = [rank EXCEPT ![r] = last + 1]
    /\ last' = last + 1

Serve(r) ==
    /\ stage[r] = "waiting"
    /\ \A q \in Inside : stage[q] = "waiting" /\ rank[r] <= rank[q]
    /\ stage' = [stage EXCEPT ![r] = "serving"]
    /\ UNCHANGED <<rank, last>>

Leave(r) ==
    /\ stage[r] = "serving"
    /\ stage' = [stage EXCEPT ![r] = "served"]
    /\ UNCHANGED <<rank, last>>

Next == \E r \in Request : Refuse(r) \/ Admit(r) \/ Serve(r) \/ Leave(r)

Spec == Init /\ [][Next]_vars

=============================================================================
