----------------------------- MODULE MCRouteSend -----------------------------
(* RouteSend for a few requests of two callers. *)
EXTENDS RouteSend, TLC

Symmetry == Permutations(Request) \cup Permutations(Caller)

(* Bounds: an operation times out, or a connection is lost, but not both; and
   the fifth request only finds the queue full. *)
Begun == {r \in Request : pc[r] # "idle"}
OneTrouble ==
    /\ timeouts + lost <= 1
    /\ Cardinality(Begun) = 5 => timeouts + lost = 0 /\ Len(line) = MaxPending
=============================================================================
