--------------------------- MODULE MCHandoffServer ---------------------------
(* HandoffServer on a few requests of two owners, one of which asks for its
   call to be replayed after the Human's part. *)
EXTENDS HandoffServer, TLC

Symmetry == Permutations(Request)
=============================================================================
