---------------------------- MODULE MCMapsRuntime ----------------------------
(* MapsRuntime for a few operations. *)
EXTENDS MapsRuntime, TLC

Symmetry == Permutations(Operation) \cup Permutations(Directions)

Begun == {o \in Operation : task[o].at # "idle"}

(* Bounds: four operations on all requests as long as none is given up; once one
   was, three of them, on the requests for directions, and nobody navigates by
   hand. *)
OneStory ==
    used.timeouts > 0 =>
        /\ used.moves = 0 /\ Cardinality(Begun) <= 3
        /\ \A o \in Operation : task[o].arg \notin Search
=============================================================================
