-------------------------- MODULE MCOperationQueue --------------------------
(* OperationQueue on four calls of run() and one drain(): the queue holds
   two, so a call can be refused, and a place freed by one operation can be
   taken by a later one while a zombie of an earlier one is still running. *)
EXTENDS OperationQueue, TLC

Symmetry == Permutations(Op)
=============================================================================
