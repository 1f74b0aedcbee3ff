-------------------------- MODULE ExecutionHandoff --------------------------
(***************************************************************************)
(* The execution-authority state machine of the mcp-execution-handoff      *)
(* package, which is not part of this repository: its behaviour is taken   *)
(* from the way src/src uses it and from the repository's tests of it      *)
(* (src/tests/execution-handoff.test.ts, src/tests/handoff-owner.test.ts). *)
(*                                                                         *)
(* A handoff state is a record: the active intervention (0 when there is   *)
(* none), its status, its epoch and the number of interventions begun.     *)
(* The epoch is counted from the one the intervention began with: ids are  *)
(* never used twice and an epoch is only ever compared together with the   *)
(* id, so the absolute value of the resource epoch does not matter here.   *)
(***************************************************************************)
EXTENDS Integers

Statuses == {"none", "awaiting_human", "human_active", "verifying", "ready_to_resume"}

NoHandoff == [id |-> 0, status |-> "none", epoch |-> 0, begun |-> 0]

(* Who may act on the browser. *)
Authority(h) ==
    CASE h.status = "none" -> "agent"
      [] h.status = "human_active" -> "human"
      [] OTHER -> "none"

(* begin(): while an intervention is active, that one is returned. *)
Begin(h) ==
    IF h.id # 0 THEN h
    ELSE [id |-> h.begun + 1, status |-> "awaiting_human", epoch |-> 0,
          begun |-> h.begun + 1]

ClaimHuman(h) == [h EXCEPT !.status = "human_active"]

(* markHumanComplete(): Human authority ends and the resource epoch advances. *)
MarkHumanComplete(h) == [h EXCEPT !.status = "verifying", !.epoch = @ + 1]

MarkVerified(h) == [h EXCEPT !.status = "ready_to_resume"]

(* resumeAgent() and cancel(): Agent authority is back. *)
Release(h) == [h EXCEPT !.id = 0, !.status = "none", !.epoch = 0]

(* cancel() of one intervention, if it is still the active one. *)
CancelIf(h, i) == IF h.id = i THEN Release(h) ELSE h

(* A plausible mistake in the definition that follows: whoever claims last
   is the owner. *)
SlipBoundOwner(owner, status, w, none) == w

(* claimHandoffOwner(): the owner bound to intervention i after w claims it.
   Only a fresh intervention can be bound. *)
BoundOwner(owner, status, w, none) ==
    IF owner = none /\ status = "awaiting_human" THEN w ELSE owner

=============================================================================
