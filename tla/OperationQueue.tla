--------------------------- MODULE OperationQueue ---------------------------
(***************************************************************************)
(* The bounded queue that serializes browser operations                    *)
(* (src/src/operation-queue.ts).                                           *)
(*                                                                         *)
(* Each call of run() is an operation of its own.  run() chains the task   *)
(* on the promise `tail`, so an operation waits for exactly one other: the *)
(* one that was the tail when it was accepted (prev).  A watchdog bounds   *)
(* each task: when it fires it resets the browser session (onTimeout) and  *)
(* only then rejects the operation.  Nothing cancels the task: its body    *)
(* goes on after the watchdog has decided the result (a zombie), and its   *)
(* late result is dropped.                                                 *)
(*                                                                         *)
(* JavaScript runs one callback at a time, so a step is one callback.  The *)
(* settlement of a result and its reactions (the link to the next          *)
(* operation and the decrement of `pending`) are separate callbacks, and   *)
(* other callers may run between them.                                     *)
(***************************************************************************)
EXTENDS Integers, FiniteSets

CONSTANTS
    Op,          \* the calls of run(), each one made at most once
    Drainer,     \* the calls of drain()
    MaxPending,  \* the constructor's maxPending
    Watchdog,    \* whether options.timeoutMs is configured
    NoOp         \* the promise `tail` is initialized with

ASSUME OpAssumption == IsFiniteSet(Op) /\ NoOp \notin Op
ASSUME MaxPendingAssumption == MaxPending \in Nat \ {0}
ASSUME WatchdogAssumption == Watchdog \in BOOLEAN

VARIABLES
    phase,     \* where the call of run() stands
    prev,      \* the operation whose settlement lets this one start
    body,      \* the task itself: "idle", "running" or "finished"
    outcome,   \* what the promise returned by run() is settled to
    tail,      \* the operation `tail` stands for
    pending,   \* the counter `pending`
    drain,     \* for each drain(): "idle", "waiting" or "returned"
    awaited,   \* for each drain(): the tail it awaits
    ticket,    \* history: the rank of each accepted operation
    accepted,  \* history: how many operations were accepted
    horizon    \* history: how many were accepted when a drain() was called

vars == <<phase, prev, body, outcome, tail, pending, drain, awaited,
          ticket, accepted, horizon>>

Phases == {"new", "refused", "queued", "running", "resetting", "settled", "done"}
Outcomes == {"none", "value", "error", "timeout"}

TypeOK ==
    /\ phase \in [Op -> Phases]
    /\ prev \in [Op -> Op \cup {NoOp}]
    /\ body \in [Op -> {"idle", "running", "finished"}]
    /\ outcome \in [Op -> Outcomes]
    /\ tail \in Op \cup {NoOp}
    /\ pending \in Nat
    /\ drain \in [Drainer -> {"idle", "waiting", "returned"}]
    /\ awaited \in [Drainer -> Op \cup {NoOp}]
    /\ ticket \in [Op -> Nat]
    /\ accepted \in Nat
    /\ horizon \in [Drainer -> Nat]

Init ==
    /\ phase = [o \in Op |-> "new"]
    /\ prev = [o \in Op |-> NoOp]
    /\ body = [o \in Op |-> "idle"]
    /\ outcome = [o \in Op |-> "none"]
    /\ tail = NoOp
    /\ pending = 0
    /\ drain = [d \in Drainer |-> "idle"]
    /\ awaited = [d \in Drainer |-> NoOp]
    /\ ticket = [o \in Op |-> 0]
    /\ accepted = 0
    /\ horizon = [d \in Drainer |-> 0]

-----------------------------------------------------------------------------
(* The promise `tail` an operation or a drain() waits for has settled.     *)
Released(o) == o \in {NoOp} \cup {p \in Op : phase[p] = "done"}

(* An operation that was accepted and has not left the queue.              *)
Live(o) == phase[o] \in {"queued", "running", "resetting", "settled"}

(* An operation whose turn has come and is not over.                       *)
Holding(o) == phase[o] \in {"running", "resetting", "settled"}

(* A task that goes on after the watchdog decided its operation's result.  *)
Zombie(o) == body[o] = "running" /\ phase[o] # "running"

(* The definitions named Slip... are plausible mistakes in the definition that
   follows them.  Nothing uses them but the runs that show that a property
   would notice. *)
SlipRefuseEarly(o) ==
    /\ phase[o] = "new"
    /\ pending + 1 >= MaxPending
    /\ phase' = [phase EXCEPT ![o] = "refused"]
    /\ UNCHANGED <<prev, body, outcome, tail, pending, drain, awaited,
                   ticket, accepted, horizon>>

(* run(): the queue is full, SERVER_BUSY is thrown to the caller. *)
Refuse(o) ==
    /\ phase[o] = "new"
    /\ pending >= MaxPending
    /\ phase' = [phase EXCEPT ![o] = "refused"]
    /\ UNCHANGED <<prev, body, outcome, tail, pending, drain, awaited,
                   ticket, accepted, horizon>>

SlipAccept(o, newTail, count) ==
    /\ phase[o] = "new"
    /\ pending < MaxPending
    /\ phase' = [phase EXCEPT ![o] = "queued"]
    /\ prev' = [prev EXCEPT ![o] = tail]
    /\ tail' = newTail
    /\ pending' = count
    /\ ticket' = [ticket EXCEPT ![o] = accepted + 1]
    /\ accepted' = accepted + 1
    /\ UNCHANGED <<body, outcome, drain, awaited, horizon>>

SlipAcceptUncounted(o) == SlipAccept(o, o, pending)
SlipAcceptUnchained(o) == SlipAccept(o, tail, pending + 1)

(* run(): the operation is chained on the current tail and becomes it. *)
Accept(o) ==
    /\ phase[o] = "new"
    /\ pending < MaxPending
    /\ phase' = [phase EXCEPT ![o] = "queued"]
    /\ prev' = [prev EXCEPT ![o] = tail]
    /\ tail' = o
    /\ pending' = pending + 1
    /\ ticket' = [ticket EXCEPT ![o] = accepted + 1]
    /\ accepted' = accepted + 1
    /\ UNCHANGED <<body, outcome, drain, awaited, horizon>>

(* tail.then(): the turn has come, runGuarded() starts the task and arms
   the timer. *)
Start(o) ==
    /\ phase[o] = "queued"
    /\ Released(prev[o])
    /\ phase' = [phase EXCEPT ![o] = "running"]
    /\ body' = [body EXCEPT ![o] = "running"]
    /\ UNCHANGED <<prev, outcome, tail, pending, drain, awaited,
                   ticket, accepted, horizon>>

SlipFinishAgain(o) ==
    /\ body[o] = "running"
    /\ body' = [body EXCEPT ![o] = "finished"]
    /\ outcome' = [outcome EXCEPT ![o] = "value"]
    /\ phase' = [phase EXCEPT ![o] = "settled"]
    /\ UNCHANGED <<prev, tail, pending, drain, awaited, ticket, accepted, horizon>>

(* The task fulfils or rejects.  The result counts only if the watchdog has
   not fired. *)
Finish(o) ==
    /\ body[o] = "running"
    /\ body' = [body EXCEPT ![o] = "finished"]
    /\ IF phase[o] = "running"
       THEN /\ \E result \in {"value", "error"} :
                   outcome' = [outcome EXCEPT ![o] = result]
            /\ phase' = [phase EXCEPT ![o] = "settled"]
       ELSE UNCHANGED <<outcome, phase>>
    /\ UNCHANGED <<prev, tail, pending, drain, awaited, ticket, accepted, horizon>>

(* The timer fires before the task settles: the result is decided and
   onTimeout() starts to reset the browser session. *)
Timeout(o) ==
    /\ Watchdog
    /\ phase[o] = "running"
    /\ phase' = [phase EXCEPT ![o] = "resetting"]
    /\ UNCHANGED <<prev, body, outcome, tail, pending, drain, awaited,
                   ticket, accepted, horizon>>

SlipResetSwallowed(o) ==
    /\ phase[o] = "resetting"
    /\ outcome' = [outcome EXCEPT ![o] = "timeout"]
    /\ UNCHANGED <<phase, prev, body, tail, pending, drain, awaited,
                   ticket, accepted, horizon>>

(* onTimeout() settles, either way: the operation is rejected with
   OPERATION_TIMEOUT. *)
ResetDone(o) ==
    /\ phase[o] = "resetting"
    /\ outcome' = [outcome EXCEPT ![o] = "timeout"]
    /\ phase' = [phase EXCEPT ![o] = "settled"]
    /\ UNCHANGED <<prev, body, tail, pending, drain, awaited,
                   ticket, accepted, horizon>>

SlipReleaseLeaks(o) ==
    /\ phase[o] = "settled"
    /\ phase' = [phase EXCEPT ![o] = "done"]
    /\ pending' = IF outcome[o] = "timeout" THEN pending ELSE pending - 1
    /\ UNCHANGED <<prev, body, outcome, tail, drain, awaited,
                   ticket, accepted, horizon>>

(* The reactions of the settled result: its `tail` settles and `pending`
   is decremented, before the next operation's turn. *)
Release(o) ==
    /\ phase[o] = "settled"
    /\ phase' = [phase EXCEPT ![o] = "done"]
    /\ pending' = pending - 1
    /\ UNCHANGED <<prev, body, outcome, tail, drain, awaited,
                   ticket, accepted, horizon>>

SlipDrainRunningOnly(d) ==
    /\ drain[d] = "idle"
    /\ drain' = [drain EXCEPT ![d] = "waiting"]
    /\ \E o \in Op : Holding(o) /\ awaited' = [awaited EXCEPT ![d] = o]
    /\ horizon' = [horizon EXCEPT ![d] = accepted]
    /\ UNCHANGED <<phase, prev, body, outcome, tail, pending, ticket, accepted>>

(* drain() awaits the tail of the moment it is called. *)
Drain(d) ==
    /\ drain[d] = "idle"
    /\ drain' = [drain EXCEPT ![d] = "waiting"]
    /\ awaited' = [awaited EXCEPT ![d] = tail]
    /\ horizon' = [horizon EXCEPT ![d] = accepted]
    /\ UNCHANGED <<phase, prev, body, outcome, tail, pending, ticket, accepted>>

DrainReturn(d) ==
    /\ drain[d] = "waiting"
    /\ Released(awaited[d])
    /\ drain' = [drain EXCEPT ![d] = "returned"]
    /\ UNCHANGED <<phase, prev, body, outcome, tail, pending, awaited,
                   ticket, accepted, horizon>>

OpStep(o) ==
    \/ Refuse(o)
    \/ Accept(o)
    \/ Start(o)
    \/ Finish(o)
    \/ Timeout(o)
    \/ ResetDone(o)
    \/ Release(o)

DrainStep(d) ==
    \/ Drain(d)
    \/ DrainReturn(d)

Next ==
    \/ \E o \in Op : OpStep(o)
    \/ \E d \in Drainer : DrainStep(d)

(***************************************************************************)
(* Callbacks that are due run (microtasks and timers), and the reset of    *)
(* the browser ends: ChromeProcess.close() bounds each of its waits.       *)
(* Nothing is assumed of the tasks: a CDP call may never answer, so there  *)
(* is no fairness on Finish.                                               *)
(***************************************************************************)
Fairness ==
    /\ \A o \in Op : WF_vars(Start(o)) /\ WF_vars(Timeout(o))
                  /\ WF_vars(ResetDone(o)) /\ WF_vars(Release(o))
    /\ \A d \in Drainer : WF_vars(DrainReturn(d))

Spec == Init /\ [][Next]_vars

FairSpec == Spec /\ Fairness

-----------------------------------------------------------------------------
(* At most one operation holds the turn, from its start to the reactions of
   its result, the reset after a timeout included: the next operation never
   starts on a browser session that is still being reset. *)
OneHolder ==
    \A o, p \in Op : Holding(o) /\ Holding(p) => o = p

(* `pending` counts exactly the operations that were accepted and have not
   left the queue, so it can neither leak a place nor go below zero, and
   SERVER_BUSY is thrown only when maxPending operations are really there. *)
PendingExact ==
    /\ pending = Cardinality({o \in Op : Live(o)})
    /\ pending <= MaxPending

(* Operations start in the order in which they were accepted: whatever is
   accepted before an operation that has started has left the queue. *)
StartOrder ==
    \A o, p \in Op :
        (Holding(o) \/ phase[o] = "done") /\ ticket[p] \in 1 .. ticket[o] - 1
            => phase[p] = "done"

(* drain() returns only when every operation accepted before the call has
   left the queue. *)
DrainComplete ==
    \A d \in Drainer, o \in Op :
        drain[d] = "returned" /\ ticket[o] \in 1 .. horizon[d] => phase[o] = "done"

(* The result of an operation is decided once: the late result of a task the
   watchdog gave up neither changes it nor releases the turn again. *)
SettledOnce ==
    [][\A o \in Op :
         /\ outcome[o] # "none" => outcome'[o] = outcome[o]
         /\ Zombie(o) => phase'[o] # "running"
         /\ phase[o] = "done" => phase'[o] = "done"]_vars

(* One unresolved CDP call cannot wedge the queue: whatever the tasks do, an
   accepted operation leaves the queue and a drain() returns. *)
QueueProgress ==
    /\ \A o \in Op : phase[o] = "queued" ~> phase[o] = "done"
    /\ \A d \in Drainer : drain[d] = "waiting" ~> drain[d] = "returned"

(* The queue as its callers see it: an operation is served from the start of
   its task until the reactions of its result have run. *)
StageOf ==
    [new |-> "outside", refused |-> "refused", queued |-> "waiting",
     running |-> "serving", resetting |-> "serving", settled |-> "serving",
     done |-> "served"]

Stage == [o \in Op |-> StageOf[phase[o]]]

Serial == INSTANCE SerialQueue WITH
    Request <- Op, Capacity <- MaxPending,
    stage <- Stage, rank <- ticket, last <- accepted

(* The promise chain with its watchdog implements the bounded serial queue:
   whatever the interleaving of calls, tasks, timers and resets. *)
ImplementsSerialQueue == Serial!Spec

=============================================================================
