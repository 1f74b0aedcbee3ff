------------------------ MODULE OperationQueueProofs ------------------------
(***************************************************************************)
(* Proofs about OperationQueue, for every set of calls, every capacity and *)
(* with or without the watchdog.                                           *)
(*                                                                         *)
(* None of the safety invariants is inductive: that two operations never   *)
(* hold the turn together depends on the shape of the promise chain.  The  *)
(* strengthening says that tickets number the accepted operations without  *)
(* gap (Chain), that prev is the operation with the preceding ticket, that *)
(* the operations that left the queue are a prefix of that order           *)
(* (DonePrefix), and that whoever holds the turn waited for its            *)
(* predecessor (Turn).  Count ties the counter to the operations that are  *)
(* in the queue, DrainInv a drain() to the operation it awaits.            *)
(***************************************************************************)
EXTENDS OperationQueue, FiniteSetTheorems, TLAPS

Ticketed(o) == ticket[o] # 0

Chain ==
    /\ \A o \in Op : ticket[o] = 0 <=> phase[o] \in {"new", "refused"}
    /\ \A o \in Op : ticket[o] <= accepted
    /\ \A o, p \in Op : Ticketed(o) /\ ticket[o] = ticket[p] => o = p
    /\ \A o \in Op : ticket[o] = 1 => prev[o] = NoOp
    /\ \A o \in Op : ticket[o] > 1 =>
            prev[o] \in Op /\ ticket[prev[o]] = ticket[o] - 1
    /\ accepted = 0 => tail = NoOp
    /\ accepted > 0 => tail \in Op /\ ticket[tail] = accepted

DonePrefix ==
    \A o, p \in Op :
        phase[o] = "done" /\ ticket[p] \in 1 .. ticket[o] => phase[p] = "done"

Turn == \A o \in Op : Holding(o) \/ phase[o] = "done" => Released(prev[o])

LiveOps == {o \in Op : Live(o)}

DrainInv ==
    \A d \in Drainer :
        /\ horizon[d] <= accepted
        /\ drain[d] # "idle" /\ horizon[d] > 0 =>
                awaited[d] \in Op /\ ticket[awaited[d]] = horizon[d]
        /\ drain[d] = "returned" => Released(awaited[d])

Count == pending = Cardinality(LiveOps) /\ pending <= MaxPending

QueueInv == TypeOK /\ Count /\ Chain /\ DonePrefix /\ Turn

-----------------------------------------------------------------------------
(* Everything accepted before an operation whose predecessor was released
   has left the queue. *)
LEMMA PrefixReleased ==
    ASSUME QueueInv, NEW o \in Op, NEW p \in Op,
           Released(prev[o]), ticket[p] \in 1 .. ticket[o] - 1
    PROVE  phase[p] = "done"
<1>1. ticket[o] \in Nat /\ ticket[p] \in Nat
  BY DEF QueueInv, TypeOK
<1>2. ticket[o] > 1
  BY <1>1
<1>3. prev[o] \in Op /\ ticket[prev[o]] = ticket[o] - 1
  BY <1>2 DEF QueueInv, Chain
<1>4. phase[prev[o]] = "done"
  BY <1>3, OpAssumption DEF Released
<1>5. ticket[p] \in 1 .. ticket[prev[o]]
  BY <1>1, <1>3
<1> QED
  BY <1>3, <1>4, <1>5 DEF QueueInv, DonePrefix

(* The queue's order: whatever was accepted before an operation that has
   started has left the queue (run() chains each task on the former tail). *)
LEMMA InvStartOrder == QueueInv => StartOrder
<1> SUFFICES ASSUME QueueInv, NEW o \in Op, NEW p \in Op,
                    Holding(o) \/ phase[o] = "done",
                    ticket[p] \in 1 .. ticket[o] - 1
             PROVE  phase[p] = "done"
  BY DEF StartOrder
<1>1. Released(prev[o])
  BY DEF QueueInv, Turn
<1> QED
  BY <1>1, PrefixReleased

(* Mutual exclusion of turns follows from the order. *)
LEMMA InvOneHolder == QueueInv => OneHolder
<1> SUFFICES ASSUME QueueInv, NEW o \in Op, NEW p \in Op,
                    Holding(o), Holding(p), o # p
             PROVE  FALSE
  BY DEF OneHolder
<1>1. /\ ticket[o] \in Nat \ {0} /\ ticket[p] \in Nat \ {0}
      /\ ticket[o] # ticket[p]
  BY DEF QueueInv, TypeOK, Chain, Ticketed, Holding
<1>2. CASE ticket[o] < ticket[p]
  <2>1. ticket[o] \in 1 .. ticket[p] - 1
    BY <1>1, <1>2
  <2> QED
    BY <2>1, InvStartOrder DEF StartOrder, Holding
<1>3. CASE ticket[p] < ticket[o]
  <2>1. ticket[p] \in 1 .. ticket[o] - 1
    BY <1>1, <1>3
  <2> QED
    BY <2>1, InvStartOrder DEF StartOrder, Holding
<1> QED
  BY <1>1, <1>2, <1>3

-----------------------------------------------------------------------------
(* What the counter counts is a finite set. *)
LEMMA LiveFinite == IsFiniteSet(LiveOps) /\ Cardinality(LiveOps) \in Nat
<1>1. LiveOps \in SUBSET Op
  BY DEF LiveOps
<1> QED
  BY <1>1, OpAssumption, FS_Subset, FS_CardinalityType

(* `pending` follows the operations in the queue: run() adds the operation
   it counts, and the reactions of a result remove one that was there. *)
LEMMA CountStep == TypeOK /\ Count /\ [Next]_vars => Count'
<1> SUFFICES ASSUME TypeOK, Count, [Next]_vars
             PROVE  Count'
  OBVIOUS
<1> USE DEF Count
<1>0. /\ IsFiniteSet(LiveOps) /\ Cardinality(LiveOps) \in Nat
      /\ pending \in Nat /\ MaxPending \in Nat
  BY LiveFinite, MaxPendingAssumption DEF TypeOK
<1>1. ASSUME NEW o \in Op, OpStep(o)
      PROVE  Count'
  <2>1. CASE Accept(o)
    <3>1. LiveOps' = LiveOps \cup {o} /\ o \notin LiveOps
      BY <2>1 DEF Accept, LiveOps, Live, TypeOK
    <3>2. Cardinality(LiveOps') = Cardinality(LiveOps) + 1
      BY <1>0, <3>1, FS_AddElement
    <3> QED
      BY <1>0, <2>1, <3>2 DEF Accept
  <2>2. CASE Release(o)
    <3>1. LiveOps' = LiveOps \ {o} /\ o \in LiveOps
      BY <2>2 DEF Release, LiveOps, Live, TypeOK
    <3>2. Cardinality(LiveOps') = Cardinality(LiveOps) - 1
      BY <1>0, <3>1, FS_RemoveElement
    <3> QED
      BY <1>0, <2>2, <3>2 DEF Release
  <2>3. CASE Refuse(o)
    <3>1. LiveOps' = LiveOps
      BY <2>3 DEF Refuse, LiveOps, Live, TypeOK
    <3> QED
      BY <2>3, <3>1 DEF Refuse
  <2>4. CASE Start(o)
    <3>1. LiveOps' = LiveOps
      BY <2>4 DEF Start, LiveOps, Live, TypeOK
    <3> QED
      BY <2>4, <3>1 DEF Start
  <2>5. CASE Finish(o)
    <3>1. LiveOps' = LiveOps
      BY <2>5 DEF Finish, LiveOps, Live, TypeOK
    <3> QED
      BY <2>5, <3>1 DEF Finish
  <2>6. CASE Timeout(o)
    <3>1. LiveOps' = LiveOps
      BY <2>6 DEF Timeout, LiveOps, Live, TypeOK
    <3> QED
      BY <2>6, <3>1 DEF Timeout
  <2>7. CASE ResetDone(o)
    <3>1. LiveOps' = LiveOps
      BY <2>7 DEF ResetDone, LiveOps, Live, TypeOK
    <3> QED
      BY <2>7, <3>1 DEF ResetDone
  <2> QED
    BY <1>1, <2>1, <2>2, <2>3, <2>4, <2>5, <2>6, <2>7 DEF OpStep
<1>2. CASE UNCHANGED <<phase, pending>>
  BY <1>2 DEF LiveOps, Live
<1>3. ASSUME NEW d \in Drainer, DrainStep(d)
      PROVE  UNCHANGED <<phase, pending>>
  BY <1>3 DEF DrainStep, Drain, DrainReturn
<1> QED
  BY <1>1, <1>2, <1>3 DEF Next, vars

(* Every step keeps the types.  pending - 1 is a natural number because
   pending counts the operations in the queue. *)
LEMMA Typing == TypeOK /\ Count /\ [Next]_vars => TypeOK'
<1> SUFFICES ASSUME TypeOK, Count, [Next]_vars
             PROVE  TypeOK'
  OBVIOUS
<1>0. Count' /\ Cardinality(LiveOps') \in Nat
  <2>1. LiveOps' \in SUBSET Op
    BY DEF LiveOps
  <2> QED
    BY <2>1, CountStep, OpAssumption, FS_Subset, FS_CardinalityType
<1>1. pending' \in Nat
  BY <1>0 DEF Count
<1>2. ASSUME NEW o \in Op, OpStep(o)
      PROVE  TypeOK'
  <2>1. CASE Refuse(o)
    BY <1>1, <2>1 DEF TypeOK, Refuse, Phases
  <2>2. CASE Accept(o)
    BY <1>1, <2>2 DEF TypeOK, Accept, Phases
  <2>3. CASE Start(o)
    BY <1>1, <2>3 DEF TypeOK, Start, Phases
  <2>4. CASE Finish(o)
    BY <1>1, <2>4 DEF TypeOK, Finish, Phases, Outcomes
  <2>5. CASE Timeout(o)
    BY <1>1, <2>5 DEF TypeOK, Timeout, Phases
  <2>6. CASE ResetDone(o)
    BY <1>1, <2>6 DEF TypeOK, ResetDone, Phases, Outcomes
  <2>7. CASE Release(o)
    BY <1>1, <2>7 DEF TypeOK, Release, Phases
  <2> QED
    BY <1>2, <2>1, <2>2, <2>3, <2>4, <2>5, <2>6, <2>7 DEF OpStep
<1>3. ASSUME NEW d \in Drainer, DrainStep(d)
      PROVE  TypeOK'
  <2>1. CASE Drain(d)
    BY <2>1 DEF TypeOK, Drain
  <2>2. CASE DrainReturn(d)
    BY <2>2 DEF TypeOK, DrainReturn
  <2> QED
    BY <1>3, <2>1, <2>2 DEF DrainStep
<1>4. CASE UNCHANGED vars
  BY <1>4 DEF TypeOK, vars
<1> QED
  BY <1>2, <1>3, <1>4 DEF Next

-----------------------------------------------------------------------------
(* An operation that has left the queue stays out of it, so a released
   promise stays released. *)
LEMMA ReleasedStable ==
    ASSUME TypeOK, [Next]_vars, NEW o \in Op \cup {NoOp}, Released(o)
    PROVE  Released(o)'
<1>1. CASE o = NoOp
  BY <1>1 DEF Released
<1>2. CASE o \in Op /\ phase[o] = "done"
  <2>1. ASSUME NEW p \in Op, OpStep(p)
        PROVE  phase'[o] = "done"
    BY <1>2, <2>1 DEF OpStep, Refuse, Accept, Start, Finish, Timeout, ResetDone,
                      Release, TypeOK
  <2>2. ASSUME NEW d \in Drainer, DrainStep(d)
        PROVE  phase'[o] = "done"
    BY <1>2, <2>2 DEF DrainStep, Drain, DrainReturn
  <2>3. ASSUME UNCHANGED vars
        PROVE  phase'[o] = "done"
    BY <1>2, <2>3 DEF vars
  <2>4. phase'[o] = "done"
    BY <2>1, <2>2, <2>3 DEF Next
  <2> QED
    BY <1>2, <2>4 DEF Released
<1> QED
  BY <1>1, <1>2, OpAssumption DEF Released

(* Acceptance keeps the numbering of the promise chain; nothing else
   touches it. *)
LEMMA ChainStep == QueueInv /\ [Next]_vars => Chain'
<1> SUFFICES ASSUME QueueInv, [Next]_vars
             PROVE  Chain'
  OBVIOUS
<1> USE DEF QueueInv
<1>1. ASSUME NEW o \in Op, Accept(o)
      PROVE  Chain'
  <2>1. /\ ticket[o] = 0 /\ accepted \in Nat /\ tail \in Op \cup {NoOp}
        /\ \A p \in Op : ticket[p] \in Nat /\ ticket[p] <= accepted
    BY <1>1 DEF Accept, Chain, TypeOK
  <2>2. /\ accepted' = accepted + 1 /\ tail' = o
        /\ ticket'[o] = accepted + 1 /\ prev'[o] = tail
        /\ phase'[o] = "queued"
        /\ \A p \in Op \ {o} : /\ ticket'[p] = ticket[p]
                               /\ prev'[p] = prev[p]
                               /\ phase'[p] = phase[p]
    BY <1>1 DEF Accept, TypeOK
  <2>3. \A p \in Op : ticket'[p] = 0 <=> phase'[p] \in {"new", "refused"}
    BY <2>1, <2>2 DEF Chain
  <2>4. \A p \in Op : ticket'[p] <= accepted'
    BY <2>1, <2>2
  <2>5. \A p, q \in Op : ticket'[p] # 0 /\ ticket'[p] = ticket'[q] => p = q
    BY <2>1, <2>2 DEF Chain, Ticketed
  <2>6. \A p \in Op : ticket'[p] = 1 => prev'[p] = NoOp
    BY <2>1, <2>2 DEF Chain
  <2>7. \A p \in Op : ticket'[p] > 1 =>
            prev'[p] \in Op /\ ticket'[prev'[p]] = ticket'[p] - 1
    <3> SUFFICES ASSUME NEW p \in Op, ticket'[p] > 1
                 PROVE  prev'[p] \in Op /\ ticket'[prev'[p]] = ticket'[p] - 1
      OBVIOUS
    <3>1. CASE p = o
      <4>1. tail \in Op /\ ticket[tail] = accepted /\ accepted > 0
        BY <2>1, <2>2, <3>1 DEF Chain
      <4>2. tail # o
        BY <2>1, <4>1
      <4> QED
        BY <2>1, <2>2, <3>1, <4>1, <4>2
    <3>2. CASE p # o
      <4>1. prev[p] \in Op /\ ticket[prev[p]] = ticket[p] - 1 /\ ticket[p] > 1
        BY <2>2, <3>2 DEF Chain
      <4>2. prev[p] # o
        BY <2>1, <4>1
      <4> QED
        BY <2>2, <3>2, <4>1, <4>2
    <3> QED
      BY <3>1, <3>2
  <2>8. accepted' > 0 /\ tail' \in Op /\ ticket'[tail'] = accepted'
    BY <2>1, <2>2
  <2> QED
    BY <2>1, <2>2, <2>3, <2>4, <2>5, <2>6, <2>7, <2>8 DEF Chain, Ticketed
<1>2. ASSUME NEW o \in Op, OpStep(o), ~ Accept(o)
      PROVE  Chain'
  <2>1. /\ UNCHANGED <<prev, tail, ticket, accepted>>
        /\ \A p \in Op : phase'[p] \in {"new", "refused"} <=>
                            phase[p] \in {"new", "refused"}
    BY <1>2 DEF OpStep, Refuse, Start, Finish, Timeout, ResetDone, Release, TypeOK
  <2> QED
    BY <2>1 DEF Chain, Ticketed
<1>3. ASSUME UNCHANGED <<phase, prev, tail, ticket, accepted>>
      PROVE  Chain'
  BY <1>3 DEF Chain, Ticketed
<1>4. ASSUME NEW d \in Drainer, DrainStep(d)
      PROVE  Chain'
  BY <1>3, <1>4 DEF DrainStep, Drain, DrainReturn
<1> QED
  BY <1>1, <1>2, <1>3, <1>4 DEF Next, vars

(* The operations that left the queue stay a prefix of the order: the one
   that leaves held the turn. *)
LEMMA DonePrefixStep == QueueInv /\ [Next]_vars => DonePrefix'
<1> SUFFICES ASSUME QueueInv, [Next]_vars
             PROVE  DonePrefix'
  OBVIOUS
<1> USE DEF QueueInv
<1>1. ASSUME NEW o \in Op, Release(o)
      PROVE  DonePrefix'
  <2> SUFFICES ASSUME NEW p \in Op, NEW q \in Op,
                      phase'[p] = "done", ticket'[q] \in 1 .. ticket'[p]
               PROVE  phase'[q] = "done"
    BY DEF DonePrefix
  <2>1. /\ ticket' = ticket
        /\ phase'[o] = "done"
        /\ \A r \in Op \ {o} : phase'[r] = phase[r]
        /\ Released(prev[o])
    BY <1>1 DEF Release, TypeOK, Turn, Holding
  <2>2. CASE p # o
    BY <2>1, <2>2 DEF DonePrefix
  <2>3. CASE p = o /\ ticket[q] = ticket[o]
    BY <2>1, <2>3 DEF Chain, Ticketed, TypeOK
  <2>4. CASE p = o /\ ticket[q] # ticket[o]
    <3>1. ticket[q] \in 1 .. ticket[o] - 1
      BY <2>1, <2>4 DEF TypeOK
    <3>2. phase[q] = "done"
      BY <2>1, <3>1, PrefixReleased
    <3> QED
      BY <2>1, <3>2
  <2> QED
    BY <2>2, <2>3, <2>4
<1>2. ASSUME NEW o \in Op, Accept(o)
      PROVE  DonePrefix'
  <2> SUFFICES ASSUME NEW p \in Op, NEW q \in Op,
                      phase'[p] = "done", ticket'[q] \in 1 .. ticket'[p]
               PROVE  phase'[q] = "done"
    BY DEF DonePrefix
  <2>1. /\ phase'[o] = "queued" /\ ticket'[o] = accepted + 1
        /\ \A r \in Op \ {o} : phase'[r] = phase[r] /\ ticket'[r] = ticket[r]
        /\ accepted \in Nat
        /\ \A r \in Op : ticket[r] <= accepted
    BY <1>2 DEF Accept, TypeOK, Chain
  <2>2. p # o /\ q # o
    BY <2>1 DEF TypeOK
  <2> QED
    BY <2>1, <2>2 DEF DonePrefix
<1>3. ASSUME NEW o \in Op, OpStep(o), ~ Accept(o), ~ Release(o)
      PROVE  DonePrefix'
  <2>1. /\ ticket' = ticket
        /\ \A p \in Op : phase'[p] = "done" <=> phase[p] = "done"
    BY <1>3 DEF OpStep, Refuse, Start, Finish, Timeout, ResetDone, TypeOK
  <2> QED
    BY <2>1 DEF DonePrefix
<1>4. ASSUME UNCHANGED <<phase, ticket>>
      PROVE  DonePrefix'
  BY <1>4 DEF DonePrefix
<1>5. ASSUME NEW d \in Drainer, DrainStep(d)
      PROVE  DonePrefix'
  BY <1>4, <1>5 DEF DrainStep, Drain, DrainReturn
<1> QED
  BY <1>1, <1>2, <1>3, <1>4, <1>5 DEF Next, vars

(* An operation takes its turn only from a released predecessor, and its
   predecessor never changes once it is accepted. *)
LEMMA TurnStep == QueueInv /\ [Next]_vars => Turn'
<1> SUFFICES ASSUME QueueInv, [Next]_vars, NEW o \in Op,
                    Holding(o)' \/ phase'[o] = "done"
             PROVE  Released(prev[o])' /\ prev'[o] = prev[o]
  BY DEF Turn, Released
<1> USE DEF QueueInv
<1>0. prev[o] \in Op \cup {NoOp}
  BY DEF TypeOK
<1>1. ASSUME NEW p \in Op, OpStep(p)
      PROVE  prev'[o] = prev[o] /\ Released(prev[o])
  <2>1. CASE Accept(p)
    BY <2>1 DEF Accept, Holding, TypeOK, Turn
  <2>2. CASE Start(p)
    BY <2>2 DEF Start, Holding, TypeOK, Turn
  <2>3. CASE Refuse(p)
    BY <2>3 DEF Refuse, Holding, TypeOK, Turn
  <2>4. CASE Finish(p)
    BY <2>4 DEF Finish, Holding, TypeOK, Turn
  <2>5. CASE Timeout(p)
    BY <2>5 DEF Timeout, Holding, TypeOK, Turn
  <2>6. CASE ResetDone(p)
    BY <2>6 DEF ResetDone, Holding, TypeOK, Turn
  <2>7. CASE Release(p)
    BY <2>7 DEF Release, Holding, TypeOK, Turn
  <2> QED
    BY <1>1, <2>1, <2>2, <2>3, <2>4, <2>5, <2>6, <2>7 DEF OpStep
<1>2. ASSUME UNCHANGED <<phase, prev>>
      PROVE  prev'[o] = prev[o] /\ Released(prev[o])
  BY <1>2 DEF Turn, Holding
<1>3. ASSUME NEW d \in Drainer, DrainStep(d)
      PROVE  prev'[o] = prev[o] /\ Released(prev[o])
  BY <1>2, <1>3 DEF DrainStep, Drain, DrainReturn
<1>4. prev'[o] = prev[o] /\ Released(prev[o])
  BY <1>1, <1>2, <1>3 DEF Next, vars
<1> QED
  BY <1>0, <1>4, ReleasedStable

(* What a drain() awaits is the operation accepted last before it. *)
LEMMA DrainStepInv == QueueInv /\ DrainInv /\ [Next]_vars => DrainInv'
<1> SUFFICES ASSUME QueueInv, DrainInv, [Next]_vars, NEW d \in Drainer
             PROVE  /\ horizon'[d] <= accepted'
                    /\ drain'[d] # "idle" /\ horizon'[d] > 0 =>
                          /\ awaited'[d] \in Op
                          /\ ticket'[awaited'[d]] = horizon'[d]
                    /\ drain'[d] = "returned" => Released(awaited[d])'
  BY DEF DrainInv, Released
<1> USE DEF QueueInv
<1>0. /\ awaited[d] \in Op \cup {NoOp} /\ horizon[d] \in Nat /\ accepted \in Nat
      /\ \A o \in Op : ticket[o] \in Nat
      /\ horizon[d] <= accepted
      /\ drain[d] # "idle" /\ horizon[d] > 0 =>
              awaited[d] \in Op /\ ticket[awaited[d]] = horizon[d]
      /\ drain[d] = "returned" => Released(awaited[d])
  BY DEF TypeOK, DrainInv
<1>1. drain[d] = "returned" => Released(awaited[d])'
  <2>1. CASE awaited'[d] = awaited[d]
    BY <1>0, <2>1, ReleasedStable DEF Released
  <2>2. CASE awaited'[d] # awaited[d]
    <3>1. drain[d] # "returned"
      BY <2>2 DEF Next, vars, OpStep, Refuse, Accept, Start, Finish, Timeout,
                  ResetDone, Release, DrainStep, Drain, DrainReturn, TypeOK
    <3> QED
      BY <3>1
  <2> QED
    BY <2>1, <2>2
<1>2. ASSUME NEW o \in Op, OpStep(o)
      PROVE  /\ UNCHANGED <<drain, awaited, horizon>>
             /\ accepted <= accepted' /\ accepted' \in Nat
             /\ \A p \in Op : ticket[p] # 0 => ticket'[p] = ticket[p]
  <2>1. CASE Accept(o)
    BY <1>0, <2>1 DEF Accept, TypeOK, Chain
  <2>2. CASE ~ Accept(o)
    BY <1>0, <1>2, <2>2 DEF OpStep, Refuse, Start, Finish, Timeout, ResetDone, Release
  <2> QED
    BY <2>1, <2>2
<1>3. ASSUME NEW o \in Op, OpStep(o)
      PROVE  /\ horizon'[d] <= accepted'
             /\ drain'[d] # "idle" /\ horizon'[d] > 0 =>
                   awaited'[d] \in Op /\ ticket'[awaited'[d]] = horizon'[d]
             /\ drain'[d] = "returned" => drain[d] = "returned"
  BY <1>0, <1>2, <1>3
<1>4. ASSUME NEW e \in Drainer, Drain(e)
      PROVE  /\ horizon'[d] <= accepted'
             /\ drain'[d] # "idle" /\ horizon'[d] > 0 =>
                   awaited'[d] \in Op /\ ticket'[awaited'[d]] = horizon'[d]
             /\ drain'[d] = "returned" => drain[d] = "returned"
  <2>1. CASE e = d
    BY <1>0, <1>4, <2>1 DEF Drain, TypeOK, Chain
  <2>2. CASE e # d
    BY <1>0, <1>4, <2>2 DEF Drain, TypeOK
  <2> QED
    BY <2>1, <2>2
<1>5. ASSUME NEW e \in Drainer, DrainReturn(e)
      PROVE  /\ horizon'[d] <= accepted'
             /\ drain'[d] # "idle" /\ horizon'[d] > 0 =>
                   awaited'[d] \in Op /\ ticket'[awaited'[d]] = horizon'[d]
             /\ drain'[d] = "returned" => Released(awaited[d])'
  <2>1. CASE e = d
    <3>1. Released(awaited[d]) /\ awaited' = awaited
      BY <1>5, <2>1 DEF DrainReturn
    <3>2. Released(awaited[d])'
      BY <1>0, <3>1, ReleasedStable DEF Released
    <3> QED
      BY <1>0, <1>5, <2>1, <3>2 DEF DrainReturn, TypeOK
  <2>2. CASE e # d
    BY <1>0, <1>1, <1>5, <2>2 DEF DrainReturn, TypeOK
  <2> QED
    BY <2>1, <2>2
<1>6. CASE UNCHANGED vars
  BY <1>0, <1>1, <1>6 DEF vars
<1>7. CASE \E o \in Op : OpStep(o)
  BY <1>1, <1>3, <1>7
<1>8. CASE \E e \in Drainer : DrainStep(e)
  BY <1>1, <1>4, <1>5, <1>8 DEF DrainStep
<1> QED
  BY <1>6, <1>7, <1>8 DEF Next

LEMMA InvDrainComplete == QueueInv /\ DrainInv => DrainComplete
<1> SUFFICES ASSUME QueueInv, DrainInv, NEW d \in Drainer, NEW o \in Op,
                    drain[d] = "returned", ticket[o] \in 1 .. horizon[d]
             PROVE  phase[o] = "done"
  BY DEF DrainComplete
<1>1. horizon[d] > 0
  BY DEF QueueInv, TypeOK
<1>2. /\ awaited[d] \in Op /\ ticket[awaited[d]] = horizon[d]
      /\ Released(awaited[d])
  BY <1>1 DEF DrainInv
<1>3. phase[awaited[d]] = "done"
  BY <1>2, OpAssumption DEF Released
<1> QED
  BY <1>2, <1>3 DEF QueueInv, DonePrefix

-----------------------------------------------------------------------------
Inv == QueueInv /\ DrainInv

(* The invariant holds of the empty queue. *)
LEMMA InitInv == Init => Inv
<1> SUFFICES ASSUME Init
             PROVE  Inv
  OBVIOUS
<1>1. TypeOK
  BY DEF Init, TypeOK, Phases, Outcomes
<1>2. Count
  <2>1. LiveOps = {}
    BY DEF Init, LiveOps, Live
  <2> QED
    BY <2>1, FS_EmptySet, MaxPendingAssumption DEF Init, Count
<1>3. Chain /\ DonePrefix /\ Turn /\ DrainInv
  BY DEF Init, Chain, DonePrefix, Turn, DrainInv, Ticketed, Holding
<1> QED
  BY <1>1, <1>2, <1>3 DEF Inv, QueueInv

LEMMA InvStep == Inv /\ [Next]_vars => Inv'
  BY CountStep, Typing, ChainStep, DonePrefixStep, TurnStep, DrainStepInv
     DEF Inv, QueueInv

THEOREM Invariance == Spec => []Inv
  BY InitInv, InvStep, PTL DEF Spec

(* The queue's variables keep their types: the counter never goes negative. *)
THEOREM TypeCorrect == Spec => []TypeOK
<1>1. Inv => TypeOK
  BY DEF Inv, QueueInv
<1> QED
  BY <1>1, Invariance, PTL

(* At most one operation has the turn, the browser reset after a timeout
   included. *)
THEOREM OneHolderSafe == Spec => []OneHolder
<1>1. Inv => OneHolder
  BY InvOneHolder DEF Inv
<1> QED
  BY <1>1, Invariance, PTL

(* The counter is the number of operations in the queue, at most maxPending. *)
THEOREM PendingExactSafe == Spec => []PendingExact
<1>1. Inv => PendingExact
  BY DEF Inv, QueueInv, Count, LiveOps, PendingExact
<1> QED
  BY <1>1, Invariance, PTL

(* Operations take their turns in the order of their acceptance. *)
THEOREM StartOrderSafe == Spec => []StartOrder
<1>1. Inv => StartOrder
  BY InvStartOrder DEF Inv
<1> QED
  BY <1>1, Invariance, PTL

(* A drain() that returned has waited for all that was accepted before it. *)
THEOREM DrainCompleteSafe == Spec => []DrainComplete
<1>1. Inv => DrainComplete
  BY InvDrainComplete DEF Inv
<1> QED
  BY <1>1, Invariance, PTL

(* The result of an operation is decided once, whatever its task does after
   the watchdog gave it up. *)
THEOREM SettledOnceHolds == Spec => SettledOnce
<1> DEFINE Once == \A o \in Op :
             /\ outcome[o] # "none" => outcome'[o] = outcome[o]
             /\ Zombie(o) => phase'[o] # "running"
             /\ phase[o] = "done" => phase'[o] = "done"
           Decided == \A o \in Op :
             /\ outcome[o] # "none" => phase[o] \in {"settled", "done"}
             /\ body[o] = "running" =>
                   phase[o] \in {"running", "resetting", "settled", "done"}
             /\ phase[o] = "running" => body[o] = "running"
<1>1. Init => Decided
  BY DEF Init
<1>2. ASSUME TypeOK, Decided, [Next]_vars
      PROVE  Decided' /\ [Once]_vars
  <2>1. ASSUME NEW p \in Op, OpStep(p)
        PROVE  Decided' /\ Once
    <3>1. CASE Refuse(p)
      BY <1>2, <3>1 DEF Refuse, Zombie, TypeOK
    <3>2. CASE Accept(p)
      BY <1>2, <3>2 DEF Accept, Zombie, TypeOK
    <3>3. CASE Start(p)
      BY <1>2, <3>3 DEF Start, Zombie, TypeOK
    <3>4. CASE Finish(p)
      BY <1>2, <3>4 DEF Finish, Zombie, TypeOK
    <3>5. CASE Timeout(p)
      BY <1>2, <3>5 DEF Timeout, Zombie, TypeOK
    <3>6. CASE ResetDone(p)
      BY <1>2, <3>6 DEF ResetDone, Zombie, TypeOK
    <3>7. CASE Release(p)
      BY <1>2, <3>7 DEF Release, Zombie, TypeOK
    <3> QED
      BY <2>1, <3>1, <3>2, <3>3, <3>4, <3>5, <3>6, <3>7 DEF OpStep
  <2>2. ASSUME NEW d \in Drainer, DrainStep(d)
        PROVE  Decided' /\ Once
    BY <1>2, <2>2 DEF DrainStep, Drain, DrainReturn, Zombie
  <2>3. CASE UNCHANGED vars
    BY <1>2, <2>3 DEF vars
  <2> QED
    BY <1>2, <2>1, <2>2, <2>3 DEF Next
<1> QED
  BY <1>1, <1>2, TypeCorrect, PTL DEF Spec, SettledOnce

-----------------------------------------------------------------------------
(* The stage of an operation follows from its phase. *)
LEMMA StageMap ==
    ASSUME TypeOK, NEW o \in Op
    PROVE  /\ phase[o] = "new" => Stage[o] = "outside"
           /\ phase[o] = "refused" => Stage[o] = "refused"
           /\ phase[o] = "queued" => Stage[o] = "waiting"
           /\ Holding(o) => Stage[o] = "serving"
           /\ phase[o] = "done" => Stage[o] = "served"
  BY DEF Stage, StageOf, Holding

(* A step that moves one operation moves its stage alone. *)
LEMMA StageMove ==
    ASSUME TypeOK, NEW o \in Op, NEW s \in Phases, phase' = [phase EXCEPT ![o] = s]
    PROVE  Stage' = [Stage EXCEPT ![o] = StageOf[s]]
  BY DEF Stage, TypeOK

(* The instance's Cardinality is the standard one. *)
LEMMA SameCardinality == Serial!Cardinality(Serial!Inside) = Cardinality(Serial!Inside)
  BY DEF Serial!Cardinality, Cardinality, Serial!IsFiniteSet, IsFiniteSet

(* Each step of the promise chain is a step of the bounded serial queue or
   invisible to the callers. *)
LEMMA SerialStep == Inv /\ [Next]_vars => [Serial!Next]_(Serial!vars)
<1> SUFFICES ASSUME Inv, [Next]_vars
             PROVE  [Serial!Next]_(Serial!vars)
  OBVIOUS
<1> USE DEF Inv, QueueInv
<1>0. Serial!Inside = LiveOps
  <2>1. ASSUME NEW o \in Op
        PROVE  Stage[o] \in {"waiting", "serving"} <=> Live(o)
    BY StageMap DEF Live, Holding, TypeOK, Phases
  <2> QED
    BY <2>1 DEF Serial!Inside, LiveOps
<1>1. ASSUME NEW o \in Op, Refuse(o)
      PROVE  Serial!Refuse(o)
  <2>1. Stage[o] = "outside"
    BY <1>1, StageMap DEF Refuse, Holding
  <2>2. Stage' = [Stage EXCEPT ![o] = "refused"]
    BY <1>1, StageMove DEF Refuse, StageOf, Phases
  <2>3. Cardinality(Serial!Inside) = MaxPending
    BY <1>0, <1>1, LiveFinite, MaxPendingAssumption DEF Refuse, Count, TypeOK
  <2> QED
    BY <1>1, <2>1, <2>2, <2>3, SameCardinality DEF Serial!Refuse, Refuse
<1>2. ASSUME NEW o \in Op, Accept(o)
      PROVE  Serial!Admit(o)
  <2>1. Stage[o] = "outside"
    BY <1>2, StageMap DEF Accept, Holding
  <2>2. Stage' = [Stage EXCEPT ![o] = "waiting"]
    BY <1>2, StageMove DEF Accept, StageOf, Phases
  <2>3. Cardinality(Serial!Inside) < MaxPending
    BY <1>0, <1>2 DEF Accept, Count
  <2> QED
    BY <1>2, <2>1, <2>2, <2>3, SameCardinality DEF Serial!Admit, Accept
<1>3. ASSUME NEW o \in Op, Start(o)
      PROVE  Serial!Serve(o)
  <2>1. Stage[o] = "waiting"
    BY <1>3, StageMap DEF Start, Holding
  <2>2. Stage' = [Stage EXCEPT ![o] = "serving"]
    BY <1>3, StageMove DEF Start, StageOf, Phases
  <2>3. ASSUME NEW p \in LiveOps
        PROVE  Stage[p] = "waiting" /\ ticket[o] <= ticket[p]
    <3>1. /\ phase[o] = "queued" /\ Released(prev[o])
          /\ p \in Op /\ phase[p] # "done"
          /\ ticket[o] \in Nat \ {0} /\ ticket[p] \in Nat \ {0}
      BY <1>3, <2>3 DEF Start, LiveOps, Live, TypeOK, Chain
    <3>2. ticket[o] <= ticket[p]
      BY <3>1, PrefixReleased
    <3>3. ~ Holding(p)
      <4>1. CASE p = o
        BY <3>1, <4>1 DEF Holding
      <4>2. CASE p # o
        <5>1. ticket[o] \in 1 .. ticket[p] - 1
          BY <3>1, <3>2, <4>2 DEF Chain, Ticketed
        <5> QED
          BY <3>1, <5>1, InvStartOrder DEF StartOrder
      <4> QED
        BY <4>1, <4>2
    <3> QED
      BY <2>3, <3>1, <3>2, <3>3, StageMap DEF LiveOps, Live, Holding
  <2> QED
    BY <1>0, <1>3, <2>1, <2>2, <2>3 DEF Serial!Serve, Start
<1>4. ASSUME NEW o \in Op, Release(o)
      PROVE  Serial!Leave(o)
  <2>1. Stage[o] = "serving"
    BY <1>4, StageMap DEF Release, Holding
  <2>2. Stage' = [Stage EXCEPT ![o] = "served"]
    BY <1>4, StageMove DEF Release, StageOf, Phases
  <2> QED
    BY <1>4, <2>1, <2>2 DEF Serial!Leave, Release
<1>5. ASSUME NEW o \in Op, Finish(o) \/ Timeout(o) \/ ResetDone(o)
      PROVE  UNCHANGED Serial!vars
  <2>1. Stage' = Stage
    <3>1. CASE UNCHANGED phase
      BY <3>1 DEF Stage
    <3>2. CASE ~ UNCHANGED phase
      <4>1. /\ phase' = [phase EXCEPT ![o] = "settled"]
                \/ phase' = [phase EXCEPT ![o] = "resetting"]
            /\ Holding(o)
        BY <1>5, <3>2 DEF Finish, Timeout, ResetDone, Holding
      <4>2. Stage' = [Stage EXCEPT ![o] = "serving"]
        BY <4>1, StageMove DEF StageOf, Phases
      <4>3. Stage[o] = "serving"
        BY <4>1, StageMap
      <4> QED
        BY <4>2, <4>3 DEF Stage
    <3> QED
      BY <3>1, <3>2
  <2> QED
    BY <1>5, <2>1 DEF Finish, Timeout, ResetDone, Serial!vars
<1>6. ASSUME UNCHANGED <<phase, ticket, accepted>>
      PROVE  UNCHANGED Serial!vars
  BY <1>6 DEF Serial!vars, Stage
<1>7. ASSUME NEW d \in Drainer, DrainStep(d)
      PROVE  UNCHANGED Serial!vars
  BY <1>6, <1>7 DEF DrainStep, Drain, DrainReturn
<1>8. CASE UNCHANGED vars
  BY <1>6, <1>8 DEF vars
<1> QED
  BY <1>1, <1>2, <1>3, <1>4, <1>5, <1>7, <1>8 DEF Next, OpStep, Serial!Next

(* The operation queue implements the bounded serial queue. *)
THEOREM Refinement == Spec => ImplementsSerialQueue
<1>1. Init => Serial!Init
  BY DEF Init, Serial!Init, Stage, StageOf
<1> QED
  BY <1>1, SerialStep, Invariance, PTL DEF Spec, ImplementsSerialQueue, Serial!Spec
=============================================================================
