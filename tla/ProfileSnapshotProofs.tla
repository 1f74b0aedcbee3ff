------------------------- MODULE ProfileSnapshotProofs -------------------------
(***************************************************************************)
(* Proofs about ProfileSnapshot, for any number of containers, archives,   *)
(* sign-ins, faults and late requests.                                     *)
(*                                                                         *)
(* PointerLinear needs to know what a checkpoint holds when it saves: if   *)
(* the generation it read is still the pointer's, the pointer is the one   *)
(* it read.  Every replacement advances the generation, so what a slower   *)
(* or a dead checkpoint holds is behind (Behind) or current (Holds); that  *)
(* is so whether or not containers overlap.                                *)
(*                                                                         *)
(* CurrentRestorable and NothingRolledBack hold while no two containers    *)
(* overlap.  AloneInv says which archives are still wanted, that nothing   *)
(* which deletes, now or late, deletes one of these, and that the pointed  *)
(* archive and all later ones hold the last reported checkpoint.           *)
(***************************************************************************)
EXTENDS ProfileSnapshot, FiniteSetTheorems, TLAPS

(* What a checkpoint that is about to save with generation gen and previous
   archive prior knows of the pointer. *)
Holds(gen, prior) == gen = pointer.gen => pointer.readable /\ prior = pointer.current

(* A record of a container and the pointer are records of these fields. *)
Fields == {"at", "profile", "left", "failed", "by", "object", "prior", "gen", "stale"}
Shape == \A c \in Container : box[c] = [f \in Fields |-> box[c][f]]

Behind ==
    /\ \A c \in Container : box[c].gen \in Nat /\ box[c].gen <= pointer.gen
    /\ \A r \in sent : r.do \in Requests /\ r.of.gen \in Nat /\ r.of.gen <= pointer.gen

Unread ==
    /\ \A c \in Container :
          /\ box[c].at \notin {"body", "save", "prune", "delete"} => box[c].gen = 0
          /\ box[c].at \notin {"save", "prune", "delete"} => box[c].prior = 0

Saving ==
    /\ \A c \in Container : box[c].at = "save" => Holds(box[c].gen, box[c].prior)
    /\ \A r \in sent : r.do = "save" => Holds(r.of.gen, r.of.prior)

Bucket ==
    /\ pointer = [f \in {"gen", "readable", "current", "previous"} |-> pointer[f]]
    /\ pointer.gen \in Nat
    /\ pointer.gen = 0 => pointer.readable /\ pointer.current = 0

Frame == box = [c \in Container |-> box[c]]

PointerInv == Frame /\ Shape /\ Behind /\ Unread /\ Saving /\ Bucket

-----------------------------------------------------------------------------
LEMMA InitInv == Init => PointerInv
<1> SUFFICES ASSUME Init
             PROVE  PointerInv
  OBVIOUS
<1>1. Frame /\ \A c \in Container : box[c] = Off
  BY DEF Init, Frame
<1>2. Shape
  BY <1>1 DEF Shape, Fields, Off
<1>3. Unread /\ Saving /\ Behind
  BY <1>1 DEF Unread, Saving, Behind, Off, Init, NoPointer
<1>4. Bucket
  BY DEF Init, Bucket, NoPointer
<1> QED
  BY <1>1, <1>2, <1>3, <1>4 DEF PointerInv

(* What a step does to the pointer. *)
LEMMA PointerMoves ==
    ASSUME PointerInv, [Next]_vars
    PROVE  \/ pointer' = pointer
           \/ \E c \in Container : /\ box[c].at = "save" /\ MayReplace(box[c].gen)
                                   /\ pointer' = Replaced(box[c])
           \/ \E r \in sent : /\ r.do = "save" /\ MayReplace(r.of.gen)
                              /\ pointer' = Replaced(r.of)
           \/ /\ pointer.gen # 0
              /\ pointer' = [pointer EXCEPT !.gen = @ + 1, !.readable = FALSE]
<1> DEFINE Moves == 
           \/ pointer' = pointer
           \/ \E c \in Container : /\ box[c].at = "save" /\ MayReplace(box[c].gen)
                                   /\ pointer' = Replaced(box[c])
           \/ \E r \in sent : /\ r.do = "save" /\ MayReplace(r.of.gen)
                              /\ pointer' = Replaced(r.of)
           \/ /\ pointer.gen # 0
              /\ pointer' = [pointer EXCEPT !.gen = @ + 1, !.readable = FALSE]
<1>1. ASSUME NEW c \in Container, Restore(c) \/ SignIn(c) \/ Terminate(c) \/ Crash(c)
      PROVE  Moves
  BY <1>1 DEF Restore, Boot, ReadToRestore, Try, Serve, SignIn, Terminate, Crash, bucket
<1>2. ASSUME NEW c \in Container, Archive(c) \/ ReadMeta(c) \/ ReadBody(c) \/ Prune(c)
      PROVE  Moves
  BY <1>2 DEF Archive, ReadMeta, ReadBody, Prune, bucket
<1>3. ASSUME NEW c \in Container, Upload(c)
      PROVE  Moves
  BY <1>3 DEF Upload, Carried
<1>4. ASSUME NEW c \in Container, Delete(c)
      PROVE  Moves
  BY <1>4 DEF Delete, Carried
<1>5. ASSUME NEW c \in Container, Save(c)
      PROVE  Moves
  BY <1>5 DEF Save, At, Carried
<1>6. CASE Land
  <2>1. PICK r \in sent : Carried(r.do, r.of) \/ UNCHANGED <<stored, pointer>>
    BY <1>6 DEF Land
  <2> QED
    BY <2>1 DEF Carried, PointerInv, Behind, Requests
<1>7. CASE OtherRelease
  BY <1>7 DEF OtherRelease
<1>8. CASE UNCHANGED vars
  BY <1>8 DEF vars
<1> QED
  BY <1>1, <1>2, <1>3, <1>4, <1>5, <1>6, <1>7, <1>8 DEF Next, Checkpoint

(* What a step does to the container it is a step of: the record that comes
   next, and what it says about the pointer. *)
Sound(b) ==
    /\ b = [f \in Fields |-> b[f]]
    /\ b.gen \in Nat /\ b.gen <= pointer.gen
    /\ b.at \notin {"body", "save", "prune", "delete"} => b.gen = 0
    /\ b.at \notin {"save", "prune", "delete"} => b.prior = 0
    /\ b.at = "save" => Holds(b.gen, b.prior)

LEMMA SoundNow == ASSUME PointerInv, NEW c \in Container PROVE Sound(box[c])
  BY DEF PointerInv, Shape, Behind, Unread, Saving, Sound, Fields

LEMMA PointerNow ==
    ASSUME PointerInv
    PROVE  /\ pointer.gen \in Nat
           /\ pointer.gen = 0 => pointer.readable /\ pointer.current = 0
  BY DEF PointerInv, Bucket

LEMMA OffShape ==
    /\ Off = [f \in Fields |-> Off[f]]
    /\ Off.at = "off" /\ Off.gen = 0 /\ Off.prior = 0
<1>1. Off = [f \in Fields |-> Off[f]]
  BY Zenon DEF Off, Fields
<1>2. Off.at = "off" /\ Off.gen = 0 /\ Off.prior = 0
  BY DEF Off
<1> QED
  BY <1>1, <1>2

LEMMA OffSound == PointerInv => Sound(Off)
  BY PointerNow, OffShape DEF Sound

(* All containers are sound after the step. *)
Steady == Frame' /\ \A d \in Container : Sound(box'[d])

LEMMA GoesSteady ==
    ASSUME PointerInv, NEW c \in Container, NEW n, Goes(c, n), Sound(n)
    PROVE  Steady
<1>1. box' = [box EXCEPT ![c] = n]
  BY DEF Goes
<1>2. box'[c] = n /\ \A d \in Container : d # c => box'[d] = box[d]
  BY <1>1 DEF PointerInv, Frame
<1>3. Frame'
  BY <1>1 DEF PointerInv, Frame
<1> QED
  BY <1>2, <1>3, SoundNow DEF Steady

LEMMA FinishedSteady ==
    ASSUME PointerInv, NEW c \in Container, NEW b, Finished(c, b), Sound(b)
    PROVE  Steady
<1>1. CASE b.by = "core"
  <2> DEFINE n == [b EXCEPT !.at = "serving", !.by = "nobody", !.object = 0, !.prior = 0,
                           !.gen = 0, !.stale = {}]
  <2>1. Goes(c, n)
    BY <1>1 DEF Finished
  <2>2. n = [f \in Fields |-> n[f]] /\ n.at = "serving" /\ n.gen = 0 /\ n.prior = 0
    <3>1. b = [f \in Fields |-> b[f]]
      BY DEF Sound
    <3>2. n = [f \in Fields |-> n[f]]
      BY <3>1
    <3> QED
      BY <3>1, <3>2 DEF Fields
  <2> HIDE DEF n
  <2>3. Sound(n)
    BY <2>2, PointerNow DEF Sound
  <2> QED
    BY <2>1, <2>3, GoesSteady
<1>2. CASE b.by # "core"
  BY <1>2, OffSound, GoesSteady DEF Finished
<1> QED
  BY <1>1, <1>2

LEMMA BoxMoves ==
    ASSUME PointerInv, [Next]_vars
    PROVE  Steady
<1> USE DEF At
<1>0. ASSUME NEW c \in Container
      PROVE  Sound(box[c]) /\ Sound(Off)
  BY SoundNow, OffSound
<1>1. ASSUME NEW c \in Container, Boot(c)
      PROVE  Steady
  <2>1. Sound([Off EXCEPT !.at = "pointer"])
    BY PointerNow, OffShape DEF Sound, Fields
  <2> QED
    BY <1>1, <2>1, GoesSteady DEF Boot
<1>2. ASSUME NEW c \in Container, ReadToRestore(c)
      PROVE  Steady
  <2>1. Sound(box[c]) /\ box[c].at = "pointer"
    BY <1>0, <1>2 DEF ReadToRestore
  <2>2. ASSUME NEW l, NEW no
        PROVE  Sound([box[c] EXCEPT !.at = "try", !.left = l, !.failed = no])
    BY <2>1 DEF Sound, Fields
  <2> QED
    BY <1>2, <2>2, GoesSteady DEF ReadToRestore, Tries
<1>3. ASSUME NEW c \in Container, Try(c)
      PROVE  Steady
  <2>1. Sound(box[c]) /\ box[c].at = "try"
    BY <1>0, <1>3 DEF Try
  <2>2. \A p : Sound([box[c] EXCEPT !.at = "ready", !.profile = p, !.left = <<>>])
    BY <2>1 DEF Sound, Fields
  <2>3. \A l : Sound([box[c] EXCEPT !.left = l, !.failed = TRUE])
    BY <2>1 DEF Sound, Fields
  <2>4. Sound([box[c] EXCEPT !.at = "ready"])
    BY <2>1 DEF Sound, Fields
  <2> QED
    BY <1>0, <1>3, <2>2, <2>3, <2>4, GoesSteady DEF Try, Restored
<1>4. ASSUME NEW c \in Container, Serve(c)
      PROVE  Steady
  <2>1. \A p : Sound([box[c] EXCEPT !.at = "serving", !.failed = FALSE, !.profile = p])
    BY <1>0, <1>4 DEF Serve, Sound, Fields
  <2> QED
    BY <1>4, <2>1, GoesSteady DEF Serve
<1>5. ASSUME NEW c \in Container, SignIn(c)
      PROVE  Steady
  <2>1. \A p : Sound([box[c] EXCEPT !.at = "archive", !.by = "core", !.profile = p])
    BY <1>0, <1>5 DEF SignIn, Sound, Fields
  <2> QED
    BY <1>5, <2>1, GoesSteady DEF SignIn
<1>6. ASSUME NEW c \in Container, Terminate(c)
      PROVE  Steady
  <2>1. ASSUME NEW p
        PROVE  Sound([Off EXCEPT !.at = "archive", !.by = "entrypoint", !.profile = p])
    <3> DEFINE n == [Off EXCEPT !.at = "archive", !.by = "entrypoint", !.profile = p]
    <3>1. n = [f \in Fields |-> n[f]]
      BY OffShape
    <3>2. n.at = "archive" /\ n.gen = 0 /\ n.prior = 0
      BY OffShape DEF Fields
    <3> HIDE DEF n
    <3>3. Sound(n)
      BY <3>1, <3>2, PointerNow DEF Sound
    <3> QED
      BY <3>3 DEF n
  <2> QED
    BY <1>6, <2>1, GoesSteady DEF Terminate
<1>7. ASSUME NEW c \in Container, Archive(c)
      PROVE  Steady
  <2>1. \A o : Sound([box[c] EXCEPT !.at = "upload", !.object = o])
    BY <1>0, <1>7 DEF Archive, Sound, Fields
  <2> QED
    BY <1>0, <1>7, <2>1, FinishedSteady, GoesSteady DEF Archive
<1>8. ASSUME NEW c \in Container, Upload(c)
      PROVE  Steady
  <2>1. Sound([box[c] EXCEPT !.at = "meta"])
    BY <1>0, <1>8 DEF Upload, Sound, Fields
  <2> QED
    BY <1>0, <1>8, <2>1, FinishedSteady, GoesSteady DEF Upload
<1>9. ASSUME NEW c \in Container, ReadMeta(c)
      PROVE  Steady
  <2>0. Sound(box[c]) /\ box[c].at = "meta"
    BY <1>0, <1>9 DEF ReadMeta
  <2>1. Sound([box[c] EXCEPT !.at = "body", !.gen = pointer.gen])
    <3> DEFINE n == [box[c] EXCEPT !.at = "body", !.gen = pointer.gen]
    <3>1. n = [f \in Fields |-> n[f]]
      BY <2>0 DEF Sound
    <3>2. n.at = "body" /\ n.gen = pointer.gen /\ n.prior = 0
      BY <2>0 DEF Sound, Fields
    <3> HIDE DEF n
    <3>3. Sound(n)
      BY <3>1, <3>2, PointerNow DEF Sound
    <3> QED
      BY <3>3 DEF n
  <2>2. Sound([box[c] EXCEPT !.at = "save"])
    BY <1>0, <1>9, PointerNow DEF ReadMeta, Sound, Fields, Holds
  <2> QED
    BY <1>9, <2>1, <2>2, GoesSteady DEF ReadMeta
<1>10. ASSUME NEW c \in Container, ReadBody(c)
       PROVE  Steady
  <2>0. Sound(box[c]) /\ box[c].at = "body"
    BY <1>0, <1>10 DEF ReadBody
  <2>1. pointer.readable => Sound([box[c] EXCEPT !.at = "save", !.prior = pointer.current])
    BY <2>0 DEF Sound, Fields, Holds
  <2>2. Sound([box[c] EXCEPT !.at = "save", !.gen = 0])
    <3> DEFINE n == [box[c] EXCEPT !.at = "save", !.gen = 0]
    <3>1. n = [f \in Fields |-> n[f]]
      BY <2>0 DEF Sound
    <3>2. n.at = "save" /\ n.gen = 0 /\ n.prior = 0
      BY <2>0 DEF Sound, Fields
    <3> HIDE DEF n
    <3>3. Sound(n)
      BY <3>1, <3>2, PointerNow DEF Sound, Holds
    <3> QED
      BY <3>3 DEF n
  <2> QED
    BY <1>10, <2>1, <2>2, GoesSteady DEF ReadBody
<1>11. ASSUME NEW c \in Container, Save(c)
       PROVE  Steady
  <2>1. Sound([box[c] EXCEPT !.at = "prune"])
    BY <1>0 DEF Sound, Fields
  <2> QED
    BY <1>0, <1>11, <2>1, FinishedSteady, GoesSteady DEF Save
<1>12. ASSUME NEW c \in Container, Prune(c)
       PROVE  Steady
  <2>1. \A s : Sound([box[c] EXCEPT !.at = "delete", !.stale = s])
    BY <1>0 DEF Sound, Fields
  <2> QED
    BY <1>0, <1>12, <2>1, FinishedSteady, GoesSteady DEF Prune
<1>13. ASSUME NEW c \in Container, Delete(c)
       PROVE  Steady
  BY <1>0, <1>13, FinishedSteady, GoesSteady DEF Delete
<1>14. ASSUME NEW c \in Container, Crash(c)
       PROVE  Steady
  BY <1>0, <1>14, GoesSteady DEF Crash
<1>15. CASE Land \/ OtherRelease \/ UNCHANGED vars
  BY <1>0, <1>15 DEF Land, OtherRelease, vars, Steady, PointerInv, Frame
<1> QED
  BY <1>1, <1>2, <1>3, <1>4, <1>5, <1>6, <1>7, <1>8, <1>9, <1>10, <1>11, <1>12, <1>13, <1>14,
     <1>15 DEF Next, Restore, Checkpoint

(* What was sound stays sound: a pointer that moves leaves the generation of
   every checkpoint behind. *)
LEMMA PointerAdvances ==
    ASSUME PointerInv, [Next]_vars
    PROVE  /\ pointer' = [f \in {"gen", "readable", "current", "previous"} |-> pointer'[f]]
           /\ pointer' = pointer \/ pointer'.gen = pointer.gen + 1
<1>1. ASSUME NEW b, pointer' = Replaced(b)
      PROVE  /\ pointer' = [f \in {"gen", "readable", "current", "previous"} |-> pointer'[f]]
             /\ pointer'.gen = pointer.gen + 1
  BY <1>1 DEF Replaced
<1>2. CASE pointer' = [pointer EXCEPT !.gen = @ + 1, !.readable = FALSE]
  BY <1>2 DEF PointerInv, Bucket
<1>3. CASE pointer' = pointer
  BY <1>3 DEF PointerInv, Bucket
<1> QED
  BY <1>1, <1>2, <1>3, PointerMoves

LEMMA SoundStays ==
    ASSUME PointerInv, [Next]_vars, NEW b, Sound(b)
    PROVE  Sound(b)'
<1>1. CASE pointer' = pointer
  BY <1>1 DEF Sound, Fields, Holds
<1>2. CASE pointer'.gen = pointer.gen + 1
  BY <1>2 DEF Sound, Fields, Holds, PointerInv, Bucket
<1> QED
  BY <1>1, <1>2, PointerAdvances

LEMMA SentMoves ==
    ASSUME PointerInv, [Next]_vars, NEW r \in sent', r \notin sent
    PROVE  \E c \in Container :
              /\ Terminate(c) \/ Crash(c)
              /\ box[c].at \in Requests /\ r.do = box[c].at
              /\ r.of.gen = box[c].gen /\ r.of.prior = box[c].prior
              /\ r.of.object = box[c].object /\ r.of.stale = box[c].stale
<1> DEFINE From(c) == /\ box[c].at \in Requests /\ r.do = box[c].at
                      /\ r.of.gen = box[c].gen /\ r.of.prior = box[c].prior
                      /\ r.of.object = box[c].object /\ r.of.stale = box[c].stale
<1>1. ASSUME NEW c \in Container, Leaves(c)
      PROVE  From(c)
  BY <1>1 DEF Leaves
<1>2. ASSUME NEW c \in Container, Restore(c) \/ SignIn(c)
      PROVE  FALSE
  BY <1>2 DEF Restore, Boot, ReadToRestore, Try, Serve, SignIn
<1>3. ASSUME NEW c \in Container, Checkpoint(c)
      PROVE  FALSE
  BY <1>3 DEF Checkpoint, Archive, Upload, ReadMeta, ReadBody, Save, Prune, Delete
<1>4. CASE Land \/ OtherRelease \/ UNCHANGED vars
  BY <1>4 DEF Land, OtherRelease, vars
<1> QED
  BY <1>1, <1>2, <1>3, <1>4 DEF Next, Terminate, Crash

LEMMA Invariance == Spec => []PointerInv
<1> SUFFICES ASSUME PointerInv, [Next]_vars
             PROVE  PointerInv'
  BY InitInv, PTL DEF Spec
<1>1. Frame' /\ \A c \in Container : Sound(box'[c])
  BY BoxMoves DEF Steady
<1>2. \A c \in Container : Sound(box[c])'
  BY <1>1, SoundStays
<1>3. Shape' /\ Unread'
  BY <1>2 DEF Shape, Unread, Sound, Fields
<1>4. ASSUME NEW r \in sent'
      PROVE  /\ r.do \in Requests /\ r.of.gen \in Nat /\ r.of.gen <= pointer'.gen
             /\ r.do = "save" => Holds(r.of.gen, r.of.prior)'
  <2>1. /\ r.do \in Requests /\ r.of.gen \in Nat /\ r.of.gen <= pointer.gen
        /\ r.do = "save" => Holds(r.of.gen, r.of.prior)
    <3>1. CASE r \in sent
      BY <3>1 DEF PointerInv, Behind, Saving
    <3>2. CASE r \notin sent
      <4>1. PICK c \in Container :
               /\ box[c].at \in Requests /\ r.do = box[c].at
               /\ r.of.gen = box[c].gen /\ r.of.prior = box[c].prior
        BY <3>2, SentMoves
      <4> QED
        BY <4>1, SoundNow DEF Sound
    <3> QED
      BY <3>1, <3>2
  <2> QED
    BY <2>1, PointerAdvances DEF Holds, PointerInv, Bucket
<1>5. Behind' /\ Saving'
  BY <1>2, <1>4 DEF Behind, Saving, Sound, Fields
<1>6. Bucket'
  BY PointerAdvances, PointerNow DEF PointerInv, Bucket
<1> QED
  BY <1>1, <1>3, <1>5, <1>6 DEF PointerInv

(* Whoever replaces the pointer has read it, and keeps what it named
   (profile-snapshot.mjs, checkpoint()). *)
THEOREM PointerLinearHolds == Spec => PointerLinear
<1> DEFINE Linear == pointer' # pointer /\ pointer'.readable
                       => pointer.readable /\ pointer'.previous = pointer.current
<1>1. PointerInv /\ [Next]_vars => Linear
  <2> SUFFICES ASSUME PointerInv, [Next]_vars
               PROVE  Linear
    OBVIOUS
  <2>1. ASSUME NEW c \in Container, box[c].at = "save", MayReplace(box[c].gen),
               pointer' = Replaced(box[c])
        PROVE  Linear
    BY <2>1 DEF MayReplace, Replaced, PointerInv, Saving, Holds
  <2>2. ASSUME NEW r \in sent, r.do = "save", MayReplace(r.of.gen), pointer' = Replaced(r.of)
        PROVE  Linear
    BY <2>2 DEF MayReplace, Replaced, PointerInv, Saving, Holds
  <2>3. CASE pointer' = [pointer EXCEPT !.gen = @ + 1, !.readable = FALSE]
    BY <2>3 DEF PointerInv, Bucket
  <2> QED
    BY <2>1, <2>2, <2>3, PointerMoves
<1> QED
  BY <1>1, Invariance, PTL DEF Spec, PointerLinear

-----------------------------------------------------------------------------
(* What each step makes of the container it is a step of, and of the bucket:
   the fields of the records, written out once for the two arguments below. *)
Others(c) == \A d \in Container : d # c => box'[d] = box[d]

(* The checkpoint of b goes on in n. *)
Keeps(b, n) == n.profile = b.profile /\ n.by = b.by /\ n.object = b.object

(* No checkpoint is under way. *)
Idle(n) == n.by = "nobody" /\ n.object = 0 /\ n.prior = 0 /\ n.stale = {}

(* The checkpoint of b has ended in n. *)
Ended(b, n) ==
    /\ Idle(n)
    /\ \/ n.at = "serving" /\ n.profile = b.profile
       \/ n.at = "off" /\ n.profile = Missing

SameBucket == stored' = stored /\ holds' = holds /\ pointer' = pointer /\ made' = made
SameNames ==
    pointer'.current = pointer.current /\ pointer'.previous = pointer.previous
SameHistory == acked' = acked /\ overlapped' = overlapped

LEMMA GoesTo ==
    ASSUME PointerInv, NEW c \in Container, NEW n, Goes(c, n)
    PROVE  box'[c] = n /\ Others(c)
  BY DEF Goes, Others, PointerInv, Frame

LEMMA ShapeNow == ASSUME PointerInv, NEW c \in Container PROVE box[c] = [f \in Fields |-> box[c][f]]
  BY DEF PointerInv, Shape

LEMMA FinishedEnds ==
    ASSUME PointerInv, NEW c \in Container, NEW b, b = [f \in Fields |-> b[f]], Finished(c, b)
    PROVE  Ended(b, box'[c]) /\ Others(c)
<1>1. CASE b.by = "core"
  <2> DEFINE n == [b EXCEPT !.at = "serving", !.by = "nobody", !.object = 0, !.prior = 0,
                           !.gen = 0, !.stale = {}]
  <2>1. Goes(c, n)
    BY <1>1 DEF Finished
  <2>2. /\ n.at = "serving" /\ n.by = "nobody" /\ n.object = 0 /\ n.prior = 0 /\ n.stale = {}
        /\ n.profile = b.profile
    BY DEF Fields
  <2> HIDE DEF n
  <2> QED
    BY <2>1, <2>2, GoesTo DEF Ended, Idle
<1>2. CASE b.by # "core"
  BY <1>2, GoesTo DEF Finished, Ended, Idle, Off
<1> QED
  BY <1>1, <1>2

LEMMA BootStep ==
    ASSUME PointerInv, NEW c \in Container, Boot(c)
    PROVE  /\ box[c].at = "off" /\ Others(c) /\ SameBucket
           /\ sent' = sent /\ signIns' = signIns /\ acked' = acked
           /\ overlapped' <=> overlapped \/ \E d \in Container : box[d].at # "off"
           /\ box'[c].at = "pointer" /\ Idle(box'[c]) /\ box'[c].profile = Missing
<1>1. box'[c] = [Off EXCEPT !.at = "pointer"] /\ Others(c)
  BY GoesTo DEF Boot
<1>2. box'[c].at = "pointer" /\ Idle(box'[c]) /\ box'[c].profile = Missing
  BY <1>1 DEF Off, Idle
<1>3. overlapped' <=> overlapped \/ \E d \in Container : box[d].at # "off"
  BY Zenon DEF Boot, At
<1> QED
  BY <1>1, <1>2, <1>3 DEF Boot, At, SameBucket, bucket

LEMMA ReadToRestoreStep ==
    ASSUME PointerInv, NEW c \in Container, ReadToRestore(c)
    PROVE  /\ box[c].at = "pointer" /\ Others(c) /\ SameBucket
           /\ sent' = sent /\ signIns' = signIns /\ SameHistory
           /\ Keeps(box[c], box'[c]) /\ box'[c].at = "try"
           /\ box'[c].prior = box[c].prior /\ box'[c].stale = box[c].stale
           /\ \/ pointer.readable /\ Candidates # <<>> /\ box'[c].left = Candidates
              \/ (~pointer.readable \/ Candidates = <<>>) /\ box'[c].left = Listed
              \/ box'[c].failed = TRUE
<1>1. /\ box[c].at = "pointer" /\ SameBucket
      /\ sent' = sent /\ signIns' = signIns /\ SameHistory
  BY DEF ReadToRestore, At, SameBucket, bucket, SameHistory
<1>2. ASSUME NEW l, NEW no, Tries(c, l, no)
      PROVE  /\ Others(c) /\ Keeps(box[c], box'[c]) /\ box'[c].at = "try"
             /\ box'[c].prior = box[c].prior /\ box'[c].stale = box[c].stale
             /\ box'[c].left = l /\ box'[c].failed = no
  <2> DEFINE n == [box[c] EXCEPT !.at = "try", !.left = l, !.failed = no]
  <2>1. box'[c] = n /\ Others(c)
    BY <1>2, GoesTo DEF Tries
  <2>2. /\ n.at = "try" /\ n.left = l /\ n.failed = no /\ n.profile = box[c].profile
        /\ n.by = box[c].by /\ n.object = box[c].object /\ n.prior = box[c].prior
        /\ n.stale = box[c].stale
    BY ShapeNow DEF Fields
  <2> QED
    BY <2>1, <2>2 DEF Keeps
<1>3. CASE pointer.readable /\ Candidates # <<>> /\ Tries(c, Candidates, FALSE)
  BY <1>1, <1>2, <1>3
<1>4. CASE (~pointer.readable \/ Candidates = <<>>) /\ Tries(c, Listed, FALSE)
  BY <1>1, <1>2, <1>4
<1>5. CASE Tries(c, Listed, TRUE)
  BY <1>1, <1>2, <1>5
<1> QED
  BY <1>3, <1>4, <1>5 DEF ReadToRestore

LEMMA TryStep ==
    ASSUME PointerInv, NEW c \in Container, Try(c)
    PROVE  /\ box[c].at = "try" /\ Others(c) /\ SameBucket
           /\ sent' = sent /\ signIns' = signIns /\ overlapped' = overlapped
           /\ \/ /\ box[c].left # <<>> /\ Head(box[c].left) \in stored
                 /\ box'[c].at = "ready" /\ box'[c].profile = holds[Head(box[c].left)]
                 /\ box'[c].by = box[c].by /\ box'[c].object = box[c].object
                 /\ box'[c].prior = box[c].prior /\ box'[c].stale = box[c].stale
                 /\ box'[c].failed = box[c].failed
                 /\ acked' = IF box[c].failed THEN 0 ELSE acked
              \/ /\ Keeps(box[c], box'[c]) /\ box'[c].at = "try" /\ box'[c].failed = TRUE
                 /\ box'[c].prior = box[c].prior /\ box'[c].stale = box[c].stale
                 /\ acked' = acked
              \/ /\ box[c].left = <<>>
                 /\ Keeps(box[c], box'[c]) /\ box'[c].at = "ready"
                 /\ box'[c].prior = box[c].prior /\ box'[c].stale = box[c].stale
                 /\ box'[c].failed = box[c].failed
                 /\ acked' = IF box[c].failed THEN 0 ELSE acked
              \/ /\ box'[c].at = "off" /\ Idle(box'[c]) /\ box'[c].profile = Missing
                 /\ acked' = acked
<1>1. /\ box[c].at = "try" /\ SameBucket
      /\ sent' = sent /\ signIns' = signIns /\ overlapped' = overlapped
  BY DEF Try, At, SameBucket, bucket
<1> DEFINE p == holds[Head(box[c].left)]
           n1 == [box[c] EXCEPT !.at = "ready", !.profile = p, !.left = <<>>]
           n2 == [box[c] EXCEPT !.left = Tail(@), !.failed = TRUE]
           n3 == [box[c] EXCEPT !.at = "ready"]
<1>2. /\ n1.at = "ready" /\ n1.profile = p /\ n1.by = box[c].by /\ n1.object = box[c].object
      /\ n1.prior = box[c].prior /\ n1.stale = box[c].stale /\ n1.failed = box[c].failed
  BY ShapeNow DEF Fields
<1>3. /\ n2.at = box[c].at /\ n2.profile = box[c].profile /\ n2.by = box[c].by
      /\ n2.object = box[c].object /\ n2.prior = box[c].prior /\ n2.stale = box[c].stale
      /\ n2.failed = TRUE
  BY ShapeNow DEF Fields
<1>4. /\ n3.at = "ready" /\ n3.profile = box[c].profile /\ n3.by = box[c].by
      /\ n3.object = box[c].object /\ n3.prior = box[c].prior /\ n3.stale = box[c].stale
      /\ n3.failed = box[c].failed
  BY ShapeNow DEF Fields
<1>5. \/ box[c].left # <<>> /\ Head(box[c].left) \in stored /\ Restored(c, n1)
      \/ Goes(c, n2) /\ acked' = acked
      \/ box[c].left = <<>> /\ Restored(c, n3)
      \/ Goes(c, Off) /\ acked' = acked
  BY DEF Try
<1> HIDE DEF n1, n2, n3, p
<1>6. CASE box[c].left # <<>> /\ Head(box[c].left) \in stored /\ Restored(c, n1)
  <2>1. box'[c] = n1 /\ Others(c) /\ acked' = IF n1.failed THEN 0 ELSE acked
    BY <1>6, GoesTo DEF Restored
  <2> QED
    BY <1>1, <1>2, <1>6, <2>1 DEF p
<1>7. CASE Goes(c, n2) /\ acked' = acked
  BY <1>1, <1>3, <1>7, GoesTo DEF Keeps
<1>8. CASE box[c].left = <<>> /\ Restored(c, n3)
  <2>1. box'[c] = n3 /\ Others(c) /\ acked' = IF n3.failed THEN 0 ELSE acked
    BY <1>8, GoesTo DEF Restored
  <2> QED
    BY <1>1, <1>4, <1>8, <2>1 DEF Keeps
<1>9. CASE Goes(c, Off) /\ acked' = acked
  BY <1>1, <1>9, GoesTo DEF Off, Idle
<1> QED
  BY <1>5, <1>6, <1>7, <1>8, <1>9

LEMMA ServeStep ==
    ASSUME PointerInv, NEW c \in Container, Serve(c)
    PROVE  /\ box[c].at = "ready" /\ Others(c) /\ SameBucket
           /\ sent' = sent /\ signIns' = signIns /\ SameHistory
           /\ box'[c].at = "serving" /\ box'[c].by = box[c].by /\ box'[c].object = box[c].object
           /\ box'[c].prior = box[c].prior /\ box'[c].stale = box[c].stale
           /\ box'[c].profile = IF box[c].profile = Missing THEN 0 ELSE box[c].profile
<1> DEFINE p == IF box[c].profile = Missing THEN 0 ELSE box[c].profile
           n == [box[c] EXCEPT !.at = "serving", !.failed = FALSE, !.profile = p]
<1>1. box'[c] = n /\ Others(c)
  BY GoesTo DEF Serve
<1>2. /\ n.at = "serving" /\ n.profile = p /\ n.by = box[c].by /\ n.object = box[c].object
      /\ n.prior = box[c].prior /\ n.stale = box[c].stale
  BY ShapeNow DEF Fields
<1> QED
  BY <1>1, <1>2 DEF Serve, At, SameBucket, bucket, SameHistory

LEMMA SignInStep ==
    ASSUME PointerInv, NEW c \in Container, SignIn(c)
    PROVE  /\ box[c].at = "serving" /\ Others(c) /\ SameBucket
           /\ sent' = sent /\ signIns' = signIns + 1 /\ SameHistory
           /\ box'[c].at = "archive" /\ box'[c].by = "core" /\ box'[c].object = box[c].object
           /\ box'[c].prior = box[c].prior /\ box'[c].stale = box[c].stale
           /\ box'[c].profile = signIns + 1
<1> DEFINE n == [box[c] EXCEPT !.at = "archive", !.by = "core", !.profile = signIns + 1]
<1>1. box'[c] = n /\ Others(c)
  BY GoesTo DEF SignIn
<1>2. /\ n.at = "archive" /\ n.profile = signIns + 1 /\ n.by = "core" /\ n.object = box[c].object
      /\ n.prior = box[c].prior /\ n.stale = box[c].stale
  BY ShapeNow DEF Fields
<1> QED
  BY <1>1, <1>2 DEF SignIn, At, SameBucket, bucket, SameHistory

LEMMA TerminateStep ==
    ASSUME PointerInv, NEW c \in Container, Terminate(c)
    PROVE  /\ box[c].at \in {"ready", "serving"} \/ box[c].by = "core"
           /\ Others(c) /\ SameBucket /\ signIns' = signIns /\ SameHistory
           /\ box'[c].at = "archive" /\ box'[c].by = "entrypoint" /\ box'[c].object = 0
           /\ box'[c].prior = 0 /\ box'[c].stale = {} /\ box'[c].profile = box[c].profile
<1> DEFINE p == box[c].profile
           n == [Off EXCEPT !.at = "archive", !.by = "entrypoint", !.profile = p]
<1>1. box'[c] = n /\ Others(c)
  BY GoesTo DEF Terminate
<1>2. /\ n.at = "archive" /\ n.profile = p /\ n.by = "entrypoint" /\ n.object = 0
      /\ n.prior = 0 /\ n.stale = {}
  BY DEF Off
<1> QED
  BY <1>1, <1>2 DEF Terminate, At, SameBucket, bucket, SameHistory

LEMMA CrashStep ==
    ASSUME PointerInv, NEW c \in Container, Crash(c)
    PROVE  /\ box[c].at # "off" /\ Others(c) /\ SameBucket /\ signIns' = signIns /\ SameHistory
           /\ box'[c].at = "off" /\ Idle(box'[c]) /\ box'[c].profile = Missing
<1>1. box'[c] = Off /\ Others(c)
  BY GoesTo DEF Crash
<1> QED
  BY <1>1 DEF Crash, At, SameBucket, bucket, SameHistory, Off, Idle

LEMMA ArchiveStep ==
    ASSUME PointerInv, NEW c \in Container, Archive(c)
    PROVE  /\ box[c].at = "archive" /\ Others(c) /\ stored' = stored /\ pointer' = pointer
           /\ sent' = sent /\ signIns' = signIns /\ SameHistory
           /\ \/ /\ box[c].profile = Missing /\ made' = made /\ holds' = holds
                 /\ Ended(box[c], box'[c])
              \/ /\ box[c].profile # Missing
                 /\ made < MaxObjects /\ made' = made + 1
                 /\ holds' = [holds EXCEPT ![made + 1] = box[c].profile]
                 /\ box'[c].at = "upload" /\ box'[c].object = made + 1
                 /\ box'[c].profile = box[c].profile /\ box'[c].by = box[c].by
                 /\ box'[c].prior = box[c].prior /\ box'[c].stale = box[c].stale
<1>1. /\ box[c].at = "archive" /\ stored' = stored /\ pointer' = pointer
      /\ sent' = sent /\ signIns' = signIns /\ SameHistory
  BY DEF Archive, At, SameHistory
<1>2. CASE box[c].profile = Missing
  BY <1>1, <1>2, ShapeNow, FinishedEnds DEF Archive
<1>3. CASE box[c].profile # Missing
  <2> DEFINE n == [box[c] EXCEPT !.at = "upload", !.object = made + 1]
  <2>1. box'[c] = n /\ Others(c)
    BY <1>3, GoesTo DEF Archive
  <2>2. /\ n.at = "upload" /\ n.object = made + 1 /\ n.profile = box[c].profile
        /\ n.by = box[c].by /\ n.prior = box[c].prior /\ n.stale = box[c].stale
    BY ShapeNow DEF Fields
  <2> QED
    BY <1>1, <1>3, <2>1, <2>2 DEF Archive
<1> QED
  BY <1>2, <1>3

LEMMA UploadStep ==
    ASSUME PointerInv, NEW c \in Container, Upload(c)
    PROVE  /\ box[c].at = "upload" /\ Others(c) /\ holds' = holds /\ pointer' = pointer /\ made' = made
           /\ sent' = sent /\ signIns' = signIns /\ SameHistory
           /\ stored' \in {stored, stored \cup {box[c].object}}
           /\ \/ /\ stored' = stored \cup {box[c].object}
                 /\ Keeps(box[c], box'[c]) /\ box'[c].at = "meta"
                 /\ box'[c].prior = box[c].prior /\ box'[c].stale = box[c].stale
              \/ Ended(box[c], box'[c])
<1>1. /\ box[c].at = "upload" /\ holds' = holds /\ pointer' = pointer /\ made' = made
      /\ sent' = sent /\ signIns' = signIns /\ SameHistory
      /\ stored' \in {stored, stored \cup {box[c].object}}
  BY DEF Upload, At, SameHistory, Carried
<1> DEFINE n == [box[c] EXCEPT !.at = "meta"]
<1>2. CASE Carried("upload", box[c]) /\ Goes(c, n)
  <2>1. box'[c] = n /\ Others(c)
    BY <1>2, GoesTo
  <2>2. /\ n.at = "meta" /\ n.profile = box[c].profile /\ n.by = box[c].by
        /\ n.object = box[c].object /\ n.prior = box[c].prior /\ n.stale = box[c].stale
    BY ShapeNow DEF Fields
  <2> QED
    BY <1>1, <1>2, <2>1, <2>2 DEF Keeps, Carried
<1>3. CASE Finished(c, box[c])
  BY <1>1, <1>3, ShapeNow, FinishedEnds
<1> QED
  BY <1>2, <1>3 DEF Upload

LEMMA ReadMetaStep ==
    ASSUME PointerInv, NEW c \in Container, ReadMeta(c)
    PROVE  /\ box[c].at = "meta" /\ Others(c) /\ SameBucket
           /\ sent' = sent /\ signIns' = signIns /\ SameHistory
           /\ Keeps(box[c], box'[c]) /\ box'[c].at \in {"body", "save"}
           /\ box'[c].prior = box[c].prior /\ box'[c].stale = box[c].stale
<1> DEFINE n1 == [box[c] EXCEPT !.at = "body", !.gen = pointer.gen]
           n2 == [box[c] EXCEPT !.at = "save"]
<1>1. /\ box[c].at = "meta" /\ SameBucket
      /\ sent' = sent /\ signIns' = signIns /\ SameHistory
  BY DEF ReadMeta, At, SameHistory, SameBucket, bucket
<1>2. Others(c) /\ box'[c] \in {n1, n2}
  BY GoesTo DEF ReadMeta
<1>3. /\ n1.at = "body" /\ n1.profile = box[c].profile /\ n1.by = box[c].by
      /\ n1.object = box[c].object /\ n1.prior = box[c].prior /\ n1.stale = box[c].stale
  BY ShapeNow DEF Fields
<1>4. /\ n2.at = "save" /\ n2.profile = box[c].profile /\ n2.by = box[c].by
      /\ n2.object = box[c].object /\ n2.prior = box[c].prior /\ n2.stale = box[c].stale
  BY ShapeNow DEF Fields
<1> HIDE DEF n1, n2
<1> QED
  BY <1>1, <1>2, <1>3, <1>4 DEF Keeps

LEMMA ReadBodyStep ==
    ASSUME PointerInv, NEW c \in Container, ReadBody(c)
    PROVE  /\ box[c].at = "body" /\ Others(c) /\ SameBucket
           /\ sent' = sent /\ signIns' = signIns /\ SameHistory
           /\ Keeps(box[c], box'[c]) /\ box'[c].at = "save"
           /\ box'[c].prior \in {box[c].prior, pointer.current} /\ box'[c].stale = box[c].stale
<1> DEFINE n1 == [box[c] EXCEPT !.at = "save", !.prior = pointer.current]
           n2 == [box[c] EXCEPT !.at = "save", !.gen = 0]
<1>1. /\ box[c].at = "body" /\ SameBucket
      /\ sent' = sent /\ signIns' = signIns /\ SameHistory
  BY DEF ReadBody, At, SameHistory, SameBucket, bucket
<1>2. Others(c) /\ box'[c] \in {n1, n2}
  BY GoesTo DEF ReadBody
<1>3. /\ n1.at = "save" /\ n1.profile = box[c].profile /\ n1.by = box[c].by
      /\ n1.object = box[c].object /\ n1.prior = pointer.current /\ n1.stale = box[c].stale
  BY ShapeNow DEF Fields
<1>4. /\ n2.at = "save" /\ n2.profile = box[c].profile /\ n2.by = box[c].by
      /\ n2.object = box[c].object /\ n2.prior = box[c].prior /\ n2.stale = box[c].stale
  BY ShapeNow DEF Fields
<1> HIDE DEF n1, n2
<1> QED
  BY <1>1, <1>2, <1>3, <1>4 DEF Keeps

LEMMA SaveStep ==
    ASSUME PointerInv, NEW c \in Container, Save(c)
    PROVE  /\ box[c].at = "save" /\ Others(c) /\ stored' = stored /\ holds' = holds /\ made' = made
           /\ sent' = sent /\ signIns' = signIns /\ SameHistory
           /\ \/ pointer' = pointer /\ Ended(box[c], box'[c])
              \/ /\ box[c].gen = pointer.gen /\ pointer' = Replaced(box[c])
                 /\ Ended(box[c], box'[c])
              \/ /\ box[c].gen = pointer.gen /\ pointer' = Replaced(box[c])
                 /\ Keeps(box[c], box'[c]) /\ box'[c].at = "prune"
                 /\ box'[c].prior = box[c].prior /\ box'[c].stale = box[c].stale
<1>1. /\ box[c].at = "save" /\ stored' = stored /\ holds' = holds /\ made' = made
      /\ sent' = sent /\ signIns' = signIns /\ SameHistory
  BY DEF Save, At, SameHistory, Carried
<1> DEFINE n == [box[c] EXCEPT !.at = "prune"]
<1>2. CASE MayReplace(box[c].gen) /\ Carried("save", box[c]) /\ Goes(c, n)
  <2>1. box'[c] = n /\ Others(c)
    BY <1>2, GoesTo
  <2>2. /\ n.at = "prune" /\ n.profile = box[c].profile /\ n.by = box[c].by
        /\ n.object = box[c].object /\ n.prior = box[c].prior /\ n.stale = box[c].stale
    BY ShapeNow DEF Fields
  <2> QED
    BY <1>1, <1>2, <2>1, <2>2 DEF Keeps, Carried, MayReplace
<1>3. CASE pointer' = pointer /\ Finished(c, box[c])
  BY <1>1, <1>3, ShapeNow, FinishedEnds
<1>4. CASE MayReplace(box[c].gen) /\ Carried("save", box[c]) /\ Finished(c, box[c])
  BY <1>1, <1>4, ShapeNow, FinishedEnds DEF Carried, MayReplace
<1> QED
  BY <1>2, <1>3, <1>4 DEF Save

LEMMA PruneStep ==
    ASSUME PointerInv, NEW c \in Container, Prune(c)
    PROVE  /\ box[c].at = "prune" /\ Others(c) /\ SameBucket
           /\ sent' = sent /\ signIns' = signIns /\ overlapped' = overlapped
           /\ \/ /\ Keeps(box[c], box'[c]) /\ box'[c].at = "delete" /\ acked' = acked
                 /\ box'[c].prior = box[c].prior /\ box'[c].stale = Stale(box[c])
              \/ Ended(box[c], box'[c]) /\ acked' = box[c].profile
<1>1. /\ box[c].at = "prune" /\ SameBucket
      /\ sent' = sent /\ signIns' = signIns /\ overlapped' = overlapped
  BY DEF Prune, At, SameBucket, bucket
<1> DEFINE n == [box[c] EXCEPT !.at = "delete", !.stale = Stale(box[c])]
<1>2. CASE Goes(c, n) /\ acked' = acked
  <2>1. box'[c] = n /\ Others(c)
    BY <1>2, GoesTo
  <2>2. /\ n.at = "delete" /\ n.profile = box[c].profile /\ n.by = box[c].by
        /\ n.object = box[c].object /\ n.prior = box[c].prior /\ n.stale = Stale(box[c])
    BY ShapeNow DEF Fields
  <2> QED
    BY <1>1, <1>2, <2>1, <2>2 DEF Keeps
<1>3. CASE Finished(c, box[c]) /\ acked' = box[c].profile
  BY <1>1, <1>3, ShapeNow, FinishedEnds
<1> QED
  BY <1>2, <1>3 DEF Prune

LEMMA DeleteStep ==
    ASSUME PointerInv, NEW c \in Container, Delete(c)
    PROVE  /\ box[c].at = "delete" /\ Others(c) /\ holds' = holds /\ pointer' = pointer /\ made' = made
           /\ sent' = sent /\ signIns' = signIns /\ overlapped' = overlapped
           /\ \E some \in SUBSET box[c].stale : stored' = stored \ some
           /\ Ended(box[c], box'[c]) /\ acked' = box[c].profile
<1>1. /\ box[c].at = "delete" /\ holds' = holds /\ made' = made
      /\ sent' = sent /\ signIns' = signIns /\ overlapped' = overlapped
      /\ acked' = box[c].profile
  BY DEF Delete, At
<1>2. Ended(box[c], box'[c]) /\ Others(c)
  BY ShapeNow, FinishedEnds DEF Delete
<1>3. ASSUME NEW b, Carried("delete", b)
      PROVE  pointer' = pointer /\ stored' = stored \ b.stale
  BY <1>3 DEF Carried
<1>4. CASE Carried("delete", box[c])
  BY <1>1, <1>2, <1>3, <1>4
<1>5. ASSUME NEW some \in SUBSET box[c].stale, Carried("delete", [box[c] EXCEPT !.stale = some])
      PROVE  pointer' = pointer /\ stored' = stored \ some
  <2> DEFINE b == [box[c] EXCEPT !.stale = some]
  <2>1. b.stale = some
    BY ShapeNow DEF Fields
  <2>2. Carried("delete", b)
    BY <1>5
  <2> HIDE DEF b
  <2> QED
    BY <1>3, <2>1, <2>2
<1> QED
  BY <1>1, <1>2, <1>4, <1>5 DEF Delete

LEMMA LandStep ==
    ASSUME PointerInv, Land
    PROVE  /\ box' = box /\ holds' = holds /\ made' = made /\ signIns' = signIns /\ SameHistory
           /\ \E r \in sent :
                 /\ sent' = sent \ {r}
                 /\ \/ stored' = stored /\ pointer' = pointer
                    \/ /\ r.do = "upload" /\ stored' = stored \cup {r.of.object}
                       /\ pointer' = pointer
                    \/ /\ r.do = "save" /\ stored' = stored
                       /\ r.of.gen = pointer.gen /\ pointer' = Replaced(r.of)
                    \/ /\ r.do = "delete" /\ stored' = stored \ r.of.stale
                       /\ pointer' = pointer
<1>1. PICK r \in sent : /\ sent' = sent \ {r}
                        /\ Carried(r.do, r.of) \/ UNCHANGED <<stored, pointer>>
  BY DEF Land
<1>2. r.do \in Requests
  BY DEF PointerInv, Behind
<1>3. CASE UNCHANGED <<stored, pointer>>
  BY <1>1, <1>3 DEF Land, SameHistory
<1>4. CASE Carried(r.do, r.of) /\ r.do = "upload"
  BY <1>1, <1>4 DEF Land, SameHistory, Carried
<1>5. CASE Carried(r.do, r.of) /\ r.do = "save"
  BY <1>1, <1>5 DEF Land, SameHistory, Carried, MayReplace
<1>6. CASE Carried(r.do, r.of) /\ r.do = "delete"
  BY <1>1, <1>6 DEF Land, SameHistory, Carried
<1> QED
  BY <1>1, <1>2, <1>3, <1>4, <1>5, <1>6 DEF Requests

LEMMA OtherReleaseStep ==
    ASSUME PointerInv, OtherRelease
    PROVE  /\ box' = box /\ stored' = stored /\ holds' = holds /\ made' = made /\ sent' = sent
           /\ signIns' = signIns /\ SameHistory /\ SameNames /\ pointer'.gen = pointer.gen + 1
  BY DEF OtherRelease, SameHistory, SameNames, PointerInv, Bucket

LEMMA ReplacedNames ==
    ASSUME NEW b, pointer' = Replaced(b)
    PROVE  /\ pointer'.current = b.object /\ pointer'.previous = b.prior
           /\ pointer'.gen = pointer.gen + 1
  BY DEF Replaced

(* A step of one container leaves the others alone. *)
LEMMA StepOfOne ==
    ASSUME PointerInv, NEW c \in Container,
           Restore(c) \/ SignIn(c) \/ Terminate(c) \/ Checkpoint(c) \/ Crash(c)
    PROVE  Others(c)
<1>1. Boot(c) => Others(c)
  BY BootStep
<1>2. ReadToRestore(c) => Others(c)
  BY ReadToRestoreStep
<1>3. Try(c) => Others(c)
  BY TryStep
<1>4. Serve(c) => Others(c)
  BY ServeStep
<1>5. SignIn(c) => Others(c)
  BY SignInStep
<1>6. Terminate(c) => Others(c)
  BY TerminateStep
<1>7. Crash(c) => Others(c)
  BY CrashStep
<1>8. Archive(c) => Others(c)
  BY ArchiveStep
<1>9. Upload(c) => Others(c)
  BY UploadStep
<1>10. ReadMeta(c) => Others(c)
  BY ReadMetaStep
<1>11. ReadBody(c) => Others(c)
  BY ReadBodyStep
<1>12. Save(c) => Others(c)
  BY SaveStep
<1>13. Prune(c) => Others(c)
  BY PruneStep
<1>14. Delete(c) => Others(c)
  BY DeleteStep
<1> QED
  BY <1>1, <1>2, <1>3, <1>4, <1>5, <1>6, <1>7, <1>8, <1>9, <1>10, <1>11, <1>12, <1>13, <1>14
     DEF Restore, Checkpoint

-----------------------------------------------------------------------------
(* The type invariant, with what a checkpoint knows of its own archive: it
   has one from the upload on, and its number is one that was made. *)
Carrying == {"upload", "meta", "body", "save", "prune", "delete"}

Typed(b) ==
    /\ b.profile \in -1 .. signIns
    /\ b.by \in {"nobody", "core", "entrypoint"}
    /\ b.object \in 0 .. made /\ b.prior \in 0 .. made /\ b.stale \subseteq 1 .. made
    /\ b.at \in Carrying => b.object # 0 /\ b.profile # Missing

TypedRequest(r) ==
    r.of.object \in 1 .. made /\ r.of.prior \in 0 .. made /\ r.of.stale \subseteq 1 .. made

Numbers ==
    /\ made \in Nat /\ made <= MaxObjects /\ signIns \in Nat /\ acked \in 0 .. signIns
    /\ stored \subseteq 1 .. made
    /\ holds \in [Object -> -1 .. signIns]
    /\ pointer.current \in 0 .. made /\ pointer.previous \in 0 .. made

TypeInv ==
    /\ Numbers
    /\ \A c \in Container : Typed(box[c])
    /\ \A r \in sent : TypedRequest(r)

LEMMA InitTypes == Init => TypeInv
  BY SnapshotAssumption DEF Init, TypeInv, Numbers, Typed, NoPointer, Off, Missing, Carrying, Object

LEMMA NumbersStep ==
    ASSUME PointerInv, TypeInv, [Next]_vars
    PROVE  Numbers' /\ made <= made' /\ signIns <= signIns'
<1> DEFINE Steps == Numbers' /\ made <= made' /\ signIns <= signIns'
<1> USE DEF Numbers
<1>0. /\ Numbers
      /\ \A c \in Container : Typed(box[c])
      /\ \A r \in sent : TypedRequest(r)
      /\ MaxObjects \in Nat
  BY SnapshotAssumption DEF TypeInv
<1>q. ASSUME SameBucket, signIns' = signIns, acked' \in 0 .. signIns
      PROVE  Steps
  BY <1>0, <1>q DEF SameBucket
<1>z. 0 \in 0 .. signIns /\ acked \in 0 .. signIns
  BY <1>0
<1>1. ASSUME NEW c \in Container, Boot(c)
      PROVE  Steps
  <2>1. SameBucket /\ signIns' = signIns /\ acked' = acked
    BY <1>1, BootStep
  <2> QED
    BY <1>q, <1>z, <2>1
<1>2. ASSUME NEW c \in Container, ReadToRestore(c)
      PROVE  Steps
  <2>1. SameBucket /\ signIns' = signIns /\ acked' = acked
    BY <1>2, ReadToRestoreStep DEF SameHistory
  <2> QED
    BY <1>q, <1>z, <2>1
<1>3. ASSUME NEW c \in Container, Try(c)
      PROVE  Steps
  <2>1. acked' \in {0, acked} /\ signIns' = signIns /\ SameBucket
    BY <1>3, TryStep
  <2> QED
    BY <1>q, <1>z, <2>1
<1>4. ASSUME NEW c \in Container, Serve(c)
      PROVE  Steps
  <2>1. SameBucket /\ signIns' = signIns /\ acked' = acked
    BY <1>4, ServeStep DEF SameHistory
  <2> QED
    BY <1>q, <1>z, <2>1
<1>5. ASSUME NEW c \in Container, SignIn(c)
      PROVE  Steps
  <2>1. signIns' = signIns + 1 /\ SameBucket /\ acked' = acked
    BY <1>5, SignInStep DEF SameHistory
  <2>2. holds \in [Object -> -1 .. (signIns + 1)]
    BY <1>0
  <2> QED
    BY <1>0, <2>1, <2>2 DEF SameBucket
<1>6. ASSUME NEW c \in Container, Terminate(c) \/ Crash(c)
      PROVE  Steps
  <2>1. SameBucket /\ signIns' = signIns /\ acked' = acked
    BY <1>6, TerminateStep, CrashStep DEF SameHistory
  <2> QED
    BY <1>q, <1>z, <2>1
<1>7. ASSUME NEW c \in Container, Archive(c)
      PROVE  Steps
  <2>1. /\ stored' = stored /\ pointer' = pointer /\ signIns' = signIns /\ acked' = acked
        /\ \/ made' = made /\ holds' = holds
           \/ /\ made < MaxObjects /\ made' = made + 1
              /\ holds' = [holds EXCEPT ![made + 1] = box[c].profile]
    BY <1>7, ArchiveStep DEF SameHistory
  <2>2. holds' \in [Object -> -1 .. signIns]
    BY <1>0, <2>1 DEF Object, Typed
  <2> QED
    BY <1>0, <2>1, <2>2
<1>8. ASSUME NEW c \in Container, Upload(c)
      PROVE  Steps
  <2>1. box[c].object \in 1 .. made
    BY <1>0, <1>8, UploadStep DEF Typed, Carrying
  <2>2. /\ holds' = holds /\ pointer' = pointer /\ made' = made
        /\ signIns' = signIns /\ acked' = acked
        /\ stored' \in {stored, stored \cup {box[c].object}}
    BY <1>8, UploadStep DEF SameHistory
  <2> QED
    BY <1>0, <2>1, <2>2
<1>9. ASSUME NEW c \in Container, ReadMeta(c) \/ ReadBody(c)
      PROVE  Steps
  <2>1. SameBucket /\ signIns' = signIns /\ acked' = acked
    BY <1>9, ReadMetaStep, ReadBodyStep DEF SameHistory
  <2> QED
    BY <1>q, <1>z, <2>1
<1>10. ASSUME NEW c \in Container, Save(c)
       PROVE  Steps
  <2>1. box[c].object \in 0 .. made /\ box[c].prior \in 0 .. made
    BY <1>0 DEF Typed
  <2>2. /\ stored' = stored /\ holds' = holds /\ made' = made
        /\ signIns' = signIns /\ acked' = acked
        /\ pointer' = pointer \/ pointer' = Replaced(box[c])
    BY <1>10, SaveStep DEF SameHistory
  <2>3. pointer'.current \in 0 .. made /\ pointer'.previous \in 0 .. made
    BY <1>0, <2>1, <2>2, ReplacedNames
  <2> QED
    BY <1>0, <2>2, <2>3
<1>11. ASSUME NEW c \in Container, Prune(c) \/ Delete(c)
       PROVE  Steps
  <2>1. box[c].at \in {"prune", "delete"}
    BY <1>11, PruneStep, DeleteStep
  <2>2. box[c].profile \in 0 .. signIns
    BY <1>0, <2>1 DEF Typed, Carrying, Missing
  <2>3. /\ holds' = holds /\ pointer' = pointer /\ made' = made /\ signIns' = signIns
        /\ acked' \in {acked, box[c].profile} /\ stored' \subseteq stored
    BY <1>11, PruneStep, DeleteStep DEF SameBucket
  <2> QED
    BY <1>0, <2>2, <2>3
<1>13. CASE Land
  <2>1. PICK r \in sent :
           \/ stored' = stored /\ pointer' = pointer
           \/ stored' = stored \cup {r.of.object} /\ pointer' = pointer
           \/ stored' = stored /\ pointer' = Replaced(r.of)
           \/ stored' = stored \ r.of.stale /\ pointer' = pointer
    BY <1>13, LandStep
  <2>2. r.of.object \in 1 .. made /\ r.of.prior \in 0 .. made
    BY <1>0 DEF TypedRequest
  <2>3. holds' = holds /\ made' = made /\ signIns' = signIns /\ acked' = acked
    BY <1>13, LandStep DEF SameHistory
  <2>4. pointer'.current \in 0 .. made /\ pointer'.previous \in 0 .. made
    BY <1>0, <2>1, <2>2, ReplacedNames
  <2>5. stored' \subseteq 1 .. made
    BY <1>0, <2>1, <2>2
  <2> QED
    BY <1>0, <2>3, <2>4, <2>5
<1>14. CASE OtherRelease
  <2>1. /\ stored' = stored /\ holds' = holds /\ made' = made /\ signIns' = signIns
        /\ acked' = acked
        /\ pointer'.current = pointer.current /\ pointer'.previous = pointer.previous
    BY <1>14, OtherReleaseStep DEF SameHistory, SameNames
  <2> QED
    BY <1>0, <2>1
<1>15. CASE UNCHANGED vars
  BY <1>0, <1>15 DEF vars
<1> QED
  BY <1>1, <1>2, <1>3, <1>4, <1>5, <1>6, <1>7, <1>8, <1>9, <1>10, <1>11, <1>13, <1>14, <1>15
     DEF Next, Restore, Checkpoint

(* A container that is not one of the step keeps its type. *)
TypedThen(b) ==
    /\ b.profile \in -1 .. signIns'
    /\ b.by \in {"nobody", "core", "entrypoint"}
    /\ b.object \in 0 .. made' /\ b.prior \in 0 .. made' /\ b.stale \subseteq 1 .. made'
    /\ b.at \in Carrying => b.object # 0 /\ b.profile # Missing

LEMMA TypedStays ==
    ASSUME PointerInv, TypeInv, [Next]_vars, NEW c \in Container
    PROVE  TypedThen(box[c])
  BY NumbersStep DEF TypeInv, Numbers, Typed, TypedThen

LEMMA EndedTyped ==
    ASSUME PointerInv, TypeInv, [Next]_vars, NEW c \in Container, NEW n, Ended(box[c], n)
    PROVE  TypedThen(n)
<1>1. Typed(box[c]) /\ Numbers' /\ signIns \in Nat /\ signIns <= signIns' /\ made' \in Nat
  BY NumbersStep DEF TypeInv, Numbers
<1> QED
  BY <1>1 DEF Typed, TypedThen, Ended, Idle, Carrying, Missing, Numbers

LEMMA BoxTypes ==
    ASSUME PointerInv, TypeInv, [Next]_vars, NEW d \in Container
    PROVE  TypedThen(box'[d])
<1> DEFINE Fine == TypedThen(box'[d])
<1>0. /\ TypedThen(box[d]) /\ Typed(box[d])
      /\ Numbers /\ Numbers' /\ made <= made' /\ signIns <= signIns'
      /\ -1 \in -1 .. signIns' /\ 0 \in 0 .. made'
  BY TypedStays, NumbersStep DEF TypeInv, Numbers
<1>1. ASSUME NEW c \in Container, Others(c), d # c
      PROVE  Fine
  BY <1>0, <1>1 DEF Others
<1>2. ASSUME Ended(box[d], box'[d])
      PROVE  Fine
  BY <1>2, EndedTyped
<1>3. ASSUME Idle(box'[d]), box'[d].profile = Missing, box'[d].at \in {"off", "pointer"}
      PROVE  Fine
  BY <1>0, <1>3 DEF Idle, TypedThen, Carrying, Missing
<1>4. CASE Boot(d)
  BY <1>3, <1>4, BootStep
<1>5. CASE ReadToRestore(d)
  BY <1>0, <1>5, ReadToRestoreStep DEF Keeps, TypedThen, Carrying
<1>6. CASE Try(d)
  <2>1. ASSUME Head(box[d].left) \in stored
        PROVE  holds[Head(box[d].left)] \in -1 .. signIns
    <3>1. \A o \in stored : o \in Object
      BY <1>0, SnapshotAssumption DEF Numbers, Object
    <3> QED
      BY <1>0, <2>1, <3>1 DEF Numbers
  <2> QED
    BY <1>0, <1>3, <1>6, <2>1, TryStep DEF Keeps, TypedThen, Carrying
<1>7. CASE Serve(d)
  <2>1. 0 \in -1 .. signIns'
    BY <1>0 DEF Numbers
  <2> QED
    BY <1>0, <1>7, <2>1, ServeStep DEF TypedThen, Carrying
<1>8. CASE SignIn(d)
  <2>1. signIns + 1 \in -1 .. signIns' 
    BY <1>0, <1>8, SignInStep DEF Numbers
  <2> QED
    BY <1>0, <1>8, <2>1, SignInStep DEF TypedThen, Carrying
<1>9. CASE Terminate(d)
  BY <1>0, <1>9, TerminateStep DEF TypedThen, Carrying
<1>10. CASE Crash(d)
  BY <1>3, <1>10, CrashStep
<1>11. CASE Archive(d)
  <2>1. ASSUME made' = made + 1
        PROVE  made + 1 \in 0 .. made' /\ made + 1 # 0
    BY <1>0, <2>1 DEF Numbers
  <2> QED
    BY <1>0, <1>2, <1>11, <2>1, ArchiveStep DEF TypedThen, Carrying
<1>12. CASE Upload(d)
  BY <1>0, <1>2, <1>12, UploadStep DEF Keeps, TypedThen, Carrying
<1>13. CASE ReadMeta(d)
  BY <1>0, <1>13, ReadMetaStep DEF Keeps, TypedThen, Carrying
<1>14. CASE ReadBody(d)
  <2>1. pointer.current \in 0 .. made'
    BY <1>0 DEF Numbers
  <2> QED
    BY <1>0, <1>14, <2>1, ReadBodyStep DEF Keeps, TypedThen, Carrying
<1>15. CASE Save(d)
  BY <1>0, <1>2, <1>15, SaveStep DEF Keeps, TypedThen, Carrying
<1>16. CASE Prune(d)
  <2>1. Stale(box[d]) \subseteq 1 .. made'
    <3>1. Stale(box[d]) \subseteq stored
      BY DEF Stale
    <3>2. stored \subseteq 1 .. made /\ made \in Nat /\ made' \in Nat /\ made <= made'
      BY <1>0 DEF Numbers
    <3>3. 1 .. made \subseteq 1 .. made'
      BY <3>2
    <3> QED
      BY <3>1, <3>2, <3>3
  <2> QED
    BY <1>0, <1>2, <1>16, <2>1, PruneStep DEF Keeps, TypedThen, Carrying
<1>17. CASE Delete(d)
  BY <1>2, <1>17, DeleteStep
<1>18. CASE Land \/ OtherRelease \/ UNCHANGED vars
  BY <1>0, <1>18, LandStep, OtherReleaseStep DEF vars
<1>19. ASSUME NEW c \in Container, Restore(c) \/ SignIn(c) \/ Terminate(c) \/ Checkpoint(c) \/ Crash(c)
       PROVE  Others(c)
  BY <1>19, StepOfOne
<1> QED
  BY <1>1, <1>4, <1>5, <1>6, <1>7, <1>8, <1>9, <1>10, <1>11, <1>12, <1>13, <1>14, <1>15, <1>16,
     <1>17, <1>18, <1>19 DEF Next, Restore, Checkpoint

LEMMA TypeInvariance == Spec => []TypeInv
<1>1. ASSUME PointerInv, TypeInv, [Next]_vars
      PROVE  TypeInv'
  <2> USE <1>1
  <2>1. Numbers' /\ made <= made'
    BY NumbersStep
  <2>2. \A d \in Container : Typed(box[d])'
    BY BoxTypes DEF Typed, TypedThen
  <2>3. ASSUME NEW r \in sent'
        PROVE  TypedRequest(r)
    <3>1. CASE r \in sent
      BY <3>1 DEF TypeInv
    <3>2. CASE r \notin sent
      <4>1. PICK c \in Container :
               /\ box[c].at \in Requests
               /\ r.of.prior = box[c].prior /\ r.of.object = box[c].object
               /\ r.of.stale = box[c].stale
        BY <3>2, SentMoves
      <4> QED
        BY <4>1 DEF TypeInv, Typed, TypedRequest, Numbers, Requests, Carrying
    <3> QED
      BY <3>1, <3>2
  <2>4. \A r \in sent' : TypedRequest(r)'
    BY <2>1, <2>3 DEF TypedRequest, Numbers, TypeInv
  <2> QED
    BY <2>1, <2>2, <2>4 DEF TypeInv
<1> QED
  BY <1>1, InitTypes, Invariance, PTL DEF Spec

(* The bucket, the containers and the history keep their types: archives are
   numbered as they are made, and nothing names one that was not made. *)
THEOREM TypeCorrect == Spec => []TypeOK
<1>1. PointerInv /\ TypeInv => TypeOK
  <2> SUFFICES ASSUME PointerInv, TypeInv
               PROVE  TypeOK
    OBVIOUS
  <2>1. \A c \in Container : box[c].gen \in 0 .. pointer.gen
    BY DEF PointerInv, Behind, Bucket
  <2>2. 1 .. made \subseteq Object
    BY SnapshotAssumption DEF TypeInv, Numbers, Object
  <2> QED
    BY <2>1, <2>2 DEF TypeInv, Numbers, Typed, TypeOK
<1> QED
  BY <1>1, Invariance, TypeInvariance, PTL

-----------------------------------------------------------------------------
(* What a restore tries first. *)

(* A nonempty set of archives has a newest one. *)
LEMMA NewestExists ==
    ASSUME NEW m \in Nat, NEW S \in SUBSET (1 .. m), S # {}
    PROVE  \E o \in S : \A p \in S : p <= o
<1> DEFINE R == OpToRel(<, Nat)
           T == {m - o : o \in S}
<1>1. T \subseteq Nat /\ T # {}
  <2>1. \A o \in S : m - o \in Nat
    OBVIOUS
  <2>2. T # {}
    BY Zenon
  <2> QED
    BY <2>1, <2>2
<1>2. IsWellFoundedOn(R, Nat)
  BY NatLessThanWellFounded
<1> HIDE DEF R
<1>3. PICK x \in T : \A y \in T : <<y, x>> \notin R
  <2> HIDE DEF T
  <2> QED
    BY <1>1, <1>2, WFMin
<1>4. PICK o \in S : x = m - o
  BY <1>3
<1>5. ASSUME NEW p \in S
      PROVE  p <= o
  <2>1. <<m - p, m - o>> \notin R
    BY <1>3, <1>4
  <2>2. ~(m - p < m - o)
    BY <2>1 DEF R, OpToRel
  <2> QED
    BY <2>2
<1> QED
  BY <1>5

LEMMA ListedHead ==
    ASSUME NEW m \in Nat, stored \subseteq 1 .. m, stored # {}
    PROVE  /\ Listed # <<>> /\ Head(Listed) \in stored
           /\ \A o \in stored : o <= Head(Listed)
<1> DEFINE Nth(i) == CHOOSE o \in stored : Cardinality({p \in stored : p > o}) = i - 1
           n == Min({Keep, Cardinality(stored)})
<1>1. IsFiniteSet(stored) /\ Cardinality(stored) \in Nat /\ Cardinality(stored) # 0
  <2>1. IsFiniteSet(1 .. m)
    BY FS_Interval
  <2>2. IsFiniteSet(stored)
    BY <2>1, FS_Subset
  <2> QED
    BY <2>2, FS_CardinalityType, FS_EmptySet
<1>2. n \in Nat /\ 1 <= n
  <2>1. \E x \in {Keep, Cardinality(stored)} : \A y \in {Keep, Cardinality(stored)} : x <= y
    BY <1>1, SnapshotAssumption
  <2>2. n \in {Keep, Cardinality(stored)}
    BY <2>1 DEF Min
  <2> QED
    BY <1>1, <2>2, SnapshotAssumption
<1>3. PICK o \in stored : \A p \in stored : p <= o
  BY NewestExists
<1>4. Cardinality({p \in stored : p > o}) = 0
  <2>1. \A p \in stored : ~(p > o)
    BY <1>3
  <2>2. {p \in stored : p > o} = {}
    BY <2>1
  <2> QED
    BY <2>2, FS_EmptySet
<1>5. Nth(1) \in stored /\ Cardinality({p \in stored : p > Nth(1)}) = 0
  BY <1>4
<1>6. ASSUME NEW q \in stored, Cardinality({p \in stored : p > q}) = 0
      PROVE  \A p \in stored : p <= q
  <2>1. IsFiniteSet({p \in stored : p > q})
    BY <1>1, FS_Subset
  <2>2. {p \in stored : p > q} = {}
    BY <1>6, <2>1, FS_EmptySet
  <2>3. \A p \in stored : ~(p > q)
    BY <2>2
  <2> QED
    BY <2>3
<1>7. Listed = [i \in 1 .. n |-> Nth(i)]
  BY DEF Listed
<1> HIDE DEF Nth, n
<1>8. Listed # <<>> /\ Head(Listed) = Nth(1)
  BY <1>2, <1>7
<1> QED
  BY <1>5, <1>6, <1>8

LEMMA CandidatesHead ==
    /\ pointer.current # 0 => Candidates # <<>> /\ Head(Candidates) = pointer.current
    /\ Candidates = <<>> => pointer.current = 0
  BY DEF Candidates, Given

-----------------------------------------------------------------------------
(* One container at a time.  An archive is wanted if the pointer names it, a
   checkpoint under way will, or a save of a dead container still may.  What
   is to be deleted, now or late, is never wanted, and what is wanted is not
   wanted anew once it was made. *)
Offering == {"upload", "meta", "body", "save"}
Uploaded == {"meta", "body", "save", "prune", "delete"}
Saved == {"prune", "delete"}
Past == {"ready", "serving", "archive"} \cup Carrying

Alone == \A c, d \in Container : ~At(c, "off") /\ ~At(d, "off") => c = d

IsNamed(o) == o # 0 /\ o \in {pointer.current, pointer.previous}
Viable(r) == r.do = "save" /\ r.of.gen = pointer.gen

Wanted(o) ==
    \/ IsNamed(o)
    \/ \E c \in Container : box[c].at \in Offering /\ box[c].object = o
    \/ \E r \in sent : Viable(r) /\ r.of.object = o

Harmless(S) == \A o \in S : ~Wanted(o)

(* What a container knows: its archive is the newest and holds its profile,
   the pointer is its own once it was saved, and its profile is not behind
   the last reported checkpoint once it was restored. *)
Proper(b) ==
    /\ b.at \in Carrying => b.object = made /\ holds[made] = b.profile
    /\ b.at \in Uploaded => b.object \in stored
    /\ b.at \in Saved => /\ pointer.current = b.object /\ pointer.previous = b.prior
                         /\ \A r \in sent : ~Viable(r)
    /\ b.at = "delete" => Harmless(b.stale)
    /\ b.at \in Past => acked = 0 \/ b.profile >= acked
    /\ b.at = "try" /\ ~b.failed =>
          acked = 0 \/ (b.left # <<>> /\ holds[Head(b.left)] >= acked)
    /\ b.by = "core" => b.at \in Carrying \cup {"archive"}

ProperRequest(r) ==
    /\ r.do = "delete" => Harmless(r.of.stale)
    /\ Viable(r) => r.of.object \in stored /\ pointer.current <= r.of.object

NamedStored == \A o \in 1 .. made : IsNamed(o) => o \in stored

(* The pointed archive and every later one hold the last reported checkpoint. *)
Recent ==
    \/ acked = 0
    \/ pointer.current # 0 /\ \A o \in pointer.current .. made : holds[o] >= acked

AloneNow ==
    /\ Alone /\ NamedStored /\ Recent
    /\ \A c \in Container : Proper(box[c])
    /\ \A r \in sent : ProperRequest(r)

(* The inductive invariant behind CurrentRestorable and NothingRolledBack. *)
AloneInv == ~overlapped => AloneNow

LEMMA InitAlone == Init => AloneInv
<1> SUFFICES ASSUME Init
             PROVE  AloneInv
  OBVIOUS
<1>1. \A c \in Container : box[c] = Off
  BY DEF Init
<1>2. Alone /\ NamedStored /\ Recent /\ sent = {}
  BY <1>1 DEF Init, Alone, At, Off, NamedStored, Recent
<1>3. \A c \in Container : Proper(box[c])
  BY <1>1 DEF Proper, Off, Carrying, Uploaded, Saved, Past
<1> QED
  BY <1>2, <1>3 DEF AloneInv, AloneNow

LEMMA OverlapStays == ASSUME PointerInv, [Next]_vars, ~overlapped' PROVE ~overlapped
<1>1. ASSUME NEW c \in Container, Boot(c)
      PROVE  ~overlapped
  BY <1>1, BootStep
<1>2. ASSUME NEW c \in Container, Restore(c) \/ SignIn(c) \/ Terminate(c) \/ Checkpoint(c) \/ Crash(c)
      PROVE  ~overlapped
  <2>1. CASE ReadToRestore(c) \/ Try(c) \/ Serve(c) \/ SignIn(c) \/ Terminate(c) \/ Crash(c)
    BY <2>1 DEF ReadToRestore, Try, Serve, SignIn, Terminate, Crash
  <2>2. CASE Checkpoint(c)
    BY <2>2 DEF Checkpoint, Archive, Upload, ReadMeta, ReadBody, Save, Prune, Delete
  <2> QED
    BY <1>1, <1>2, <2>1, <2>2 DEF Restore
<1> QED
  BY <1>2 DEF Next, Land, OtherRelease, vars

(* A checkpoint offers the archive it offered before, or a new one. *)
LEMMA OfferMoves ==
    ASSUME PointerInv, [Next]_vars, NEW d \in Container, box'[d].at \in Offering
    PROVE  \/ box[d].at \in Offering /\ box'[d].object = box[d].object
           \/ box'[d].object = made + 1
<1> DEFINE Fine == \/ box[d].at \in Offering /\ box'[d].object = box[d].object
                   \/ box'[d].object = made + 1
<1> USE DEF Offering
<1>1. ASSUME NEW c \in Container, Others(c), d # c
      PROVE  Fine
  BY <1>1 DEF Others
<1>2. CASE Boot(d)
  BY <1>2, BootStep
<1>3. CASE ReadToRestore(d)
  BY <1>3, ReadToRestoreStep
<1>4. CASE Try(d)
  BY <1>4, TryStep
<1>5. CASE Serve(d)
  BY <1>5, ServeStep
<1>6. CASE SignIn(d)
  BY <1>6, SignInStep
<1>7. CASE Terminate(d)
  BY <1>7, TerminateStep
<1>8. CASE Crash(d)
  BY <1>8, CrashStep
<1>9. CASE Archive(d)
  BY <1>9, ArchiveStep DEF Ended
<1>10. CASE Upload(d)
  BY <1>10, UploadStep DEF Ended, Keeps
<1>11. CASE ReadMeta(d)
  BY <1>11, ReadMetaStep DEF Keeps
<1>12. CASE ReadBody(d)
  BY <1>12, ReadBodyStep DEF Keeps
<1>13. CASE Save(d)
  BY <1>13, SaveStep DEF Ended
<1>14. CASE Prune(d)
  BY <1>14, PruneStep DEF Ended
<1>15. CASE Delete(d)
  BY <1>15, DeleteStep DEF Ended
<1>16. CASE Land \/ OtherRelease \/ UNCHANGED vars
  BY <1>16, LandStep, OtherReleaseStep DEF vars
<1> QED
  BY <1>1, <1>2, <1>3, <1>4, <1>5, <1>6, <1>7, <1>8, <1>9, <1>10, <1>11, <1>12, <1>13, <1>14,
     <1>15, <1>16, StepOfOne DEF Next, Restore, Checkpoint

(* A save of a dead container that was of no use stays so. *)
LEMMA ViableMoves ==
    ASSUME PointerInv, [Next]_vars, NEW r \in sent, Viable(r)'
    PROVE  Viable(r) /\ pointer' = pointer
  BY PointerAdvances DEF Viable, PointerInv, Behind, Bucket

LEMMA WantedMoves ==
    ASSUME PointerInv, TypeInv, [Next]_vars, NEW o \in 1 .. made, Wanted(o)'
    PROVE  Wanted(o)
<1>1. CASE IsNamed(o)'
  <2>1. CASE pointer'.current = pointer.current /\ pointer'.previous = pointer.previous
    BY <1>1, <2>1 DEF IsNamed, Wanted
  <2>2. ASSUME NEW c \in Container, box[c].at = "save", MayReplace(box[c].gen),
               pointer' = Replaced(box[c])
        PROVE  Wanted(o)
    <3>1. box[c].prior = pointer.current
      BY <2>2 DEF PointerInv, Saving, Holds, MayReplace
    <3>2. o \in {box[c].object, pointer.current} /\ o # 0
      BY <1>1, <2>2, <3>1, ReplacedNames DEF IsNamed
    <3> QED
      BY <2>2, <3>2 DEF Wanted, IsNamed, Offering
  <2>3. ASSUME NEW r \in sent, r.do = "save", MayReplace(r.of.gen), pointer' = Replaced(r.of)
        PROVE  Wanted(o)
    <3>1. r.of.prior = pointer.current
      BY <2>3 DEF PointerInv, Saving, Holds, MayReplace
    <3>2. o \in {r.of.object, pointer.current} /\ o # 0
      BY <1>1, <2>3, <3>1, ReplacedNames DEF IsNamed
    <3> QED
      BY <2>3, <3>2 DEF Wanted, IsNamed, Viable, MayReplace
  <2>4. CASE pointer' = [pointer EXCEPT !.gen = @ + 1, !.readable = FALSE]
    BY <2>1, <2>4 DEF PointerInv, Bucket
  <2> QED
    BY <2>1, <2>2, <2>3, <2>4, PointerMoves
<1>2. ASSUME NEW c \in Container, box'[c].at \in Offering, box'[c].object = o
      PROVE  Wanted(o)
  <2>1. o # made + 1
    BY DEF TypeInv, Numbers
  <2> QED
    BY <1>2, <2>1, OfferMoves DEF Wanted
<1>3. ASSUME NEW r \in sent', Viable(r)', r.of.object = o
      PROVE  Wanted(o)
  <2>1. CASE r \in sent
    BY <1>3, <2>1, ViableMoves DEF Wanted
  <2>2. CASE r \notin sent
    <3>1. PICK c \in Container : r.do = box[c].at /\ r.of.object = box[c].object
      BY <2>2, SentMoves
    <3> QED
      BY <1>3, <3>1 DEF Wanted, Viable, Offering
  <2> QED
    BY <2>1, <2>2
<1> QED
  BY <1>1, <1>2, <1>3 DEF Wanted

LEMMA HarmlessStays ==
    ASSUME PointerInv, TypeInv, [Next]_vars, NEW S \in SUBSET (1 .. made), Harmless(S)
    PROVE  \A o \in S : ~Wanted(o)'
  BY WantedMoves DEF Harmless

LEMMA StoredMoves ==
    ASSUME PointerInv, AloneNow, [Next]_vars, NEW o \in stored, Wanted(o)
    PROVE  o \in stored'
<1>1. ASSUME NEW c \in Container, Restore(c) \/ SignIn(c) \/ Terminate(c) \/ Crash(c)
      PROVE  o \in stored'
  BY <1>1 DEF Restore, Boot, ReadToRestore, Try, Serve, SignIn, Terminate, Crash, bucket
<1>2. ASSUME NEW c \in Container, Archive(c) \/ Upload(c) \/ ReadMeta(c) \/ ReadBody(c)
      PROVE  o \in stored'
  BY <1>2, UploadStep DEF Archive, ReadMeta, ReadBody, bucket
<1>3. ASSUME NEW c \in Container, Save(c) \/ Prune(c)
      PROVE  o \in stored'
  BY <1>3, SaveStep DEF Prune, bucket
<1>4. ASSUME NEW c \in Container, Delete(c)
      PROVE  o \in stored'
  <2>1. o \notin box[c].stale
    BY <1>4, DeleteStep DEF AloneNow, Proper, Harmless
  <2> QED
    BY <1>4, <2>1, DeleteStep
<1>5. CASE Land
  <2>1. \A r \in sent : r.do = "delete" => o \notin r.of.stale
    BY DEF AloneNow, ProperRequest, Harmless
  <2> QED
    BY <1>5, <2>1, LandStep
<1>6. CASE OtherRelease \/ UNCHANGED vars
  BY <1>6 DEF OtherRelease, vars
<1> QED
  BY <1>1, <1>2, <1>3, <1>4, <1>5, <1>6 DEF Next, Checkpoint

LEMMA NamedStays ==
    ASSUME PointerInv, TypeInv, AloneNow, [Next]_vars
    PROVE  NamedStored'
<1>0. ASSUME NEW o, IsNamed(o)
      PROVE  o \in stored /\ Wanted(o)
  BY <1>0 DEF AloneNow, NamedStored, IsNamed, Wanted, TypeInv, Numbers
<1> SUFFICES ASSUME NEW o, IsNamed(o)'
             PROVE  o \in stored /\ Wanted(o)
  BY StoredMoves DEF NamedStored
<1>1. CASE pointer'.current = pointer.current /\ pointer'.previous = pointer.previous
  BY <1>0, <1>1 DEF IsNamed
<1>2. ASSUME NEW c \in Container, box[c].at = "save", MayReplace(box[c].gen),
             pointer' = Replaced(box[c])
      PROVE  o \in stored /\ Wanted(o)
  <2>1. box[c].prior = pointer.current
    BY <1>2 DEF PointerInv, Saving, Holds, MayReplace
  <2>2. o \in {box[c].object, pointer.current} /\ o # 0
    BY <1>2, <2>1, ReplacedNames DEF IsNamed
  <2>3. box[c].object \in stored /\ Wanted(box[c].object)
    BY <1>2 DEF AloneNow, Proper, Uploaded, Wanted, Offering
  <2> QED
    BY <1>0, <2>2, <2>3 DEF IsNamed
<1>3. ASSUME NEW r \in sent, r.do = "save", MayReplace(r.of.gen), pointer' = Replaced(r.of)
      PROVE  o \in stored /\ Wanted(o)
  <2>1. r.of.prior = pointer.current
    BY <1>3 DEF PointerInv, Saving, Holds, MayReplace
  <2>2. o \in {r.of.object, pointer.current} /\ o # 0
    BY <1>3, <2>1, ReplacedNames DEF IsNamed
  <2>3. r.of.object \in stored /\ Wanted(r.of.object)
    BY <1>3 DEF AloneNow, ProperRequest, Viable, MayReplace, Wanted
  <2> QED
    BY <1>0, <2>2, <2>3 DEF IsNamed
<1>4. CASE pointer' = [pointer EXCEPT !.gen = @ + 1, !.readable = FALSE]
  BY <1>1, <1>4 DEF PointerInv, Bucket
<1> QED
  BY <1>1, <1>2, <1>3, <1>4, PointerMoves

LEMMA RequestsStay ==
    ASSUME PointerInv, TypeInv, AloneNow, [Next]_vars, NEW r \in sent'
    PROVE  ProperRequest(r)'
<1>1. CASE r \in sent
  <2>1. r.of.stale \subseteq 1 .. made /\ ProperRequest(r)
    BY <1>1 DEF TypeInv, TypedRequest, AloneNow
  <2>2. ASSUME r.do = "delete"
        PROVE  Harmless(r.of.stale)'
    BY <2>1, <2>2, HarmlessStays DEF ProperRequest, Harmless
  <2>3. ASSUME Viable(r)'
        PROVE  r.of.object \in stored' /\ pointer'.current <= r.of.object
    <3>1. Viable(r) /\ pointer' = pointer
      BY <1>1, <2>3, ViableMoves
    <3>2. r.of.object \in stored /\ Wanted(r.of.object)
      BY <1>1, <2>1, <3>1 DEF ProperRequest, Wanted
    <3> QED
      BY <2>1, <3>1, <3>2, StoredMoves DEF ProperRequest
  <2> QED
    BY <2>2, <2>3 DEF ProperRequest
<1>2. CASE r \notin sent
  <2>1. PICK c \in Container :
           /\ Terminate(c) \/ Crash(c)
           /\ r.do = box[c].at
           /\ r.of.object = box[c].object /\ r.of.stale = box[c].stale
    BY <1>2, SentMoves
  <2>2. SameBucket
    BY <2>1, TerminateStep, CrashStep
  <2>3. Proper(box[c]) /\ Typed(box[c])
    BY DEF AloneNow, TypeInv
  <2>4. ASSUME r.do = "delete"
        PROVE  Harmless(r.of.stale)'
    BY <2>1, <2>3, <2>4, HarmlessStays DEF Proper, Typed, Harmless
  <2>5. ASSUME Viable(r)'
        PROVE  r.of.object \in stored' /\ pointer'.current <= r.of.object
    <3>1. box[c].at = "save"
      BY <2>1, <2>5 DEF Viable
    <3>2. r.of.object = made /\ made \in stored
      BY <2>1, <2>3, <3>1 DEF Proper, Carrying, Uploaded
    <3> QED
      BY <2>2, <3>2 DEF SameBucket, TypeInv, Numbers
  <2> QED
    BY <2>4, <2>5 DEF ProperRequest
<1> QED
  BY <1>1, <1>2

(* Whoever takes a step is the only container that is up. *)
LEMMA ActorAlone ==
    ASSUME PointerInv, AloneNow, ~overlapped', NEW c \in Container,
           Restore(c) \/ SignIn(c) \/ Terminate(c) \/ Checkpoint(c) \/ Crash(c)
    PROVE  /\ \A d \in Container : d # c => box[d].at = "off" /\ box'[d] = box[d]
<1>1. Others(c)
  BY StepOfOne
<1>2. CASE Boot(c)
  BY <1>1, <1>2, BootStep DEF Others
<1>3. CASE ~Boot(c)
  <2>1. ReadToRestore(c) \/ Try(c) \/ Serve(c) => box[c].at # "off"
    BY DEF ReadToRestore, Try, Serve, At
  <2>2. SignIn(c) \/ Crash(c) => box[c].at # "off"
    BY DEF SignIn, Crash, At
  <2>3. Terminate(c) => box[c].at # "off"
    BY DEF Terminate, AloneNow, Proper, Carrying
  <2>4. Checkpoint(c) => box[c].at # "off"
    BY DEF Checkpoint, Archive, Upload, ReadMeta, ReadBody, Save, Prune, Delete, At
  <2>5. box[c].at # "off"
    BY <1>3, <2>1, <2>2, <2>3, <2>4 DEF Restore
  <2> QED
    BY <1>1, <2>5 DEF AloneNow, Alone, At, Others
<1> QED
  BY <1>2, <1>3

LEMMA AloneStays ==
    ASSUME PointerInv, AloneNow, ~overlapped', [Next]_vars
    PROVE  Alone'
<1>1. ASSUME NEW c \in Container, Restore(c) \/ SignIn(c) \/ Terminate(c) \/ Checkpoint(c) \/ Crash(c)
      PROVE  Alone'
  <2>1. \A d \in Container : d # c => box'[d].at = "off"
    BY <1>1, ActorAlone
  <2> QED
    BY <2>1 DEF Alone, At
<1>2. CASE Land \/ OtherRelease \/ UNCHANGED vars
  <2>1. box' = box
    BY <1>2 DEF Land, OtherRelease, vars
  <2> QED
    BY <2>1 DEF AloneNow, Alone, At
<1> QED
  BY <1>1, <1>2 DEF Next

LEMMA RecentStays ==
    ASSUME PointerInv, TypeInv, AloneNow, [Next]_vars
    PROVE  Recent'
<1>0. /\ Recent /\ Numbers
      /\ \A c \in Container : Proper(box[c]) /\ Typed(box[c])
      /\ \A r \in sent : ProperRequest(r) /\ TypedRequest(r)
  BY DEF AloneNow, TypeInv
<1>1. ASSUME holds' = holds, made' = made, pointer'.current = pointer.current, acked' \in {0, acked}
      PROVE  Recent'
  BY <1>0, <1>1 DEF Recent
<1>2. ASSUME SameBucket, acked' \in {0, acked}
      PROVE  Recent'
  BY <1>1, <1>2 DEF SameBucket
<1>3. ASSUME NEW c \in Container, Restore(c)
      PROVE  Recent'
  <2>1. SameBucket
    BY <1>3, BootStep, ReadToRestoreStep, TryStep, ServeStep DEF Restore
  <2>2. acked' \in {0, acked}
    <3>1. Boot(c) \/ ReadToRestore(c) \/ Serve(c) => acked' = acked
      BY BootStep, ReadToRestoreStep, ServeStep DEF SameHistory
    <3>2. Try(c) => acked' \in {0, acked}
      BY TryStep
    <3> QED
      BY <1>3, <3>1, <3>2 DEF Restore
  <2> QED
    BY <1>2, <2>1, <2>2
<1>4. ASSUME NEW c \in Container, SignIn(c) \/ Terminate(c) \/ Crash(c) \/ ReadMeta(c) \/ ReadBody(c)
      PROVE  Recent'
  <2>1. SameBucket /\ acked' = acked
    BY <1>4, SignInStep, TerminateStep, CrashStep, ReadMetaStep, ReadBodyStep DEF SameHistory
  <2> QED
    BY <1>2, <2>1
<1>5. ASSUME NEW c \in Container, Archive(c)
      PROVE  Recent'
  <2>1. pointer' = pointer /\ acked' = acked
    BY <1>5, ArchiveStep DEF SameHistory
  <2>2. CASE holds' = holds /\ made' = made
    BY <1>1, <2>1, <2>2
  <2>3. CASE /\ made < MaxObjects /\ made' = made + 1
             /\ holds' = [holds EXCEPT ![made + 1] = box[c].profile]
    <3>1. acked = 0 \/ box[c].profile >= acked
      BY <1>0, <1>5, ArchiveStep DEF Proper, Past
    <3>2. ASSUME NEW o \in 1 .. made
          PROVE  holds'[o] = holds[o]
      BY <1>0, <2>3 DEF Numbers
    <3>3. holds'[made + 1] = box[c].profile
      BY <1>0, <2>3, SnapshotAssumption DEF Numbers, Object
    <3>4. CASE acked = 0
      BY <2>1, <3>4 DEF Recent
    <3>5. CASE acked # 0
      <4>1. pointer.current \in 1 .. made /\ \A o \in pointer.current .. made : holds[o] >= acked
        BY <1>0, <3>5 DEF Recent, Numbers
      <4>2. ASSUME NEW o \in pointer.current .. (made + 1)
            PROVE  holds'[o] >= acked
        <5>1. CASE o = made + 1
          BY <3>1, <3>3, <3>5, <5>1
        <5>2. CASE o # made + 1
          <6>1. o \in 1 .. made /\ o \in pointer.current .. made
            BY <1>0, <4>1, <5>2 DEF Numbers
          <6> QED
            BY <3>2, <4>1, <6>1
        <5> QED
          BY <5>1, <5>2
      <4> QED
        BY <2>1, <2>3, <4>1, <4>2 DEF Recent
    <3> QED
      BY <3>4, <3>5
  <2> QED
    BY <1>5, <2>2, <2>3, ArchiveStep
<1>6. ASSUME NEW c \in Container, Upload(c)
      PROVE  Recent'
  <2>1. holds' = holds /\ made' = made /\ pointer' = pointer /\ acked' = acked
    BY <1>6, UploadStep DEF SameHistory
  <2> QED
    BY <1>1, <2>1
<1>7. ASSUME NEW c \in Container, Save(c)
      PROVE  Recent'
  <2>1. holds' = holds /\ made' = made /\ acked' = acked
    BY <1>7, SaveStep DEF SameHistory
  <2>2. CASE pointer' = pointer
    BY <1>1, <2>1, <2>2
  <2>3. CASE pointer' = Replaced(box[c])
    <3>1. box[c].at = "save"
      BY <1>7, SaveStep
    <3>2. /\ box[c].object = made /\ box[c].object # 0 /\ holds[made] = box[c].profile
          /\ acked = 0 \/ box[c].profile >= acked
      BY <1>0, <3>1 DEF Proper, Typed, Carrying, Past
    <3>3. pointer'.current = made /\ made \in Nat
      BY <1>0, <2>3, <3>2, ReplacedNames DEF Numbers
    <3>4. \A o \in made .. made : o = made
      BY <3>3
    <3> QED
      BY <2>1, <3>2, <3>3, <3>4 DEF Recent
  <2> QED
    BY <1>7, <2>2, <2>3, SaveStep
<1>8. ASSUME NEW c \in Container, Prune(c) \/ Delete(c)
      PROVE  Recent'
  <2>1. box[c].at \in {"prune", "delete"}
    BY <1>8, PruneStep, DeleteStep
  <2>2. /\ box[c].object = made /\ box[c].object # 0 /\ holds[made] = box[c].profile
        /\ pointer.current = made
    BY <1>0, <2>1 DEF Proper, Typed, Carrying, Saved
  <2>3. /\ holds' = holds /\ made' = made /\ pointer' = pointer
        /\ acked' \in {acked, box[c].profile}
    BY <1>8, PruneStep, DeleteStep DEF SameBucket
  <2>4. CASE acked' = acked
    BY <1>1, <2>3, <2>4
  <2>5. CASE acked' = box[c].profile
    <3>1. \A o \in made .. made : o = made
      BY <1>0 DEF Numbers
    <3>2. box[c].profile >= box[c].profile
      BY <1>0 DEF Typed, Numbers
    <3> QED
      BY <2>2, <2>3, <2>5, <3>1, <3>2 DEF Recent
  <2> QED
    BY <2>3, <2>4, <2>5
<1>9. CASE Land
  <2>1. holds' = holds /\ made' = made /\ acked' = acked
    BY <1>9, LandStep DEF SameHistory
  <2>2. CASE pointer' = pointer
    BY <1>1, <2>1, <2>2
  <2>3. ASSUME NEW r \in sent, r.do = "save", r.of.gen = pointer.gen, pointer' = Replaced(r.of)
        PROVE  Recent'
    <3>1. /\ pointer'.current = r.of.object /\ pointer.current <= r.of.object
          /\ r.of.object \in 1 .. made
      BY <1>0, <2>3, ReplacedNames DEF ProperRequest, TypedRequest, Viable
    <3>2. r.of.object .. made \subseteq pointer.current .. made
      BY <1>0, <3>1 DEF Numbers
    <3> QED
      BY <1>0, <2>1, <3>1, <3>2 DEF Recent
  <2> QED
    BY <1>9, <2>2, <2>3, LandStep
<1>10. CASE OtherRelease
  BY <1>1, <1>10, OtherReleaseStep DEF SameHistory, SameNames
<1>11. CASE UNCHANGED vars
  BY <1>1, <1>11 DEF vars
<1> QED
  BY <1>3, <1>4, <1>5, <1>6, <1>7, <1>8, <1>9, <1>10, <1>11 DEF Next, Checkpoint

(* What a container that is in b after the step has to know. *)
ProperThen(b) ==
    /\ b.at \in Carrying => b.object = made' /\ holds'[made'] = b.profile
    /\ b.at \in Uploaded => b.object \in stored'
    /\ b.at \in Saved => /\ pointer'.current = b.object /\ pointer'.previous = b.prior
                         /\ \A r \in sent' : ~Viable(r)'
    /\ b.at = "delete" => \A o \in b.stale : ~Wanted(o)'
    /\ b.at \in Past => acked' = 0 \/ b.profile >= acked'
    /\ b.at = "try" /\ ~b.failed =>
          acked' = 0 \/ (b.left # <<>> /\ holds'[Head(b.left)] >= acked')
    /\ b.by = "core" => b.at \in Carrying \cup {"archive"}

LEMMA OffProper ==
    ASSUME NEW b, b.at \in {"off", "pointer"}, b.by # "core"
    PROVE  ProperThen(b)
  BY DEF ProperThen, Carrying, Uploaded, Saved, Past

LEMMA EndedProper ==
    ASSUME NEW b, NEW n, Ended(b, n), acked' = 0 \/ b.profile >= acked'
    PROVE  ProperThen(n)
  BY DEF ProperThen, Ended, Idle, Carrying, Uploaded, Saved, Past

(* A container that is not one of the step. *)
LEMMA ProperStays ==
    ASSUME PointerInv, TypeInv, AloneNow, Land \/ OtherRelease \/ UNCHANGED vars,
           NEW c \in Container
    PROVE  ProperThen(box[c])
<1>0. [Next]_vars /\ Proper(box[c]) /\ Typed(box[c])
  BY DEF Next, AloneNow, TypeInv
<1>1. holds' = holds /\ made' = made /\ acked' = acked /\ sent' \subseteq sent
  BY LandStep, OtherReleaseStep DEF vars, SameHistory
<1>2. ASSUME box[c].at \in Uploaded
      PROVE  box[c].object \in stored'
  <2>1. box[c].object \in stored
    BY <1>0, <1>2 DEF Proper
  <2>2. Wanted(box[c].object)
    <3>1. CASE box[c].at \in Offering
      BY <3>1 DEF Wanted
    <3>2. CASE box[c].at \in Saved
      BY <1>0, <3>2 DEF Wanted, IsNamed, Proper, Typed, Saved, Carrying
    <3> QED
      BY <1>2, <3>1, <3>2 DEF Uploaded, Offering, Saved
  <2> QED
    BY <1>0, <2>1, <2>2, StoredMoves
<1>3. ASSUME box[c].at \in Saved
      PROVE  /\ pointer'.current = box[c].object /\ pointer'.previous = box[c].prior
             /\ \A r \in sent' : ~Viable(r)'
  <2>1. \A r \in sent : ~Viable(r)
    BY <1>0, <1>3 DEF Proper
  <2>2. \A r \in sent' : ~Viable(r)'
    BY <1>0, <1>1, <2>1, ViableMoves
  <2>3. pointer'.current = pointer.current /\ pointer'.previous = pointer.previous
    BY <2>1, LandStep, OtherReleaseStep DEF Viable, SameNames, vars
  <2> QED
    BY <1>0, <1>3, <2>2, <2>3 DEF Proper
<1>4. ASSUME box[c].at = "delete"
      PROVE  \A o \in box[c].stale : ~Wanted(o)'
  BY <1>0, <1>4, HarmlessStays DEF Proper, Typed
<1> QED
  BY <1>0, <1>1, <1>2, <1>3, <1>4 DEF Proper, ProperThen

(* The container of the step. *)
LEMMA ProperMoves ==
    ASSUME PointerInv, TypeInv, AloneNow, ~overlapped', NEW c \in Container,
           Restore(c) \/ SignIn(c) \/ Terminate(c) \/ Checkpoint(c) \/ Crash(c)
    PROVE  ProperThen(box'[c])
<1> DEFINE Fine == ProperThen(box'[c])
<1>0. /\ [Next]_vars /\ Proper(box[c]) /\ Typed(box[c])
      /\ Numbers /\ NamedStored /\ Recent
      /\ \A d \in Container : d # c => box[d].at = "off"
  BY ActorAlone DEF Next, AloneNow, TypeInv
<1>1. CASE Boot(c)
  BY <1>1, BootStep, OffProper DEF Idle
<1>2. CASE ReadToRestore(c)
  <2>0. /\ SameBucket /\ acked' = acked /\ Keeps(box[c], box'[c]) /\ box'[c].at = "try"
        /\ box[c].at = "pointer"
    BY <1>2, ReadToRestoreStep DEF SameHistory
  <2>1. ASSUME acked # 0
        PROVE  /\ pointer.current \in 1 .. made /\ pointer.current \in stored
               /\ \A o \in pointer.current .. made : holds[o] >= acked
    BY <1>0, <2>1 DEF Recent, Numbers, NamedStored, IsNamed
  <2>2. ASSUME box'[c].left = Candidates, acked # 0
        PROVE  box'[c].left # <<>> /\ holds[Head(box'[c].left)] >= acked
    <3>1. pointer.current \in pointer.current .. made
      BY <1>0, <2>1, <2>2 DEF Numbers
    <3> QED
      BY <2>1, <2>2, <3>1, CandidatesHead
  <2>3. ASSUME box'[c].left = Listed, acked # 0
        PROVE  box'[c].left # <<>> /\ holds[Head(box'[c].left)] >= acked
    <3>1. /\ Listed # <<>> /\ Head(Listed) \in stored
          /\ \A o \in stored : o <= Head(Listed)
      BY <1>0, <2>1, <2>3, ListedHead DEF Numbers
    <3>2. \A o \in stored : pointer.current <= o => o \in pointer.current .. made
      BY <1>0, <2>1, <2>3 DEF Numbers
    <3>3. \A h \in stored : (\A o \in stored : o <= h) => holds[h] >= acked
      BY <2>1, <2>3, <3>2
    <3> QED
      BY <2>3, <3>1, <3>3
  <2>4. ~box'[c].failed => acked = 0 \/ (box'[c].left # <<>> /\ holds[Head(box'[c].left)] >= acked)
    BY <1>2, <2>2, <2>3, ReadToRestoreStep
  <2>5. box'[c].by # "core"
    BY <1>0, <2>0 DEF Proper, Keeps, Carrying
  <2> QED
    BY <2>0, <2>4, <2>5 DEF ProperThen, SameBucket, Carrying, Uploaded, Saved, Past
<1>3. CASE Try(c)
  <2>0. box[c].at = "try" /\ SameBucket
    BY <1>3, TryStep
  <2>1. box[c].by # "core"
    BY <1>0, <2>0 DEF Proper, Carrying
  <2>2. ASSUME box'[c].at = "ready", acked' = 0 \/ box'[c].profile >= acked', box'[c].by = box[c].by
        PROVE  Fine
    BY <2>1, <2>2 DEF ProperThen, Carrying, Uploaded, Saved, Past
  <2>3. ~box[c].failed => acked = 0 \/ (box[c].left # <<>> /\ holds[Head(box[c].left)] >= acked)
    BY <1>0, <2>0 DEF Proper
  <2>4. CASE /\ box[c].left # <<>> /\ box'[c].at = "ready"
             /\ box'[c].profile = holds[Head(box[c].left)]
             /\ box'[c].by = box[c].by /\ acked' = IF box[c].failed THEN 0 ELSE acked
    BY <2>2, <2>3, <2>4
  <2>5. CASE Keeps(box[c], box'[c]) /\ box'[c].at = "try" /\ box'[c].failed = TRUE
    BY <2>1, <2>5 DEF ProperThen, Keeps, Carrying, Uploaded, Saved, Past
  <2>6. CASE /\ box[c].left = <<>> /\ Keeps(box[c], box'[c]) /\ box'[c].at = "ready"
             /\ acked' = IF box[c].failed THEN 0 ELSE acked
    BY <2>2, <2>3, <2>6 DEF Keeps
  <2>7. CASE box'[c].at = "off" /\ Idle(box'[c])
    BY <2>7, OffProper DEF Idle
  <2> QED
    BY <1>3, <2>4, <2>5, <2>6, <2>7, TryStep
<1>4. CASE Serve(c)
  <2>0. /\ box[c].at = "ready" /\ acked' = acked /\ box'[c].at = "serving"
        /\ box'[c].by = box[c].by
        /\ box'[c].profile = IF box[c].profile = Missing THEN 0 ELSE box[c].profile
    BY <1>4, ServeStep DEF SameHistory
  <2>1. box[c].by # "core"
    BY <1>0, <2>0 DEF Proper, Carrying
  <2>2. acked = 0 \/ box[c].profile >= acked
    BY <1>0, <2>0 DEF Proper, Past
  <2>3. acked = 0 \/ box'[c].profile >= acked
    BY <1>0, <2>0, <2>2 DEF Missing, Numbers
  <2> QED
    BY <2>0, <2>1, <2>3 DEF ProperThen, Carrying, Uploaded, Saved, Past
<1>5. CASE SignIn(c)
  <2>1. /\ box'[c].at = "archive" /\ box'[c].profile = signIns + 1 /\ acked' = acked
    BY <1>5, SignInStep DEF SameHistory
  <2>2. signIns + 1 >= acked
    BY <1>0 DEF Numbers
  <2> QED
    BY <2>1, <2>2 DEF ProperThen, Carrying, Uploaded, Saved, Past
<1>6. CASE Terminate(c)
  <2>1. /\ box[c].at \in {"ready", "serving"} \/ box[c].by = "core"
        /\ box'[c].at = "archive" /\ box'[c].profile = box[c].profile
        /\ box'[c].by = "entrypoint" /\ acked' = acked
    BY <1>6, TerminateStep DEF SameHistory
  <2>2. acked = 0 \/ box[c].profile >= acked
    BY <1>0, <2>1 DEF Proper, Past
  <2> QED
    BY <2>1, <2>2 DEF ProperThen, Carrying, Uploaded, Saved, Past
<1>7. CASE Crash(c)
  BY <1>7, CrashStep, OffProper DEF Idle
<1>8. CASE Archive(c)
  <2>0. box[c].at = "archive" /\ acked' = acked
    BY <1>8, ArchiveStep DEF SameHistory
  <2>1. acked = 0 \/ box[c].profile >= acked
    BY <1>0, <2>0 DEF Proper, Past
  <2>2. CASE Ended(box[c], box'[c])
    BY <2>0, <2>1, <2>2, EndedProper
  <2>3. CASE /\ made < MaxObjects /\ made' = made + 1
             /\ holds' = [holds EXCEPT ![made + 1] = box[c].profile]
             /\ box'[c].at = "upload" /\ box'[c].object = made + 1
             /\ box'[c].profile = box[c].profile
    <3>1. holds'[made'] = box'[c].profile
      BY <1>0, <2>3, SnapshotAssumption DEF Numbers, Object
    <3> QED
      BY <2>0, <2>1, <2>3, <3>1 DEF ProperThen, Carrying, Uploaded, Saved, Past
  <2> QED
    BY <1>8, <2>2, <2>3, ArchiveStep
<1>9. ASSUME box[c].at \in Carrying, acked' = acked, Ended(box[c], box'[c])
      PROVE  Fine
  BY <1>0, <1>9, EndedProper DEF Proper, Past
<1>10. CASE Upload(c)
  <2>0. /\ box[c].at = "upload" /\ holds' = holds /\ made' = made /\ acked' = acked
    BY <1>10, UploadStep DEF SameHistory
  <2>1. CASE Ended(box[c], box'[c])
    BY <1>9, <2>0, <2>1 DEF Carrying
  <2>2. CASE /\ stored' = stored \cup {box[c].object}
             /\ Keeps(box[c], box'[c]) /\ box'[c].at = "meta"
    BY <1>0, <2>0, <2>2 DEF Proper, ProperThen, Keeps, Carrying, Uploaded, Saved, Past
  <2> QED
    BY <1>10, <2>1, <2>2, UploadStep
<1>11. CASE ReadMeta(c) \/ ReadBody(c)
  <2>0. /\ box[c].at \in {"meta", "body"} /\ SameBucket /\ acked' = acked
        /\ Keeps(box[c], box'[c]) /\ box'[c].at \in {"body", "save"}
    BY <1>11, ReadMetaStep, ReadBodyStep DEF SameHistory
  <2> QED
    BY <1>0, <2>0 DEF SameBucket, Proper, ProperThen, Keeps, Carrying, Uploaded, Saved, Past
<1>12. CASE Save(c)
  <2>0. /\ box[c].at = "save" /\ stored' = stored /\ holds' = holds /\ made' = made
        /\ acked' = acked /\ sent' = sent
    BY <1>12, SaveStep DEF SameHistory
  <2>1. CASE Ended(box[c], box'[c])
    BY <1>9, <2>0, <2>1 DEF Carrying
  <2>2. CASE /\ pointer' = Replaced(box[c])
             /\ Keeps(box[c], box'[c]) /\ box'[c].at = "prune"
             /\ box'[c].prior = box[c].prior
    <3>1. /\ pointer'.current = box[c].object /\ pointer'.previous = box[c].prior
          /\ pointer'.gen = pointer.gen + 1
      BY <2>2, ReplacedNames
    <3>2. \A r \in sent' : ~Viable(r)'
      BY <1>0, <2>0, <3>1, ViableMoves DEF PointerInv, Bucket
    <3> QED
      BY <1>0, <2>0, <2>2, <3>1, <3>2
         DEF Proper, ProperThen, Keeps, Carrying, Uploaded, Saved, Past
  <2> QED
    BY <1>12, <2>1, <2>2, SaveStep
<1>13. CASE Prune(c)
  <2>0. box[c].at = "prune" /\ SameBucket /\ sent' = sent
    BY <1>13, PruneStep
  <2>1. CASE Ended(box[c], box'[c]) /\ acked' = box[c].profile
    <3>1. box[c].profile >= box[c].profile
      BY <1>0 DEF Typed, Numbers
    <3> QED
      BY <2>1, <3>1, EndedProper
  <2>2. CASE /\ Keeps(box[c], box'[c]) /\ box'[c].at = "delete" /\ acked' = acked
             /\ box'[c].prior = box[c].prior /\ box'[c].stale = Stale(box[c])
    <3>1. /\ pointer.current = box[c].object /\ pointer.previous = box[c].prior
          /\ \A r \in sent : ~Viable(r)
      BY <1>0, <2>0 DEF Proper, Saved
    <3>2. ASSUME NEW o \in Stale(box[c])
          PROVE  ~Wanted(o)'
      <4>1. o \in stored /\ o \notin {box[c].object, box[c].prior} \ {0}
        BY <3>2 DEF Stale
      <4>2. ~IsNamed(o)
        BY <3>1, <4>1 DEF IsNamed
      <4>3. \A d \in Container : box[d].at \notin Offering
        BY <1>0, <2>0 DEF Offering
      <4>4. ~Wanted(o)
        BY <3>1, <4>2, <4>3 DEF Wanted
      <4> QED
        BY <1>0, <4>1, <4>4, WantedMoves DEF Numbers
    <3>3. \A r \in sent' : ~Viable(r)'
      BY <1>0, <2>0, <3>1, ViableMoves
    <3> QED
      BY <1>0, <2>0, <2>2, <3>2, <3>3
         DEF SameBucket, Proper, ProperThen, Keeps, Carrying, Uploaded, Saved, Past
  <2> QED
    BY <1>13, <2>1, <2>2, PruneStep
<1>14. CASE Delete(c)
  <2>1. Ended(box[c], box'[c]) /\ acked' = box[c].profile
    BY <1>14, DeleteStep
  <2>2. box[c].profile >= box[c].profile
    BY <1>0 DEF Typed, Numbers
  <2> QED
    BY <2>1, <2>2, EndedProper
<1> QED
  BY <1>1, <1>2, <1>3, <1>4, <1>5, <1>6, <1>7, <1>8, <1>10, <1>11, <1>12, <1>13, <1>14
     DEF Restore, Checkpoint

LEMMA ProperEverywhere ==
    ASSUME PointerInv, TypeInv, AloneNow, ~overlapped', [Next]_vars, NEW d \in Container
    PROVE  ProperThen(box'[d])
<1>1. ASSUME NEW c \in Container, Restore(c) \/ SignIn(c) \/ Terminate(c) \/ Checkpoint(c) \/ Crash(c)
      PROVE  ProperThen(box'[d])
  <2>1. CASE d = c
    BY <1>1, <2>1, ProperMoves
  <2>2. CASE d # c
    <3>1. box[d].at = "off" /\ box'[d] = box[d]
      BY <1>1, <2>2, ActorAlone
    <3>2. box[d].by # "core"
      BY <3>1 DEF AloneNow, Proper, Carrying
    <3> QED
      BY <3>1, <3>2, OffProper
  <2> QED
    BY <2>1, <2>2
<1>2. CASE Land \/ OtherRelease \/ UNCHANGED vars
  <2>1. box' = box
    BY <1>2 DEF Land, OtherRelease, vars
  <2> QED
    BY <1>2, <2>1, ProperStays
<1> QED
  BY <1>1, <1>2 DEF Next

LEMMA AloneInvariance == Spec => []AloneInv
<1>1. ASSUME PointerInv, TypeInv, AloneInv, [Next]_vars
      PROVE  AloneInv'
  <2> SUFFICES ASSUME ~overlapped'
               PROVE  AloneNow'
    BY DEF AloneInv
  <2>1. AloneNow
    BY <1>1, OverlapStays DEF AloneInv
  <2>2. Alone' /\ NamedStored' /\ Recent'
    BY <1>1, <2>1, AloneStays, NamedStays, RecentStays
  <2>3. \A r \in sent' : ProperRequest(r)'
    BY <1>1, <2>1, RequestsStay
  <2>4. ASSUME NEW c \in Container
        PROVE  Proper(box[c])'
    BY <1>1, <2>1, ProperEverywhere DEF ProperThen, Proper, Harmless
  <2> QED
    BY <2>2, <2>3, <2>4 DEF AloneNow
<1> QED
  BY <1>1, InitAlone, Invariance, TypeInvariance, PTL DEF Spec

(* The archives that a readable pointer names are in the bucket as long as
   no two containers overlap, whatever fails and whatever requests of dead
   containers are carried out late (profile-snapshot.mjs, pruneSnapshots()). *)
THEOREM CurrentRestorableHolds == Spec => []CurrentRestorable
<1>1. TypeInv /\ AloneInv => CurrentRestorable
  <2> SUFFICES ASSUME TypeInv, AloneInv, ~overlapped,
                      NEW o \in {pointer.current, pointer.previous} \ {0}
               PROVE  o \in stored
    BY DEF CurrentRestorable
  <2>1. IsNamed(o) /\ o \in 1 .. made
    BY DEF IsNamed, TypeInv, Numbers
  <2> QED
    BY <2>1 DEF AloneInv, AloneNow, NamedStored
<1> QED
  BY <1>1, TypeInvariance, AloneInvariance, PTL

(* A restore in which no request fails does not go back behind the last
   checkpoint that was reported done (restoreProfileFromCloud()). *)
THEOREM NothingRolledBackHolds == Spec => NothingRolledBack
<1> DEFINE Kept == \A c \in Container :
                      At(c, "try") /\ box'[c].at = "ready" /\ ~box'[c].failed /\ ~overlapped
                        => acked = 0 \/ box'[c].profile >= acked
<1>1. ASSUME PointerInv, AloneInv, [Next]_vars
      PROVE  Kept
  <2> SUFFICES ASSUME NEW c \in Container, box[c].at = "try", box'[c].at = "ready",
                      ~box'[c].failed, ~overlapped
               PROVE  acked = 0 \/ box'[c].profile >= acked
    BY DEF At
  <2>1. Proper(box[c])
    BY <1>1 DEF AloneInv, AloneNow
  <2>2. CASE Try(c)
    <3>1. ASSUME ~box[c].failed
          PROVE  acked = 0 \/ (box[c].left # <<>> /\ holds[Head(box[c].left)] >= acked)
      BY <2>1, <3>1 DEF Proper
    <3> QED
      BY <1>1, <2>2, <3>1, TryStep
  <2>3. ASSUME NEW d \in Container, d # c,
               Restore(d) \/ SignIn(d) \/ Terminate(d) \/ Checkpoint(d) \/ Crash(d)
        PROVE  FALSE
    BY <1>1, <2>3, StepOfOne DEF Others
  <2>4. CASE Boot(c) \/ ReadToRestore(c) \/ Serve(c) \/ SignIn(c) \/ Crash(c)
    BY <1>1, <2>4, BootStep, ReadToRestoreStep, ServeStep, SignInStep, CrashStep
  <2>5. CASE Terminate(c)
    BY <1>1, <2>5, TerminateStep
  <2>6. CASE Checkpoint(c)
    BY <2>6 DEF Checkpoint, Archive, Upload, ReadMeta, ReadBody, Save, Prune, Delete, At
  <2>7. CASE Land \/ OtherRelease \/ UNCHANGED vars
    BY <2>7 DEF Land, OtherRelease, vars
  <2> QED
    BY <1>1, <2>2, <2>3, <2>4, <2>5, <2>6, <2>7 DEF Next, Restore
<1> QED
  BY <1>1, Invariance, AloneInvariance, PTL DEF Spec, NothingRolledBack

=============================================================================
