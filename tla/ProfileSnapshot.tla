--------------------------- MODULE ProfileSnapshot ---------------------------
(***************************************************************************)
(* The signed-in Chrome profile between containers:                        *)
(* reference/oauth-gateway/profile-snapshot.mjs, run by entrypoint.sh at   *)
(* the start and at a graceful end, and by the core, through               *)
(* profile-checkpoint-provider.mjs, after each sign-in.                    *)
(*                                                                         *)
(* The bucket holds immutable archives and one pointer to the current and  *)
(* the previous of them.  Every request to it is a step of its own; it may *)
(* fail, its reply may be lost, and one sent by a process that was killed  *)
(* may still be carried out later.  A new container may start before the   *)
(* old one has ended.                                                      *)
(***************************************************************************)
EXTENDS FiniteSetsExt, Sequences

CONSTANTS
    Container,
    Keep,         \* keepSnapshots
    Required,     \* MAPS_PROFILE_SNAPSHOT_REQUIRED
    MaxObjects,   \* bound: archives that are made
    MaxSent,      \* bound: requests of killed processes under way
    MaxSignIns,   \* bound: sign-ins of the Human
    MaxFaults     \* bound: requests that fail, and rewrites by another release

ASSUME SnapshotAssumption ==
    /\ Keep \in Nat \ {0, 1} /\ Required \in BOOLEAN
    /\ MaxObjects \in Nat /\ MaxSent \in Nat /\ MaxSignIns \in Nat /\ MaxFaults \in Nat

(* Archives are numbered by the time in their names, profiles by the sign-ins
   they hold; 0 is no archive, and Missing no profile directory. *)
Object == 1 .. MaxObjects
Missing == -1

VARIABLES
    stored,     \* the archives in the bucket
    holds,      \* what profile each archive that was made holds
    pointer,    \* current.json and its generation, 0 if there is none
    box,        \* the containers
    sent,       \* requests of killed processes that may still be carried out
    made,       \* archives made so far
    signIns,    \* sign-ins so far
    acked,      \* history: the profile of the last checkpoint reported done
    overlapped, \* history: whether two containers were up at a time
    faults

vars == <<stored, holds, pointer, box, sent, made, signIns, acked, overlapped, faults>>
bucket == <<stored, holds, pointer, made>>

NoPointer == [gen |-> 0, readable |-> TRUE, current |-> 0, previous |-> 0]
Off == [at |-> "off", profile |-> Missing, left |-> <<>>, failed |-> FALSE,
        by |-> "nobody", object |-> 0, prior |-> 0, gen |-> 0, stale |-> {}]

At(c, stage) == box[c].at = stage
Goes(c, b) == box' = [box EXCEPT ![c] = b]
Fault == faults < MaxFaults /\ faults' = faults + 1
NoFault == faults' = faults

-----------------------------------------------------------------------------
(* The requests that change the bucket, and when the pointer may be replaced:
   while it is of the generation that was read, 0 standing for none. *)

(* A mutant: the pointer is saved without a precondition. *)
SlipMayReplace(gen) == pointer.gen >= gen

MayReplace(gen) == pointer.gen = gen

Replaced(b) == [gen |-> pointer.gen + 1, readable |-> TRUE,
                current |-> b.object, previous |-> b.prior]

Carried(request, b) ==
    CASE request = "upload" -> stored' = stored \cup {b.object} /\ UNCHANGED pointer
      [] request = "save" -> /\ pointer' = IF MayReplace(b.gen) THEN Replaced(b) ELSE pointer
                             /\ UNCHANGED stored
      [] request = "delete" -> stored' = stored \ b.stale /\ UNCHANGED pointer

Requests == {"upload", "save", "delete"}

-----------------------------------------------------------------------------
(* Restoring, before the core starts. *)
Boot(c) ==
    /\ At(c, "off")
    /\ Goes(c, [Off EXCEPT !.at = "pointer"])
    /\ overlapped' = (overlapped \/ \E d \in Container : ~At(d, "off"))
    /\ UNCHANGED <<bucket, sent, signIns, acked, faults>>

(* A name in the pointer, or no name. *)
Given(o) == IF o = 0 THEN <<>> ELSE <<o>>

(* A mutant: the previous archive is tried first. *)
SlipCandidates == Given(pointer.previous) \o Given(pointer.current)

(* The archives to try, the current one first. *)
Candidates == Given(pointer.current) \o Given(pointer.previous)

(* Only when the pointer gives none the newest archives are listed; a listing
   that fails ends the container, like Crash below. *)
Listed ==
    [i \in 1 .. Min({Keep, Cardinality(stored)}) |->
        CHOOSE o \in stored : Cardinality({p \in stored : p > o}) = i - 1]

Tries(c, candidates, failed) ==
    Goes(c, [box[c] EXCEPT !.at = "try", !.left = candidates, !.failed = failed])

ReadToRestore(c) ==
    /\ At(c, "pointer")
    /\ \/ pointer.readable /\ Candidates # <<>> /\ Tries(c, Candidates, FALSE) /\ NoFault
       \/ /\ ~pointer.readable \/ Candidates = <<>>
          /\ Tries(c, Listed, FALSE) /\ NoFault
       \/ Fault /\ Tries(c, Listed, TRUE)
    /\ UNCHANGED <<bucket, sent, signIns, acked, overlapped>>

(* The entrypoint goes on, or gives up if a snapshot is required. *)
Restored(c, b) ==
    /\ Goes(c, b)
    /\ acked' = IF b.failed THEN 0 ELSE acked

Try(c) ==
    /\ At(c, "try")
    /\ LET left == box[c].left IN
       \/ /\ left # <<>> /\ Head(left) \in stored
          /\ Restored(c, [box[c] EXCEPT !.at = "ready", !.profile = holds[Head(left)], !.left = <<>>])
          /\ NoFault
       \/ /\ left # <<>>
          /\ IF Head(left) \in stored THEN Fault ELSE NoFault
          /\ Goes(c, [box[c] EXCEPT !.left = Tail(@), !.failed = TRUE])
          /\ UNCHANGED acked
       \/ /\ left = <<>> /\ ~Required
          /\ Restored(c, [box[c] EXCEPT !.at = "ready"])
          /\ NoFault
       \/ /\ left = <<>> /\ Required
          /\ Goes(c, Off) /\ NoFault
          /\ UNCHANGED acked
    /\ UNCHANGED <<bucket, sent, signIns, overlapped>>

(* The core accepts connections, and its Chrome makes a profile directory if
   there is none. *)
Serve(c) ==
    /\ At(c, "ready")
    /\ Goes(c, [box[c] EXCEPT !.at = "serving", !.failed = FALSE,
                             !.profile = IF @ = Missing THEN 0 ELSE @])
    /\ UNCHANGED <<bucket, sent, signIns, acked, overlapped, faults>>

-----------------------------------------------------------------------------
(* A checkpoint of the stopped profile, by the core or by the entrypoint. *)
Finished(c, b) ==
    Goes(c, IF b.by = "core"
            THEN [b EXCEPT !.at = "serving", !.by = "nobody", !.object = 0, !.prior = 0,
                           !.gen = 0, !.stale = {}]
            ELSE Off)

(* The Human signs in, and the core checkpoints before it lets the call that
   asked for it go on. *)
SignIn(c) ==
    /\ At(c, "serving") /\ signIns < MaxSignIns
    /\ signIns' = signIns + 1
    /\ Goes(c, [box[c] EXCEPT !.at = "archive", !.by = "core", !.profile = signIns + 1])
    /\ UNCHANGED <<bucket, sent, acked, overlapped, faults>>

(* What a process leaves behind when it is killed; MaxSent bounds how many of
   such requests are about. *)
Leaves(c) ==
    sent' = IF box[c].at \in Requests /\ Cardinality(sent) < MaxSent
            THEN sent \cup {[do |-> box[c].at,
                             of |-> [object |-> box[c].object, prior |-> box[c].prior,
                                     gen |-> box[c].gen, stale |-> box[c].stale]]}
            ELSE sent

(* SIGTERM ends the gateway and the core, whatever the core was doing, and
   then the entrypoint checkpoints. *)
Terminate(c) ==
    /\ box[c].at \in {"ready", "serving"} \/ box[c].by = "core"
    /\ Leaves(c)
    /\ Goes(c, [Off EXCEPT !.at = "archive", !.by = "entrypoint", !.profile = box[c].profile])
    /\ UNCHANGED <<bucket, signIns, acked, overlapped, faults>>

(* No directory, or an archive that is too large: no checkpoint. *)
Archive(c) ==
    /\ At(c, "archive")
    /\ IF box[c].profile = Missing THEN Finished(c, box[c]) /\ UNCHANGED <<made, holds>>
       ELSE /\ made < MaxObjects
            /\ made' = made + 1
            /\ holds' = [holds EXCEPT ![made + 1] = box[c].profile]
            /\ Goes(c, [box[c] EXCEPT !.at = "upload", !.object = made + 1])
    /\ UNCHANGED <<stored, pointer, sent, signIns, acked, overlapped, faults>>

Upload(c) ==
    /\ At(c, "upload")
    /\ \/ Carried("upload", box[c]) /\ Goes(c, [box[c] EXCEPT !.at = "meta"]) /\ NoFault
       \/ Carried("upload", box[c]) /\ Finished(c, box[c]) /\ Fault
       \/ UNCHANGED <<stored, pointer>> /\ Finished(c, box[c]) /\ Fault
    /\ UNCHANGED <<holds, made, sent, signIns, acked, overlapped>>

(* The generation is read first, the pointer itself after it; if that fails,
   the checkpoint goes on as if there were no pointer. *)
ReadMeta(c) ==
    /\ At(c, "meta")
    /\ \/ pointer.gen # 0 /\ Goes(c, [box[c] EXCEPT !.at = "body", !.gen = pointer.gen]) /\ NoFault
       \/ pointer.gen = 0 /\ Goes(c, [box[c] EXCEPT !.at = "save"]) /\ NoFault
       \/ Goes(c, [box[c] EXCEPT !.at = "save"]) /\ Fault
    /\ UNCHANGED <<bucket, sent, signIns, acked, overlapped>>

(* A mutant: the generation of a pointer that cannot be read is kept. *)
SlipReadBody(c) ==
    /\ At(c, "body")
    /\ Goes(c, [box[c] EXCEPT !.at = "save", !.prior = IF pointer.readable THEN pointer.current ELSE 0])
    /\ NoFault
    /\ UNCHANGED <<bucket, sent, signIns, acked, overlapped>>

ReadBody(c) ==
    /\ At(c, "body")
    /\ \/ /\ pointer.readable
          /\ Goes(c, [box[c] EXCEPT !.at = "save", !.prior = pointer.current])
          /\ NoFault
       \/ /\ IF pointer.readable THEN Fault ELSE NoFault
          /\ Goes(c, [box[c] EXCEPT !.at = "save", !.gen = 0])
    /\ UNCHANGED <<bucket, sent, signIns, acked, overlapped>>

Save(c) ==
    /\ At(c, "save")
    /\ \/ /\ MayReplace(box[c].gen) /\ NoFault
          /\ Carried("save", box[c])
          /\ Goes(c, [box[c] EXCEPT !.at = "prune"])
       \/ /\ IF MayReplace(box[c].gen) THEN Fault ELSE NoFault
          /\ UNCHANGED <<stored, pointer>> /\ Finished(c, box[c])
       \/ /\ MayReplace(box[c].gen) /\ Fault
          /\ Carried("save", box[c]) /\ Finished(c, box[c])
    /\ UNCHANGED <<holds, made, sent, signIns, acked, overlapped>>

(* What pruning deletes: all but the two the new pointer names and, if more
   are to be kept, the newest others. *)
Stale(b) ==
    LET named == {b.object, b.prior} \ {0}
        others == stored \ named
        kept == {o \in others : Cardinality({p \in others : p > o}) < Keep - Cardinality(named)}
    IN others \ kept

(* Pruning may fail at any of its requests; the checkpoint is done anyway. *)
Prune(c) ==
    /\ At(c, "prune")
    /\ \/ /\ Goes(c, [box[c] EXCEPT !.at = "delete", !.stale = Stale(box[c])])
          /\ NoFault /\ UNCHANGED acked
       \/ Fault /\ Finished(c, box[c]) /\ acked' = box[c].profile
    /\ UNCHANGED <<bucket, sent, signIns, overlapped>>

Delete(c) ==
    /\ At(c, "delete")
    /\ \/ Carried("delete", box[c]) /\ NoFault
       \/ /\ Fault
          /\ \E some \in SUBSET box[c].stale : Carried("delete", [box[c] EXCEPT !.stale = some])
    /\ Finished(c, box[c])
    /\ acked' = box[c].profile
    /\ UNCHANGED <<holds, made, sent, signIns, overlapped>>

-----------------------------------------------------------------------------
(* The container dies: its core or its gateway exits, or it is killed. *)
Crash(c) ==
    /\ ~At(c, "off")
    /\ Leaves(c)
    /\ Goes(c, Off)
    /\ UNCHANGED <<bucket, signIns, acked, overlapped, faults>>

(* A request of a killed process is carried out after all, or never was. *)
Land ==
    /\ \E r \in sent :
          /\ sent' = sent \ {r}
          /\ Carried(r.do, r.of) \/ UNCHANGED <<stored, pointer>>
    /\ UNCHANGED <<holds, made, box, signIns, acked, overlapped, faults>>

(* Another release rewrites the pointer in a version this one cannot read. *)
OtherRelease ==
    /\ Fault /\ pointer.gen # 0 /\ pointer.readable
    /\ pointer' = [pointer EXCEPT !.gen = @ + 1, !.readable = FALSE]
    /\ UNCHANGED <<stored, holds, made, box, sent, signIns, acked, overlapped>>

Init ==
    /\ stored = {} /\ holds = [o \in Object |-> Missing] /\ pointer = NoPointer
    /\ box = [c \in Container |-> Off]
    /\ sent = {} /\ made = 0 /\ signIns = 0 /\ acked = 0
    /\ overlapped = FALSE /\ faults = 0

Restore(c) == Boot(c) \/ ReadToRestore(c) \/ Try(c) \/ Serve(c)
Checkpoint(c) ==
    Archive(c) \/ Upload(c) \/ ReadMeta(c) \/ ReadBody(c) \/ Save(c) \/ Prune(c) \/ Delete(c)

Next ==
    \/ \E c \in Container :
          Restore(c) \/ SignIn(c) \/ Terminate(c) \/ Checkpoint(c) \/ Crash(c)
    \/ Land \/ OtherRelease

Spec == Init /\ [][Next]_vars

-----------------------------------------------------------------------------
TypeOK ==
    /\ stored \subseteq 1 .. made /\ made <= MaxObjects
    /\ holds \in [Object -> -1 .. signIns]
    /\ {pointer.current, pointer.previous} \subseteq 0 .. made
    /\ \A c \in Container :
          /\ box[c].profile \in -1 .. signIns /\ box[c].gen \in 0 .. pointer.gen
          /\ box[c].by \in {"nobody", "core", "entrypoint"} /\ box[c].stale \subseteq Object
    /\ acked \in 0 .. signIns

(* The pointer moves from one archive to the next: whoever replaces it has
   read it, and keeps what it named as the previous archive, also when two
   containers checkpoint at a time or a save of a dead one is carried out
   late.  A pointer that cannot be read is never replaced. *)
PointerLinear ==
    [][pointer' # pointer /\ pointer'.readable
        => pointer.readable /\ pointer'.previous = pointer.current]_vars

(* The archive the pointer names is in the bucket, with the other archives
   pruned and requests of dead containers carried out late, as long as one
   container runs at a time (README.md:286 of the gateway asks for that). *)
CurrentRestorable ==
    ~overlapped /\ pointer.readable => {pointer.current, pointer.previous} \ {0} \subseteq stored

(* A restore in which no request fails does not go back behind the last
   checkpoint that was reported done: a sign-in is there after a crash at
   any later point, with the newest archives listed if the pointer cannot be
   read. *)
NothingRolledBack ==
    [][\A c \in Container :
          At(c, "try") /\ box'[c].at = "ready" /\ ~box'[c].failed /\ ~overlapped
            => acked = 0 \/ box'[c].profile >= acked]_vars

=============================================================================
