--------------------------- MODULE HandoffServerProofs ---------------------------
(***************************************************************************)
(* Proofs about HandoffServer, for any requests, owners and bounds, with   *)
(* or without timeouts, repeated requestStates, expiring surfaces and a    *)
(* normal Chrome that cannot be closed.                                    *)
(*                                                                         *)
(* What a request remembers of an intervention over an await - its id and  *)
(* whose it is - stays true in one respect: an intervention that has been  *)
(* in Human hands is never again open for an owner (Past), whatever other  *)
(* requests and zombies do to the handoff state (Later).  So a requestState *)
(* and a continuation that waits always speak of an intervention whose     *)
(* owner is theirs or nobody (Fine, Prompts).                              *)
(*                                                                         *)
(* Until an operation times out only one task is at work, the one that has *)
(* the turn (TurnOnly), and it cannot be beside a Human.                   *)
(*                                                                         *)
(* The last part assumes Quiet besides: no repeated requestState and no    *)
(* expiring surface.  There the handoff state, the Human surface, the      *)
(* await each handler is in and the prompts in clients' hands move         *)
(* together (QuietInv), and the properties that speak of owners, prompts   *)
(* and the Human's browser follow.                                         *)
(***************************************************************************)
EXTENDS HandoffServer, SequenceTheorems, TLAPS

HandoffType == [id : 0 .. MaxBegun, status : Statuses, epoch : Nat, begun : 0 .. MaxBegun]
ReceiptType == [id : 0 .. MaxBegun, released : Nat, verifying : Nat]
SurfaceType == [phase : {"none", "starting", "active", "closing"}, id : 0 .. MaxBegun, epoch : Nat]
OwnersType == [Interventions -> Owner \cup {NoOwner}]

(* At most the latest intervention is active. *)
Good(h) == h \in HandoffType /\ h.id \in {0, h.begun} /\ (h.id = 0 <=> h.status = "none")

(* Intervention i is over, or somebody has been asked to take it. *)
Past(h, i) == i \in Interventions /\ i <= h.begun /\ (h.id = i => h.status # "awaiting_human")

(* What any step may make of handoff state h. *)
Later(h, g) ==
    /\ Good(g) /\ h.begun <= g.begun
    /\ g.id # h.id /\ g.id # 0 => g.id > h.begun
    /\ g.id = h.id /\ g.status = "awaiting_human" => h.status = "awaiting_human"

(* What any step may make of the owners. *)
Rebinds(ow) ==
    /\ ow \in OwnersType
    /\ \A i \in Interventions : \/ ow[i] \in {owners[i], NoOwner}
                                \/ owners[i] = NoOwner /\ ~ Past(handoff, i)

Fine(q) ==
    /\ body[q] # "none" => pc[q] # "idle"
    /\ pc[q] # "idle" => own[q] \in Owner
    /\ pc[q] \in {"suspending", "starting", "revokeToVerify", "verify"} => Past(handoff, token[q].id)
    /\ pc[q] \in {"revokeToVerify", "verify"} => owners[token[q].id] \in {own[q], NoOwner}

Prompts == \A t \in issued : Past(handoff, t.id)

(* The two Chromes never run at a time, and the client is one of a Chrome. *)
Profile == (chrome => ~ normal) /\ (linked # {} => chrome)

HandoffInv ==
    /\ TypeOK /\ LineExact /\ Good(handoff) /\ Prompts /\ Profile
    /\ \A q \in Request : Fine(q)

-----------------------------------------------------------------------------
(* The handoff state machine. *)
LEMMA LaterReflexive == ASSUME NEW h, Good(h) PROVE Later(h, h)
  BY DEF Later, Good, HandoffType

LEMMA LaterTransitive ==
    ASSUME NEW f, NEW g, NEW h, Good(f), Later(f, g), Later(g, h)
    PROVE  Later(f, h)
  BY BoundAssumption DEF Later, Good, HandoffType

LEMMA PastStays ==
    ASSUME NEW h, NEW g, NEW i, Good(h), Later(h, g), Past(h, i)
    PROVE  Past(g, i)
  BY BoundAssumption DEF Later, Good, HandoffType, Past, Interventions

LEMMA BeginLater ==
    ASSUME NEW h, Good(h), h.id # 0 \/ h.begun < MaxBegun
    PROVE  Later(h, Begin(h)) /\ Begin(h).id \in Interventions
  BY BoundAssumption DEF Later, Good, HandoffType, Begin, Interventions, Statuses

LEMMA ClaimLater ==
    ASSUME NEW h, Good(h), h.id # 0
    PROVE  Later(h, ClaimHuman(h)) /\ Past(ClaimHuman(h), h.id)
  BY BoundAssumption DEF Later, Good, HandoffType, ClaimHuman, Past, Interventions, Statuses

LEMMA CompleteLater ==
    ASSUME NEW h, Good(h), h.status = "human_active"
    PROVE  Later(h, MarkHumanComplete(h))
<1> DEFINE g == MarkHumanComplete(h)
<1>1. g \in HandoffType
  <2>1. [h EXCEPT !.status = "verifying"] \in HandoffType /\ h.epoch + 1 \in Nat
    BY DEF Good, HandoffType, Statuses
  <2> QED
    BY <2>1 DEF MarkHumanComplete, HandoffType
<1>2. g.id = h.id /\ g.status = "verifying" /\ g.begun = h.begun
  BY DEF MarkHumanComplete, Good, HandoffType
<1> HIDE DEF g
<1>3. Later(h, g)
  BY <1>1, <1>2, BoundAssumption DEF Later, Good, HandoffType
<1> QED
  BY <1>3 DEF g

LEMMA VerifiedLater ==
    ASSUME NEW h, Good(h), h.status = "verifying"
    PROVE  Later(h, MarkVerified(h))
  BY BoundAssumption DEF Later, Good, HandoffType, MarkVerified, Statuses

LEMMA ReleaseLater == ASSUME NEW h, Good(h) PROVE Later(h, Release(h)) /\ Release(h).id = 0
<1> DEFINE g == Release(h)
<1>1. g \in HandoffType
  <2>1. [h EXCEPT !.id = 0] \in HandoffType
    BY BoundAssumption DEF Good, HandoffType
  <2>2. [h EXCEPT !.id = 0, !.status = "none"] \in HandoffType
    BY <2>1 DEF HandoffType, Statuses
  <2> QED
    BY <2>2 DEF Release, HandoffType
<1>2. g.id = 0 /\ g.status = "none" /\ g.begun = h.begun
  BY DEF Release, Good, HandoffType
<1> HIDE DEF g
<1>3. Later(h, g) /\ g.id = 0
  BY <1>1, <1>2, BoundAssumption DEF Later, Good, HandoffType
<1> QED
  BY <1>3 DEF g

LEMMA CancelLater == ASSUME NEW h, NEW i, Good(h) PROVE Later(h, CancelIf(h, i))
  BY ReleaseLater, LaterReflexive DEF CancelIf

(* Owners that are forgotten are not bound anew. *)
LEMMA ForgetRebinds ==
    ASSUME NEW ow, Rebinds(ow), NEW i
    PROVE  Rebinds(Forget(ow, i))
<1>1. Forget(ow, i) \in OwnersType
  BY DEF Forget, Rebinds, OwnersType
<1>2. \A j \in Interventions : Forget(ow, i)[j] \in {ow[j], NoOwner}
  BY DEF Forget, Rebinds, OwnersType
<1> QED
  BY <1>1, <1>2 DEF Rebinds

LEMMA ClearType == ASSUME NEW rc \in ReceiptType, NEW i PROVE ClearReceipt(rc, i) \in ReceiptType
  BY BoundAssumption DEF ClearReceipt, NoReceipt, ReceiptType

-----------------------------------------------------------------------------
(* What a step does to one part of the state. *)
Waiting == {"task", "verify"}

RequestTypes ==
    /\ pc \in [Request -> PCs] /\ own \in [Request -> Owner \cup {NoOwner}]
    /\ token \in [Request -> Token] /\ safe \in [Request -> BOOLEAN]
    /\ body \in [Request -> Bodies] /\ before \in [Request -> 0 .. MaxBegun]

Same(q) ==
    /\ pc'[q] = pc[q] /\ own'[q] = own[q] /\ token'[q] = token[q]
    /\ body'[q] # "none" => body[q] # "none" \/ pc[q] # "idle"

Others(r) == \A q \in Request \ {r} : pc'[q] = pc[q]

Stays == line' = line /\ \A q \in Request : pc'[q] \in Waiting <=> pc[q] \in Waiting

Leaves(r) ==
    /\ line # <<>> /\ r = Head(line) /\ Others(r)
    /\ line' = Tail(line) /\ turn' = "free" /\ pc'[r] \notin Waiting

Joins(r) ==
    /\ pc[r] \notin Waiting /\ Others(r) /\ ~ Full(line)
    /\ line' = Append(line, r) /\ turn' = turn /\ pc'[r] \in Waiting

JoinsAgain(r) ==
    /\ line # <<>> /\ r = Head(line) /\ Others(r) /\ ~ Full(Tail(line))
    /\ line' = Append(Tail(line), r) /\ turn' = "free" /\ pc'[r] \in Waiting

HandoffEffect ==
    Later(handoff, handoff') /\ Rebinds(owners') /\ receipt' \in ReceiptType

RequestEffect == RequestTypes' /\ \A q \in Request : Same(q) \/ Fine(q)'

QueueEffect ==
    /\ \/ /\ Stays
          /\ turn' \in {"free", "running", "resetting", "closing"}
          /\ turn' # "free" => line # <<>>
       \/ \E r \in Request : Leaves(r) \/ Joins(r) \/ JoinsAgain(r)
    /\ timeouts' \in 0 .. MaxTimeouts

BrowserEffect ==
    /\ linked' \subseteq Request /\ {chrome', normal'} \subseteq BOOLEAN /\ Profile'
    /\ surface' \in SurfaceType

ClientEffect ==
    /\ spent' \subseteq issued'
    /\ \A t \in issued' :
          \/ t \in issued
          \/ Past(handoff, t.id) /\ t.epoch \in Nat /\ t.owner \in Owner

Effect == HandoffEffect /\ RequestEffect /\ QueueEffect /\ BrowserEffect /\ ClientEffect

LEMMA Typed ==
    ASSUME HandoffInv
    PROVE  /\ Good(handoff) /\ owners \in OwnersType /\ receipt \in ReceiptType
           /\ RequestTypes /\ line \in Seq(Request) /\ surface \in SurfaceType
           /\ Rebinds(owners) /\ Later(handoff, handoff)
<1>1. /\ Good(handoff) /\ owners \in OwnersType /\ receipt \in ReceiptType
      /\ RequestTypes /\ line \in Seq(Request) /\ surface \in SurfaceType
  BY DEF HandoffInv, TypeOK, OwnersType, ReceiptType, RequestTypes, SurfaceType
<1>2. Rebinds(owners)
  BY <1>1 DEF Rebinds
<1> QED
  BY <1>1, <1>2, LaterReflexive

(* What is left as it is. *)
LEMMA Idle ==
    ASSUME HandoffInv
    PROVE  /\ UNCHANGED handoffVars => HandoffEffect
           /\ UNCHANGED clientVars => ClientEffect
           /\ UNCHANGED browserVars => BrowserEffect
           /\ UNCHANGED queueVars /\ UNCHANGED pc => QueueEffect
           /\ UNCHANGED requestVars => RequestEffect
<1>1. UNCHANGED handoffVars => HandoffEffect
  BY Typed DEF handoffVars, HandoffEffect
<1>2. UNCHANGED clientVars => ClientEffect
  BY DEF clientVars, ClientEffect, HandoffInv, TypeOK
<1>3. UNCHANGED browserVars => BrowserEffect
  BY Typed DEF browserVars, BrowserEffect, HandoffInv, TypeOK, Profile
<1>4. UNCHANGED queueVars /\ UNCHANGED pc => QueueEffect
  BY DEF queueVars, QueueEffect, Stays, HandoffInv, TypeOK, LineExact
<1>5. UNCHANGED requestVars => RequestEffect
  BY Typed DEF requestVars, RequestEffect, RequestTypes, Same
<1> QED
  BY <1>1, <1>2, <1>3, <1>4, <1>5

(* The parts together preserve the invariant. *)
LEMMA LineStep ==
    ASSUME HandoffInv, RequestTypes', QueueEffect
    PROVE  LineExact' /\ line' \in Seq(Request)
<1>1. /\ line \in Seq(Request) /\ Len(line) \in Nat /\ LineExact /\ MaxPending \in Nat
      /\ RequestTypes /\ Len(line) <= MaxPending
      /\ \A k \in 1 .. Len(line) : line[k] \in Request /\ pc[line[k]] \in Waiting
  <2>1. /\ line \in Seq(Request) /\ Len(line) \in Nat /\ LineExact /\ MaxPending \in Nat
        /\ RequestTypes
    BY Typed, BoundAssumption DEF HandoffInv
  <2>2. \A k \in 1 .. Len(line) : line[k] \in Request
    BY <2>1
  <2> QED
    BY <2>1, <2>2 DEF LineExact, Waiting
<1>2. ASSUME Stays, turn' # "free" => line # <<>>
      PROVE  LineExact' /\ line' \in Seq(Request)
  <2>1. line' = line /\ \A q \in Request : pc'[q] \in Waiting <=> pc[q] \in Waiting
    BY <1>2 DEF Stays
  <2>2. \A q \in Request : pc'[q] \in Waiting <=> \E k \in 1 .. Len(line) : line[k] = q
    BY <1>1, <2>1 DEF LineExact, Waiting
  <2> QED
    BY <1>1, <1>2, <2>1, <2>2 DEF LineExact, Waiting
<1>3. ASSUME NEW r \in Request, line # <<>>, r = Head(line), NEW rest, rest = Tail(line)
      PROVE  /\ rest \in Seq(Request) /\ Len(rest) = Len(line) - 1
             /\ \A k \in 1 .. Len(rest) : rest[k] = line[k + 1] /\ rest[k] # r
             /\ \A j, k \in 1 .. Len(rest) : rest[j] = rest[k] => j = k
             /\ \A q \in Request \ {r} : pc[q] \in Waiting <=> \E k \in 1 .. Len(rest) : rest[k] = q
  <2>1. /\ rest \in Seq(Request) /\ Len(rest) = Len(line) - 1 /\ Len(line) >= 1 /\ r = line[1]
        /\ \A k \in 1 .. Len(rest) : rest[k] = line[k + 1]
    BY <1>1, <1>3
  <2>2. \A k \in 1 .. Len(rest) : rest[k] # r
    BY <1>1, <2>1 DEF LineExact
  <2>3. \A j, k \in 1 .. Len(rest) : rest[j] = rest[k] => j = k
    BY <1>1, <2>1 DEF LineExact
  <2>4. ASSUME NEW q \in Request \ {r}
        PROVE  pc[q] \in Waiting <=> \E k \in 1 .. Len(rest) : rest[k] = q
    <3>1. ASSUME pc[q] \in Waiting
          PROVE  \E k \in 1 .. Len(rest) : rest[k] = q
      <4>1. PICK k \in 1 .. Len(line) : line[k] = q
        BY <1>1, <3>1 DEF LineExact, Waiting
      <4>2. k # 1
        BY <2>1, <4>1
      <4>3. k - 1 \in 1 .. Len(rest) /\ rest[k - 1] = q
        BY <1>1, <2>1, <4>1, <4>2
      <4> QED
        BY <4>3
    <3>2. ASSUME NEW k \in 1 .. Len(rest), rest[k] = q
          PROVE  pc[q] \in Waiting
      <4>1. k + 1 \in 1 .. Len(line) /\ line[k + 1] = q
        BY <1>1, <2>1, <3>2
      <4> QED
        BY <1>1, <4>1
    <3> QED
      BY <3>1, <3>2
  <2> QED
    BY <2>1, <2>2, <2>3, <2>4
<1>4. ASSUME NEW r \in Request, Leaves(r)
      PROVE  LineExact' /\ line' \in Seq(Request)
  <2>1. /\ line' \in Seq(Request) /\ Len(line') = Len(line) - 1
        /\ \A k \in 1 .. Len(line') : line'[k] # r
        /\ \A j, k \in 1 .. Len(line') : line'[j] = line'[k] => j = k
        /\ \A q \in Request \ {r} : pc[q] \in Waiting <=> \E k \in 1 .. Len(line') : line'[k] = q
    <3> DEFINE rest == Tail(line)
    <3>1. line # <<>> /\ r = Head(line) /\ line' = rest
      BY <1>4 DEF Leaves
    <3>2. /\ rest \in Seq(Request) /\ Len(rest) = Len(line) - 1
          /\ \A k \in 1 .. Len(rest) : rest[k] # r
          /\ \A j, k \in 1 .. Len(rest) : rest[j] = rest[k] => j = k
          /\ \A q \in Request \ {r} : pc[q] \in Waiting <=> \E k \in 1 .. Len(rest) : rest[k] = q
      BY <1>3, <3>1
    <3> HIDE DEF rest
    <3> QED
      BY <3>1, <3>2
  <2>2. \A q \in Request : pc'[q] \in Waiting <=> \E k \in 1 .. Len(line') : line'[k] = q
    BY <1>4, <2>1 DEF Leaves, Others
  <2> QED
    <3>1. turn' = "free" /\ Len(line') <= MaxPending
      BY <1>1, <1>4, <2>1 DEF Leaves
    <3> QED
      BY <2>1, <2>2, <3>1 DEF LineExact, Waiting
<1>5. ASSUME NEW r \in Request, NEW rest \in Seq(Request), Len(rest) < MaxPending,
             \A k \in 1 .. Len(rest) : rest[k] # r,
             \A j, k \in 1 .. Len(rest) : rest[j] = rest[k] => j = k,
             \A q \in Request \ {r} : pc'[q] \in Waiting <=> \E k \in 1 .. Len(rest) : rest[k] = q,
             pc'[r] \in Waiting, line' = Append(rest, r)
      PROVE  LineExact' /\ line' \in Seq(Request)
  <2>1. /\ line' \in Seq(Request) /\ Len(line') = Len(rest) + 1 /\ Len(rest) \in Nat
        /\ line'[Len(rest) + 1] = r /\ line' # <<>>
        /\ \A k \in 1 .. Len(rest) : line'[k] = rest[k]
    BY <1>5, AppendProperties
  <2>2. \A j, k \in 1 .. Len(line') : line'[j] = line'[k] => j = k
    BY <1>5, <2>1
  <2>3. ASSUME NEW q \in Request
        PROVE  pc'[q] \in Waiting <=> \E k \in 1 .. Len(line') : line'[k] = q
    <3>1. CASE q = r
      BY <1>5, <2>1, <3>1
    <3>2. CASE q # r
      BY <1>5, <2>1, <3>2
    <3> QED
      BY <3>1, <3>2
  <2> QED
    <3>1. Len(line') <= MaxPending
      BY <1>1, <1>5, <2>1
    <3> QED
      BY <2>1, <2>2, <2>3, <3>1 DEF LineExact, Waiting
<1>6. ASSUME NEW r \in Request, Joins(r)
      PROVE  LineExact' /\ line' \in Seq(Request)
  <2>1. /\ \A k \in 1 .. Len(line) : line[k] # r
        /\ \A q \in Request \ {r} : pc'[q] \in Waiting <=> \E k \in 1 .. Len(line) : line[k] = q
    BY <1>1, <1>6 DEF Joins, Others, LineExact, Waiting
  <2> QED
    <3>1. Len(line) < MaxPending /\ pc'[r] \in Waiting /\ line' = Append(line, r)
      BY <1>1, <1>6 DEF Joins, Full
    <3>2. \A j, k \in 1 .. Len(line) : line[j] = line[k] => j = k
      BY <1>1 DEF LineExact
    <3> QED
      BY <1>1, <1>5, <2>1, <3>1, <3>2
<1>7. ASSUME NEW r \in Request, JoinsAgain(r)
      PROVE  LineExact' /\ line' \in Seq(Request)
  <2> DEFINE rest == Tail(line)
  <2>1. /\ rest \in Seq(Request) /\ Len(rest) = Len(line) - 1
        /\ \A k \in 1 .. Len(rest) : rest[k] # r
        /\ \A j, k \in 1 .. Len(rest) : rest[j] = rest[k] => j = k
        /\ \A q \in Request \ {r} : pc[q] \in Waiting <=> \E k \in 1 .. Len(rest) : rest[k] = q
    BY <1>3, <1>7 DEF JoinsAgain
  <2>2. \A q \in Request \ {r} : pc'[q] \in Waiting <=> \E k \in 1 .. Len(rest) : rest[k] = q
    BY <1>7, <2>1 DEF JoinsAgain, Others
  <2>3. Len(rest) < MaxPending /\ pc'[r] \in Waiting /\ line' = Append(rest, r)
    BY <1>1, <1>7, <2>1 DEF JoinsAgain, Full
  <2> HIDE DEF rest
  <2> QED
    BY <1>5, <2>1, <2>2, <2>3
<1> QED
  BY <1>2, <1>4, <1>6, <1>7 DEF QueueEffect

LEMMA EffectStep == ASSUME HandoffInv, Effect PROVE HandoffInv'
<1>1. ASSUME NEW i, Past(handoff, i)
      PROVE  Past(handoff, i)'
  BY <1>1, PastStays DEF HandoffInv, Effect, HandoffEffect, Past
<1>2. Prompts'
  BY <1>1 DEF Prompts, HandoffInv, Effect, ClientEffect
<1>3. ASSUME NEW q \in Request, Same(q)
      PROVE  Fine(q)'
  <2>1. Past(handoff, token[q].id) => owners'[token[q].id] \in {owners[token[q].id], NoOwner}
    BY DEF Effect, HandoffEffect, Rebinds, Past
  <2> QED
    BY <1>1, <1>3, <2>1 DEF Same, Fine, HandoffInv
<1>4. \A q \in Request : Fine(q)'
  BY <1>3 DEF Effect, RequestEffect
<1>5. LineExact' /\ line' \in Seq(Request)
  BY LineStep DEF Effect, RequestEffect
<1>6. TypeOK'
  <2>1. /\ handoff' \in HandoffType /\ owners' \in OwnersType /\ receipt' \in ReceiptType
        /\ RequestTypes' /\ surface' \in SurfaceType
        /\ linked' \subseteq Request /\ {chrome', normal'} \subseteq BOOLEAN
        /\ timeouts' \in 0 .. MaxTimeouts
    BY DEF Effect, HandoffEffect, Later, Good, Rebinds, RequestEffect, BrowserEffect, QueueEffect
  <2>2. turn' \in {"free", "running", "resetting", "closing"}
    BY DEF Effect, QueueEffect, Leaves, Joins, JoinsAgain, HandoffInv, TypeOK
  <2>3. /\ spent' \subseteq issued'
        /\ \A t \in issued' : t.id \in Interventions /\ t.epoch \in Nat /\ t.owner \in Owner
    BY DEF Effect, ClientEffect, HandoffInv, TypeOK, Past
  <2> QED
    BY <1>5, <2>1, <2>2, <2>3
    DEF TypeOK, HandoffType, OwnersType, ReceiptType, RequestTypes, SurfaceType
<1> QED
  BY <1>2, <1>4, <1>5, <1>6 DEF HandoffInv, Effect, HandoffEffect, Later, BrowserEffect

-----------------------------------------------------------------------------
(* The pieces of handlers. *)
Answers(r) ==
    /\ safe' = safe
    /\ \/ pc' = [pc EXCEPT ![r] = "done"] /\ token' = token
       \/ /\ pc' = [pc EXCEPT ![r] = "suspending"]
          /\ \E t \in Token : token' = [token EXCEPT ![r] = t] /\ Past(handoff', t.id)

LEMMA ReplyAnswers ==
    ASSUME HandoffInv, NEW r \in Request, NEW h, Later(handoff, h), NEW ow, Rebinds(ow),
           NEW rc \in ReceiptType, Reply(r, h, ow, rc)
    PROVE  HandoffEffect /\ Answers(r)
  BY DEF Reply, HandoffEffect, Answers

LEMMA HumanInputAnswers ==
    ASSUME HandoffInv, NEW r \in Request, NEW i \in Interventions, NEW h, Later(handoff, h),
           NEW ow, Rebinds(ow), NEW rc \in ReceiptType, NEW others,
           HumanInput(r, i, h, ow, rc, others)
    PROVE  HandoffEffect /\ Answers(r) /\ linked' \in {others, {}}
<1> DEFINE claimed == IF h.status = "awaiting_human" THEN ClaimHuman(h) ELSE h
<1>1. Good(handoff) /\ Good(h)
  BY DEF HandoffInv, Later
<1>2. Later(h, claimed)
  BY <1>1, ClaimLater, LaterReflexive DEF Good
<1>3. Later(handoff, claimed)
  BY <1>1, <1>2, LaterTransitive
<1>4. Rebinds(Forget(ow, i))
  BY ForgetRebinds
<1>5. \/ Reply(r, h, ow, rc) /\ linked' = others
      \/ Reply(r, h, Forget(ow, i), rc) /\ linked' = others
      \/ Reply(r, claimed, ow, rc) /\ linked' = others
      \/ /\ h.id = i /\ InHumanHands(claimed)
         /\ handoff' = claimed /\ owners' = ow /\ receipt' = rc
         /\ token' = [token EXCEPT ![r] = [id |-> i, epoch |-> claimed.epoch]]
         /\ pc' = [pc EXCEPT ![r] = "suspending"]
         /\ linked' = {} /\ UNCHANGED safe
  BY DEF HumanInput
<1>6. CASE /\ h.id = i /\ InHumanHands(claimed)
           /\ handoff' = claimed /\ owners' = ow /\ receipt' = rc
           /\ token' = [token EXCEPT ![r] = [id |-> i, epoch |-> claimed.epoch]]
           /\ pc' = [pc EXCEPT ![r] = "suspending"]
           /\ linked' = {} /\ UNCHANGED safe
  <2>1. claimed \in HandoffType /\ claimed.id = i /\ claimed.status = "human_active"
    BY <1>1, <1>3, <1>6 DEF ClaimHuman, Good, HandoffType, Later, InHumanHands
  <2>2. [id |-> i, epoch |-> claimed.epoch] \in Token
    BY <2>1 DEF HandoffType, Token, Interventions
  <2>3. Past(claimed, i)
    BY <1>3, <2>1, BoundAssumption DEF Past, Later, Good, HandoffType, Interventions
  <2> HIDE DEF claimed
  <2> QED
    BY <1>3, <1>6, <2>2, <2>3 DEF HandoffEffect, Answers
<1> HIDE DEF claimed
<1> QED
  BY <1>3, <1>4, <1>5, <1>6, ReplyAnswers

LEMMA RecoverAnswers ==
    ASSUME HandoffInv, NEW r \in Request, NEW needsHuman \in BOOLEAN, NEW h, Later(handoff, h),
           NEW rc \in ReceiptType, NEW others, Recover(r, needsHuman, h, rc, others)
    PROVE  HandoffEffect /\ Answers(r) /\ linked' \in {others, {}}
<1> DEFINE i == token[r].id
<1>1. Good(h) /\ Good(handoff) /\ Rebinds(owners) /\ Rebinds(Forget(owners, i))
      /\ ClearReceipt(rc, i) \in ReceiptType
  BY Typed, ForgetRebinds, ClearType DEF Later
<1>2. CASE needsHuman /\ h.id = i /\ h.status = "verifying"
  <2>1. i \in Interventions
    BY <1>1, <1>2, BoundAssumption DEF Good, HandoffType, Interventions
  <2>2. Later(handoff, ClaimHuman(h))
    BY <1>1, <1>2, <2>1, ClaimLater, LaterTransitive, BoundAssumption DEF Good
  <2>3. HumanInput(r, i, ClaimHuman(h), owners, ClearReceipt(rc, i), others)
    BY <1>2 DEF Recover
  <2> HIDE DEF i
  <2> QED
    BY <1>1, <2>1, <2>2, <2>3, HumanInputAnswers
<1>3. CASE ~ (needsHuman /\ h.id = i /\ h.status = "verifying")
  <2>1. Later(handoff, CancelIf(h, i))
    BY <1>1, CancelLater, LaterTransitive
  <2>2. Reply(r, CancelIf(h, i), Forget(owners, i), ClearReceipt(rc, i)) /\ linked' = others
    BY <1>3 DEF Recover
  <2> HIDE DEF i
  <2> QED
    BY <1>1, <2>1, <2>2, ReplyAnswers
<1> QED
  BY <1>2, <1>3

LEMMA CancelAnswers ==
    ASSUME HandoffInv, NEW r \in Request, NEW i, CancelNow(r, i)
    PROVE  HandoffEffect /\ Answers(r)
  BY Typed, CancelLater, ForgetRebinds, ClearType, ReplyAnswers DEF CancelNow

(* A segment that ends so leaves a sound request, and nothing in the queue. *)
LEMMA AnswersEffect ==
    ASSUME HandoffInv, NEW r \in Request, Answers(r), UNCHANGED before,
           NEW w \in Owner, own' = [own EXCEPT ![r] = w],
           body' = body \/ body' = [body EXCEPT ![r] = "none"]
    PROVE  RequestEffect /\ Others(r) /\ pc'[r] \notin Waiting
<1>1. RequestTypes
  BY Typed
<1>2. RequestTypes'
  BY <1>1 DEF RequestTypes, Answers, PCs, Bodies
<1>3. /\ pc'[r] \in {"done", "suspending"} /\ own'[r] = w
      /\ pc'[r] = "suspending" => Past(handoff', token'[r].id)
  BY <1>1 DEF RequestTypes, Answers
<1>4. ASSUME NEW q \in Request \ {r}
      PROVE  Same(q)
  BY <1>1 DEF RequestTypes, Answers, Same
<1>5. Fine(r)'
  BY <1>3 DEF Fine
<1> QED
  BY <1>2, <1>3, <1>4, <1>5 DEF RequestEffect, Others, Same, Waiting

(* The task of r ends, the handler goes on if r still has the turn. *)
LEMMA TurnTaken ==
    ASSUME HandoffInv, NEW r \in Request, HasTurn(r)
    PROVE  line # <<>> /\ pc[r] \in Waiting /\ r = Head(line) /\ own[r] \in Owner
<1>1. line # <<>> /\ r = Head(line)
  BY DEF HasTurn, HandoffInv, LineExact
<1>2. line[1] = r /\ 1 \in 1 .. Len(line)
  BY <1>1, Typed
<1>3. pc[r] \in Waiting
  BY <1>2 DEF HandoffInv, LineExact, Waiting
<1> QED
  BY <1>1, <1>3 DEF HandoffInv, Fine, Waiting

LEMMA TurnEnds ==
    ASSUME HandoffInv, NEW r \in Request, HasTurn(r), Answers(r), LeaveQueue(r),
           UNCHANGED <<timeouts, own, before>>, body' = [body EXCEPT ![r] = "none"]
    PROVE  RequestEffect /\ QueueEffect
<1>1. own' = [own EXCEPT ![r] = own[r]]
  BY Typed DEF RequestTypes
<1>2. RequestEffect /\ Others(r) /\ pc'[r] \notin Waiting
  BY <1>1, TurnTaken, AnswersEffect
<1>3. Leaves(r)
  BY <1>2, TurnTaken DEF Leaves, LeaveQueue
<1> QED
  BY <1>2, <1>3 DEF QueueEffect, HandoffInv, TypeOK

LEMMA ZombieEnds ==
    ASSUME HandoffInv, NEW r \in Request, ~ HasTurn(r), LeaveQueue(r),
           UNCHANGED <<timeouts, own, before, pc, token, safe>>,
           body' = [body EXCEPT ![r] = "none"]
    PROVE  RequestEffect /\ QueueEffect
<1>1. RequestTypes' /\ \A q \in Request : Same(q)
  BY Typed DEF RequestTypes, Same, Bodies
<1>2. Stays /\ turn' = turn
  BY DEF LeaveQueue, Stays
<1> QED
  BY <1>1, <1>2 DEF RequestEffect, QueueEffect, HandoffInv, TypeOK, LineExact

LEMMA FewerLinks ==
    ASSUME HandoffInv, linked' \subseteq linked, UNCHANGED <<chrome, normal, surface>>
    PROVE  BrowserEffect
  BY Typed DEF BrowserEffect, HandoffInv, TypeOK, Profile

LEMMA EndTaskEffect ==
    ASSUME HandoffInv, NEW r \in Request, NEW h, Later(handoff, h), NEW i, i \in {0, h.id},
           EndTask(r, h, i)
    PROVE  Effect
<1> DEFINE new == NewIntervention(r, h)
           bound == IF new THEN BoundOwner(owners[h.id], h.status, own[r], NoOwner) ELSE own[r]
           mine == bound = own[r]
           h2 == IF mine THEN h ELSE Release(h)
           ow2 == IF new /\ mine THEN [owners EXCEPT ![h.id] = own[r]] ELSE owners
           rest == linked \ {r}
<1>1. Good(handoff) /\ Good(h) /\ Rebinds(owners) /\ receipt \in ReceiptType
  BY Typed DEF Later
<1>2. Later(handoff, h2)
  BY <1>1, ReleaseLater, LaterTransitive
<1>3. Rebinds(ow2)
  <2>1. CASE new /\ mine
    <3>1. h.id \in Interventions
      BY <1>1, <2>1, BoundAssumption DEF NewIntervention, Good, HandoffType, Interventions
    <3>2. \/ owners[h.id] = own[r]
          \/ owners[h.id] = NoOwner /\ h.status = "awaiting_human"
      BY <2>1 DEF BoundOwner
    <3>3. h.status = "awaiting_human" => ~ Past(handoff, h.id)
      BY <1>1, <3>1, BoundAssumption DEF Later, Past, Good, HandoffType, Interventions
    <3>4. ow2 = [owners EXCEPT ![h.id] = own[r]]
      BY <2>1
    <3>5. own[r] \in Owner \cup {NoOwner} /\ owners \in OwnersType
      BY Typed DEF RequestTypes
    <3> HIDE DEF ow2, new, mine, bound
    <3> QED
      BY <3>1, <3>2, <3>3, <3>4, <3>5 DEF Rebinds, OwnersType
  <2>2. CASE ~ (new /\ mine)
    BY <1>1, <2>2
  <2> QED
    BY <2>1, <2>2
<1>4. /\ body' = [body EXCEPT ![r] = "none"] /\ LeaveQueue(r)
      /\ UNCHANGED <<timeouts, own, before, chrome, normal, surface, clientVars>>
      /\ \/ HasTurn(r) /\ mine /\ i # 0 /\ HumanInput(r, i, h2, ow2, receipt, rest)
         \/ HasTurn(r) /\ Reply(r, h2, ow2, receipt) /\ linked' = rest
         \/ /\ ~ HasTurn(r) /\ handoff' = h2 /\ owners' = ow2 /\ linked' = rest
            /\ UNCHANGED <<receipt, pc, token, safe>>
  BY DEF EndTask
<1>5. i # 0 => i \in Interventions
  BY <1>1, BoundAssumption DEF Good, HandoffType, Interventions
<1> HIDE DEF h2, ow2, mine, bound, new
<1>6. CASE HasTurn(r)
  <2>1. HandoffEffect /\ Answers(r) /\ linked' \in {rest, {}}
    BY <1>1, <1>2, <1>3, <1>4, <1>5, <1>6, HumanInputAnswers, ReplyAnswers
  <2>2. RequestEffect /\ QueueEffect
    BY <1>4, <1>6, <2>1, TurnEnds
  <2> QED
    BY <1>4, <2>1, <2>2, FewerLinks, Idle DEF Effect
<1>7. CASE ~ HasTurn(r)
  <2>1. HandoffEffect
    BY <1>1, <1>2, <1>3, <1>4, <1>7 DEF HandoffEffect
  <2>2. RequestEffect /\ QueueEffect
    BY <1>4, <1>7, ZombieEnds
  <2> QED
    BY <1>4, <1>7, <2>1, <2>2, FewerLinks, Idle DEF Effect
<1> QED
  BY <1>6, <1>7

LEMMA EndVerificationEffect ==
    ASSUME HandoffInv, NEW r \in Request, NEW h, Later(handoff, h), NEW needsHuman \in BOOLEAN,
           EndVerification(r, h, needsHuman)
    PROVE  Effect
<1> DEFINE rest == linked \ {r}
<1>1. /\ body' = [body EXCEPT ![r] = "none"] /\ LeaveQueue(r)
      /\ UNCHANGED <<timeouts, own, before, chrome, normal, surface, clientVars>>
      /\ \/ HasTurn(r) /\ Recover(r, needsHuman, h, receipt, rest)
         \/ /\ ~ HasTurn(r) /\ handoff' = h /\ linked' = rest
            /\ UNCHANGED <<owners, receipt, pc, token, safe>>
  BY DEF EndVerification
<1>2. CASE HasTurn(r)
  <2>1. HandoffEffect /\ Answers(r) /\ linked' \in {rest, {}}
    BY <1>1, <1>2, Typed, RecoverAnswers
  <2>2. RequestEffect /\ QueueEffect
    BY <1>1, <1>2, <2>1, TurnEnds
  <2> QED
    BY <1>1, <2>1, <2>2, FewerLinks, Idle DEF Effect
<1>3. CASE ~ HasTurn(r)
  <2>1. HandoffEffect
    BY <1>1, <1>3, Typed DEF HandoffEffect
  <2>2. RequestEffect /\ QueueEffect
    BY <1>1, <1>3, ZombieEnds
  <2> QED
    BY <1>1, <1>3, <2>1, <2>2, FewerLinks, Idle DEF Effect
<1> QED
  BY <1>2, <1>3

-----------------------------------------------------------------------------
(* The actions. *)
LEMMA JoinEffect ==
    ASSUME HandoffInv, NEW r \in Request, pc[r] \notin Waiting, ~ Full(line),
           NEW kind \in Waiting, Enqueue(r, line, kind), UNCHANGED <<turn, timeouts, before>>,
           NEW w \in Owner, own' = [own EXCEPT ![r] = w],
           NEW t \in Token, token' \in {token, [token EXCEPT ![r] = t]},
           safe' \in [Request -> BOOLEAN],
           kind = "verify" =>
              /\ token' = [token EXCEPT ![r] = t]
              /\ Past(handoff', t.id) /\ owners'[t.id] \in {w, NoOwner}
    PROVE  RequestEffect /\ QueueEffect
<1>1. RequestTypes
  BY Typed
<1>2. RequestTypes'
  <2>1. pc' \in [Request -> PCs] /\ body' \in [Request -> Bodies]
    BY <1>1 DEF RequestTypes, Enqueue, PCs, Bodies, Waiting
  <2>2. own' \in [Request -> Owner \cup {NoOwner}] /\ token' \in [Request -> Token]
    BY <1>1 DEF RequestTypes
  <2> QED
    BY <1>1, <2>1, <2>2 DEF RequestTypes
<1>3. \A q \in Request \ {r} : Same(q) /\ pc'[q] = pc[q]
  BY <1>1 DEF RequestTypes, Enqueue, Same
<1>4. Fine(r)'
  BY <1>1 DEF RequestTypes, Enqueue, Fine, Waiting
<1>5. Joins(r)
  BY <1>1, <1>3 DEF RequestTypes, Enqueue, Joins, Others
<1> QED
  BY <1>2, <1>3, <1>4, <1>5 DEF RequestEffect, QueueEffect, HandoffInv, TypeOK

(* A request that is not in the queue ends a segment without joining it. *)
LEMMA OutsideEffect ==
    ASSUME HandoffInv, NEW r \in Request, pc[r] \notin Waiting, Answers(r),
           UNCHANGED <<queueVars, body, before>>,
           NEW w \in Owner, own' = [own EXCEPT ![r] = w]
    PROVE  RequestEffect /\ QueueEffect
<1>1. RequestEffect /\ Others(r) /\ pc'[r] \notin Waiting
  BY AnswersEffect
<1>2. Stays
  BY <1>1 DEF Stays, Others, queueVars
<1> QED
  BY <1>1, <1>2 DEF QueueEffect, queueVars, HandoffInv, TypeOK, LineExact

(* A request that is not in the queue waits for something else. *)
LEMMA AwaitsEffect ==
    ASSUME HandoffInv, NEW r \in Request, pc[r] \notin Waiting,
           NEW to \in PCs \ (Waiting \cup {"idle"}), pc' = [pc EXCEPT ![r] = to],
           NEW t \in Token, token' = [token EXCEPT ![r] = t],
           NEW w \in Owner, own' = [own EXCEPT ![r] = w],
           UNCHANGED <<queueVars, safe, body, before>>,
           to \in {"suspending", "starting", "revokeToVerify"} => Past(handoff', t.id),
           to = "revokeToVerify" => owners'[t.id] \in {w, NoOwner}
    PROVE  RequestEffect /\ QueueEffect
<1>1. RequestTypes
  BY Typed
<1>2. RequestTypes'
  BY <1>1 DEF RequestTypes
<1>3. \A q \in Request \ {r} : Same(q) /\ pc'[q] = pc[q]
  BY <1>1 DEF RequestTypes, Same
<1>4. pc'[r] = to /\ token'[r] = t /\ own'[r] = w
  BY <1>1 DEF RequestTypes
<1>5. Fine(r)'
  BY <1>4 DEF Fine, Waiting
<1>6. Stays
  BY <1>3, <1>4 DEF Stays, queueVars
<1> QED
  BY <1>2, <1>3, <1>5, <1>6 DEF RequestEffect, QueueEffect, queueVars, HandoffInv, TypeOK, LineExact

LEMMA VerifyEffect ==
    ASSUME HandoffInv, NEW r \in Request, pc[r] \notin Waiting,
           NEW i, Past(handoff, i), NEW e \in Nat, NEW useSafe \in BOOLEAN,
           NEW w \in Owner, own' = [own EXCEPT ![r] = w], owners[i] \in {w, NoOwner},
           UNCHANGED <<turn, timeouts, before>>, Verify(r, i, e, useSafe)
    PROVE  HandoffEffect /\ RequestEffect /\ QueueEffect
<1> DEFINE ends == handoff.id = i /\ handoff.status = "human_active" /\ handoff.epoch = e
           h == IF ends THEN MarkHumanComplete(handoff) ELSE handoff
<1>1. Good(handoff) /\ Rebinds(owners) /\ receipt \in ReceiptType
      /\ Rebinds(Forget(owners, i)) /\ ClearReceipt(receipt, i) \in ReceiptType
  BY Typed, ForgetRebinds, ClearType
<1>2. Later(handoff, h) /\ Good(h)
  BY <1>1, CompleteLater, LaterReflexive DEF Later
<1>3. Later(handoff, CancelIf(handoff, i)) /\ Later(handoff, CancelIf(h, i))
  BY <1>1, <1>2, CancelLater, LaterTransitive
<1>4. \/ /\ \/ Reply(r, CancelIf(handoff, i), Forget(owners, i), ClearReceipt(receipt, i))
            \/ Reply(r, CancelIf(h, i), Forget(owners, i), ClearReceipt(receipt, i))
         /\ UNCHANGED <<line, body>>
      \/ /\ ~ Full(line) /\ handoff' = h /\ Enqueue(r, line, "verify")
         /\ token' = [token EXCEPT ![r] = [id |-> i, epoch |-> e]]
         /\ safe' = [safe EXCEPT ![r] = useSafe]
         /\ UNCHANGED <<owners, receipt>>
  BY DEF Verify
<1> HIDE DEF h
<1>5. CASE /\ \/ Reply(r, CancelIf(handoff, i), Forget(owners, i), ClearReceipt(receipt, i))
              \/ Reply(r, CancelIf(h, i), Forget(owners, i), ClearReceipt(receipt, i))
           /\ UNCHANGED <<line, body>>
  <2>1. HandoffEffect /\ Answers(r)
    BY <1>1, <1>3, <1>5, ReplyAnswers
  <2>2. UNCHANGED <<queueVars, body, before>>
    BY <1>5 DEF queueVars
  <2> QED
    BY <2>1, <2>2, OutsideEffect
<1>6. CASE /\ ~ Full(line) /\ handoff' = h /\ Enqueue(r, line, "verify")
           /\ token' = [token EXCEPT ![r] = [id |-> i, epoch |-> e]]
           /\ safe' = [safe EXCEPT ![r] = useSafe]
           /\ UNCHANGED <<owners, receipt>>
  <2> DEFINE t == [id |-> i, epoch |-> e]
  <2>1. HandoffEffect
    BY <1>1, <1>2, <1>6 DEF HandoffEffect
  <2>2. t \in Token /\ t.id = i
    BY DEF Token, Past, Interventions
  <2>3. Past(handoff', i)
    BY <1>1, <1>2, <1>6, PastStays
  <2>4. safe' \in [Request -> BOOLEAN] /\ token' = [token EXCEPT ![r] = t] /\ owners'[i] \in {w, NoOwner}
    BY <1>6, Typed DEF RequestTypes
  <2> HIDE DEF t
  <2>5. RequestEffect /\ QueueEffect
    BY <1>6, <2>2, <2>3, <2>4, JoinEffect DEF Waiting
  <2> QED
    BY <2>1, <2>5
<1> QED
  BY <1>4, <1>5, <1>6

LEMMA CallEffect ==
    ASSUME HandoffInv, NEW r \in Request, NEW w \in Owner, Call(r, w)
    PROVE  Effect
<1>1. HandoffEffect /\ BrowserEffect /\ ClientEffect
  BY Idle DEF Call
<1>2. pc[r] \notin Waiting /\ own' = [own EXCEPT ![r] = w]
  BY DEF Call, Waiting
<1>3. CASE /\ Full(line) /\ pc' = [pc EXCEPT ![r] = "done"] /\ UNCHANGED <<line, body>>
  BY <1>1, <1>2, <1>3, OutsideEffect DEF Call, Answers, Effect, queueVars
<1>4. CASE ~ Full(line) /\ Enqueue(r, line, "task")
  <2>1. NoToken \in Token /\ safe' \in [Request -> BOOLEAN]
    BY BoundAssumption, Typed DEF NoToken, Token, Call, RequestTypes
  <2> QED
    BY <1>1, <1>2, <1>4, <2>1, JoinEffect DEF Call, Effect, Waiting
<1> QED
  BY <1>3, <1>4 DEF Call

LEMMA ContinueEffect ==
    ASSUME HandoffInv, NEW r \in Request, NEW t \in issued,
           NEW decision \in {"continue", "cancel", "missing"}, Continue(r, t, decision)
    PROVE  Effect
<1> DEFINE mine == owners[t.id] = t.owner
           revoke(e) ==
              /\ surface' = [surface EXCEPT !.phase = "closing"]
              /\ token' = [token EXCEPT ![r] = [id |-> t.id, epoch |-> e]]
              /\ UNCHANGED <<handoffVars, line, body, linked, safe>>
<1>1. /\ pc[r] = "idle" /\ own' = [own EXCEPT ![r] = t.owner] /\ t.owner \in Owner
      /\ t.epoch \in Nat /\ Past(handoff, t.id) /\ t.id \in Interventions
      /\ spent' = spent \cup {t}
      /\ UNCHANGED <<turn, timeouts, before, chrome, normal, issued>>
  BY DEF Continue, HandoffInv, TypeOK, Prompts
<1>2. ClientEffect
  BY <1>1 DEF ClientEffect, HandoffInv, TypeOK
<1>3. /\ Good(handoff) /\ Rebinds(owners) /\ receipt \in ReceiptType /\ Later(handoff, handoff)
      /\ Rebinds(Forget(owners, t.id)) /\ ClearReceipt(receipt, t.id) \in ReceiptType
      /\ surface \in SurfaceType /\ pc[r] \notin Waiting
  BY <1>1, Typed, ForgetRebinds, ClearType DEF Waiting
<1>4. \/ /\ \/ Reply(r, handoff, owners, receipt)
            \/ Reply(r, handoff, Forget(owners, t.id), ClearReceipt(receipt, t.id))
            \/ CancelNow(r, t.id)
         /\ UNCHANGED <<line, body, linked, surface>>
      \/ /\ UNCHANGED <<handoff, owners, receipt>>
         /\ token' = [token EXCEPT ![r] = [id |-> t.id, epoch |-> t.epoch]]
         /\ pc' = [pc EXCEPT ![r] = "suspending"]
         /\ linked' = {} /\ UNCHANGED <<line, body, surface, safe>>
      \/ /\ mine
         /\ \/ revoke(t.epoch) /\ pc' = [pc EXCEPT ![r] = "revokeToCancel"]
            \/ revoke(surface.epoch) /\ pc' = [pc EXCEPT ![r] = "revokeToVerify"]
      \/ mine /\ Verify(r, t.id, t.epoch, FALSE) /\ UNCHANGED <<linked, surface>>
  BY DEF Continue
<1>5. CASE /\ \/ Reply(r, handoff, owners, receipt)
              \/ Reply(r, handoff, Forget(owners, t.id), ClearReceipt(receipt, t.id))
              \/ CancelNow(r, t.id)
           /\ UNCHANGED <<line, body, linked, surface>>
  <2>1. HandoffEffect /\ Answers(r)
    BY <1>3, <1>5, ReplyAnswers, CancelAnswers
  <2>2. RequestEffect /\ QueueEffect
    BY <1>1, <1>3, <1>5, <2>1, OutsideEffect DEF queueVars
  <2> QED
    BY <1>1, <1>2, <1>5, <2>1, <2>2, FewerLinks DEF Effect
<1>6. CASE /\ UNCHANGED <<handoff, owners, receipt>>
           /\ token' = [token EXCEPT ![r] = [id |-> t.id, epoch |-> t.epoch]]
           /\ pc' = [pc EXCEPT ![r] = "suspending"]
           /\ linked' = {} /\ UNCHANGED <<line, body, surface, safe>>
  <2> DEFINE s == [id |-> t.id, epoch |-> t.epoch]
  <2>1. s \in Token /\ Past(handoff', s.id)
    BY <1>1, <1>6 DEF Token, Interventions
  <2>2. HandoffEffect
    BY <1>3, <1>6 DEF HandoffEffect
  <2>3. UNCHANGED <<queueVars, safe, body, before>> /\ token' = [token EXCEPT ![r] = s]
    BY <1>1, <1>6 DEF queueVars
  <2> HIDE DEF s
  <2>4. /\ "suspending" \in PCs \ (Waiting \cup {"idle"})
        /\ pc' = [pc EXCEPT ![r] = "suspending"]
    BY <1>6 DEF PCs, Waiting
  <2>5. RequestEffect /\ QueueEffect
    BY <1>1, <1>3, <2>1, <2>3, <2>4, AwaitsEffect
  <2> QED
    BY <1>1, <1>2, <1>6, <2>2, <2>5, FewerLinks DEF Effect
<1>7. ASSUME mine, NEW e \in Nat, revoke(e), NEW to \in {"revokeToCancel", "revokeToVerify"},
             pc' = [pc EXCEPT ![r] = to]
      PROVE  Effect
  <2> DEFINE s == [id |-> t.id, epoch |-> e]
  <2>1. s \in Token /\ Past(handoff', s.id) /\ owners'[s.id] = t.owner
    BY <1>1, <1>7 DEF Token, Interventions, handoffVars
  <2>2. HandoffEffect
    BY <1>7, Idle
  <2>3. UNCHANGED <<queueVars, safe, body, before>> /\ token' = [token EXCEPT ![r] = s]
    BY <1>1, <1>7 DEF queueVars
  <2>4. BrowserEffect
    BY <1>1, <1>3, <1>7 DEF BrowserEffect, SurfaceType, HandoffInv, TypeOK, Profile
  <2> HIDE DEF s
  <2>5. to \in PCs \ (Waiting \cup {"idle"})
    BY DEF PCs, Waiting
  <2>6. RequestEffect /\ QueueEffect
    BY <1>1, <1>3, <1>7, <2>1, <2>3, <2>5, AwaitsEffect
  <2> QED
    BY <1>2, <2>2, <2>4, <2>6 DEF Effect
<1>8. CASE mine /\ Verify(r, t.id, t.epoch, FALSE) /\ UNCHANGED <<linked, surface>>
  <2>1. HandoffEffect /\ RequestEffect /\ QueueEffect
    BY <1>1, <1>3, <1>8, VerifyEffect
  <2> QED
    BY <1>1, <1>2, <1>8, <2>1, FewerLinks DEF Effect
<1>9. surface.epoch \in Nat
  BY <1>3 DEF SurfaceType
<1> QED
  BY <1>1, <1>4, <1>5, <1>6, <1>7, <1>8, <1>9

(* The Human surface. *)
LEMMA IssueEffect ==
    ASSUME HandoffInv, NEW r \in Request, pc[r] \in {"suspending", "starting"}, Issue(r)
    PROVE  ClientEffect
<1>1. Past(handoff, token[r].id) /\ own[r] \in Owner /\ token[r].epoch \in Nat
  BY Typed DEF HandoffInv, Fine, RequestTypes, Token
<1> QED
  <2> DEFINE t == [id |-> token[r].id, epoch |-> token[r].epoch, owner |-> own[r]]
  <2>1. issued' = issued \cup {t} /\ spent' = spent \ {t}
    BY DEF Issue
  <2>2. Past(handoff, t.id) /\ t.epoch \in Nat /\ t.owner \in Owner
    BY <1>1
  <2> HIDE DEF t
  <2> QED
    BY <2>1, <2>2 DEF ClientEffect, HandoffInv, TypeOK

(* r goes on to wait, about the same intervention. *)
LEMMA GoesOn ==
    ASSUME HandoffInv, NEW r \in Request, pc[r] \in {"suspending", "starting"},
           NEW to \in {"done", "expiring", "starting"}, pc' = [pc EXCEPT ![r] = to],
           UNCHANGED <<handoffVars, queueVars, own, token, safe, body, before>>
    PROVE  HandoffEffect /\ RequestEffect /\ QueueEffect
<1>1. HandoffEffect
  BY Idle
<1>2. /\ own' = [own EXCEPT ![r] = own[r]] /\ token' = [token EXCEPT ![r] = token[r]]
      /\ own[r] \in Owner /\ token[r] \in Token
      /\ Past(handoff', token[r].id) /\ pc[r] \notin Waiting
  BY Typed DEF RequestTypes, HandoffInv, Fine, Waiting, handoffVars
<1>3. to \in PCs \ (Waiting \cup {"idle"})
  BY DEF PCs, Waiting
<1> QED
  BY <1>1, <1>2, <1>3, AwaitsEffect

LEMMA BeginSurfaceEffect ==
    ASSUME HandoffInv, NEW r \in Request, BeginSurface(r)
    PROVE  Effect
<1>1. /\ pc[r] = "suspending" /\ chrome' = FALSE /\ linked' = {}
      /\ UNCHANGED <<handoffVars, queueVars, own, token, safe, body, before, normal>>
      /\ Issue(r) \/ UNCHANGED clientVars
  BY DEF BeginSurface
<1>2. \E to \in {"done", "expiring", "starting"} : pc' = [pc EXCEPT ![r] = to]
  BY DEF BeginSurface
<1>3. surface' \in SurfaceType
  BY Typed DEF BeginSurface, SurfaceType, RequestTypes, Token
<1>4. BrowserEffect
  BY <1>1, <1>3 DEF BrowserEffect, HandoffInv, TypeOK, Profile
<1>5. ClientEffect
  BY <1>1, IssueEffect, Idle
<1>6. HandoffEffect /\ RequestEffect /\ QueueEffect
  BY <1>1, <1>2, GoesOn
<1> QED
  BY <1>4, <1>5, <1>6 DEF Effect

LEMMA SurfaceStartsEffect ==
    ASSUME HandoffInv, NEW r \in Request, SurfaceStarts(r)
    PROVE  Effect
<1>1. HandoffEffect /\ RequestEffect /\ QueueEffect
  BY GoesOn DEF SurfaceStarts
<1>2. ClientEffect
  BY IssueEffect DEF SurfaceStarts
<1>3. BrowserEffect
  BY Typed DEF SurfaceStarts, SurfaceType, BrowserEffect, HandoffInv, TypeOK, Profile
<1> QED
  BY <1>1, <1>2, <1>3 DEF Effect

LEMMA NoSurfaceType == NoSurface \in SurfaceType
  BY BoundAssumption DEF NoSurface, SurfaceType

LEMMA SurfaceFailsEffect ==
    ASSUME HandoffInv, NEW r \in Request, SurfaceFails(r)
    PROVE  Effect
<1>1. HandoffEffect /\ RequestEffect /\ QueueEffect
  BY GoesOn DEF SurfaceFails
<1>2. ClientEffect
  BY Idle DEF SurfaceFails
<1>3. BrowserEffect
  BY NoSurfaceType DEF SurfaceFails, BrowserEffect, HandoffInv, TypeOK, Profile
<1> QED
  BY <1>1, <1>2, <1>3 DEF Effect

LEMMA HumanDoneEffect == HandoffInv /\ HumanDone => Effect
<1> SUFFICES ASSUME HandoffInv, HumanDone
             PROVE  Effect
  OBVIOUS
<1>1. Later(handoff, handoff')
  BY CompleteLater DEF HumanDone, HandoffInv
<1>2. receipt' \in ReceiptType
  BY <1>1 DEF HumanDone, HandoffInv, Good, HandoffType, ReceiptType, Later
<1>3. HandoffEffect
  BY <1>1, <1>2, Typed DEF HandoffEffect, HumanDone
<1>4. RequestEffect /\ QueueEffect /\ BrowserEffect /\ ClientEffect
  BY Idle DEF HumanDone, requestVars
<1> QED
  BY <1>3, <1>4 DEF Effect

(* A request whose surface is being revoked is not in the queue. *)
LEMMA Revoking ==
    ASSUME HandoffInv, NEW r \in Request,
           pc[r] \in {"revokeToVerify", "revokeToCancel", "expiring"}
    PROVE  /\ pc[r] \notin Waiting /\ own[r] \in Owner /\ token[r] \in Token
           /\ own = [own EXCEPT ![r] = own[r]]
           /\ pc[r] = "revokeToVerify" =>
                 Past(handoff, token[r].id) /\ owners[token[r].id] \in {own[r], NoOwner}
  BY Typed DEF RequestTypes, HandoffInv, Fine, Waiting

LEMMA RevokedEffect ==
    ASSUME HandoffInv, NEW r \in Request, Revoked(r)
    PROVE  Effect
<1>1. /\ pc[r] \in {"revokeToVerify", "revokeToCancel", "expiring"}
      /\ surface' = NoSurface /\ normal' = FALSE
      /\ UNCHANGED <<turn, timeouts, own, before, linked, chrome, clientVars>>
      /\ \/ pc[r] = "revokeToVerify" /\ Verify(r, token[r].id, token[r].epoch, TRUE)
         \/ /\ CancelNow(r, token[r].id) \/ Reply(r, handoff, owners, receipt)
            /\ UNCHANGED <<line, body>>
  BY DEF Revoked, SurfaceGone
<1>2. BrowserEffect /\ ClientEffect
  BY <1>1, NoSurfaceType, Idle DEF BrowserEffect, HandoffInv, TypeOK, Profile
<1>3. /\ pc[r] \notin Waiting /\ own[r] \in Owner /\ token[r] \in Token
      /\ own' = [own EXCEPT ![r] = own[r]]
  BY <1>1, Revoking
<1>4. CASE pc[r] = "revokeToVerify" /\ Verify(r, token[r].id, token[r].epoch, TRUE)
  <2>1. Past(handoff, token[r].id) /\ owners[token[r].id] \in {own[r], NoOwner}
    BY <1>1, <1>4, Revoking
  <2>2. token[r].epoch \in Nat
    BY <1>3 DEF Token
  <2>3. HandoffEffect /\ RequestEffect /\ QueueEffect
    BY <1>1, <1>3, <1>4, <2>1, <2>2, VerifyEffect
  <2> QED
    BY <1>2, <2>3 DEF Effect
<1>5. CASE /\ CancelNow(r, token[r].id) \/ Reply(r, handoff, owners, receipt)
           /\ UNCHANGED <<line, body>>
  <2>1. HandoffEffect /\ Answers(r)
    BY <1>5, Typed, CancelAnswers, ReplyAnswers
  <2>2. UNCHANGED <<queueVars, body, before>>
    BY <1>1, <1>5 DEF queueVars
  <2>3. RequestEffect /\ QueueEffect
    BY <1>3, <2>1, <2>2, OutsideEffect
  <2> QED
    BY <1>2, <2>1, <2>3 DEF Effect
<1> QED
  BY <1>1, <1>4, <1>5

LEMMA RevokeFailsEffect ==
    ASSUME HandoffInv, NEW r \in Request, RevokeFails(r)
    PROVE  Effect
<1>1. /\ pc[r] \in {"revokeToVerify", "revokeToCancel", "expiring"} /\ surface' = NoSurface
      /\ UNCHANGED <<queueVars, own, body, before, linked, chrome, normal, clientVars>>
      /\ CancelNow(r, token[r].id) \/ Reply(r, handoff, owners, receipt)
  BY DEF RevokeFails
<1>2. BrowserEffect /\ ClientEffect
  BY <1>1, NoSurfaceType, Idle DEF BrowserEffect, HandoffInv, TypeOK, Profile
<1>3. HandoffEffect /\ Answers(r)
  BY <1>1, Typed, CancelAnswers, ReplyAnswers
<1>4. pc[r] \notin Waiting /\ own[r] \in Owner /\ own' = [own EXCEPT ![r] = own[r]]
  BY <1>1, Revoking
<1>5. RequestEffect /\ QueueEffect
  BY <1>1, <1>3, <1>4, OutsideEffect
<1> QED
  BY <1>2, <1>3, <1>5 DEF Effect

(* The queue and the tasks in it.  Only what a task awaits changes. *)
LEMMA GotoEffect ==
    ASSUME HandoffInv, NEW r \in Request, body[r] # "none", NEW b \in Bodies, Goto(r, b)
    PROVE  HandoffEffect /\ RequestEffect /\ QueueEffect /\ ClientEffect
<1>1. RequestTypes
  BY Typed
<1>2. RequestTypes' /\ \A q \in Request : Same(q)
  BY <1>1 DEF Goto, RequestTypes, Same
<1> QED
  BY <1>2, Idle DEF Goto, RequestEffect

LEMMA TakeEffect ==
    ASSUME HandoffInv, NEW r \in Request, Take(r)
    PROVE  Effect
<1>1. HandoffEffect /\ BrowserEffect /\ ClientEffect
  BY Idle DEF Take
<1>2. RequestTypes
  BY Typed
<1>3. /\ pc[r] \in {"task", "verify"} /\ line # <<>> /\ turn' = "running"
      /\ \E b \in {"begin", "verifyBegin"} : body' = [body EXCEPT ![r] = b]
      /\ before' = before \/ before' = [before EXCEPT ![r] = handoff.id]
      /\ UNCHANGED <<line, timeouts, pc, own, token, safe>>
  BY DEF Take
<1>4. handoff.id \in 0 .. MaxBegun
  BY DEF HandoffInv, Good, HandoffType
<1>5. RequestTypes'
  BY <1>2, <1>3, <1>4 DEF RequestTypes, Bodies
<1>6. \A q \in Request : Same(q)
  BY <1>2, <1>3 DEF RequestTypes, Same
<1>7. QueueEffect
  BY <1>3 DEF QueueEffect, Stays, HandoffInv, TypeOK
<1> QED
  BY <1>1, <1>5, <1>6, <1>7 DEF Effect, RequestEffect

LEMMA GetClientEffect ==
    ASSUME HandoffInv, NEW r \in Request, body[r] # "none", GetClient(r)
    PROVE  Effect
<1>1. CASE handoff.id # 0 /\ EndTask(r, handoff, handoff.id)
  BY <1>1, Typed, EndTaskEffect
<1>2. CASE Goto(r, "connect") /\ UNCHANGED browserVars
  BY <1>2, GotoEffect, Idle DEF Effect, Bodies
<1> QED
  BY <1>1, <1>2 DEF GetClient

LEMMA ConnectEffect ==
    ASSUME HandoffInv, NEW r \in Request, Connect(r)
    PROVE  Effect
<1>1. HandoffEffect /\ RequestEffect /\ QueueEffect /\ ClientEffect
  BY GotoEffect DEF Connect, Bodies
<1>2. BrowserEffect
  BY Typed DEF Connect, BrowserEffect, HandoffInv, TypeOK, Profile
<1> QED
  BY <1>1, <1>2 DEF Effect

LEMMA ChallengeEffect ==
    ASSUME HandoffInv, NEW r \in Request, Challenge(r)
    PROVE  Effect
<1>1. Later(handoff, Begin(handoff))
  BY BeginLater DEF Challenge, HandoffInv
<1> QED
  BY <1>1, EndTaskEffect, EndVerificationEffect DEF Challenge

LEMMA BeginVerificationEffect ==
    ASSUME HandoffInv, NEW r \in Request, BeginVerification(r)
    PROVE  Effect
<1>1. CASE Goto(r, "verifyConnect") /\ UNCHANGED browserVars
  BY <1>1, GotoEffect, Idle DEF BeginVerification, Effect, Bodies
<1>2. CASE EndVerification(r, handoff, FALSE)
  BY <1>2, Typed, EndVerificationEffect
<1> QED
  BY <1>1, <1>2 DEF BeginVerification

LEMMA VerifiedEffect ==
    ASSUME HandoffInv, NEW r \in Request, Verified(r)
    PROVE  Effect
<1> DEFINE i == token[r].id
           queue == Tail(line)
<1>1. /\ Good(handoff) /\ receipt \in ReceiptType /\ Rebinds(owners)
      /\ Rebinds(Forget(owners, i)) /\ ClearReceipt(receipt, i) \in ReceiptType
  BY Typed, ForgetRebinds, ClearType
<1>2. Later(handoff, MarkVerified(handoff)) /\ Later(handoff, Release(handoff))
  BY <1>1, VerifiedLater, ReleaseLater DEF Verified, Verifying
<1>3. BrowserEffect /\ ClientEffect
  <2>1. linked' \subseteq linked /\ UNCHANGED <<chrome, normal, surface, clientVars>>
    BY DEF Verified
  <2> QED
    BY <2>1, FewerLinks, Idle
<1>4. /\ UNCHANGED <<timeouts, own, before>>
      /\ \/ /\ ~ HasTurn(r) /\ handoff' = MarkVerified(handoff)
            /\ body' = [body EXCEPT ![r] = "none"]
            /\ UNCHANGED <<owners, receipt, line, turn, pc, token, safe>>
         \/ /\ HasTurn(r)
            /\ Reply(r, Release(handoff), Forget(owners, i), ClearReceipt(receipt, i))
            /\ line' = queue /\ turn' = "free" /\ body' = [body EXCEPT ![r] = "none"]
         \/ /\ HasTurn(r) /\ ~ Full(queue) /\ handoff' = Release(handoff)
            /\ owners' = Forget(owners, i) /\ receipt' = ClearReceipt(receipt, i)
            /\ Enqueue(r, queue, "task") /\ turn' = "free" /\ UNCHANGED <<token, safe>>
  BY DEF Verified
<1>5. CASE /\ ~ HasTurn(r) /\ handoff' = MarkVerified(handoff)
           /\ body' = [body EXCEPT ![r] = "none"]
           /\ UNCHANGED <<owners, receipt, line, turn, pc, token, safe>>
  <2>1. HandoffEffect
    BY <1>1, <1>2, <1>5 DEF HandoffEffect
  <2>2. RequestEffect /\ QueueEffect
    BY <1>4, <1>5, ZombieEnds DEF LeaveQueue
  <2> QED
    BY <1>3, <2>1, <2>2 DEF Effect
<1>6. CASE /\ HasTurn(r)
           /\ Reply(r, Release(handoff), Forget(owners, i), ClearReceipt(receipt, i))
           /\ line' = queue /\ turn' = "free" /\ body' = [body EXCEPT ![r] = "none"]
  <2>1. HandoffEffect /\ Answers(r)
    BY <1>1, <1>2, <1>6, ReplyAnswers
  <2>2. RequestEffect /\ QueueEffect
    BY <1>4, <1>6, <2>1, TurnEnds DEF LeaveQueue
  <2> QED
    BY <1>3, <2>1, <2>2 DEF Effect
<1>7. CASE /\ HasTurn(r) /\ ~ Full(queue) /\ handoff' = Release(handoff)
           /\ owners' = Forget(owners, i) /\ receipt' = ClearReceipt(receipt, i)
           /\ Enqueue(r, queue, "task") /\ turn' = "free" /\ UNCHANGED <<token, safe>>
  <2>1. HandoffEffect
    BY <1>1, <1>2, <1>7 DEF HandoffEffect
  <2>2. RequestTypes
    BY Typed
  <2>3. RequestTypes'
    BY <1>4, <1>7, <2>2 DEF RequestTypes, Enqueue, PCs, Bodies
  <2>4. \A q \in Request \ {r} : Same(q) /\ pc'[q] = pc[q]
    BY <1>4, <1>7, <2>2 DEF RequestTypes, Enqueue, Same
  <2>5. pc'[r] = "task" /\ own'[r] \in Owner
    BY <1>4, <1>7, <2>2, TurnTaken DEF RequestTypes, Enqueue
  <2>6. Fine(r)'
    BY <2>5 DEF Fine
  <2>7. JoinsAgain(r)
    BY <1>7, <2>4, <2>5, TurnTaken DEF JoinsAgain, Others, Enqueue, Waiting
  <2>8. QueueEffect
    BY <1>4, <2>7 DEF QueueEffect, HandoffInv, TypeOK
  <2> QED
    BY <1>3, <2>1, <2>3, <2>4, <2>6, <2>8 DEF Effect, RequestEffect
<1> QED
  BY <1>4, <1>5, <1>6, <1>7

(* The watchdog. *)
LEMMA TimeoutEffect ==
    ASSUME HandoffInv, NEW r \in Request, Timeout(r)
    PROVE  Effect
<1>1. HandoffEffect /\ RequestEffect /\ ClientEffect
  BY Idle DEF Timeout
<1>2. BrowserEffect
  BY FewerLinks DEF Timeout
<1>3. timeouts' \in 0 .. MaxTimeouts
  BY BoundAssumption DEF Timeout, HandoffInv, TypeOK
<1>4. Stays /\ turn' = "resetting" /\ line # <<>>
  BY TurnTaken DEF Timeout, Stays, requestVars
<1> QED
  BY <1>1, <1>2, <1>3, <1>4 DEF Effect, QueueEffect

LEMMA ResetCancelsEffect == HandoffInv /\ ResetCancels => Effect
<1> SUFFICES ASSUME HandoffInv, ResetCancels
             PROVE  Effect
  OBVIOUS
<1>1. HandoffEffect
  BY Typed, ReleaseLater DEF ResetCancels, HandoffEffect
<1>2. RequestEffect /\ BrowserEffect /\ ClientEffect
  BY Idle DEF ResetCancels
<1>3. Stays /\ turn' = "closing" /\ line # <<>> /\ timeouts' = timeouts
  BY DEF ResetCancels, Stays, requestVars, HandoffInv, LineExact
<1> QED
  BY <1>1, <1>2, <1>3 DEF Effect, QueueEffect, HandoffInv, TypeOK

LEMMA ResetDoneEffect ==
    ASSUME HandoffInv, NEW r \in Request, ResetDone(r)
    PROVE  Effect
<1>1. /\ turn = "closing" /\ r = Head(line) /\ line' = Tail(line) /\ turn' = "free"
      /\ chrome' = FALSE /\ pc[r] \in Waiting
      /\ UNCHANGED <<timeouts, own, body, before, normal, surface, clientVars>>
      /\ \/ Reply(r, handoff, owners, receipt) /\ linked' = {}
         \/ Recover(r, FALSE, handoff, receipt, {})
  BY DEF ResetDone, Waiting
<1>2. HandoffEffect /\ Answers(r) /\ linked' = {}
  BY <1>1, Typed, ReplyAnswers, RecoverAnswers
<1>3. line # <<>> /\ own[r] \in Owner /\ own' = [own EXCEPT ![r] = own[r]]
  BY <1>1, Typed DEF HandoffInv, LineExact, Fine, Waiting, RequestTypes
<1>4. RequestEffect /\ Others(r) /\ pc'[r] \notin Waiting
  BY <1>1, <1>2, <1>3, AnswersEffect
<1>5. QueueEffect
  BY <1>1, <1>3, <1>4 DEF QueueEffect, Leaves, HandoffInv, TypeOK
<1>6. BrowserEffect /\ ClientEffect
  BY <1>1, <1>2, Typed, Idle DEF BrowserEffect, HandoffInv, TypeOK, Profile
<1> QED
  BY <1>2, <1>4, <1>5, <1>6 DEF Effect

-----------------------------------------------------------------------------
LEMMA NextEffect == HandoffInv /\ Next => Effect
<1> SUFFICES ASSUME HandoffInv, Next
             PROVE  Effect
  OBVIOUS
<1>1. ASSUME NEW r \in Request, Job(r)
      PROVE  Effect
  BY <1>1, TakeEffect, GetClientEffect, BeginVerificationEffect, BeginSurfaceEffect
  DEF Job, BeginTask
<1>2. ASSUME NEW r \in Request, BodyStep(r)
      PROVE  Effect
  <2>1. ASSUME Again(r) PROVE Effect
    BY <2>1, GetClientEffect DEF Again
  <2>2. ASSUME ConnectFails(r) \/ TaskEnds(r) PROVE Effect
    BY <2>2, Typed, EndTaskEffect, EndVerificationEffect DEF ConnectFails, TaskEnds
  <2>3. ASSUME StillSignedOut(r) \/ VerificationFails(r) PROVE Effect
    BY <2>3, Typed, EndVerificationEffect DEF StillSignedOut, VerificationFails
  <2> QED
    BY <1>2, <2>1, <2>2, <2>3, ConnectEffect, ChallengeEffect, VerifiedEffect DEF BodyStep
<1>3. ASSUME NEW r \in Request, SurfaceStep(r)
      PROVE  Effect
  BY <1>3, SurfaceStartsEffect, SurfaceFailsEffect, RevokedEffect, RevokeFailsEffect DEF SurfaceStep
<1>4. ASSUME NEW r \in Request, ClientStep(r)
      PROVE  Effect
  BY <1>4, CallEffect, ContinueEffect DEF ClientStep
<1> QED
  BY <1>1, <1>2, <1>3, <1>4, TimeoutEffect, ResetDoneEffect, HumanDoneEffect, ResetCancelsEffect
  DEF Next, Event

LEMMA InitInv == Init => HandoffInv
<1> SUFFICES ASSUME Init
             PROVE  HandoffInv
  OBVIOUS
<1>1. Good(handoff)
  BY BoundAssumption DEF Init, Good, HandoffType, NoHandoff, Statuses
<1>2. TypeOK
  <2>1. /\ handoff \in HandoffType /\ receipt \in ReceiptType /\ surface \in SurfaceType
        /\ NoToken \in Token
    BY <1>1, BoundAssumption DEF Init, Good, NoReceipt, NoSurface, ReceiptType, SurfaceType,
                                 NoToken, Token
  <2>2. RequestTypes
    BY <2>1, BoundAssumption DEF Init, RequestTypes, PCs, Bodies
  <2>3. /\ turn = "free" /\ timeouts = 0 /\ linked = {} /\ issued = {} /\ spent = {}
        /\ chrome = FALSE /\ normal = FALSE /\ line \in Seq(Request)
    BY EmptySeq DEF Init
  <2>4. owners \in OwnersType
    BY DEF Init, OwnersType
  <2>5. 0 \in 0 .. MaxTimeouts
    BY BoundAssumption
  <2> QED
    BY <2>1, <2>2, <2>3, <2>4, <2>5
    DEF TypeOK, HandoffType, OwnersType, ReceiptType, SurfaceType, RequestTypes
<1>3. LineExact
  BY BoundAssumption DEF Init, LineExact
<1>4. Prompts /\ Profile /\ \A q \in Request : Fine(q)
  BY DEF Init, Prompts, Profile, Fine
<1> QED
  BY <1>1, <1>2, <1>3, <1>4 DEF HandoffInv

LEMMA StutterEffect == HandoffInv /\ UNCHANGED vars => Effect
  BY Idle DEF vars, requestVars, Effect

LEMMA Invariance == Spec => []HandoffInv
<1>1. HandoffInv /\ [Next]_vars => HandoffInv'
  BY NextEffect, StutterEffect, EffectStep
<1> QED
  BY <1>1, InitInv, PTL DEF Spec

(* The state of the server's handoff is what its types say: at most one
   intervention within the bounds, owners for those that were begun, requests
   and prompts for interventions that exist. *)
THEOREM TypeCorrect == Spec => []TypeOK
  BY Invariance, PTL DEF HandoffInv

(* The queue holds exactly the requests that await it, each once, also when
   requests are answered by the watchdog and their tasks go on
   (operation-queue.ts, runToolWithHandoff()). *)
THEOREM LineExactHolds == Spec => []LineExact
  BY Invariance, PTL DEF HandoffInv

(* An intervention never passes from one owner to another, and one that a
   Human took over is not bound again (claimHandoffOwner()): not by a repeated
   requestState, not by a task that the watchdog gave up. *)
THEOREM OwnerNeverReboundHolds == Spec => OwnerNeverRebound
<1> DEFINE Step == \A i \in Interventions : owners'[i] # owners[i] =>
          \/ owners'[i] = NoOwner
          \/ /\ owners[i] = NoOwner
             /\ i = handoff.id => handoff.status = "awaiting_human"
             /\ i # handoff.id => i > handoff.begun
<1>1. ASSUME HandoffInv, [Next]_vars
      PROVE  Step
  <2>1. Rebinds(owners')
    BY <1>1, NextEffect, StutterEffect DEF Effect, HandoffEffect
  <2>2. SUFFICES ASSUME NEW i \in Interventions, ~ Past(handoff, i)
                 PROVE  /\ i = handoff.id => handoff.status = "awaiting_human"
                        /\ i # handoff.id => i > handoff.begun
    BY <2>1 DEF Rebinds
  <2>3. handoff.begun \in Nat /\ i \in Nat /\ i # 0 /\ handoff.id \in {0, handoff.begun}
    BY <1>1, BoundAssumption DEF HandoffInv, Good, HandoffType, Interventions
  <2> QED
    BY <2>2, <2>3 DEF Past
<1>2. HandoffInv /\ [Next]_vars => [Step]_vars
  BY <1>1
<1> QED
  BY <1>2, Invariance, PTL DEF Spec, OwnerNeverRebound

(* How the handlers go on; only a call and a verified continuation put a task
   into the queue. *)
LEMMA HandlerMoves ==
    ASSUME Next
    PROVE  \/ UNCHANGED pc
           \/ \E q \in Request, to \in PCs \ {"task"} : pc' = [pc EXCEPT ![q] = to]
           \/ \E q \in Request : \/ \E w \in Owner : Call(q, w)
                                 \/ ~ JobPending /\ Verified(q)
<1> DEFINE Elsewhere == \/ UNCHANGED pc
                        \/ \E q \in Request, to \in PCs \ {"task"} : pc' = [pc EXCEPT ![q] = to]
<1>1. {"done", "suspending", "starting", "expiring", "revokeToVerify", "revokeToCancel", "verify"}
         \subseteq PCs \ {"task"}
  BY DEF PCs
<1>2. ASSUME NEW r \in Request, NEW i, NEW h, NEW ow, NEW rc, NEW others,
             Reply(r, h, ow, rc) \/ HumanInput(r, i, h, ow, rc, others)
      PROVE  Elsewhere
  BY <1>1, <1>2 DEF Reply, HumanInput
<1>3. ASSUME NEW r \in Request, NEW h, NEW i, EndTask(r, h, i)
      PROVE  Elsewhere
  BY <1>2, <1>3 DEF EndTask
<1>4. ASSUME NEW r \in Request, NEW h, NEW needsHuman, NEW rc, NEW others,
             Recover(r, needsHuman, h, rc, others)
      PROVE  Elsewhere
  BY <1>2, <1>4 DEF Recover
<1>5. ASSUME NEW r \in Request, NEW h, NEW needsHuman, EndVerification(r, h, needsHuman)
      PROVE  Elsewhere
  BY <1>4, <1>5 DEF EndVerification
<1>6. ASSUME NEW r \in Request, NEW i, NEW e, NEW useSafe, Verify(r, i, e, useSafe)
      PROVE  Elsewhere
  BY <1>1, <1>2, <1>6 DEF Verify, Enqueue
<1>7. ASSUME NEW r \in Request, Job(r)
      PROVE  Elsewhere
  <2>1. ASSUME Take(r) PROVE Elsewhere
    BY <2>1 DEF Take
  <2>2. ASSUME BeginTask(r) \/ BeginVerification(r) PROVE Elsewhere
    BY <1>3, <1>5, <2>2 DEF BeginTask, GetClient, Goto, BeginVerification
  <2>3. ASSUME BeginSurface(r) PROVE Elsewhere
    BY <1>1, <2>3 DEF BeginSurface
  <2> QED
    BY <1>7, <2>1, <2>2, <2>3 DEF Job
<1>8. ASSUME NEW r \in Request, BodyStep(r)
      PROVE  Elsewhere \/ Verified(r)
  <2>1. ASSUME Again(r) \/ Connect(r) PROVE Elsewhere
    BY <1>3, <2>1 DEF Again, Connect, GetClient, Goto
  <2>2. ASSUME ConnectFails(r) \/ TaskEnds(r) \/ StillSignedOut(r) \/ VerificationFails(r)
        PROVE  Elsewhere
    BY <1>3, <1>5, <2>2 DEF ConnectFails, TaskEnds, StillSignedOut, VerificationFails
  <2>3. ASSUME Challenge(r) PROVE Elsewhere
    BY <1>3, <1>5, <2>3 DEF Challenge
  <2> QED
    BY <1>8, <2>1, <2>2, <2>3 DEF BodyStep
<1>9. ASSUME NEW r \in Request, SurfaceStep(r)
      PROVE  Elsewhere
  BY <1>1, <1>2, <1>6, <1>9
  DEF SurfaceStep, SurfaceStarts, SurfaceFails, Revoked, RevokeFails, CancelNow
<1>10. ASSUME NEW r \in Request, NEW t, NEW decision, Continue(r, t, decision)
       PROVE  Elsewhere
  BY <1>1, <1>2, <1>6, <1>10 DEF Continue, CancelNow
<1>11. ASSUME NEW r \in Request, Timeout(r) \/ ResetDone(r) \/ HumanDone \/ ResetCancels
       PROVE  Elsewhere
  BY <1>2, <1>4, <1>11 DEF Timeout, ResetDone, HumanDone, ResetCancels, requestVars
<1>12. ASSUME HumanDone \/ ResetCancels
       PROVE  Elsewhere
  BY <1>12 DEF HumanDone, ResetCancels, requestVars
<1> HIDE DEF Elsewhere
<1>13. CASE \E r \in Request : Job(r)
  BY <1>7, <1>13 DEF Elsewhere
<1>14. CASE ~ JobPending /\ Event
  BY <1>8, <1>9, <1>10, <1>11, <1>12, <1>14 DEF Event, ClientStep, Elsewhere
<1> QED
  BY <1>13, <1>14 DEF Next

(* A call is replayed at most once, by the continuation that verified its
   intervention and ended it, with the normal Chrome closed
   (runToolWithHandoff() with "retry_original"). *)
THEOREM ReplayOnceHolds == Spec => ReplayOnce
<1> DEFINE Step == \A r \in Request : pc[r] = "verify" /\ pc'[r] = "task" =>
          /\ handoff.id = token[r].id /\ handoff.status = "verifying"
          /\ handoff'.id = 0
          /\ owners[handoff.id] \in {own[r], NoOwner}
          /\ ~ normal
<1>1. ASSUME HandoffInv, [Next]_vars
      PROVE  Step
  <2> SUFFICES ASSUME NEW r \in Request, pc[r] = "verify", pc'[r] = "task"
               PROVE  /\ handoff.id = token[r].id /\ handoff.status = "verifying"
                      /\ handoff'.id = 0
                      /\ owners[handoff.id] \in {own[r], NoOwner}
                      /\ ~ normal
    OBVIOUS
  <2>1. pc \in [Request -> PCs]
    BY <1>1, Typed DEF RequestTypes
  <2>2. Next
    BY <1>1 DEF vars, requestVars
  <2>3. ~ UNCHANGED pc
    OBVIOUS
  <2>4. ASSUME NEW q \in Request, NEW to \in PCs \ {"task"}, pc' = [pc EXCEPT ![q] = to]
        PROVE  FALSE
    BY <2>1, <2>4
  <2>5. ASSUME NEW q \in Request, NEW w \in Owner, Call(q, w)
        PROVE  FALSE
    BY <2>1, <2>5 DEF Call, Enqueue
  <2>6. PICK q \in Request : Verified(q)
    BY <2>2, <2>3, <2>4, <2>5, HandlerMoves
  <2>7. q = r /\ HasTurn(r)
    BY <2>1, <2>6 DEF Verified, Reply, Enqueue
  <2>8. handoff.id = token[r].id /\ handoff.status = "verifying" /\ r \in linked
    BY <2>6, <2>7 DEF Verified, Verifying
  <2>9. handoff'.id = 0
    BY <1>1, <2>6, <2>7, ReleaseLater DEF Verified, Reply, HandoffInv
  <2>10. owners[token[r].id] \in {own[r], NoOwner}
    BY <1>1 DEF HandoffInv, Fine
  <2> QED
    BY <1>1, <2>8, <2>9, <2>10 DEF HandoffInv, Profile
<1>2. HandoffInv /\ [Next]_vars => [Step]_vars
  BY <1>1
<1> QED
  BY <1>2, Invariance, PTL DEF Spec, ReplayOnce

-----------------------------------------------------------------------------
(* Until an operation times out, only the request that has the turn acts.
   Its task is in the browser only while no intervention is active, or to
   verify one. *)
TurnOnly ==
    /\ turn \in {"free", "running"}
    /\ \A r \in Request :
          /\ body[r] \notin {"none", "queued"} => HasTurn(r)
          /\ r \in linked => body[r] \in {"use", "verifyUse"}
          /\ body[r] \in {"begin", "connect", "use"} =>
                pc[r] = "task" /\ handoff.id \in {0, before[r]} /\ before[r] <= handoff.begun
          /\ body[r] \in {"connect", "use"} => handoff.id = 0
          /\ body[r] \in {"verifyBegin", "verifyConnect", "verifyUse"} => pc[r] = "verify"

InTurn == HandoffInv /\ TurnOnly /\ HumanAlone

(* Nobody acts beside the holder of the turn. *)
LEMMA Holder ==
    ASSUME InTurn, NEW r \in Request, body[r] \notin {"none", "queued"}
    PROVE  /\ HasTurn(r) /\ line # <<>> /\ r = Head(line)
           /\ linked \subseteq {r}
           /\ \A q \in Request \ {r} : body[q] \in {"none", "queued"}
<1>1. HasTurn(r) /\ line # <<>> /\ r = Head(line)
  BY TurnTaken DEF InTurn, TurnOnly
<1>2. ASSUME NEW q \in Request, body[q] \notin {"none", "queued"}
      PROVE  q = r
  BY <1>1, <1>2 DEF InTurn, TurnOnly, HasTurn
<1>3. linked \subseteq {r}
  BY <1>2 DEF InTurn, TurnOnly, HandoffInv, TypeOK
<1> QED
  BY <1>1, <1>2, <1>3

(* A turn ends, and nobody is at work. *)
LEMMA TurnOver ==
    ASSUME InTurn, NEW r \in Request, body[r] \notin {"none", "queued"},
           NEW b \in {"none", "queued"}, body' = [body EXCEPT ![r] = b],
           linked' \subseteq linked \ {r}, turn' = "free"
    PROVE  TurnOnly' /\ HumanAlone'
<1>1. linked' = {} /\ \A q \in Request : body'[q] \in {"none", "queued"}
  BY Holder, Typed DEF InTurn, RequestTypes
<1> QED
  BY <1>1 DEF TurnOnly, HumanAlone

(* A request that has no turn does not disturb the one that has: it does not
   raise an intervention, and does not claim one for the Human. *)
Lowers ==
    /\ handoff'.begun = handoff.begun /\ handoff'.id \in {0, handoff.id}
    /\ handoff'.status = "human_active" => handoff.status = "human_active"

Outside(r) ==
    /\ pc[r] \notin {"task", "verify"} /\ \E to \in PCs : pc' = [pc EXCEPT ![r] = to]
    /\ body' = body \/ body' = [body EXCEPT ![r] = "queued"]
    /\ line' = line \/ line' = Append(line, r)
    /\ turn' = turn /\ before' = before /\ linked' \subseteq linked

LEMMA OutsideTurn ==
    ASSUME InTurn, NEW r \in Request, Outside(r), Lowers
    PROVE  TurnOnly' /\ HumanAlone'
<1>1. body[r] \in {"none", "queued"} /\ r \notin linked
  <2>1. body[r] \in Bodies
    BY Typed DEF InTurn, RequestTypes
  <2> QED
    BY <2>1 DEF InTurn, TurnOnly, Outside, Bodies
<1>2. /\ body'[r] \in {"none", "queued"}
      /\ \A q \in Request \ {r} : body'[q] = body[q] /\ pc'[q] = pc[q]
  BY <1>1, Typed DEF InTurn, RequestTypes, Outside
<1>3. ASSUME NEW q \in Request, HasTurn(q)
      PROVE  HasTurn(q)'
  <2>1. line # <<>> /\ line \in Seq(Request)
    BY <1>3, TurnTaken, Typed DEF InTurn
  <2>2. Head(line') = Head(line)
    BY <2>1 DEF Outside
  <2> QED
    BY <1>3, <2>2 DEF HasTurn, Outside
<1>4. TurnOnly'
  <2>1. turn' \in {"free", "running"}
    BY DEF InTurn, TurnOnly, Outside
  <2>2. ASSUME NEW q \in Request
        PROVE  /\ body'[q] \notin {"none", "queued"} => HasTurn(q)'
               /\ q \in linked' => body'[q] \in {"use", "verifyUse"}
               /\ body'[q] \in {"begin", "connect", "use"} =>
                     /\ pc'[q] = "task" /\ handoff'.id \in {0, before'[q]}
                     /\ before'[q] <= handoff'.begun
               /\ body'[q] \in {"connect", "use"} => handoff'.id = 0
               /\ body'[q] \in {"verifyBegin", "verifyConnect", "verifyUse"} => pc'[q] = "verify"
    <3>1. CASE q = r
      BY <1>1, <1>2, <3>1 DEF Outside
    <3>2. CASE q # r
      BY <1>2, <1>3, <3>2 DEF InTurn, TurnOnly, Outside, Lowers
    <3> QED
      BY <3>1, <3>2
  <2> QED
    BY <2>1, <2>2 DEF TurnOnly
<1>5. HumanAlone'
  BY <1>2 DEF InTurn, HumanAlone, Outside, Lowers
<1> QED
  BY <1>4, <1>5

(* What the holder of the turn does within its turn. *)
Works(r, b) ==
    /\ turn' = "running" /\ line' = line /\ Head(line) = r
    /\ \A q \in Request \ {r} : body[q] \in {"none", "queued"}
    /\ body' = [body EXCEPT ![r] = b] /\ linked' \subseteq {r}
    /\ linked' # {} => b \in {"use", "verifyUse"}
    /\ \/ b = "begin" /\ pc[r] = "task" /\ before' = [before EXCEPT ![r] = handoff.id]
       \/ /\ b \in {"connect", "use"} /\ pc[r] = "task" /\ handoff.id = 0
          /\ before' = before /\ before[r] <= handoff.begun
       \/ b = "verifyBegin" /\ pc[r] = "verify" /\ before' = before
       \/ /\ b \in {"verifyConnect", "verifyUse"} /\ pc[r] = "verify" /\ before' = before
          /\ handoff.status # "human_active"
    /\ UNCHANGED <<handoff, owners, receipt, pc, own, token, normal, surface, issued, spent>>

LEMMA WorksInTurn ==
    ASSUME InTurn, NEW r \in Request, NEW b, Works(r, b)
    PROVE  TurnOnly' /\ HumanAlone'
<1>1. /\ body'[r] = b /\ HasTurn(r)'
      /\ \A q \in Request \ {r} : body'[q] \in {"none", "queued"}
  BY Typed DEF InTurn, Works, RequestTypes, HasTurn
<1>2. /\ handoff.id \in {0, handoff.begun} /\ handoff.begun \in Nat
      /\ handoff.id = 0 => handoff.status = "none"
  BY Typed, BoundAssumption DEF InTurn, Good, HandoffType
<1>3. b = "begin" => before'[r] = handoff.id
  BY Typed DEF InTurn, Works, RequestTypes
<1>4. TurnOnly'
  <2>1. ASSUME NEW q \in Request
        PROVE  /\ body'[q] \notin {"none", "queued"} => HasTurn(q)'
               /\ q \in linked' => body'[q] \in {"use", "verifyUse"}
               /\ body'[q] \in {"begin", "connect", "use"} =>
                     /\ pc'[q] = "task" /\ handoff'.id \in {0, before'[q]}
                     /\ before'[q] <= handoff'.begun
               /\ body'[q] \in {"connect", "use"} => handoff'.id = 0
               /\ body'[q] \in {"verifyBegin", "verifyConnect", "verifyUse"} => pc'[q] = "verify"
    <3>1. CASE q = r
      <4>1. q \in linked' => body'[q] \in {"use", "verifyUse"}
        BY <1>1, <3>1 DEF Works
      <4>2. body'[q] \in {"begin", "connect", "use"} =>
                     /\ pc'[q] = "task" /\ handoff'.id \in {0, before'[q]}
                     /\ before'[q] <= handoff'.begun
        BY <1>1, <1>2, <1>3, <3>1 DEF Works
      <4> QED
        BY <1>1, <3>1, <4>1, <4>2 DEF Works
    <3>2. CASE q # r
      BY <1>1, <3>2 DEF Works
    <3> QED
      BY <3>1, <3>2
  <2> QED
    BY <2>1 DEF TurnOnly, Works
<1>5. HumanAlone'
  <2> SUFFICES ASSUME handoff.status = "human_active"
               PROVE  /\ linked' = {}
                      /\ \A q \in Request : body'[q] \in {"none", "queued", "begin", "verifyBegin"}
    BY DEF HumanAlone, Works
  <2>1. b \in {"begin", "verifyBegin"}
    BY <1>2 DEF Works
  <2> QED
    BY <1>1, <2>1 DEF Works
<1> QED
  BY <1>4, <1>5

LEMMA TakeWorks ==
    ASSUME InTurn, NEW r \in Request, Take(r)
    PROVE  Works(r, "begin") \/ Works(r, "verifyBegin")
<1>1. \A q \in Request : ~ HasTurn(q)
  BY DEF Take, HasTurn
<1>2. \A q \in Request : body[q] \in {"none", "queued"} /\ q \notin linked
  BY <1>1 DEF InTurn, TurnOnly
<1>3. linked = {}
  BY <1>2 DEF InTurn, HandoffInv, TypeOK
<1> QED
  BY <1>2, <1>3 DEF Take, Works, handoffVars, browserVars, clientVars

LEMMA GotoWorks ==
    ASSUME InTurn, NEW r \in Request, NEW b, Goto(r, b), UNCHANGED <<normal, surface>>,
           \/ /\ b = "connect" /\ body[r] \in {"begin", "use"} /\ r \notin linked
              /\ linked' = linked /\ handoff.id = 0
           \/ b = "verifyConnect" /\ body[r] = "verifyBegin" /\ linked' = linked /\ Verifying(r)
           \/ b = "use" /\ body[r] = "connect" /\ linked' = linked \cup {r}
           \/ b = "verifyUse" /\ body[r] = "verifyConnect" /\ linked' = linked \cup {r}
    PROVE  Works(r, b)
<1>1. body[r] \notin {"none", "queued"}
  OBVIOUS
<1>2. /\ HasTurn(r) /\ linked \subseteq {r}
      /\ \A q \in Request \ {r} : body[q] \in {"none", "queued"}
  BY <1>1, Holder
<1>3. /\ r \in linked => body[r] \in {"use", "verifyUse"}
      /\ body[r] \in {"begin", "connect", "use"} => pc[r] = "task" /\ before[r] <= handoff.begun
      /\ body[r] \in {"connect", "use"} => handoff.id = 0
      /\ body[r] \in {"verifyBegin", "verifyConnect", "verifyUse"} => pc[r] = "verify"
  BY DEF InTurn, TurnOnly
<1>4. /\ linked' \subseteq {r} /\ (linked' # {} => b \in {"use", "verifyUse"})
  BY <1>2, <1>3
<1>5. /\ turn' = "running" /\ line' = line /\ Head(line) = r
      /\ body' = [body EXCEPT ![r] = b] /\ before' = before
      /\ UNCHANGED <<handoff, owners, receipt, pc, own, token, normal, surface, issued, spent>>
  BY <1>2 DEF Goto, HasTurn, handoffVars, queueVars, clientVars
<1>6. b \in {"verifyConnect", "verifyUse"} => handoff.status # "human_active"
  BY DEF Verifying, InTurn, HumanAlone
<1> QED
  BY <1>2, <1>3, <1>4, <1>5, <1>6 DEF Works

LEMMA ConnectWorks ==
    ASSUME InTurn, NEW r \in Request, Connect(r)
    PROVE  \E b \in Bodies : Works(r, b)
<1> DEFINE b == IF body[r] = "connect" THEN "use" ELSE "verifyUse"
<1>1. Goto(r, b) /\ linked' = linked \cup {r} /\ UNCHANGED <<normal, surface>>
  BY DEF Connect
<1>2. \/ b = "use" /\ body[r] = "connect"
      \/ b = "verifyUse" /\ body[r] = "verifyConnect"
  BY DEF Connect
<1> HIDE DEF b
<1>3. Works(r, b)
  BY <1>1, <1>2, GotoWorks
<1> QED
  BY <1>2, <1>3 DEF Bodies

(* The ends of a turn. *)
LEMMA EndTaskOver ==
    ASSUME InTurn, NEW r \in Request, body[r] \notin {"none", "queued"}, NEW h, NEW i,
           EndTask(r, h, i)
    PROVE  TurnOnly' /\ HumanAlone'
<1>1. HasTurn(r)
  BY Holder
<1>2. body' = [body EXCEPT ![r] = "none"] /\ turn' = "free"
  BY <1>1 DEF EndTask, LeaveQueue
<1>3. linked' \subseteq linked \ {r}
  BY <1>1 DEF EndTask, HumanInput
<1> QED
  BY <1>2, <1>3, TurnOver

LEMMA EndVerificationOver ==
    ASSUME InTurn, NEW r \in Request, body[r] \notin {"none", "queued"}, NEW h,
           NEW needsHuman \in BOOLEAN, EndVerification(r, h, needsHuman)
    PROVE  TurnOnly' /\ HumanAlone'
<1>1. HasTurn(r)
  BY Holder
<1>2. body' = [body EXCEPT ![r] = "none"] /\ turn' = "free"
  BY <1>1 DEF EndVerification, LeaveQueue
<1>3. linked' \subseteq linked \ {r}
  BY <1>1 DEF EndVerification, Recover, HumanInput
<1> QED
  BY <1>2, <1>3, TurnOver

LEMMA VerifiedOver ==
    ASSUME InTurn, NEW r \in Request, Verified(r)
    PROVE  TurnOnly' /\ HumanAlone'
<1>1. body[r] \notin {"none", "queued"} /\ HasTurn(r)
  BY Holder DEF Verified
<1>2. turn' = "free" /\ linked' \subseteq linked \ {r}
  BY <1>1 DEF Verified
<1>3. PICK b \in {"none", "queued"} : body' = [body EXCEPT ![r] = b]
  BY <1>1 DEF Verified, Enqueue
<1> QED
  BY <1>1, <1>2, <1>3, TurnOver

LEMMA GetClientInTurn ==
    ASSUME InTurn, NEW r \in Request, body[r] \in {"begin", "use"}, GetClient(r),
           handoff.id # 0 \/ r \notin linked
    PROVE  TurnOnly' /\ HumanAlone'
<1>1. CASE EndTask(r, handoff, handoff.id)
  BY <1>1, EndTaskOver
<1>2. CASE handoff.id = 0 /\ Goto(r, "connect") /\ UNCHANGED browserVars
  BY <1>2, GotoWorks, WorksInTurn DEF browserVars
<1> QED
  BY <1>1, <1>2 DEF GetClient

(* What the handlers outside the queue make of the handoff state. *)
LEMMA Lowering ==
    ASSUME InTurn, NEW i,
           \/ handoff' \in {handoff, CancelIf(handoff, i)}
           \/ /\ handoff.status = "human_active"
              /\ handoff' \in {MarkHumanComplete(handoff), CancelIf(MarkHumanComplete(handoff), i)}
    PROVE  Lowers
  BY Typed DEF InTurn, Lowers, Good, HandoffType, CancelIf, Release, MarkHumanComplete

LEMMA VerifyOutside ==
    ASSUME InTurn, NEW r \in Request, NEW i, NEW e, NEW useSafe, Verify(r, i, e, useSafe)
    PROVE  /\ Lowers /\ \E to \in PCs : pc' = [pc EXCEPT ![r] = to]
           /\ body' = body \/ body' = [body EXCEPT ![r] = "queued"]
           /\ line' = line \/ line' = Append(line, r)
<1> DEFINE ends == handoff.id = i /\ handoff.status = "human_active" /\ handoff.epoch = e
           h == IF ends THEN MarkHumanComplete(handoff) ELSE handoff
<1>1. \/ handoff' \in {handoff, CancelIf(handoff, i)}
      \/ /\ handoff.status = "human_active"
         /\ handoff' \in {MarkHumanComplete(handoff), CancelIf(MarkHumanComplete(handoff), i)}
  <2>1. handoff' \in {CancelIf(handoff, i), h, CancelIf(h, i)}
    BY DEF Verify, Reply
  <2>2. ends \/ h = handoff
    OBVIOUS
  <2>3. ends => h = MarkHumanComplete(handoff) /\ handoff.status = "human_active"
    OBVIOUS
  <2> HIDE DEF h, ends
  <2> QED
    BY <2>1, <2>2, <2>3
<1>2. \/ pc' = [pc EXCEPT ![r] = "done"] /\ UNCHANGED <<line, body>>
      \/ Enqueue(r, line, "verify")
  BY DEF Verify, Reply
<1> QED
  BY <1>1, <1>2, Lowering DEF Enqueue, PCs

LEMMA ContinueInTurn ==
    ASSUME InTurn, NEW r \in Request, NEW t \in issued,
           NEW decision \in {"continue", "cancel", "missing"}, Continue(r, t, decision)
    PROVE  TurnOnly' /\ HumanAlone'
<1>1. pc[r] = "idle" /\ turn' = turn /\ before' = before
  BY DEF Continue
<1>2. linked' \subseteq linked
  BY DEF Continue, HandoffInv, TypeOK
<1>3. CASE Verify(r, t.id, t.epoch, FALSE)
  BY <1>1, <1>2, <1>3, VerifyOutside, OutsideTurn DEF Outside
<1>4. CASE ~ Verify(r, t.id, t.epoch, FALSE)
  <2>1. /\ handoff' \in {handoff, CancelIf(handoff, t.id)}
        /\ UNCHANGED <<line, body>>
        /\ \E to \in PCs : pc' = [pc EXCEPT ![r] = to]
    BY <1>4 DEF Continue, Reply, CancelNow, handoffVars, PCs
  <2> QED
    BY <1>1, <1>2, <2>1, Lowering, OutsideTurn DEF Outside
<1> QED
  BY <1>3, <1>4

LEMMA ClientInTurn ==
    ASSUME InTurn, NEW r \in Request, ClientStep(r)
    PROVE  TurnOnly' /\ HumanAlone'
<1>1. ASSUME NEW w \in Owner, Call(r, w)
      PROVE  TurnOnly' /\ HumanAlone'
  <2>1. Outside(r)
    BY <1>1 DEF Call, Enqueue, Outside, browserVars, PCs
  <2>2. Lowers
    BY <1>1 DEF Call, Lowers, handoffVars
  <2> QED
    BY <2>1, <2>2, OutsideTurn
<1> QED
  BY <1>1, ContinueInTurn DEF ClientStep

LEMMA SurfaceInTurn ==
    ASSUME InTurn, NEW r \in Request, SurfaceStep(r) \/ BeginSurface(r)
    PROVE  TurnOnly' /\ HumanAlone'
<1>1. CASE BeginSurface(r) \/ SurfaceStarts(r) \/ SurfaceFails(r)
  <2>1. Outside(r) /\ handoff' = handoff
    <3>1. CASE BeginSurface(r)
      <4>1. \E to \in PCs : pc' = [pc EXCEPT ![r] = to]
        BY <3>1 DEF BeginSurface, PCs
      <4> QED
        BY <3>1, <4>1 DEF BeginSurface, Outside, handoffVars, queueVars
    <3>2. CASE SurfaceStarts(r)
      BY <3>2 DEF SurfaceStarts, Outside, PCs, handoffVars, queueVars
    <3>3. CASE SurfaceFails(r)
      BY <3>3 DEF SurfaceFails, Outside, PCs, handoffVars, queueVars
    <3> QED
      BY <1>1, <3>1, <3>2, <3>3
  <2> QED
    BY <2>1, OutsideTurn DEF Lowers
<1>2. CASE Revoked(r)
  <2>1. /\ pc[r] \notin {"task", "verify"} /\ UNCHANGED <<turn, before, linked>>
    BY <1>2 DEF Revoked
  <2>2. CASE Verify(r, token[r].id, token[r].epoch, TRUE)
    BY <2>1, <2>2, VerifyOutside, OutsideTurn DEF Outside
  <2>3. CASE ~ Verify(r, token[r].id, token[r].epoch, TRUE)
    <3>1. /\ handoff' \in {handoff, CancelIf(handoff, token[r].id)}
          /\ pc' = [pc EXCEPT ![r] = "done"] /\ UNCHANGED <<line, body>>
      BY <1>2, <2>3 DEF Revoked, Reply, CancelNow
    <3> QED
      BY <2>1, <3>1, Lowering, OutsideTurn DEF Outside, PCs
  <2> QED
    BY <2>2, <2>3
<1>3. CASE RevokeFails(r)
  <2>1. /\ handoff' \in {handoff, CancelIf(handoff, token[r].id)}
        /\ pc[r] \notin {"task", "verify"} /\ pc' = [pc EXCEPT ![r] = "done"]
        /\ UNCHANGED <<line, turn, body, before, linked>>
    BY <1>3 DEF RevokeFails, Reply, CancelNow, queueVars
  <2> QED
    BY <2>1, Lowering, OutsideTurn DEF Outside, PCs
<1> QED
  BY <1>1, <1>2, <1>3 DEF SurfaceStep

LEMMA BodyInTurn ==
    ASSUME InTurn, NEW r \in Request, BodyStep(r)
    PROVE  TurnOnly' /\ HumanAlone'
<1>1. CASE Again(r)
  BY <1>1, GetClientInTurn DEF Again
<1>2. CASE Connect(r)
  BY <1>2, ConnectWorks, WorksInTurn
<1>3. CASE ConnectFails(r)
  BY <1>3, EndTaskOver, EndVerificationOver DEF ConnectFails
<1>4. CASE Challenge(r)
  BY <1>4, EndTaskOver, EndVerificationOver DEF Challenge
<1>5. CASE TaskEnds(r)
  BY <1>5, EndTaskOver DEF TaskEnds
<1>6. CASE StillSignedOut(r) \/ VerificationFails(r)
  BY <1>6, EndVerificationOver DEF StillSignedOut, VerificationFails
<1> QED
  BY <1>1, <1>2, <1>3, <1>4, <1>5, <1>6, VerifiedOver DEF BodyStep

LEMMA JobInTurn ==
    ASSUME InTurn, NEW r \in Request, Job(r)
    PROVE  TurnOnly' /\ HumanAlone'
<1>1. CASE Take(r)
  BY <1>1, TakeWorks, WorksInTurn
<1>2. CASE BeginTask(r)
  <2>1. body[r] = "begin" /\ r \notin linked
    BY <1>2 DEF BeginTask, InTurn, TurnOnly
  <2> QED
    BY <1>2, <2>1, GetClientInTurn DEF BeginTask
<1>3. CASE BeginVerification(r)
  <2>1. CASE Verifying(r) /\ Goto(r, "verifyConnect") /\ UNCHANGED browserVars
    BY <1>3, <2>1, GotoWorks, WorksInTurn DEF BeginVerification, browserVars
  <2>2. CASE EndVerification(r, handoff, FALSE)
    BY <1>3, <2>2, EndVerificationOver DEF BeginVerification
  <2> QED
    BY <1>3, <2>1, <2>2 DEF BeginVerification
<1> QED
  BY <1>1, <1>2, <1>3, SurfaceInTurn DEF Job

LEMMA HumanDoneInTurn ==
    ASSUME InTurn, HumanDone
    PROVE  TurnOnly' /\ HumanAlone'
<1>1. /\ handoff' = MarkHumanComplete(handoff)
      /\ UNCHANGED <<line, turn, pc, body, before, linked>>
  BY DEF HumanDone, queueVars, requestVars, browserVars
<1>2. handoff'.id = handoff.id /\ handoff'.status = "verifying" /\ handoff'.begun = handoff.begun
  BY <1>1, Typed DEF InTurn, Good, HandoffType, MarkHumanComplete
<1> QED
  BY <1>1, <1>2 DEF InTurn, TurnOnly, HumanAlone, HasTurn

(* Only the watchdog counts, and it does not count back. *)
LEMMA Counting ==
    ASSUME [Next]_vars
    PROVE  \/ timeouts' = timeouts
           \/ timeouts' = timeouts + 1 /\ \E r \in Request : Timeout(r)
<1>1. ASSUME NEW r \in Request, Job(r)
      PROVE  timeouts' = timeouts
  BY <1>1 DEF Job, Take, BeginTask, BeginVerification, BeginSurface, GetClient, EndTask,
              EndVerification, Goto, queueVars
<1>2. ASSUME NEW r \in Request, BodyStep(r)
      PROVE  timeouts' = timeouts
  <2>1. CASE Again(r) \/ Connect(r)
    BY <2>1 DEF Again, GetClient, EndTask, Goto, Connect, queueVars
  <2>2. CASE ConnectFails(r) \/ Challenge(r) \/ TaskEnds(r) \/ StillSignedOut(r)
             \/ VerificationFails(r)
    BY <2>2 DEF ConnectFails, Challenge, TaskEnds, StillSignedOut, VerificationFails,
                EndTask, EndVerification
  <2>3. CASE Verified(r)
    BY <2>3 DEF Verified
  <2> QED
    BY <1>2, <2>1, <2>2, <2>3 DEF BodyStep
<1>3. ASSUME NEW r \in Request, SurfaceStep(r)
      PROVE  timeouts' = timeouts
  BY <1>3 DEF SurfaceStep, SurfaceStarts, SurfaceFails, Revoked, RevokeFails, queueVars
<1>4. ASSUME NEW r \in Request, ClientStep(r)
      PROVE  timeouts' = timeouts
  BY <1>4 DEF ClientStep, Call, Continue
<1>5. ASSUME NEW r \in Request, Timeout(r) \/ ResetDone(r)
      PROVE  timeouts' = timeouts \/ (timeouts' = timeouts + 1 /\ Timeout(r))
  BY <1>5 DEF Timeout, ResetDone
<1>6. ASSUME HumanDone \/ ResetCancels
      PROVE  timeouts' = timeouts
  BY <1>6 DEF HumanDone, ResetCancels, queueVars
<1>7. CASE UNCHANGED vars
  BY <1>7 DEF vars, queueVars
<1> QED
  BY <1>1, <1>2, <1>3, <1>4, <1>5, <1>6, <1>7 DEF Next, Event

LEMMA FirstTimeout ==
    ASSUME HandoffInv, [Next]_vars, timeouts' = 0
    PROVE  timeouts = 0 /\ \A r \in Request : ~ Timeout(r)
<1>1. timeouts \in Nat
  BY BoundAssumption DEF HandoffInv, TypeOK
<1>2. timeouts' = timeouts
  BY <1>1, Counting
<1>3. \A r \in Request : ~ Timeout(r)
  BY <1>1, <1>2 DEF Timeout
<1> QED
  BY <1>2, <1>3

LEMMA InTurnStep ==
    ASSUME InTurn, [Next]_vars, timeouts' = 0
    PROVE  InTurn'
<1>1. \A r \in Request : ~ Timeout(r)
  BY FirstTimeout DEF InTurn
<1>2. HandoffInv'
  BY NextEffect, StutterEffect, EffectStep DEF InTurn
<1>3. TurnOnly' /\ HumanAlone'
  <2>1. CASE UNCHANGED vars
    BY <2>1 DEF vars, handoffVars, queueVars, requestVars, browserVars, InTurn, TurnOnly,
                HasTurn, HumanAlone
  <2>2. CASE \E r \in Request : Job(r)
    BY <2>2, JobInTurn
  <2>3. CASE Event
    <3>1. ~ ResetCancels /\ \A r \in Request : ~ ResetDone(r)
      BY DEF InTurn, TurnOnly, ResetCancels, ResetDone
    <3> QED
      BY <1>1, <2>3, <3>1, BodyInTurn, SurfaceInTurn, ClientInTurn, HumanDoneInTurn DEF Event
  <2> QED
    BY <2>1, <2>2, <2>3 DEF Next
<1> QED
  BY <1>1, <1>2, <1>3 DEF InTurn

LEMMA InTurnInit == Init => InTurn
  BY InitInv DEF Init, InTurn, TurnOnly, HumanAlone, NoHandoff

(* Until an operation times out, nothing of the agent is on the page or on
   its way to it while the Human has control, whatever clients submit, however
   often, and whatever surfaces and the normal Chrome do
   (runToolWithHandoff(), getClient()). *)
THEOREM HumanAloneUntilTimeout == Spec => [](timeouts = 0 => HumanAlone)
<1> DEFINE Inv == timeouts = 0 => InTurn
<1>1. Init => Inv
  BY InTurnInit
<1>2. Inv /\ HandoffInv /\ [Next]_vars => Inv'
  BY FirstTimeout, InTurnStep
<1>3. Inv => (timeouts = 0 => HumanAlone)
  BY DEF InTurn
<1> QED
  BY <1>1, <1>2, <1>3, Invariance, PTL DEF Spec

LEMMA NoTimeouts == ASSUME MaxTimeouts = 0 PROVE Spec => [](timeouts = 0)
<1>1. HandoffInv => timeouts = 0
  BY DEF HandoffInv, TypeOK
<1> QED
  BY <1>1, Invariance, PTL

(* Where no operation times out at all, nothing of the agent is ever on the
   page while the Human has control. *)
THEOREM HumanAloneHolds == ASSUME MaxTimeouts = 0 PROVE Spec => []HumanAlone
  BY HumanAloneUntilTimeout, NoTimeouts, PTL

-----------------------------------------------------------------------------
(* What holds until an operation times out if a client submits a requestState
   once and surfaces do not expire.  The await a handler is in then tells
   exactly where its intervention is: Human surface, handoff state, handlers and
   prompts are in step.  A normal Chrome that cannot be closed only outlives
   its surface. *)
Quiet == ~ Resubmit /\ ~ SurfaceExpires

Owned ==
    /\ OwnerPresent
    /\ issued \subseteq [id : Interventions, epoch : Nat, owner : Owner]
    /\ \A i \in Interventions : i > handoff.begun => owners[i] = NoOwner
    /\ \A t \in issued : t.id = handoff.id => t.owner = owners[handoff.id]

(* The Human surface is of the active intervention and its generation, or of
   the generation the Human has just completed, and has a normal Chrome. *)
SurfaceCurrent ==
    /\ handoff.status \in {"none", "human_active", "verifying"}
    /\ surface.phase \in {"active", "closing"} => normal
    /\ normal => CloseFails \/ surface.phase \in {"active", "closing"}
    /\ surface.phase # "none" =>
          /\ handoff.id = surface.id /\ handoff.id # 0
          /\ \/ handoff.status = "human_active" /\ handoff.epoch = surface.epoch
             \/ /\ handoff.status = "verifying" /\ surface.phase # "starting"
                /\ receipt = [id |-> surface.id, released |-> surface.epoch,
                              verifying |-> handoff.epoch]

Closing == {"revokeToVerify", "revokeToCancel"}

Waits(r) ==
    /\ pc[r] \in {"suspending", "starting", "verify"} \cup Closing =>
          handoff.id = token[r].id /\ handoff.id # 0 /\ own[r] = owners[handoff.id]
    /\ pc[r] = "suspending" => handoff.status = "human_active" /\ handoff.epoch = token[r].epoch
    /\ pc[r] = "starting" => surface.phase = "starting" /\ token[r].epoch = surface.epoch
    /\ pc[r] \in Closing => surface.phase = "closing"
    /\ pc[r] = "verify" => surface.phase = "none" /\ handoff.status = "verifying"
    /\ pc[r] # "expiring"

(* One handler at most waits for the surface or verifies. *)
OneWaits ==
    \A q, r \in Request :
       /\ pc[q] = "starting" /\ pc[r] = "starting" => q = r
       /\ pc[q] \in Closing /\ pc[r] \in Closing => q = r
       /\ pc[q] = "verify" /\ pc[r] = "verify" => q = r

(* A requestState of the active intervention that was not submitted yet is
   for the surface the Human sees. *)
Unspent ==
    \A t \in issued \ spent : t.id = handoff.id =>
       surface.phase = "active" /\ surface.epoch = t.epoch

QuietInv ==
    /\ Quiet /\ InTurn /\ Owned /\ SurfaceCurrent
    /\ (\A r \in Request : Waits(r)) /\ OneWaits /\ Unspent

LEMMA QuietTyped ==
    ASSUME QuietInv
    PROVE  /\ Good(handoff) /\ handoff \in HandoffType /\ handoff.begun \in Nat
           /\ owners \in OwnersType /\ RequestTypes /\ line \in Seq(Request)
           /\ surface \in SurfaceType /\ linked \subseteq Request
           /\ \A q \in Request : Fine(q) /\ Waits(q)
<1>1. /\ Good(handoff) /\ owners \in OwnersType /\ RequestTypes /\ line \in Seq(Request)
      /\ surface \in SurfaceType
  BY Typed DEF QuietInv, InTurn
<1>2. handoff \in HandoffType /\ handoff.begun \in Nat
  BY <1>1, BoundAssumption DEF Good, HandoffType
<1>3. linked \subseteq Request /\ \A q \in Request : Fine(q) /\ Waits(q)
  BY DEF QuietInv, InTurn, HandoffInv, TypeOK
<1> QED
  BY <1>1, <1>2, <1>3

-----------------------------------------------------------------------------
(* What the steps do, in these circumstances.  First the end of a task: it
   raises an intervention or leaves everything as it is, but may prompt for
   the active one again. *)
Settled(r) ==
    /\ body' = [body EXCEPT ![r] = "none"] /\ turn' = "free"
    /\ UNCHANGED <<own, before, chrome, normal, surface, issued, spent>>

TaskOver(r) ==
    /\ pc[r] = "task" /\ Settled(r) /\ UNCHANGED <<handoff, owners, receipt>>
    /\ linked' \subseteq linked \ {r}
    /\ \/ pc' = [pc EXCEPT ![r] = "done"] /\ token' = token
       \/ /\ handoff.status = "human_active" /\ owners[handoff.id] = own[r]
          /\ pc' = [pc EXCEPT ![r] = "suspending"]
          /\ token' = [token EXCEPT ![r] = [id |-> handoff.id, epoch |-> handoff.epoch]]

Raised(r) ==
    LET i == handoff.begun + 1 IN
    /\ pc[r] = "task" /\ Settled(r) /\ handoff.id = 0 /\ i \in Interventions
    /\ handoff' = [id |-> i, status |-> "human_active", epoch |-> 0, begun |-> i]
    /\ owners' = [owners EXCEPT ![i] = own[r]] /\ linked' = {}
    /\ pc' = [pc EXCEPT ![r] = "suspending"]
    /\ token' = [token EXCEPT ![r] = [id |-> i, epoch |-> 0]]

LEMMA TaskOverMove ==
    ASSUME QuietInv, NEW r \in Request, body[r] \in {"begin", "connect", "use"},
           NEW i \in {0, handoff.id}, EndTask(r, handoff, i)
    PROVE  TaskOver(r)
<1>1. HasTurn(r) /\ pc[r] = "task" /\ handoff.id \in {0, before[r]}
  BY Holder DEF QuietInv, InTurn, TurnOnly
<1>2. ~ NewIntervention(r, handoff)
  BY <1>1 DEF NewIntervention
<1>3. Settled(r)
  BY <1>1 DEF EndTask, LeaveQueue, Settled, clientVars
<1>4. \/ i # 0 /\ HumanInput(r, i, handoff, owners, receipt, linked \ {r})
      \/ Reply(r, handoff, owners, receipt) /\ linked' = linked \ {r}
  BY <1>1, <1>2 DEF EndTask
<1>5. handoff.status # "awaiting_human"
  BY DEF QuietInv, SurfaceCurrent
<1>6. CASE Reply(r, handoff, owners, receipt) /\ linked' = linked \ {r}
  BY <1>1, <1>3, <1>6 DEF Reply, TaskOver
<1>7. CASE i # 0 /\ HumanInput(r, i, handoff, owners, receipt, linked \ {r})
  <2>1. \/ Reply(r, handoff, owners, receipt) /\ linked' = linked \ {r}
        \/ /\ owners[i] = own[r] /\ handoff.status = "human_active"
           /\ handoff' = handoff /\ owners' = owners /\ receipt' = receipt
           /\ token' = [token EXCEPT ![r] = [id |-> i, epoch |-> handoff.epoch]]
           /\ pc' = [pc EXCEPT ![r] = "suspending"] /\ linked' = {}
    BY <1>5, <1>7 DEF HumanInput, InHumanHands
  <2> QED
    BY <1>1, <1>3, <1>6, <1>7, <2>1 DEF TaskOver
<1> QED
  BY <1>4, <1>6, <1>7

LEMMA RaisedMove ==
    ASSUME QuietInv, NEW r \in Request, body[r] = "use", handoff.id = 0,
           handoff.begun < MaxBegun, EndTask(r, Begin(handoff), Begin(handoff).id)
    PROVE  Raised(r)
<1> DEFINE i == handoff.begun + 1
           h == [id |-> i, status |-> "awaiting_human", epoch |-> 0, begun |-> i]
           ow == [owners EXCEPT ![i] = own[r]]
<1>1. HasTurn(r) /\ pc[r] = "task" /\ before[r] <= handoff.begun /\ before[r] \in Nat
  BY Holder, QuietTyped, BoundAssumption DEF QuietInv, InTurn, TurnOnly, RequestTypes
<1>2. Begin(handoff) = h /\ h.id = i /\ h.status = "awaiting_human"
  BY DEF Begin
<1>3. i \in Interventions /\ i # 0 /\ i # before[r] /\ i > handoff.begun
  BY <1>1, QuietTyped, BoundAssumption DEF Interventions
<1>4. owners[i] = NoOwner
  BY <1>3 DEF QuietInv, Owned
<1> HIDE DEF h
<1>5. NewIntervention(r, h) /\ BoundOwner(owners[i], h.status, own[r], NoOwner) = own[r]
  BY <1>2, <1>3, <1>4 DEF NewIntervention, BoundOwner
<1>6. Settled(r)
  BY <1>1 DEF EndTask, LeaveQueue, Settled, clientVars
<1>7. HumanInput(r, i, h, ow, receipt, linked \ {r})
  <2>1. EndTask(r, h, i)
    BY <1>2
  <2> HIDE DEF i
  <2> QED
    BY <1>1, <1>2, <1>3, <1>5, <2>1 DEF EndTask
<1>8. ow[i] = own[r]
  BY <1>3, QuietTyped DEF OwnersType
<1>9. ClaimHuman(h) = [id |-> i, status |-> "human_active", epoch |-> 0, begun |-> i]
  BY DEF ClaimHuman, h
<1> HIDE DEF i, ow
<1>10. /\ handoff' = ClaimHuman(h) /\ owners' = ow
       /\ token' = [token EXCEPT ![r] = [id |-> i, epoch |-> ClaimHuman(h).epoch]]
       /\ pc' = [pc EXCEPT ![r] = "suspending"] /\ linked' = {}
  BY <1>2, <1>7, <1>8, <1>9 DEF HumanInput, InHumanHands
<1> QED
  BY <1>1, <1>3, <1>6, <1>9, <1>10 DEF Raised, i, ow

(* The end of a verification: Human authority again, or the intervention's. *)
Returned(r) ==
    /\ pc[r] = "verify" /\ Settled(r) /\ linked' = {}
    /\ handoff' = [handoff EXCEPT !.status = "human_active"] /\ owners' = owners
    /\ pc' = [pc EXCEPT ![r] = "suspending"]
    /\ token' = [token EXCEPT ![r] = [id |-> handoff.id, epoch |-> handoff.epoch]]

Ended(r) ==
    /\ pc[r] = "verify" /\ turn' = "free" /\ linked' \subseteq linked \ {r}
    /\ UNCHANGED <<own, before, chrome, normal, surface, issued, spent, token>>
    /\ handoff' = Release(handoff) /\ owners' = Forget(owners, handoff.id)
    /\ \/ pc' = [pc EXCEPT ![r] = "done"] /\ body' = [body EXCEPT ![r] = "none"]
       \/ pc' = [pc EXCEPT ![r] = "task"] /\ body' = [body EXCEPT ![r] = "queued"]

LEMMA VerificationMove ==
    ASSUME QuietInv, NEW r \in Request,
           body[r] \in {"verifyBegin", "verifyConnect", "verifyUse"},
           NEW needsHuman \in BOOLEAN, EndVerification(r, handoff, needsHuman)
    PROVE  Returned(r) \/ Ended(r)
<1> DEFINE i == token[r].id
<1>1. /\ HasTurn(r) /\ pc[r] = "verify" /\ handoff.id = i /\ handoff.status = "verifying"
      /\ own[r] = owners[i]
  BY Holder DEF QuietInv, InTurn, TurnOnly, Waits
<1>2. Settled(r)
  BY <1>1 DEF EndVerification, LeaveQueue, Settled, clientVars
<1>3. Recover(r, needsHuman, handoff, receipt, linked \ {r})
  BY <1>1 DEF EndVerification
<1>4. CASE needsHuman
  <2> DEFINE h == ClaimHuman(handoff)
             rc == ClearReceipt(receipt, i)
  <2>1. HumanInput(r, i, h, owners, rc, linked \ {r})
    BY <1>1, <1>3, <1>4 DEF Recover
  <2>2. h = [handoff EXCEPT !.status = "human_active"]
    BY DEF ClaimHuman
  <2>3. h.status = "human_active" /\ h.id = i /\ h.epoch = handoff.epoch
    BY <1>1, <2>2, QuietTyped DEF HandoffType
  <2> HIDE DEF h, rc
  <2>4. /\ handoff' = h /\ owners' = owners /\ linked' = {}
        /\ token' = [token EXCEPT ![r] = [id |-> i, epoch |-> h.epoch]]
        /\ pc' = [pc EXCEPT ![r] = "suspending"]
    BY <1>1, <2>1, <2>3 DEF HumanInput, InHumanHands
  <2> QED
    BY <1>1, <1>2, <2>2, <2>3, <2>4 DEF Returned
<1>5. CASE ~ needsHuman
  <2>1. Reply(r, Release(handoff), Forget(owners, i), ClearReceipt(receipt, i))
        /\ linked' = linked \ {r}
    BY <1>1, <1>3, <1>5 DEF Recover, CancelIf
  <2> QED
    BY <1>1, <1>2, <2>1 DEF Reply, Ended, Settled
<1> QED
  BY <1>4, <1>5

LEMMA VerifiedMove ==
    ASSUME QuietInv, NEW r \in Request, Verified(r)
    PROVE  Ended(r)
<1>1. body[r] = "verifyUse" /\ linked' = linked \ {r} /\ Verifying(r)
  BY DEF Verified
<1>2. HasTurn(r) /\ pc[r] = "verify" /\ handoff.id = token[r].id
  BY <1>1, Holder DEF QuietInv, InTurn, TurnOnly, Verifying
<1> QED
  BY <1>1, <1>2 DEF Verified, Ended, Reply, Enqueue, clientVars

(* The normal Chrome has closed: the intervention is over or verified.  If it
   could not be closed, the intervention may stay. *)
ClosedChrome(r) ==
    /\ pc[r] \in Closing /\ surface' = NoSurface /\ (normal' => CloseFails)
    /\ UNCHANGED <<turn, own, before, linked, chrome, issued, spent>>
    /\ \/ /\ handoff' = Release(handoff) /\ owners' = Forget(owners, handoff.id)
          /\ pc' = [pc EXCEPT ![r] = "done"] /\ UNCHANGED <<line, body, token>>
       \/ /\ pc' = [pc EXCEPT ![r] = "verify"] /\ body' = [body EXCEPT ![r] = "queued"]
          /\ line' = Append(line, r) /\ owners' = owners
          /\ handoff'.id = handoff.id /\ handoff'.status = "verifying"
          /\ handoff'.begun = handoff.begun
          /\ \E e \in Nat : token' = [token EXCEPT ![r] = [id |-> handoff.id, epoch |-> e]]
       \/ /\ pc' = [pc EXCEPT ![r] = "done"]
          /\ UNCHANGED <<handoff, owners, line, body, token>>

LEMMA RevokeFailsMove ==
    ASSUME QuietInv, NEW r \in Request, RevokeFails(r)
    PROVE  ClosedChrome(r)
<1>1. /\ pc[r] \in Closing /\ handoff.id = token[r].id
  BY QuietTyped DEF RevokeFails, Waits, Closing
<1>2. /\ surface' = NoSurface /\ CloseFails
      /\ UNCHANGED <<turn, line, body, own, before, linked, chrome, issued, spent>>
  BY DEF RevokeFails, queueVars, clientVars
<1>3. CancelIf(handoff, token[r].id) = Release(handoff)
  BY <1>1 DEF CancelIf
<1>4. CASE CancelNow(r, token[r].id)
  BY <1>1, <1>2, <1>3, <1>4 DEF CancelNow, Reply, ClosedChrome
<1>5. CASE Reply(r, handoff, owners, receipt)
  BY <1>1, <1>2, <1>5 DEF Reply, ClosedChrome
<1> QED
  BY <1>4, <1>5 DEF RevokeFails

LEMMA RevokedMove ==
    ASSUME QuietInv, NEW r \in Request, Revoked(r)
    PROVE  ClosedChrome(r)
<1> DEFINE i == token[r].id
<1>1. /\ pc[r] \in Closing /\ handoff.id = i /\ pc[r] # "expiring" /\ token[r].epoch \in Nat
  BY QuietTyped DEF Revoked, QuietInv, Waits, Closing, RequestTypes, Token
<1>2. /\ surface' = NoSurface /\ normal' = FALSE
      /\ UNCHANGED <<turn, own, before, linked, chrome, issued, spent>>
  BY DEF Revoked, SurfaceGone, clientVars
<1>3. CancelIf(handoff, i) = Release(handoff)
  BY <1>1 DEF CancelIf
<1>4. CASE CancelNow(r, i) /\ UNCHANGED <<line, body>>
  BY <1>1, <1>2, <1>3, <1>4 DEF CancelNow, Reply, ClosedChrome
<1>5. CASE Verify(r, i, token[r].epoch, TRUE)
  <2> DEFINE e == token[r].epoch
             ends == handoff.id = i /\ handoff.status = "human_active" /\ handoff.epoch = e
             h == IF ends THEN MarkHumanComplete(handoff) ELSE handoff
  <2>1. h.id = handoff.id /\ h.begun = handoff.begun
        /\ (ends \/ Released(handoff, receipt, i, e) => h.status = "verifying")
    BY QuietTyped DEF MarkHumanComplete, HandoffType, Released
  <2>2. CancelIf(h, i) = [h EXCEPT !.id = 0, !.status = "none", !.epoch = 0]
    BY <1>1, <2>1 DEF CancelIf, Release
  <2>3. CancelIf(h, i) = Release(handoff)
    BY <2>2, QuietTyped DEF Release, MarkHumanComplete, HandoffType
  <2>4. \/ /\ Reply(r, Release(handoff), Forget(owners, i), ClearReceipt(receipt, i))
           /\ UNCHANGED <<line, body>>
        \/ /\ ends \/ Released(handoff, receipt, i, e)
           /\ handoff' = h /\ Enqueue(r, line, "verify")
           /\ token' = [token EXCEPT ![r] = [id |-> i, epoch |-> e]]
           /\ owners' = owners
    BY <1>3, <1>5, <2>3 DEF Verify
  <2> HIDE DEF h
  <2> QED
    BY <1>1, <1>2, <2>1, <2>4 DEF Reply, Enqueue, ClosedChrome
<1> QED
  BY <1>1, <1>4, <1>5 DEF Revoked


-----------------------------------------------------------------------------
(* These moves leave everything in step. *)
InStep ==
    /\ Owned /\ SurfaceCurrent
    /\ (\A r \in Request : Waits(r)) /\ OneWaits /\ Unspent

WaitingPCs == {"suspending", "starting", "verify", "expiring"} \cup Closing

LEMMA KeepsWaiting ==
    ASSUME QuietInv, NEW q \in Request, UNCHANGED <<handoff, surface>>,
           pc'[q] = pc[q], token'[q] = token[q], own'[q] = own[q],
           handoff.id # 0 => owners'[handoff.id] = owners[handoff.id]
    PROVE  Waits(q)'
<1>1. Waits(q)
  BY QuietTyped
<1> QED
  BY <1>1 DEF Waits

LEMMA NotWaiting ==
    ASSUME NEW q \in Request, pc'[q] \notin WaitingPCs
    PROVE  Waits(q)'
  BY DEF Waits, WaitingPCs

LEMMA OneWaitsStays ==
    ASSUME QuietInv, NEW r \in Request, NEW to, pc' = [pc EXCEPT ![r] = to],
           to = "starting" => \A q \in Request \ {r} : pc[q] # "starting",
           to = "verify" => \A q \in Request \ {r} : pc[q] # "verify",
           to \in Closing => \A q \in Request \ {r} : pc[q] \notin Closing
    PROVE  OneWaits'
<1>1. /\ pc'[r] = to /\ \A q \in Request \ {r} : pc'[q] = pc[q]
  BY QuietTyped DEF RequestTypes
<1>2. ASSUME NEW q \in Request, NEW s \in Request, pc'[q] = "starting", pc'[s] = "starting"
      PROVE  q = s
  BY <1>1, <1>2 DEF QuietInv, OneWaits
<1>3. ASSUME NEW q \in Request, NEW s \in Request, pc'[q] = "verify", pc'[s] = "verify"
      PROVE  q = s
  BY <1>1, <1>3 DEF QuietInv, OneWaits
<1>4. ASSUME NEW q \in Request, NEW s \in Request, pc'[q] \in Closing, pc'[s] \in Closing
      PROVE  q = s
  BY <1>1, <1>4 DEF QuietInv, OneWaits
<1> QED
  BY <1>2, <1>3, <1>4 DEF OneWaits

(* Who verifies is the only one who waits, and nobody waits while the agent
   has control. *)
LEMMA WaitsAlone ==
    ASSUME QuietInv, NEW r \in Request, pc[r] = "verify"
    PROVE  /\ surface.phase = "none" /\ handoff.status = "verifying"
           /\ handoff.id = token[r].id /\ handoff.id # 0 /\ own[r] = owners[handoff.id]
           /\ \A q \in Request \ {r} : pc[q] \notin WaitingPCs
<1>1. /\ surface.phase = "none" /\ handoff.status = "verifying"
      /\ handoff.id = token[r].id /\ handoff.id # 0 /\ own[r] = owners[handoff.id]
  BY QuietTyped DEF Waits
<1>2. \A q \in Request \ {r} : pc[q] # "verify"
  BY DEF QuietInv, OneWaits
<1>3. \A q \in Request : pc[q] \notin {"suspending", "starting", "expiring"} \cup Closing
  BY <1>1, QuietTyped DEF Waits
<1> QED
  BY <1>1, <1>2, <1>3 DEF WaitingPCs

LEMMA NobodyWaits ==
    ASSUME QuietInv, handoff.id = 0
    PROVE  \A q \in Request : pc[q] \notin WaitingPCs
  BY QuietTyped DEF Waits, WaitingPCs

LEMMA TaskOverInStep ==
    ASSUME QuietInv, NEW r \in Request, body[r] \notin {"none", "queued"}, TaskOver(r)
    PROVE  InStep'
<1>1. Owned' /\ SurfaceCurrent' /\ Unspent'
  BY DEF TaskOver, Settled, QuietInv, Owned, OwnerPresent, SurfaceCurrent, Unspent
<1>2. PICK to \in {"done", "suspending"} : pc' = [pc EXCEPT ![r] = to]
  BY DEF TaskOver
<1>3. OneWaits'
  BY <1>2, OneWaitsStays DEF Closing
<1>4. ASSUME NEW q \in Request, q # r
      PROVE  Waits(q)'
  <2>1. pc'[q] = pc[q] /\ token'[q] = token[q]
    BY <1>2, <1>4, QuietTyped DEF TaskOver, RequestTypes
  <2> QED
    BY <2>1, KeepsWaiting DEF TaskOver, Settled
<1>5. Waits(r)'
  <2>1. CASE pc' = [pc EXCEPT ![r] = "done"]
    <3>1. pc'[r] = "done"
      BY <2>1, QuietTyped DEF RequestTypes
    <3> QED
      BY <3>1, NotWaiting DEF WaitingPCs, Closing
  <2>2. CASE /\ handoff.status = "human_active" /\ owners[handoff.id] = own[r]
             /\ pc' = [pc EXCEPT ![r] = "suspending"]
             /\ token' = [token EXCEPT ![r] = [id |-> handoff.id, epoch |-> handoff.epoch]]
    <3>1. pc'[r] = "suspending" /\ token'[r].id = handoff.id /\ token'[r].epoch = handoff.epoch
      BY <2>2, QuietTyped DEF RequestTypes
    <3>2. handoff.id # 0
      BY <2>2, QuietTyped DEF Good
    <3> QED
      BY <2>2, <3>1, <3>2 DEF Waits, TaskOver, Settled, Closing
  <2> QED
    BY <2>1, <2>2 DEF TaskOver
<1> QED
  BY <1>1, <1>3, <1>4, <1>5 DEF InStep

LEMMA RaisedInStep ==
    ASSUME QuietInv, NEW r \in Request, body[r] \notin {"none", "queued"}, Raised(r)
    PROVE  InStep'
<1> DEFINE i == handoff.begun + 1
<1>1. /\ handoff.id = 0 /\ i \in Interventions /\ i # 0 /\ handoff.begun \in Nat
      /\ own[r] \in Owner /\ own[r] # NoOwner
  <2>1. own[r] \in Owner
    BY QuietTyped DEF Raised, Fine
  <2> QED
    BY <2>1, RetryOwnerAssumption, BoundAssumption, QuietTyped DEF Raised, Interventions
<1>2. \A t \in issued : t.id # i
  BY <1>1 DEF QuietInv, InTurn, HandoffInv, Prompts, Past, Interventions
<1>3. handoff' = [id |-> i, status |-> "human_active", epoch |-> 0, begun |-> i]
      /\ owners' = [owners EXCEPT ![i] = own[r]]
  BY DEF Raised
<1>4. /\ handoff'.id = i /\ handoff'.status = "human_active" /\ handoff'.epoch = 0
      /\ handoff'.begun = i
  BY <1>3
<1>5. owners'[i] = own[r] /\ \A j \in Interventions \ {i} : owners'[j] = owners[j]
  BY <1>1, <1>3, QuietTyped DEF OwnersType
<1>6. surface.phase = "none" /\ surface' = surface /\ normal' = normal
      /\ issued' = issued /\ spent' = spent
  BY <1>1 DEF QuietInv, SurfaceCurrent, Raised, Settled
<1>7. /\ pc'[r] = "suspending" /\ token'[r].id = i /\ token'[r].epoch = 0 /\ own' = own
      /\ \A q \in Request \ {r} : pc'[q] = pc[q]
  BY QuietTyped DEF Raised, Settled, RequestTypes
<1>8. OneWaits'
  BY OneWaitsStays DEF Raised, Closing
<1> HIDE DEF i
<1>9. Owned'
  <2>1. OwnerPresent'
    BY <1>1, <1>4, <1>5 DEF OwnerPresent
  <2>2. \A j \in Interventions : j > i => owners'[j] = NoOwner
    <3> SUFFICES ASSUME NEW j \in Interventions, j > i
                 PROVE  owners'[j] = NoOwner
      OBVIOUS
    <3>1. j # i /\ j > handoff.begun
      BY <1>1, BoundAssumption DEF i, Interventions
    <3> QED
      BY <1>5, <3>1 DEF QuietInv, Owned
  <2> QED
    BY <1>2, <1>4, <1>6, <2>1, <2>2 DEF QuietInv, Owned
<1>10. SurfaceCurrent'
  BY <1>4, <1>6 DEF QuietInv, SurfaceCurrent
<1>11. Unspent'
  BY <1>2, <1>4, <1>6 DEF Unspent
<1>12. ASSUME NEW q \in Request
       PROVE  Waits(q)'
  <2>1. CASE q = r
    BY <1>1, <1>4, <1>5, <1>7, <2>1 DEF Waits, Closing
  <2>2. CASE q # r
    BY <1>1, <1>7, <2>2, NobodyWaits, NotWaiting
  <2> QED
    BY <2>1, <2>2
<1> QED
  BY <1>8, <1>9, <1>10, <1>11, <1>12 DEF InStep

(* While a request verifies, no prompt is out that was not submitted. *)
LEMMA VerifiesUnspent ==
    ASSUME QuietInv, surface.phase # "active"
    PROVE  \A t \in issued \ spent : t.id # handoff.id
  BY DEF QuietInv, Unspent

LEMMA ReturnedInStep ==
    ASSUME QuietInv, NEW r \in Request, body[r] \notin {"none", "queued"}, Returned(r)
    PROVE  InStep'
<1>1. /\ surface.phase = "none" /\ handoff.id # 0 /\ own[r] = owners[handoff.id]
      /\ \A q \in Request \ {r} : pc[q] \notin WaitingPCs
  BY WaitsAlone DEF Returned
<1>2. /\ handoff'.id = handoff.id /\ handoff'.status = "human_active"
      /\ handoff'.epoch = handoff.epoch /\ handoff'.begun = handoff.begun
  BY QuietTyped DEF Returned, HandoffType
<1>3. UNCHANGED <<own, owners, surface, normal, issued, spent>>
  BY DEF Returned, Settled
<1>4. /\ pc'[r] = "suspending" /\ token'[r].id = handoff.id /\ token'[r].epoch = handoff.epoch
      /\ \A q \in Request \ {r} : pc'[q] = pc[q]
  BY QuietTyped DEF Returned, RequestTypes
<1>5. OneWaits'
  BY OneWaitsStays DEF Returned, Closing
<1>6. Owned' /\ SurfaceCurrent'
  BY <1>1, <1>2, <1>3 DEF QuietInv, Owned, OwnerPresent, SurfaceCurrent
<1>7. Unspent'
  BY <1>1, <1>2, <1>3, VerifiesUnspent DEF Unspent
<1>8. ASSUME NEW q \in Request
      PROVE  Waits(q)'
  <2>1. CASE q = r
    BY <1>1, <1>2, <1>3, <1>4, <2>1 DEF Waits, Closing
  <2>2. CASE q # r
    BY <1>1, <1>4, <2>2, NotWaiting
  <2> QED
    BY <2>1, <2>2
<1> QED
  BY <1>5, <1>6, <1>7, <1>8 DEF InStep

(* The intervention ends. *)
LEMMA Released0 ==
    ASSUME QuietInv, handoff' = Release(handoff), owners' = Forget(owners, handoff.id),
           handoff.id # 0, surface'.phase = "none", normal' => CloseFails,
           issued' = issued
    PROVE  /\ Owned' /\ SurfaceCurrent' /\ Unspent'
           /\ handoff'.id = 0 /\ handoff'.status = "none" /\ handoff'.begun = handoff.begun
<1>1. handoff'.id = 0 /\ handoff'.status = "none" /\ handoff'.begun = handoff.begun
  BY QuietTyped DEF Release, HandoffType
<1>2. \A j \in Interventions : owners'[j] \in {owners[j], NoOwner}
  BY QuietTyped DEF Forget, OwnersType
<1>3. \A t \in issued : t.id # 0
  BY BoundAssumption DEF QuietInv, Owned, Interventions
<1>4. Owned'
  BY <1>1, <1>2, <1>3 DEF QuietInv, Owned, OwnerPresent
<1>5. SurfaceCurrent' /\ Unspent'
  BY <1>1, <1>3 DEF SurfaceCurrent, Unspent
<1> QED
  BY <1>1, <1>4, <1>5

LEMMA EndedInStep ==
    ASSUME QuietInv, NEW r \in Request, body[r] \notin {"none", "queued"}, Ended(r)
    PROVE  InStep'
<1>1. /\ surface.phase = "none" /\ handoff.id # 0
      /\ \A q \in Request \ {r} : pc[q] \notin WaitingPCs
  BY WaitsAlone DEF Ended
<1>2. normal => CloseFails
  BY <1>1 DEF QuietInv, SurfaceCurrent
<1>3. Owned' /\ SurfaceCurrent' /\ Unspent'
  BY <1>1, <1>2, Released0 DEF Ended
<1>4. PICK to \in {"done", "task"} : pc' = [pc EXCEPT ![r] = to]
  BY DEF Ended
<1>5. OneWaits'
  BY <1>4, OneWaitsStays DEF Closing
<1>6. ASSUME NEW q \in Request
      PROVE  Waits(q)'
  <2>1. pc'[q] \notin WaitingPCs
    BY <1>1, <1>4, QuietTyped DEF RequestTypes, WaitingPCs, Closing
  <2> QED
    BY <2>1, NotWaiting
<1> QED
  BY <1>3, <1>5, <1>6 DEF InStep

-----------------------------------------------------------------------------
(* A call and a continuation. *)
Called(r) ==
    /\ pc[r] = "idle"
    /\ \E w \in Owner : own' = [own EXCEPT ![r] = w]
    /\ \/ pc' = [pc EXCEPT ![r] = "done"] /\ UNCHANGED <<line, body>>
       \/ pc' = [pc EXCEPT ![r] = "task"] /\ Enqueue(r, line, "task")
    /\ UNCHANGED <<handoff, owners, receipt, turn, token, before, linked, chrome, normal,
                   surface, issued, spent>>

(* A continuation that finds its intervention over, one without a decision, and
   one with a decision, for which the normal Chrome has to be closed. *)
Answered(r) ==
    /\ pc' = [pc EXCEPT ![r] = "done"]
    /\ \/ owners' = owners /\ receipt' = receipt
       \/ \E i \in Interventions \ {handoff.id} :
             owners' = Forget(owners, i) /\ receipt' = ClearReceipt(receipt, i)
    /\ UNCHANGED <<token, linked, surface>>

Asked(r) ==
    /\ handoff.status = "human_active" /\ handoff.id # 0 /\ own'[r] = owners[handoff.id]
    /\ pc' = [pc EXCEPT ![r] = "suspending"]
    /\ token' = [token EXCEPT ![r] = [id |-> handoff.id, epoch |-> handoff.epoch]]
    /\ linked' = {} /\ UNCHANGED <<owners, receipt, surface>>

Revokes(r, t) ==
    /\ surface.phase = "active" /\ t.id = handoff.id /\ own'[r] = owners[handoff.id]
    /\ surface' = [surface EXCEPT !.phase = "closing"]
    /\ \E to \in Closing : pc' = [pc EXCEPT ![r] = to]
    /\ \E e \in Nat : token' = [token EXCEPT ![r] = [id |-> handoff.id, epoch |-> e]]
    /\ UNCHANGED <<owners, receipt, linked>>

Continued(r, t) ==
    /\ pc[r] = "idle" /\ t \notin spent /\ spent' = spent \cup {t}
    /\ \E w \in Owner : own' = [own EXCEPT ![r] = w]
    /\ UNCHANGED <<handoff, line, turn, body, before, chrome, normal, issued>>
    /\ Answered(r) \/ Asked(r) \/ Revokes(r, t)

LEMMA CalledMove ==
    ASSUME NEW r \in Request, NEW w \in Owner, Call(r, w)
    PROVE  Called(r)
  BY DEF Call, Called, Enqueue, handoffVars, browserVars, clientVars

(* A requestState of the active intervention that was not submitted yet finds
   it as it was, and its surface open. *)
LEMMA UnspentCurrent ==
    ASSUME QuietInv, NEW t \in issued, t \notin spent, t.id = handoff.id
    PROVE  /\ t.owner = owners[handoff.id] /\ handoff.id # 0
           /\ surface.phase = "active" /\ surface.id = t.id /\ surface.epoch = t.epoch
           /\ \/ handoff.status = "human_active" /\ handoff.epoch = t.epoch
              \/ Released(handoff, receipt, t.id, t.epoch)
<1>1. surface.phase = "active" /\ surface.epoch = t.epoch /\ t.owner = owners[handoff.id]
  BY DEF QuietInv, Unspent, Owned
<1>2. /\ surface.id = t.id /\ handoff.id # 0
      /\ \/ handoff.status = "human_active" /\ handoff.epoch = t.epoch
         \/ /\ handoff.status = "verifying"
            /\ receipt = [id |-> t.id, released |-> t.epoch, verifying |-> handoff.epoch]
  BY <1>1 DEF QuietInv, SurfaceCurrent
<1> QED
  BY <1>1, <1>2 DEF Released

LEMMA ContinuedMove ==
    ASSUME QuietInv, NEW r \in Request, NEW t \in issued,
           NEW decision \in {"continue", "cancel", "missing"}, Continue(r, t, decision)
    PROVE  Continued(r, t)
<1> DEFINE mine == owners[t.id] = t.owner
           sameGeneration == /\ handoff.id = t.id /\ handoff.epoch = t.epoch
                             /\ handoff.status = "human_active"
           released == Released(handoff, receipt, t.id, t.epoch)
           current == sameGeneration \/ released
           shown == surface.phase = "active" /\ surface.id = t.id
           closing == surface.phase = "closing" /\ surface.id = t.id
           revoke == /\ surface' = [surface EXCEPT !.phase = "closing"]
                     /\ token' = [token EXCEPT ![r] =
                                    [id |-> t.id,
                                     epoch |-> IF decision = "continue" THEN surface.epoch
                                               ELSE t.epoch]]
                     /\ UNCHANGED <<handoffVars, line, body, linked, safe>>
<1>1. /\ pc[r] = "idle" /\ t \notin spent /\ spent' = spent \cup {t}
      /\ own' = [own EXCEPT ![r] = t.owner]
      /\ UNCHANGED <<turn, before, chrome, normal, issued>>
  BY DEF Continue, QuietInv, Quiet
<1>2. /\ t.id \in Interventions /\ t.owner \in Owner /\ t.epoch \in Nat
      /\ t.id # 0 /\ own'[r] = t.owner
  <2>1. t.id \in Interventions /\ t.owner \in Owner /\ t.epoch \in Nat
    BY DEF QuietInv, Owned
  <2>2. t.id # 0
    BY <2>1, BoundAssumption DEF Interventions
  <2>3. own'[r] = t.owner
    BY <1>1, QuietTyped DEF RequestTypes
  <2> QED
    BY <2>1, <2>2, <2>3
<1>3. t.id = handoff.id => mine /\ current /\ shown /\ ~ closing
  BY <1>1, UnspentCurrent
<1>4. t.id # handoff.id => ~ current
  BY DEF Released
<1>5. /\ handoff' = handoff /\ UNCHANGED <<line, body>>
      /\ \/ Answered(r)
         \/ Asked(r)
         \/ Revokes(r, t)
  <2>1. CASE t.id # handoff.id
    <3>1. \/ /\ Reply(r, handoff, owners, receipt)
             /\ UNCHANGED <<line, body, linked, surface>>
          \/ /\ Reply(r, handoff, Forget(owners, t.id), ClearReceipt(receipt, t.id))
             /\ UNCHANGED <<line, body, linked, surface>>
      BY <1>4, <2>1 DEF Continue
    <3> QED
      BY <1>2, <2>1, <3>1 DEF Reply, Answered
  <2>2. CASE t.id = handoff.id
    <3>1. \/ /\ Reply(r, handoff, owners, receipt)
             /\ UNCHANGED <<line, body, linked, surface>>
          \/ /\ sameGeneration
             /\ handoff' = handoff /\ owners' = owners /\ receipt' = receipt
             /\ token' = [token EXCEPT ![r] = [id |-> t.id, epoch |-> t.epoch]]
             /\ pc' = [pc EXCEPT ![r] = "suspending"]
             /\ linked' = {}
             /\ UNCHANGED <<line, body, surface>>
          \/ revoke /\ pc' = [pc EXCEPT ![r] = "revokeToCancel"]
          \/ revoke /\ pc' = [pc EXCEPT ![r] = "revokeToVerify"]
      BY <1>3, <2>2 DEF Continue
    <3>2. own'[r] = owners[handoff.id] /\ handoff.id # 0 /\ surface.phase = "active"
      BY <1>1, <1>2, <2>2, UnspentCurrent
    <3>3. CASE /\ Reply(r, handoff, owners, receipt)
               /\ UNCHANGED <<line, body, linked, surface>>
      BY <3>3 DEF Reply, Answered
    <3>4. CASE /\ sameGeneration
               /\ handoff' = handoff /\ owners' = owners /\ receipt' = receipt
               /\ token' = [token EXCEPT ![r] = [id |-> t.id, epoch |-> t.epoch]]
               /\ pc' = [pc EXCEPT ![r] = "suspending"]
               /\ linked' = {}
               /\ UNCHANGED <<line, body, surface>>
      BY <2>2, <3>2, <3>4 DEF Asked
    <3>5. ASSUME revoke, NEW to \in Closing, pc' = [pc EXCEPT ![r] = to]
          PROVE  Revokes(r, t) /\ UNCHANGED <<handoff, line, body>>
      <4>1. (IF decision = "continue" THEN surface.epoch ELSE t.epoch) \in Nat
        BY <1>2, QuietTyped DEF SurfaceType
      <4> QED
        BY <2>2, <3>2, <3>5, <4>1 DEF Revokes, handoffVars
    <3> QED
      BY <3>1, <3>3, <3>4, <3>5 DEF Closing
  <2> QED
    BY <2>1, <2>2
<1> QED
  BY <1>1, <1>2, <1>5 DEF Continued

LEMMA CalledInStep ==
    ASSUME QuietInv, NEW r \in Request, Called(r)
    PROVE  InStep'
<1>1. PICK to \in {"done", "task"} : pc' = [pc EXCEPT ![r] = to]
  BY DEF Called
<1>2. OneWaits'
  BY <1>1, OneWaitsStays DEF Closing
<1>3. Owned' /\ SurfaceCurrent' /\ Unspent'
  BY DEF Called, QuietInv, Owned, OwnerPresent, SurfaceCurrent, Unspent
<1>4. ASSUME NEW q \in Request
      PROVE  Waits(q)'
  <2>1. CASE q = r
    <3>1. pc'[r] = to
      BY <1>1, QuietTyped DEF RequestTypes
    <3> QED
      BY <2>1, <3>1, NotWaiting DEF WaitingPCs, Closing
  <2>2. CASE q # r
    <3>1. pc'[q] = pc[q] /\ own'[q] = own[q]
      BY <1>1, <2>2, QuietTyped DEF Called, RequestTypes
    <3> QED
      BY <3>1, KeepsWaiting DEF Called
  <2> QED
    BY <2>1, <2>2
<1> QED
  BY <1>2, <1>3, <1>4 DEF InStep

LEMMA ContinuedInStep ==
    ASSUME QuietInv, NEW r \in Request, NEW t \in issued, Continued(r, t)
    PROVE  InStep'
<1>1. /\ pc[r] = "idle" /\ t \notin spent /\ spent' = spent \cup {t}
      /\ UNCHANGED <<handoff, line, turn, body, before, chrome, normal, issued>>
      /\ \A q \in Request \ {r} : own'[q] = own[q]
  BY QuietTyped DEF Continued, RequestTypes
<1>2. CASE Answered(r)
  <2>1. OneWaits'
    BY <1>1, <1>2, OneWaitsStays DEF Answered, Closing
  <2>2. /\ handoff.id # 0 => owners'[handoff.id] = owners[handoff.id]
        /\ \A j \in Interventions : owners'[j] \in {owners[j], NoOwner}
    <3>1. handoff.id # 0 => handoff.id \in Interventions
      BY BoundAssumption, QuietTyped DEF HandoffType, Interventions
    <3>2. CASE owners' = owners
      BY <3>2
    <3>3. ASSUME NEW i \in Interventions \ {handoff.id}, owners' = Forget(owners, i)
          PROVE  /\ handoff.id # 0 => owners'[handoff.id] = owners[handoff.id]
                 /\ \A j \in Interventions : owners'[j] \in {owners[j], NoOwner}
      BY <3>1, <3>3, QuietTyped DEF Forget, OwnersType
    <3> QED
      BY <1>2, <3>2, <3>3 DEF Answered
  <2>3. receipt' = receipt \/ receipt.id # handoff.id
    BY <1>2 DEF Answered, ClearReceipt
  <2>4. Owned' /\ SurfaceCurrent' /\ Unspent'
    <3>1. Owned'
      <4>1. OwnerPresent'
        BY <1>1, <2>2 DEF QuietInv, Owned, OwnerPresent
      <4>2. \A i \in Interventions : i > handoff.begun => owners'[i] = NoOwner
        BY <2>2 DEF QuietInv, Owned
      <4>3. \A s \in issued : s.id = handoff.id => s.owner = owners'[handoff.id] /\ s.id # 0
        <5>1. \A s \in issued : s.id # 0
          BY BoundAssumption DEF QuietInv, Owned, Interventions
        <5> QED
          BY <2>2, <5>1 DEF QuietInv, Owned
      <4> QED
        BY <1>1, <4>1, <4>2, <4>3 DEF QuietInv, Owned
    <3>2. SurfaceCurrent'
      BY <1>1, <1>2, <2>3 DEF QuietInv, SurfaceCurrent, Answered
    <3>3. Unspent'
      BY <1>1, <1>2 DEF QuietInv, Unspent, Answered
    <3> QED
      BY <3>1, <3>2, <3>3
  <2>5. ASSUME NEW q \in Request
        PROVE  Waits(q)'
    <3>1. CASE q = r
      <4>1. pc'[r] = "done"
        BY <1>2, QuietTyped DEF Answered, RequestTypes
      <4> QED
        BY <3>1, <4>1, NotWaiting DEF WaitingPCs, Closing
    <3>2. CASE q # r
      <4>1. pc'[q] = pc[q] /\ own'[q] = own[q] /\ token' = token /\ surface' = surface
        BY <1>1, <1>2, <3>2, QuietTyped DEF Answered, RequestTypes
      <4> QED
        BY <1>1, <2>2, <4>1, KeepsWaiting
    <3> QED
      BY <3>1, <3>2
  <2> QED
    BY <2>1, <2>4, <2>5 DEF InStep
<1>3. CASE Asked(r)
  <2>1. OneWaits'
    BY <1>1, <1>3, OneWaitsStays DEF Asked, Closing
  <2>2. Owned' /\ SurfaceCurrent' /\ Unspent'
    BY <1>1, <1>3 DEF QuietInv, Owned, OwnerPresent, SurfaceCurrent, Unspent, Asked
  <2>3. ASSUME NEW q \in Request
        PROVE  Waits(q)'
    <3>1. CASE q = r
      <4>1. /\ pc'[r] = "suspending" /\ token'[r].id = handoff.id
            /\ token'[r].epoch = handoff.epoch
        BY <1>3, QuietTyped DEF Asked, RequestTypes
      <4> QED
        BY <1>1, <1>3, <3>1, <4>1 DEF Waits, Asked, Closing
    <3>2. CASE q # r
      <4>1. pc'[q] = pc[q] /\ own'[q] = own[q] /\ token'[q] = token[q]
        BY <1>1, <1>3, <3>2, QuietTyped DEF Asked, RequestTypes
      <4> QED
        BY <1>1, <1>3, <4>1, KeepsWaiting DEF Asked
    <3> QED
      BY <3>1, <3>2
  <2> QED
    BY <2>1, <2>2, <2>3 DEF InStep
<1>4. CASE Revokes(r, t)
  <2>1. PICK to \in Closing : pc' = [pc EXCEPT ![r] = to]
    BY <1>4 DEF Revokes
  <2>2. /\ surface.phase = "active" /\ t.id = handoff.id /\ own'[r] = owners[handoff.id]
        /\ surface'.phase = "closing" /\ surface'.id = surface.id
        /\ surface'.epoch = surface.epoch
        /\ UNCHANGED <<owners, receipt, linked>>
    BY <1>4, QuietTyped DEF Revokes, SurfaceType
  <2>3. \A q \in Request : pc[q] \notin {"starting", "verify"} \cup Closing
    BY <2>2, QuietTyped DEF Waits
  <2>4. OneWaits'
    BY <2>1, <2>3, OneWaitsStays DEF Closing
  <2>5. Owned' /\ SurfaceCurrent'
    BY <1>1, <2>2 DEF QuietInv, Owned, OwnerPresent, SurfaceCurrent
  <2>6. Unspent'
    <3> SUFFICES ASSUME NEW s \in issued, s \notin spent, s # t, s.id = handoff.id
                 PROVE  FALSE
      BY <1>1 DEF Unspent
    <3>1. s.epoch = t.epoch /\ s.owner = t.owner /\ s.id = t.id
      BY <1>1, <2>2, UnspentCurrent
    <3>2. {s, t} \subseteq [id : Interventions, epoch : Nat, owner : Owner]
      BY DEF QuietInv, Owned
    <3> QED
      BY <3>1, <3>2
  <2>7. ASSUME NEW q \in Request
        PROVE  Waits(q)'
    <3>1. CASE q = r
      <4>1. pc'[r] \in Closing /\ token'[r].id = handoff.id
        BY <1>4, <2>1, QuietTyped DEF Revokes, RequestTypes
      <4>2. handoff.id # 0
        BY <1>1, <2>2, UnspentCurrent
      <4> QED
        BY <1>1, <2>2, <3>1, <4>1, <4>2 DEF Waits, Closing
    <3>2. CASE q # r
      <4>1. pc'[q] = pc[q] /\ own'[q] = own[q] /\ token'[q] = token[q]
        BY <1>1, <1>4, <2>1, <3>2, QuietTyped DEF Revokes, RequestTypes
      <4>2. Waits(q)
        BY QuietTyped
      <4> QED
        BY <1>1, <2>2, <2>3, <4>1, <4>2 DEF Waits
    <3> QED
      BY <3>1, <3>2
  <2> QED
    BY <2>4, <2>5, <2>6, <2>7 DEF InStep
<1> QED
  BY <1>2, <1>3, <1>4 DEF Continued

(* While the normal Chrome is open, nobody waits for automation to stop. *)
LEMMA NobodySuspends ==
    ASSUME QuietInv, ~ JobPending, surface.phase \in {"active", "closing"}
    PROVE  /\ \A q \in Request : pc[q] \notin {"suspending", "starting", "verify", "expiring"}
           /\ handoff.id = surface.id /\ handoff.id # 0
<1>1. ~ chrome
  BY DEF QuietInv, InTurn, SurfaceCurrent, HandoffInv, Profile
<1>2. \A q \in Request : pc[q] # "suspending"
  BY <1>1 DEF JobPending
<1> QED
  BY <1>2, QuietTyped DEF Waits, QuietInv, SurfaceCurrent

LEMMA ClosedChromeInStep ==
    ASSUME QuietInv, ~ JobPending, NEW r \in Request, ClosedChrome(r)
    PROVE  InStep'
<1>1. /\ pc[r] \in Closing /\ surface.phase = "closing" /\ handoff.id # 0
      /\ own[r] = owners[handoff.id]
  BY QuietTyped DEF ClosedChrome, Waits, Closing
<1>2. \A q \in Request \ {r} : pc[q] \notin WaitingPCs
  BY <1>1, NobodySuspends DEF QuietInv, OneWaits, WaitingPCs
<1>3. /\ surface'.phase = "none" /\ (normal' => CloseFails)
      /\ issued' = issued /\ spent' = spent /\ own' = own
  BY DEF ClosedChrome, NoSurface
<1>4. CASE /\ handoff' = Release(handoff) /\ owners' = Forget(owners, handoff.id)
           /\ pc' = [pc EXCEPT ![r] = "done"] /\ UNCHANGED <<line, body, token>>
  <2>1. /\ Owned' /\ SurfaceCurrent' /\ Unspent'
        /\ handoff'.id = 0 /\ handoff'.status = "none" /\ handoff'.begun = handoff.begun
    BY <1>1, <1>3, <1>4, Released0
  <2>2. OneWaits'
    BY <1>4, OneWaitsStays DEF Closing
  <2>3. ASSUME NEW q \in Request
        PROVE  Waits(q)'
    <3>1. pc'[q] \notin WaitingPCs
      BY <1>2, <1>4, QuietTyped DEF RequestTypes, WaitingPCs, Closing
    <3> QED
      BY <3>1, NotWaiting
  <2> QED
    BY <2>1, <2>2, <2>3 DEF InStep
<1>5. CASE /\ pc' = [pc EXCEPT ![r] = "verify"] /\ body' = [body EXCEPT ![r] = "queued"]
           /\ line' = Append(line, r) /\ owners' = owners
           /\ handoff'.id = handoff.id /\ handoff'.status = "verifying"
           /\ handoff'.begun = handoff.begun
           /\ \E e \in Nat : token' = [token EXCEPT ![r] = [id |-> handoff.id, epoch |-> e]]
  <2>1. OneWaits'
    BY <1>2, <1>5, OneWaitsStays DEF WaitingPCs, Closing
  <2>2. Owned' /\ SurfaceCurrent'
    BY <1>3, <1>5 DEF QuietInv, Owned, OwnerPresent, SurfaceCurrent
  <2>3. Unspent'
    BY <1>1, <1>3, <1>5, VerifiesUnspent DEF Unspent
  <2>4. ASSUME NEW q \in Request
        PROVE  Waits(q)'
    <3>1. CASE q = r
      <4>1. pc'[r] = "verify" /\ token'[r].id = handoff.id
        BY <1>5, QuietTyped DEF RequestTypes
      <4> QED
        BY <1>1, <1>3, <1>5, <3>1, <4>1 DEF Waits, Closing
    <3>2. CASE q # r
      <4>1. pc'[q] = pc[q]
        BY <1>5, <3>2, QuietTyped DEF RequestTypes
      <4> QED
        BY <1>2, <3>2, <4>1, NotWaiting
    <3> QED
      BY <3>1, <3>2
  <2> QED
    BY <2>1, <2>2, <2>3, <2>4 DEF InStep
<1>6. CASE /\ pc' = [pc EXCEPT ![r] = "done"]
           /\ UNCHANGED <<handoff, owners, line, body, token>>
  <2>1. OneWaits'
    BY <1>6, OneWaitsStays DEF Closing
  <2>2. Owned' /\ SurfaceCurrent'
    BY <1>3, <1>6 DEF QuietInv, Owned, OwnerPresent, SurfaceCurrent
  <2>3. Unspent'
    BY <1>1, <1>3, <1>6, VerifiesUnspent DEF Unspent
  <2>4. ASSUME NEW q \in Request
        PROVE  Waits(q)'
    <3>1. pc'[q] \notin WaitingPCs
      BY <1>2, <1>6, QuietTyped DEF RequestTypes, WaitingPCs, Closing
    <3> QED
      BY <3>1, NotWaiting
  <2> QED
    BY <2>1, <2>2, <2>3, <2>4 DEF InStep
<1> QED
  BY <1>4, <1>5, <1>6 DEF ClosedChrome

(* The Human surface is reused, busy, started, open or has failed. *)
SurfaceMove(r, to) ==
    /\ pc' = [pc EXCEPT ![r] = to] /\ linked' \subseteq linked
    /\ UNCHANGED <<handoff, owners, receipt, line, turn, own, token, body, before>>

LEMMA SurfaceMoveInStep ==
    ASSUME QuietInv, NEW r \in Request, pc[r] \in {"suspending", "starting"},
           NEW to \in {"done", "starting"}, SurfaceMove(r, to)
    PROVE  /\ OwnerPresent'
           /\ pc'[r] = to /\ \A q \in Request \ {r} : pc'[q] = pc[q]
           /\ (\A q \in Request : pc[q] # "starting") \/ to = "done" => OneWaits'
<1>1. (\A q \in Request : pc[q] # "starting") \/ to = "done" => OneWaits'
  BY OneWaitsStays DEF SurfaceMove, Closing
<1> QED
  BY <1>1, QuietTyped DEF SurfaceMove, RequestTypes, QuietInv, Owned, OwnerPresent

(* The prompt of a request that waits for its surface. *)
LEMMA IssueOwned ==
    ASSUME QuietInv, NEW r \in Request, pc[r] \in {"suspending", "starting"}, Issue(r),
           UNCHANGED <<handoff, owners>>, surface'.phase = "active",
           surface'.epoch = token[r].epoch,
           surface' = surface \/ surface.phase # "active"
    PROVE  Owned' /\ Unspent'
<1> DEFINE t == [id |-> token[r].id, epoch |-> token[r].epoch, owner |-> own[r]]
<1>1. /\ handoff.id = token[r].id /\ handoff.id # 0 /\ own[r] = owners[handoff.id]
      /\ own[r] \in Owner /\ token[r].epoch \in Nat
  <2>1. /\ handoff.id = token[r].id /\ handoff.id # 0 /\ own[r] = owners[handoff.id]
        /\ own[r] \in Owner
    BY QuietTyped DEF Waits, Fine
  <2>2. token[r] \in Token
    BY QuietTyped DEF RequestTypes
  <2> QED
    BY <2>1, <2>2 DEF Token
<1>2. handoff.id \in Interventions
  BY <1>1, QuietTyped, BoundAssumption DEF HandoffType, Interventions
<1>3. /\ t.id = handoff.id /\ t.owner = owners[handoff.id] /\ t.epoch = token[r].epoch
      /\ t \in [id : Interventions, epoch : Nat, owner : Owner]
  BY <1>1, <1>2
<1>4. issued' = issued \cup {t} /\ spent' = spent \ {t}
  BY DEF Issue
<1> HIDE DEF t
<1>5. Owned'
  BY <1>3, <1>4 DEF QuietInv, Owned, OwnerPresent
<1>6. \A s \in issued' \ spent' : s \in issued \ spent \/ s = t
  BY <1>4
<1>7. Unspent'
  <2>1. CASE surface' = surface
    BY <1>3, <1>6, <2>1 DEF QuietInv, Unspent
  <2>2. CASE surface.phase # "active"
    BY <1>3, <1>6, <2>2, VerifiesUnspent DEF Unspent
  <2> QED
    BY <2>1, <2>2
<1> QED
  BY <1>5, <1>7

LEMMA BeginSurfaceInStep ==
    ASSUME QuietInv, NEW r \in Request, BeginSurface(r)
    PROVE  InStep'
<1> DEFINE mineShown == /\ surface.phase = "active"
                        /\ surface.id = token[r].id /\ surface.epoch = token[r].epoch
<1>1. /\ pc[r] = "suspending" /\ handoff.id = token[r].id /\ handoff.id # 0
      /\ own[r] = owners[handoff.id] /\ handoff.status = "human_active"
      /\ handoff.epoch = token[r].epoch
  BY QuietTyped DEF BeginSurface, Waits
<1>2. linked' = {} /\ normal' = normal
      /\ UNCHANGED <<handoff, owners, receipt, line, turn, own, token, body, before>>
  BY DEF BeginSurface, handoffVars, queueVars
<1>3. ASSUME pc' = [pc EXCEPT ![r] = "done"], surface' = surface
      PROVE  /\ OneWaits' /\ SurfaceCurrent'
             /\ \A q \in Request : Waits(q)'
  <2>1. OneWaits' /\ pc'[r] = "done"
        /\ \A q \in Request \ {r} : pc'[q] = pc[q]
    BY <1>1, <1>2, <1>3, SurfaceMoveInStep DEF SurfaceMove
  <2>2. SurfaceCurrent'
    BY <1>2, <1>3 DEF QuietInv, SurfaceCurrent
  <2>3. ASSUME NEW q \in Request
        PROVE  Waits(q)'
    <3>1. CASE q = r
      BY <2>1, <3>1, NotWaiting DEF WaitingPCs, Closing
    <3>2. CASE q # r
      BY <1>2, <1>3, <2>1, <3>2, KeepsWaiting
    <3> QED
      BY <3>1, <3>2
  <2> QED
    BY <2>1, <2>2, <2>3
<1>4. CASE mineShown /\ pc' = [pc EXCEPT ![r] = "done"] /\ Issue(r) /\ UNCHANGED surface
  BY <1>1, <1>2, <1>3, <1>4, IssueOwned DEF InStep
<1>5. CASE /\ surface.phase # "none" /\ ~ mineShown /\ pc' = [pc EXCEPT ![r] = "done"]
           /\ UNCHANGED <<surface, clientVars>>
  <2>1. Owned' /\ Unspent'
    BY <1>2, <1>5 DEF clientVars, QuietInv, Owned, OwnerPresent, Unspent
  <2> QED
    BY <1>3, <1>5, <2>1 DEF InStep
<1>6. CASE /\ surface.phase = "none" /\ pc' = [pc EXCEPT ![r] = "starting"]
           /\ surface' = [phase |-> "starting", id |-> token[r].id, epoch |-> token[r].epoch]
           /\ UNCHANGED clientVars
  <2>1. \A q \in Request : pc[q] \notin {"starting"} \cup Closing
    BY <1>6, QuietTyped DEF Waits
  <2>2. OneWaits' /\ pc'[r] = "starting"
        /\ \A q \in Request \ {r} : pc'[q] = pc[q]
    BY <1>1, <1>2, <1>6, <2>1, SurfaceMoveInStep DEF SurfaceMove
  <2>3. surface'.phase = "starting" /\ surface'.id = handoff.id /\ surface'.epoch = handoff.epoch
    BY <1>1, <1>6
  <2>4. Owned' /\ SurfaceCurrent'
    BY <1>1, <1>2, <1>6, <2>3 DEF clientVars, QuietInv, Owned, OwnerPresent, SurfaceCurrent
  <2>5. Unspent'
    BY <1>2, <1>6, VerifiesUnspent DEF clientVars, Unspent
  <2>6. ASSUME NEW q \in Request
        PROVE  Waits(q)'
    <3>1. CASE q = r
      BY <1>1, <1>2, <2>2, <2>3, <3>1 DEF Waits, Closing
    <3>2. CASE q # r
      <4>1. Waits(q) /\ pc[q] # "verify"
        BY <1>1, QuietTyped DEF Waits
      <4> QED
        BY <1>2, <2>1, <2>2, <3>2, <4>1 DEF Waits
    <3> QED
      BY <3>1, <3>2
  <2> QED
    BY <2>2, <2>4, <2>5, <2>6 DEF InStep
<1>7. ~ SurfaceExpires
  BY DEF QuietInv, Quiet
<1> QED
  BY <1>4, <1>5, <1>6, <1>7 DEF BeginSurface

LEMMA SurfaceStartsInStep ==
    ASSUME QuietInv, NEW r \in Request, SurfaceStarts(r)
    PROVE  InStep'
<1>1. /\ pc[r] = "starting" /\ surface.phase = "starting" /\ token[r].epoch = surface.epoch
      /\ handoff.id # 0
      /\ \A q \in Request \ {r} : pc[q] \notin {"starting", "verify"} \cup Closing
  BY QuietTyped DEF SurfaceStarts, Waits, QuietInv, OneWaits
<1>2. /\ surface'.phase = "active" /\ surface'.id = surface.id /\ surface'.epoch = surface.epoch
  BY QuietTyped DEF SurfaceStarts, SurfaceType
<1>3. /\ UNCHANGED <<handoff, owners, receipt, own, token>> /\ normal' = TRUE
      /\ SurfaceMove(r, "done")
  BY DEF SurfaceStarts, SurfaceMove, handoffVars, queueVars
<1>4. OneWaits' /\ pc'[r] = "done"
      /\ \A q \in Request \ {r} : pc'[q] = pc[q]
  BY <1>1, <1>3, SurfaceMoveInStep
<1>5. Owned' /\ Unspent'
  BY <1>1, <1>2, <1>3, IssueOwned DEF SurfaceStarts
<1>6. SurfaceCurrent'
  BY <1>1, <1>2, <1>3 DEF QuietInv, SurfaceCurrent
<1>7. ASSUME NEW q \in Request
      PROVE  Waits(q)'
  <2>1. CASE q = r
    BY <1>4, <2>1, NotWaiting DEF WaitingPCs, Closing
  <2>2. CASE q # r
    <3>1. Waits(q)
      BY QuietTyped
    <3> QED
      BY <1>1, <1>3, <1>4, <2>2, <3>1 DEF Waits
  <2> QED
    BY <2>1, <2>2
<1> QED
  BY <1>4, <1>5, <1>6, <1>7 DEF InStep

LEMMA SurfaceFailsInStep ==
    ASSUME QuietInv, NEW r \in Request, SurfaceFails(r)
    PROVE  InStep'
<1>1. /\ pc[r] = "starting" /\ surface.phase = "starting"
      /\ \A q \in Request \ {r} : pc[q] \notin {"starting", "verify"} \cup Closing
  BY QuietTyped DEF SurfaceFails, Waits, QuietInv, OneWaits
<1>2. /\ UNCHANGED <<handoff, owners, receipt, own, token, normal, issued, spent>>
      /\ surface'.phase = "none" /\ SurfaceMove(r, "done")
  BY DEF SurfaceFails, SurfaceMove, NoSurface, handoffVars, queueVars, clientVars
<1>3. OneWaits' /\ pc'[r] = "done"
      /\ \A q \in Request \ {r} : pc'[q] = pc[q]
  BY <1>1, <1>2, SurfaceMoveInStep
<1>4. Owned' /\ SurfaceCurrent'
  BY <1>1, <1>2 DEF QuietInv, Owned, OwnerPresent, SurfaceCurrent
<1>5. Unspent'
  BY <1>1, <1>2, VerifiesUnspent DEF Unspent
<1>6. ASSUME NEW q \in Request
      PROVE  Waits(q)'
  <2>1. CASE q = r
    BY <1>3, <2>1, NotWaiting DEF WaitingPCs, Closing
  <2>2. CASE q # r
    <3>1. Waits(q)
      BY QuietTyped
    <3> QED
      BY <1>1, <1>2, <1>3, <2>2, <3>1 DEF Waits
  <2> QED
    BY <2>1, <2>2
<1> QED
  BY <1>3, <1>4, <1>5, <1>6 DEF InStep

LEMMA HumanDoneInStep ==
    ASSUME QuietInv, ~ JobPending, HumanDone
    PROVE  InStep'
<1>1. /\ surface.phase \in {"active", "closing"} /\ handoff.id # 0
      /\ \A q \in Request : pc[q] \notin {"suspending", "starting", "verify", "expiring"}
  BY NobodySuspends DEF HumanDone
<1>2. /\ UNCHANGED <<owners, line, turn, pc, own, token, body, before, linked, normal, surface,
                     issued, spent>>
      /\ handoff' = MarkHumanComplete(handoff)
      /\ receipt' = [id |-> handoff.id, released |-> handoff.epoch, verifying |-> handoff'.epoch]
      /\ handoff.id = surface.id /\ handoff.epoch = surface.epoch
  BY DEF HumanDone, queueVars, requestVars, browserVars, clientVars
<1>3. handoff'.id = handoff.id /\ handoff'.status = "verifying" /\ handoff'.begun = handoff.begun
  BY <1>2, QuietTyped DEF MarkHumanComplete, HandoffType
<1>4. Owned' /\ SurfaceCurrent'
  BY <1>1, <1>2, <1>3 DEF QuietInv, Owned, OwnerPresent, SurfaceCurrent
<1>5. OneWaits' /\ Unspent'
  BY <1>2, <1>3 DEF QuietInv, OneWaits, Unspent
<1>6. ASSUME NEW q \in Request
      PROVE  Waits(q)'
  <2>1. Waits(q)
    BY QuietTyped
  <2> QED
    BY <1>1, <1>2, <1>3, <2>1 DEF Waits
<1> QED
  BY <1>4, <1>5, <1>6 DEF InStep

(* The request that has the turn, or takes it, goes on with its task, b. *)

-----------------------------------------------------------------------------
OwnerActs ==
    handoff.id # 0 /\ handoff' # handoff =>
       \/ HumanDone
       \/ \E r \in Request : pc'[r] # pc[r] /\ own'[r] = owners[handoff.id]

Prompted ==
    \A t \in (issued' \ spent') \ (issued \ spent) :
       /\ handoff.id = t.id /\ handoff.epoch = t.epoch
       /\ handoff.status = "human_active"
       /\ normal'

InOrder == InStep' /\ OwnerActs /\ Prompted

LEMMA NoPrompt == ASSUME issued' = issued, spent \subseteq spent' PROVE Prompted
  BY DEF Prompted

LEMMA WorksInOrder ==
    ASSUME QuietInv, NEW r \in Request, NEW b, Works(r, b)
    PROVE  InOrder
<1>1. Owned' /\ SurfaceCurrent' /\ OneWaits' /\ Unspent'
  BY DEF Works, QuietInv, Owned, OwnerPresent, SurfaceCurrent, OneWaits, Unspent
<1>2. \A q \in Request : Waits(q)'
  BY KeepsWaiting DEF Works
<1>3. OwnerActs /\ Prompted
  BY NoPrompt DEF Works, OwnerActs
<1> QED
  BY <1>1, <1>2, <1>3 DEF InStep, InOrder

(* A task of a tool call ends in the request that has the turn. *)
LEMMA TaskInOrder ==
    ASSUME QuietInv, NEW r \in Request, body[r] \notin {"none", "queued"},
           TaskOver(r) \/ Raised(r)
    PROVE  InOrder
<1>1. InStep'
  BY TaskOverInStep, RaisedInStep
<1>2. handoff' = handoff \/ handoff.id = 0
  BY DEF TaskOver, Raised
<1>3. Prompted
  BY NoPrompt DEF TaskOver, Raised, Settled
<1> QED
  BY <1>1, <1>2, <1>3 DEF InOrder, OwnerActs

LEMMA VerificationInOrder ==
    ASSUME QuietInv, NEW r \in Request, body[r] \notin {"none", "queued"},
           Returned(r) \/ Ended(r)
    PROVE  InOrder
<1>1. InStep'
  BY ReturnedInStep, EndedInStep
<1>2. /\ pc[r] = "verify" /\ pc'[r] # "verify" /\ own' = own
  BY QuietTyped DEF Returned, Ended, Settled, RequestTypes
<1>3. OwnerActs
  BY <1>2, WaitsAlone DEF OwnerActs
<1>4. Prompted
  BY NoPrompt DEF Returned, Ended, Settled
<1> QED
  BY <1>1, <1>3, <1>4 DEF InOrder

LEMMA GetClientInOrder ==
    ASSUME QuietInv, NEW r \in Request, body[r] \in {"begin", "use"}, GetClient(r),
           handoff.id # 0 \/ r \notin linked
    PROVE  InOrder
<1>1. CASE handoff.id # 0 /\ EndTask(r, handoff, handoff.id)
  BY <1>1, TaskOverMove, TaskInOrder
<1>2. CASE handoff.id = 0 /\ Goto(r, "connect") /\ UNCHANGED browserVars
  BY <1>2, GotoWorks, WorksInOrder DEF browserVars, QuietInv
<1> QED
  BY <1>1, <1>2 DEF GetClient

LEMMA BeginSurfaceInOrder ==
    ASSUME QuietInv, NEW r \in Request, BeginSurface(r)
    PROVE  InOrder
<1>1. /\ handoff.id = token[r].id /\ handoff.status = "human_active"
      /\ handoff.epoch = token[r].epoch
  BY QuietTyped DEF BeginSurface, Waits
<1>2. ASSUME UNCHANGED clientVars
      PROVE  Prompted
  BY <1>2, NoPrompt DEF clientVars
<1>3. ASSUME surface.phase = "active", Issue(r)
      PROVE  Prompted
  <2>1. normal' = normal /\ normal
    BY <1>3 DEF BeginSurface, QuietInv, SurfaceCurrent
  <2> QED
    BY <1>1, <1>3, <2>1 DEF Issue, Prompted
<1>4. Prompted
  BY <1>2, <1>3 DEF BeginSurface
<1> QED
  BY <1>4, BeginSurfaceInStep DEF BeginSurface, handoffVars, InOrder, OwnerActs

LEMMA SurfaceInOrder ==
    ASSUME QuietInv, ~ JobPending, NEW r \in Request, SurfaceStep(r)
    PROVE  InOrder
<1>1. CASE SurfaceStarts(r)
  <2>1. /\ handoff.id = token[r].id /\ token[r].epoch = surface.epoch
        /\ surface.phase = "starting"
    BY <1>1, QuietTyped DEF SurfaceStarts, Waits
  <2>2. handoff.status = "human_active" /\ handoff.epoch = token[r].epoch
    BY <2>1 DEF QuietInv, SurfaceCurrent
  <2>3. Prompted
    BY <1>1, <2>1, <2>2 DEF SurfaceStarts, Issue, Prompted
  <2> QED
    BY <1>1, <2>3, SurfaceStartsInStep DEF SurfaceStarts, handoffVars, InOrder, OwnerActs
<1>2. CASE SurfaceFails(r)
  BY <1>2, SurfaceFailsInStep, NoPrompt
  DEF SurfaceFails, handoffVars, clientVars, InOrder, OwnerActs
<1>3. CASE Revoked(r) \/ RevokeFails(r)
  <2>1. ClosedChrome(r)
    BY <1>3, RevokedMove, RevokeFailsMove
  <2>2. pc'[r] # pc[r] /\ own' = own /\ own[r] = owners[handoff.id]
    BY <2>1, QuietTyped DEF ClosedChrome, Closing, RequestTypes, Waits
  <2> QED
    BY <2>1, <2>2, ClosedChromeInStep, NoPrompt DEF ClosedChrome, InOrder, OwnerActs
<1> QED
  BY <1>1, <1>2, <1>3 DEF SurfaceStep

LEMMA JobInOrder ==
    ASSUME QuietInv, NEW r \in Request, Job(r)
    PROVE  InOrder
<1>1. CASE Take(r)
  BY <1>1, TakeWorks, WorksInOrder DEF QuietInv
<1>2. CASE BeginTask(r)
  <2>1. r \notin linked
    BY <1>2 DEF BeginTask, QuietInv, InTurn, TurnOnly
  <2> QED
    BY <1>2, <2>1, GetClientInOrder DEF BeginTask
<1>3. CASE BeginVerification(r)
  <2>1. CASE Verifying(r) /\ Goto(r, "verifyConnect") /\ UNCHANGED browserVars
    BY <1>3, <2>1, GotoWorks, WorksInOrder DEF BeginVerification, browserVars, QuietInv
  <2>2. CASE EndVerification(r, handoff, FALSE)
    BY <1>3, <2>2, VerificationMove, VerificationInOrder DEF BeginVerification
  <2> QED
    BY <1>3, <2>1, <2>2 DEF BeginVerification
<1> QED
  BY <1>1, <1>2, <1>3, BeginSurfaceInOrder DEF Job

LEMMA BodyInOrder ==
    ASSUME QuietInv, NEW r \in Request, BodyStep(r)
    PROVE  InOrder
<1>1. CASE Again(r)
  BY <1>1, GetClientInOrder DEF Again
<1>2. CASE Connect(r)
  BY <1>2, ConnectWorks, WorksInOrder DEF QuietInv
<1>3. CASE ConnectFails(r)
  BY <1>3, TaskOverMove, TaskInOrder, VerificationMove, VerificationInOrder DEF ConnectFails
<1>4. CASE Challenge(r)
  <2>1. CASE body[r] = "use" /\ EndTask(r, Begin(handoff), Begin(handoff).id)
    <3>1. handoff.id = 0 /\ handoff.begun < MaxBegun
      BY <1>4, <2>1 DEF Challenge, QuietInv, InTurn, TurnOnly
    <3> QED
      BY <2>1, <3>1, RaisedMove, TaskInOrder
  <2>2. CASE body[r] = "verifyUse" /\ EndVerification(r, Begin(handoff), TRUE)
    <3>1. handoff.id # 0
      BY <2>2, WaitsAlone DEF QuietInv, InTurn, TurnOnly
    <3>2. Begin(handoff) = handoff
      BY <3>1 DEF Begin
    <3> QED
      BY <2>2, <3>2, VerificationMove, VerificationInOrder
  <2> QED
    BY <1>4, <2>1, <2>2 DEF Challenge
<1>5. CASE TaskEnds(r)
  BY <1>5, TaskOverMove, TaskInOrder DEF TaskEnds
<1>6. CASE StillSignedOut(r) \/ VerificationFails(r)
  BY <1>6, VerificationMove, VerificationInOrder DEF StillSignedOut, VerificationFails
<1>7. CASE Verified(r)
  BY <1>7, VerifiedMove, VerificationInOrder DEF Verified
<1> QED
  BY <1>1, <1>2, <1>3, <1>4, <1>5, <1>6, <1>7 DEF BodyStep

LEMMA ClientInOrder ==
    ASSUME QuietInv, NEW r \in Request, ClientStep(r)
    PROVE  InOrder
<1>1. ASSUME NEW w \in Owner, Call(r, w)
      PROVE  InOrder
  BY <1>1, CalledMove, CalledInStep, NoPrompt DEF Called, InOrder, OwnerActs
<1>2. ASSUME NEW t \in issued, NEW decision \in {"continue", "cancel", "missing"},
             Continue(r, t, decision)
      PROVE  InOrder
  <2>1. Continued(r, t)
    BY <1>2, ContinuedMove
  <2> QED
    BY <2>1, ContinuedInStep, NoPrompt DEF Continued, InOrder, OwnerActs
<1> QED
  BY <1>1, <1>2 DEF ClientStep

LEMMA QuietStep == ASSUME QuietInv, [Next]_vars, timeouts' = 0 PROVE InOrder /\ QuietInv'
<1>1. InTurn'
  BY InTurnStep DEF QuietInv
<1>2. InOrder
  <2>1. CASE UNCHANGED vars
    <3>1. InStep'
      BY <2>1 DEF vars, handoffVars, queueVars, requestVars, browserVars, clientVars, QuietInv,
                  InStep, Owned, OwnerPresent, SurfaceCurrent, Waits, OneWaits, Unspent
    <3> QED
      BY <2>1, <3>1, NoPrompt DEF vars, handoffVars, clientVars, InOrder, OwnerActs
  <2>2. CASE \E r \in Request : Job(r)
    BY <2>2, JobInOrder
  <2>3. CASE ~ JobPending /\ Event
    <3>1. \A r \in Request : ~ Timeout(r)
      BY FirstTimeout DEF QuietInv, InTurn
    <3>2. ~ ResetCancels /\ \A r \in Request : ~ ResetDone(r)
      BY DEF QuietInv, InTurn, TurnOnly, ResetCancels, ResetDone
    <3>3. CASE HumanDone
      BY <2>3, <3>3, HumanDoneInStep, NoPrompt DEF HumanDone, clientVars, InOrder, OwnerActs
    <3> QED
      BY <2>3, <3>1, <3>2, <3>3, BodyInOrder, SurfaceInOrder, ClientInOrder DEF Event
  <2> QED
    BY <2>1, <2>2, <2>3 DEF Next
<1> QED
  BY <1>1, <1>2 DEF InOrder, InStep, QuietInv, Quiet

LEMMA QuietInit == Init /\ Quiet => QuietInv
<1> SUFFICES ASSUME Init, Quiet
             PROVE  QuietInv
  OBVIOUS
<1>1. Owned /\ SurfaceCurrent
  BY DEF Init, Owned, OwnerPresent, SurfaceCurrent, NoHandoff, NoSurface
<1>2. (\A r \in Request : Waits(r)) /\ OneWaits /\ Unspent
  BY DEF Init, Waits, OneWaits, Unspent, Closing
<1> QED
  BY <1>1, <1>2, InTurnInit DEF QuietInv

LEMMA QuietInvariance == ASSUME Quiet PROVE Spec => [](timeouts = 0 => QuietInv)
<1> DEFINE Inv == timeouts = 0 => QuietInv
<1>1. Init => Inv
  BY QuietInit
<1>2. Inv /\ HandoffInv /\ [Next]_vars => Inv'
  BY FirstTimeout, QuietStep
<1> QED
  BY <1>1, <1>2, Invariance, PTL DEF Spec

(* Until an operation times out, every active intervention has an owner, also
   if the normal Chrome cannot be closed (executeToolTask(), finally). *)
THEOREM OwnerPresentUntilTimeout ==
    ASSUME Quiet PROVE Spec => [](timeouts = 0 => OwnerPresent)
<1>1. (timeouts = 0 => QuietInv) => (timeouts = 0 => OwnerPresent)
  BY DEF QuietInv, Owned
<1> QED
  BY <1>1, QuietInvariance, PTL

(* Until an operation times out, agent authority is never back while the
   Human's browser is open, if that closes when it is told to: a handler that
   cancels or verifies has awaited its end (revokeCredentialSafeSurface()). *)
THEOREM AuthorityExclusiveUntilTimeout ==
    ASSUME Quiet, ~ CloseFails PROVE Spec => [](timeouts = 0 => AuthorityExclusive)
<1>1. QuietInv => AuthorityExclusive
  <2> SUFFICES ASSUME QuietInv, normal
               PROVE  Authority(handoff) # "agent"
    BY DEF AuthorityExclusive
  <2>1. handoff.status \in {"human_active", "verifying"}
    BY DEF QuietInv, SurfaceCurrent
  <2> QED
    BY <2>1 DEF Authority
<1> QED
  BY <1>1, QuietInvariance, PTL

(* A step up to the first timeout changes an active intervention only if it is
   the Human's surface's or a request's of its owner, and lets a prompt out
   only for the intervention that is in Human hands then, with the Human's
   browser open. *)
THEOREM InOrderUntilTimeout ==
    ASSUME Quiet PROVE Spec => [][timeouts' = 0 => OwnerActs /\ Prompted]_vars
<1>1. HandoffInv /\ (timeouts = 0 => QuietInv) /\ [Next]_vars
        => [timeouts' = 0 => OwnerActs /\ Prompted]_vars
  BY FirstTimeout, QuietStep DEF InOrder
<1> QED
  BY <1>1, Invariance, QuietInvariance, PTL DEF Spec

(* Where no operation times out at all: agent authority and the Human's
   browser exclude each other. *)
THEOREM AuthorityExclusiveHolds ==
    ASSUME Quiet, MaxTimeouts = 0, ~ CloseFails PROVE Spec => []AuthorityExclusive
  BY AuthorityExclusiveUntilTimeout, NoTimeouts, PTL

(* An active intervention has an owner, who can resume or cancel it. *)
THEOREM OwnerPresentHolds ==
    ASSUME Quiet, MaxTimeouts = 0 PROVE Spec => []OwnerPresent
  BY OwnerPresentUntilTimeout, NoTimeouts, PTL

(* Nobody but the Human's surface and requests of its owner changes an active
   intervention. *)
THEOREM OnlyOwnerActsHolds ==
    ASSUME Quiet, MaxTimeouts = 0 PROVE Spec => OnlyOwnerActs
<1> DEFINE Step == handoff.id # 0 /\ handoff' # handoff =>
         \/ HumanDone
         \/ \E r \in Request : /\ pc'[r] # pc[r]
                               /\ own'[r] = owners[handoff.id]
<1>1. (timeouts = 0)' /\ [timeouts' = 0 => OwnerActs /\ Prompted]_vars => [Step]_vars
  BY DEF OwnerActs
<1> QED
  BY <1>1, InOrderUntilTimeout, NoTimeouts, PTL DEF OnlyOwnerActs

(* A prompt goes out only for the intervention that is in Human hands then,
   with the Human's browser open. *)
THEOREM PromptCurrentHolds ==
    ASSUME Quiet, MaxTimeouts = 0 PROVE Spec => PromptCurrent
<1> DEFINE Step == \A t \in (issued' \ spent') \ (issued \ spent) :
          /\ handoff.id = t.id /\ handoff.epoch = t.epoch
          /\ handoff.status = "human_active"
          /\ normal'
<1>1. (timeouts = 0)' /\ [timeouts' = 0 => OwnerActs /\ Prompted]_vars => [Step]_vars
  BY DEF Prompted
<1> QED
  BY <1>1, InOrderUntilTimeout, NoTimeouts, PTL DEF PromptCurrent
=============================================================================
