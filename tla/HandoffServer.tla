---------------------------- MODULE HandoffServer ----------------------------
(***************************************************************************)
(* The MCP server's Human handoff: the tool handlers of src/src/server.ts  *)
(* together with the authority checks of src/src/browser/runtime.ts, the   *)
(* lifecycle bridge, the credential-safe Human surface and the operation   *)
(* queue with its watchdog.                                                *)
(*                                                                         *)
(* A request is one MCP tool call.  A handler runs without interruption    *)
(* between two awaits, and that is what an action here is: the requests    *)
(* interleave only where the code awaits the queue, the browser or the     *)
(* Human surface.  The task of a request that the watchdog gave up goes on *)
(* as a zombie (OperationQueue).                                           *)
(*                                                                         *)
(* The browser is what two processes may do to one profile directory: the  *)
(* automation Chrome with its CDP client, and the normal Chrome the Human  *)
(* uses.  The content of pages, prompts and results is left out; what a    *)
(* page shows is a choice.                                                 *)
(***************************************************************************)
EXTENDS ExecutionHandoff, Sequences, FiniteSets

CONSTANTS
    Request,       \* MCP requests
    Owner,         \* principal, tool, arguments and resume strategy
    RetryOwner,    \* the owners whose strategy is "retry_original"
    NoOwner,
    MaxPending,    \* config.policy.maxPendingActions
    MaxBegun,      \* bound: interventions begun
    MaxTimeouts,   \* bound: operations the watchdog gives up
    Resubmit,      \* whether a client may submit a requestState twice
    CloseFails,    \* whether closing the normal Chrome can fail
    SurfaceExpires \* whether a Human surface can expire

ASSUME RetryOwnerAssumption == RetryOwner \subseteq Owner /\ NoOwner \notin Owner
ASSUME BoundAssumption == {MaxPending, MaxBegun, MaxTimeouts} \subseteq Nat /\ MaxPending > 0
ASSUME FlagAssumption == {Resubmit, CloseFails, SurfaceExpires} \subseteq BOOLEAN

VARIABLES
    handoff,   \* ExecutionHandoffState
    owners,    \* the Map handoffOwners
    receipt,   \* the bridge's AuthorityReleaseReceipt
    line,      \* the operations in the queue, the first one holds the turn
    turn,      \* "free", "running", "resetting" or "closing"
    timeouts,  \* how often the watchdog has fired
    pc,        \* what each request's handler awaits
    own,       \* the owner a request acts for
    token,     \* the intervention and epoch a request is about
    safe,      \* usedCredentialSafeSurface
    body,      \* what the task of a request awaits
    before,    \* interventionBefore
    linked,    \* the tasks that hold the live CDP client
    chrome,    \* whether the automation Chrome runs
    normal,    \* whether the normal Chrome runs
    surface,   \* the credential-safe Human surface
    issued,    \* the requestStates minted
    spent      \* the requestStates submitted

handoffVars == <<handoff, owners, receipt>>
queueVars == <<line, turn, timeouts>>
requestVars == <<pc, own, token, safe, body, before>>
browserVars == <<linked, chrome, normal, surface>>
clientVars == <<issued, spent>>
vars == <<handoffVars, queueVars, requestVars, browserVars, clientVars>>

Interventions == 1 .. MaxBegun
Token == [id : 0 .. MaxBegun, epoch : Nat]
NoToken == [id |-> 0, epoch |-> 0]
NoReceipt == [id |-> 0, released |-> 0, verifying |-> 0]
NoSurface == [phase |-> "none", id |-> 0, epoch |-> 0]

PCs == {"idle", "task", "verify", "suspending", "starting", "expiring",
        "revokeToVerify", "revokeToCancel", "done"}
Bodies == {"none", "queued", "begin", "connect", "use",
           "verifyBegin", "verifyConnect", "verifyUse"}

TypeOK ==
    /\ handoff \in [id : 0 .. MaxBegun, status : Statuses, epoch : Nat,
                    begun : 0 .. MaxBegun]
    /\ owners \in [Interventions -> Owner \cup {NoOwner}]
    /\ receipt \in [id : 0 .. MaxBegun, released : Nat, verifying : Nat]
    /\ line \in Seq(Request)
    /\ turn \in {"free", "running", "resetting", "closing"}
    /\ timeouts \in 0 .. MaxTimeouts
    /\ pc \in [Request -> PCs]
    /\ own \in [Request -> Owner \cup {NoOwner}]
    /\ token \in [Request -> Token]
    /\ safe \in [Request -> BOOLEAN]
    /\ body \in [Request -> Bodies]
    /\ before \in [Request -> 0 .. MaxBegun]
    /\ linked \subseteq Request
    /\ {chrome, normal} \subseteq BOOLEAN
    /\ surface \in [phase : {"none", "starting", "active", "closing"},
                    id : 0 .. MaxBegun, epoch : Nat]
    /\ spent \subseteq issued
    /\ \A t \in issued : t.id \in Interventions /\ t.epoch \in Nat /\ t.owner \in Owner

Init ==
    /\ handoff = NoHandoff
    /\ owners = [i \in Interventions |-> NoOwner]
    /\ receipt = NoReceipt
    /\ line = <<>>
    /\ turn = "free"
    /\ timeouts = 0
    /\ pc = [r \in Request |-> "idle"]
    /\ own = [r \in Request |-> NoOwner]
    /\ token = [r \in Request |-> NoToken]
    /\ safe = [r \in Request |-> FALSE]
    /\ body = [r \in Request |-> "none"]
    /\ before = [r \in Request |-> 0]
    /\ linked = {}
    /\ chrome = FALSE
    /\ normal = FALSE
    /\ surface = NoSurface
    /\ issued = {}
    /\ spent = {}

-----------------------------------------------------------------------------
(* Pieces of handlers.  Each one ends the current segment of request r: it  *)
(* sets handoff', owners' and receipt' from the values the segment computed *)
(* so far (h, ow, rc), and pc' to what r awaits next.                       *)

Reply(r, h, ow, rc) ==
    /\ handoff' = h /\ owners' = ow /\ receipt' = rc
    /\ pc' = [pc EXCEPT ![r] = "done"]
    /\ UNCHANGED <<token, safe>>

Forget(ow, i) == [ow EXCEPT ![i] = NoOwner]

(* MapsHandoffLifecycleBridge.clear() *)
ClearReceipt(rc, i) == IF rc.id = i THEN NoReceipt ELSE rc

(* MapsHandoffLifecycleBridge.matchesReleasedContinuation() *)
Released(h, rc, i, e) ==
    /\ h.id = i /\ h.status = "verifying"
    /\ rc.id = i /\ rc.released = e /\ rc.verifying = h.epoch

(* The definitions named Slip... are plausible mistakes in the definition that
   follows them.  Nothing uses them but the runs that show that a property
   would notice. *)
InHumanHands(h) == h.status = "human_active"

(* humanInputRequired() up to its first await: the Human gets control and the
   automation client is dropped (prepareHandoffPrompt calls
   suspendAutomationForCredentialSafeHumanControl).  others are the clients
   that would be left if it is not. *)
HumanInput(r, i, h, ow, rc, others) ==
    LET claimed == IF h.status = "awaiting_human" THEN ClaimHuman(h) ELSE h
        mine == ow[i] = own[r]
        active == h.id = i
    IN  \/ /\ ~ mine
           /\ Reply(r, h, ow, rc)
           /\ linked' = others
        \/ /\ mine /\ ~ active
           /\ Reply(r, h, Forget(ow, i), rc)
           /\ linked' = others
        \/ /\ mine /\ active /\ ~ InHumanHands(claimed)
           /\ Reply(r, claimed, ow, rc)
           /\ linked' = others
        \/ /\ mine /\ active /\ InHumanHands(claimed)
           /\ handoff' = claimed /\ owners' = ow /\ receipt' = rc
           /\ token' = [token EXCEPT ![r] = [id |-> i, epoch |-> claimed.epoch]]
           /\ pc' = [pc EXCEPT ![r] = "suspending"]
           /\ linked' = {}
           /\ UNCHANGED safe

SlipRecover(r, needsHuman, h, rc, others) ==
    LET i == token[r].id IN
    IF needsHuman /\ h.id = i /\ h.status = "verifying"
    THEN HumanInput(r, i, ClaimHuman(h), Forget(owners, i), ClearReceipt(rc, i), others)
    ELSE /\ Reply(r, CancelIf(h, i), Forget(owners, i), ClearReceipt(rc, i))
         /\ linked' = others

(* The catch block of a continuation: a failed verification returns control
   to the Human, any other failure cancels the intervention. *)
Recover(r, needsHuman, h, rc, others) ==
    LET i == token[r].id IN
    IF needsHuman /\ h.id = i /\ h.status = "verifying"
    THEN HumanInput(r, i, ClaimHuman(h), owners, ClearReceipt(rc, i), others)
    ELSE /\ Reply(r, CancelIf(h, i), Forget(owners, i), ClearReceipt(rc, i))
         /\ linked' = others

(* operationQueue.run(): r's operation joins the line it finds, or
   SERVER_BUSY is thrown. *)
Full(queue) == Len(queue) >= MaxPending

Enqueue(r, queue, kind) ==
    /\ line' = Append(queue, r)
    /\ pc' = [pc EXCEPT ![r] = kind]
    /\ body' = [body EXCEPT ![r] = "queued"]

(* The rest of a continuation once the Human surface is gone: ensureVerifying,
   then verification in the queue. *)
Verify(r, i, e, useSafe) ==
    LET ends == handoff.id = i /\ handoff.status = "human_active" /\ handoff.epoch = e
        h == IF ends THEN MarkHumanComplete(handoff) ELSE handoff
    IN  \/ /\ ~ (ends \/ Released(handoff, receipt, i, e))
           /\ Reply(r, CancelIf(handoff, i), Forget(owners, i), ClearReceipt(receipt, i))
           /\ UNCHANGED <<line, body>>
        \/ /\ ends \/ Released(handoff, receipt, i, e)
           /\ Full(line)
           /\ Reply(r, CancelIf(h, i), Forget(owners, i), ClearReceipt(receipt, i))
           /\ UNCHANGED <<line, body>>
        \/ /\ ends \/ Released(handoff, receipt, i, e)
           /\ ~ Full(line)
           /\ handoff' = h
           /\ Enqueue(r, line, "verify")
           /\ token' = [token EXCEPT ![r] = [id |-> i, epoch |-> e]]
           /\ safe' = [safe EXCEPT ![r] = useSafe]
           /\ UNCHANGED <<owners, receipt>>

(* The end of cancelIntervention(). *)
CancelNow(r, i) ==
    Reply(r, CancelIf(handoff, i), Forget(owners, i), ClearReceipt(receipt, i))

-----------------------------------------------------------------------------
(* The client.                                                             *)

SlipCall(r, w) ==
    /\ pc[r] = "idle"
    /\ ~ Full(line) /\ Enqueue(r, line, "task")
    /\ UNCHANGED <<handoffVars, turn, timeouts, own, token, safe, before,
                   browserVars, clientVars>>

(* A tool call without requestState: executeToolTask(). *)
Call(r, w) ==
    /\ pc[r] = "idle"
    /\ own' = [own EXCEPT ![r] = w]
    /\ \/ /\ Full(line)
          /\ pc' = [pc EXCEPT ![r] = "done"]
          /\ UNCHANGED <<line, body>>
       \/ /\ ~ Full(line)
          /\ Enqueue(r, line, "task")
    /\ UNCHANGED <<handoffVars, turn, timeouts, token, safe, before,
                   browserVars, clientVars>>

(* A tool call that returns a requestState: runToolWithHandoff() up to its
   first await.  While a surface is being revoked the package may still report
   it, and a second revocation fails, or not report it any more: the
   repository does not tell. *)
Continue(r, t, decision) ==
    LET mine == owners[t.id] = t.owner
        sameGeneration == /\ handoff.id = t.id /\ handoff.epoch = t.epoch
                          /\ handoff.status = "human_active"
        released == Released(handoff, receipt, t.id, t.epoch)
        current == sameGeneration \/ released
        shown == surface.phase = "active" /\ surface.id = t.id
        closing == surface.phase = "closing" /\ surface.id = t.id
        revoke == /\ surface' = [surface EXCEPT !.phase = "closing"]
                  /\ token' = [token EXCEPT ![r] =
                                  [id |-> t.id,
                                   epoch |-> IF decision = "continue" THEN surface.epoch
                                             ELSE t.epoch]]
                  /\ UNCHANGED <<handoffVars, line, body, linked, safe>>
    IN
    /\ pc[r] = "idle"
    /\ Resubmit \/ t \notin spent
    /\ own' = [own EXCEPT ![r] = t.owner]
    /\ spent' = spent \cup {t}
    /\ UNCHANGED <<turn, timeouts, before, chrome, normal, issued>>
    /\ \/ /\ ~ mine
          /\ Reply(r, handoff, owners, receipt)
          /\ UNCHANGED <<line, body, linked, surface>>
       \/ /\ mine /\ ~ current
          /\ Reply(r, handoff, Forget(owners, t.id), ClearReceipt(receipt, t.id))
          /\ UNCHANGED <<line, body, linked, surface>>
       \/ /\ mine /\ released /\ decision = "missing"
          /\ Reply(r, handoff, owners, receipt)
          /\ UNCHANGED <<line, body, linked, surface>>
       \/ /\ mine /\ sameGeneration /\ decision = "missing"
          /\ handoff' = handoff /\ owners' = owners /\ receipt' = receipt
          /\ token' = [token EXCEPT ![r] = [id |-> t.id, epoch |-> t.epoch]]
          /\ pc' = [pc EXCEPT ![r] = "suspending"]
          /\ linked' = {}
          /\ UNCHANGED <<line, body, surface, safe>>
       \/ /\ mine /\ current /\ decision = "cancel" /\ shown
          /\ revoke
          /\ pc' = [pc EXCEPT ![r] = "revokeToCancel"]
       \/ /\ mine /\ current /\ decision = "cancel" /\ ~ shown
          /\ CancelNow(r, t.id)
          /\ UNCHANGED <<line, body, linked, surface>>
       \/ /\ mine /\ current /\ decision = "cancel" /\ closing
          /\ Reply(r, handoff, owners, receipt)
          /\ UNCHANGED <<line, body, linked, surface>>
       \/ /\ mine /\ current /\ decision = "continue" /\ closing
          /\ CancelNow(r, t.id)
          /\ UNCHANGED <<line, body, linked, surface>>
       \/ /\ mine /\ current /\ decision = "continue" /\ shown
          /\ revoke
          /\ pc' = [pc EXCEPT ![r] = "revokeToVerify"]
       \/ /\ mine /\ current /\ decision = "continue" /\ ~ shown
          /\ Verify(r, t.id, t.epoch, FALSE)
          /\ UNCHANGED <<linked, surface>>

-----------------------------------------------------------------------------
(* The Human surface.                                                      *)

Issue(r) ==
    LET t == [id |-> token[r].id, epoch |-> token[r].epoch, owner |-> own[r]]
    IN  issued' = issued \cup {t} /\ spent' = spent \ {t}

(* The automation Chrome is gone, with the connections that were made to it in
   the meantime, and CredentialSafeHumanSurfaceRuntime.begin() is called: an
   active surface of the same generation is reused unless it has expired. *)
BeginSurface(r) ==
    LET mineShown == /\ surface.phase = "active"
                     /\ surface.id = token[r].id /\ surface.epoch = token[r].epoch
    IN
    /\ pc[r] = "suspending"
    /\ chrome' = FALSE /\ linked' = {}
    /\ \/ /\ mineShown
          /\ pc' = [pc EXCEPT ![r] = "done"]
          /\ Issue(r)
          /\ UNCHANGED surface
       \/ /\ mineShown /\ SurfaceExpires
          /\ pc' = [pc EXCEPT ![r] = "expiring"]
          /\ surface' = [surface EXCEPT !.phase = "closing"]
          /\ UNCHANGED clientVars
       \/ /\ surface.phase # "none" /\ ~ mineShown
          /\ pc' = [pc EXCEPT ![r] = "done"]
          /\ UNCHANGED <<surface, clientVars>>
       \/ /\ surface.phase = "none"
          /\ pc' = [pc EXCEPT ![r] = "starting"]
          /\ surface' = [phase |-> "starting", id |-> token[r].id, epoch |-> token[r].epoch]
          /\ UNCHANGED clientVars
    /\ UNCHANGED <<handoffVars, queueVars, own, token, safe, body, before, normal>>

(* CredentialTakeoverHumanProvider.begin(): the normal Chrome opens once the
   profile is unlocked, and the prompt goes to the client. *)
SurfaceStarts(r) ==
    /\ pc[r] = "starting"
    /\ ~ chrome /\ ~ normal
    /\ normal' = TRUE
    /\ surface' = [surface EXCEPT !.phase = "active"]
    /\ Issue(r)
    /\ pc' = [pc EXCEPT ![r] = "done"]
    /\ UNCHANGED <<handoffVars, queueVars, own, token, safe, body, before, linked, chrome>>

SurfaceFails(r) ==
    /\ pc[r] = "starting"
    /\ surface' = NoSurface
    /\ pc' = [pc EXCEPT ![r] = "done"]
    /\ UNCHANGED <<handoffVars, queueVars, own, token, safe, body, before,
                   linked, chrome, normal, clientVars>>

(* The Human finishes, or the transport loses authority:
   handleBrowserHandoffAuthorityReleased(). *)
HumanDone ==
    /\ surface.phase \in {"active", "closing"}
    /\ handoff.id = surface.id /\ handoff.epoch = surface.epoch
    /\ handoff.status = "human_active"
    /\ handoff' = MarkHumanComplete(handoff)
    /\ receipt' = [id |-> handoff.id, released |-> handoff.epoch,
                   verifying |-> handoff'.epoch]
    /\ UNCHANGED <<owners, queueVars, requestVars, browserVars, clientVars>>

(* revoke() of the provider closes the normal Chrome before it returns. *)
SlipSurfaceGone == surface' = NoSurface /\ UNCHANGED normal
SurfaceGone == surface' = NoSurface /\ normal' = FALSE

(* revokeCredentialSafeSurface() ends: the normal Chrome has closed. *)
Revoked(r) ==
    /\ pc[r] \in {"revokeToVerify", "revokeToCancel", "expiring"}
    /\ SurfaceGone
    /\ \/ /\ pc[r] = "revokeToVerify"
          /\ Verify(r, token[r].id, token[r].epoch, TRUE)
       \/ /\ pc[r] = "revokeToCancel"
          /\ CancelNow(r, token[r].id)
          /\ UNCHANGED <<line, body>>
       \/ /\ pc[r] = "expiring"
          /\ Reply(r, handoff, owners, receipt)
          /\ UNCHANGED <<line, body>>
    /\ UNCHANGED <<turn, timeouts, own, before, linked, chrome, clientVars>>

(* ... or it fails, because the profile stays locked by the normal Chrome:
   cancelIntervention() lets the error through, a continuation catches it. *)
RevokeFails(r) ==
    /\ CloseFails
    /\ pc[r] \in {"revokeToVerify", "revokeToCancel", "expiring"}
    /\ surface' = NoSurface
    /\ \/ /\ pc[r] = "revokeToVerify"
          /\ CancelNow(r, token[r].id)
       \/ /\ pc[r] # "revokeToVerify"
          /\ Reply(r, handoff, owners, receipt)
    /\ UNCHANGED <<queueVars, own, body, before, linked, chrome, normal, clientVars>>

-----------------------------------------------------------------------------
(* The queue and the tasks in it.                                          *)

HasTurn(r) == turn = "running" /\ Head(line) = r

SlipLeaveQueue(r) ==
    IF turn = "running" THEN line' = Tail(line) /\ turn' = "free"
    ELSE UNCHANGED <<line, turn>>

(* The turn of r ends with its result, or its task was a zombie whose result
   is dropped. *)
LeaveQueue(r) ==
    IF HasTurn(r) THEN line' = Tail(line) /\ turn' = "free"
    ELSE UNCHANGED <<line, turn>>

(* The intervention at the end of the task is not the one from its start. *)
SlipNewIntervention(r, h) == h.id # 0
NewIntervention(r, h) == h.id # 0 /\ h.id # before[r]

(* The task of a tool call ends with handoff state h; i is the intervention a
   HUMAN_INTERVENTION_REQUIRED error carries, 0 for any other end.  First the
   finally block binds an intervention that is not the one from before the
   task to the request's owner, and cancels it if it cannot. *)
EndTask(r, h, i) ==
    LET new == NewIntervention(r, h)
        bound == IF new THEN BoundOwner(owners[h.id], h.status, own[r], NoOwner) ELSE own[r]
        mine == bound = own[r]
        h2 == IF mine THEN h ELSE Release(h)
        ow2 == IF new /\ mine THEN [owners EXCEPT ![h.id] = own[r]] ELSE owners
        rest == linked \ {r}
    IN
    /\ body' = [body EXCEPT ![r] = "none"]
    /\ LeaveQueue(r)
    /\ \/ /\ HasTurn(r) /\ mine /\ i # 0
          /\ HumanInput(r, i, h2, ow2, receipt, rest)
       \/ /\ HasTurn(r) /\ (~ mine \/ i = 0)
          /\ Reply(r, h2, ow2, receipt)
          /\ linked' = rest
       \/ /\ ~ HasTurn(r)
          /\ handoff' = h2 /\ owners' = ow2 /\ linked' = rest
          /\ UNCHANGED <<receipt, pc, token, safe>>
    /\ UNCHANGED <<timeouts, own, before, chrome, normal, surface, clientVars>>

(* A verification ends without success. *)
EndVerification(r, h, needsHuman) ==
    /\ body' = [body EXCEPT ![r] = "none"]
    /\ LeaveQueue(r)
    /\ \/ /\ HasTurn(r)
          /\ Recover(r, needsHuman, h, receipt, linked \ {r})
       \/ /\ ~ HasTurn(r)
          /\ handoff' = h
          /\ linked' = linked \ {r}
          /\ UNCHANGED <<owners, receipt, pc, token, safe>>
    /\ UNCHANGED <<timeouts, own, before, chrome, normal, surface, clientVars>>

(* The turn of the first operation comes. *)
Take(r) ==
    /\ turn = "free" /\ line # <<>> /\ r = Head(line)
    /\ turn' = "running"
    /\ \/ /\ pc[r] = "task"
          /\ before' = [before EXCEPT ![r] = handoff.id]
          /\ body' = [body EXCEPT ![r] = "begin"]
       \/ /\ pc[r] = "verify"
          /\ body' = [body EXCEPT ![r] = "verifyBegin"]
          /\ UNCHANGED before
    /\ UNCHANGED <<handoffVars, line, timeouts, pc, own, token, safe, browserVars, clientVars>>

Goto(r, b) ==
    /\ body' = [body EXCEPT ![r] = b]
    /\ UNCHANGED <<handoffVars, queueVars, pc, own, token, safe, before, clientVars>>

SlipGetClient(r) == Goto(r, "connect") /\ UNCHANGED browserVars

(* getClient() checks that no intervention is active, and only then awaits
   the connection.  A task calls it first and again for every page access;
   Again matters only once there is something new for it to find. *)
GetClient(r) ==
    \/ handoff.id # 0 /\ EndTask(r, handoff, handoff.id)
    \/ handoff.id = 0 /\ Goto(r, "connect") /\ UNCHANGED browserVars

BeginTask(r) == body[r] = "begin" /\ GetClient(r)

Again(r) ==
    /\ body[r] = "use"
    /\ handoff.id # 0 \/ r \notin linked
    /\ GetClient(r)

(* ensureConnected(): the live client is used, or Chrome started and a client
   attached.  Chrome refuses a profile another Chrome has open. *)
Connect(r) ==
    /\ body[r] \in {"connect", "verifyConnect"}
    /\ ~ normal
    /\ chrome' = TRUE
    /\ linked' = linked \cup {r}
    /\ Goto(r, IF body[r] = "connect" THEN "use" ELSE "verifyUse")
    /\ UNCHANGED <<normal, surface>>

ConnectFails(r) ==
    \/ body[r] = "connect" /\ EndTask(r, handoff, 0)
    \/ body[r] = "verifyConnect" /\ EndVerification(r, handoff, FALSE)

(* requireHumanIntervention(): the page shows a sign-in, consent or challenge. *)
Challenge(r) ==
    /\ r \in linked
    /\ handoff.id # 0 \/ handoff.begun < MaxBegun
    /\ \/ body[r] = "use" /\ EndTask(r, Begin(handoff), Begin(handoff).id)
       \/ body[r] = "verifyUse" /\ EndVerification(r, Begin(handoff), TRUE)

(* The task returns a result or any other error. *)
TaskEnds(r) == body[r] = "use" /\ EndTask(r, handoff, 0)

(* verifyHumanIntervention() and verifyCredentialSafeHumanIntervention(). *)
SlipVerifying(r) == handoff.id \in {0, token[r].id}
Verifying(r) == handoff.id = token[r].id /\ handoff.status = "verifying"

BeginVerification(r) ==
    /\ body[r] = "verifyBegin"
    /\ \/ Verifying(r) /\ Goto(r, "verifyConnect") /\ UNCHANGED browserVars
       \/ ~ Verifying(r) /\ EndVerification(r, handoff, FALSE)

StillSignedOut(r) ==
    /\ body[r] = "verifyUse" /\ r \in linked /\ safe[r]
    /\ EndVerification(r, handoff, TRUE)

VerificationFails(r) == body[r] = "verifyUse" /\ EndVerification(r, handoff, FALSE)

(* markVerified(), and for the operation that still has the turn the end of
   runToolWithHandoff(): Agent authority is restored, and a "retry_original"
   call is executed anew. *)
Verified(r) ==
    LET i == token[r].id
        forgotten == Forget(owners, i)
        cleared == ClearReceipt(receipt, i)
        queue == Tail(line)
    IN
    /\ body[r] = "verifyUse" /\ r \in linked /\ Verifying(r)
    /\ linked' = linked \ {r}
    /\ \/ /\ ~ HasTurn(r)
          /\ handoff' = MarkVerified(handoff)
          /\ body' = [body EXCEPT ![r] = "none"]
          /\ UNCHANGED <<owners, receipt, line, turn, pc, token, safe>>
       \/ /\ HasTurn(r)
          /\ own[r] \notin RetryOwner \/ Full(queue)
          /\ Reply(r, Release(handoff), forgotten, cleared)
          /\ line' = queue /\ turn' = "free"
          /\ body' = [body EXCEPT ![r] = "none"]
       \/ /\ HasTurn(r)
          /\ own[r] \in RetryOwner /\ ~ Full(queue)
          /\ handoff' = Release(handoff) /\ owners' = forgotten /\ receipt' = cleared
          /\ Enqueue(r, queue, "task") /\ turn' = "free"
          /\ UNCHANGED <<token, safe>>
    /\ UNCHANGED <<timeouts, own, before, chrome, normal, surface, clientVars>>

-----------------------------------------------------------------------------
(* The watchdog: onTimeout is MapsBrowserRuntime.close().                  *)

SlipTimeout(r) ==
    /\ HasTurn(r) /\ pc[r] = "task" /\ timeouts < MaxTimeouts
    /\ timeouts' = timeouts + 1
    /\ turn' = "resetting"
    /\ linked' = {}
    /\ UNCHANGED <<handoffVars, line, requestVars, chrome, normal, surface, clientVars>>

(* The timer fires, and close() drops the client. *)
Timeout(r) ==
    /\ HasTurn(r) /\ timeouts < MaxTimeouts
    /\ timeouts' = timeouts + 1
    /\ turn' = "resetting"
    /\ linked' = {}
    /\ UNCHANGED <<handoffVars, line, requestVars, chrome, normal, surface, clientVars>>

(* close() goes on once the client is closed: whatever intervention is active
   by then is cancelled. *)
ResetCancels ==
    /\ turn = "resetting"
    /\ turn' = "closing"
    /\ handoff' = Release(handoff)
    /\ UNCHANGED <<owners, receipt, line, timeouts, requestVars, browserVars, clientVars>>

(* Chrome has been stopped and OPERATION_TIMEOUT reaches the handler. *)
ResetDone(r) ==
    /\ turn = "closing" /\ r = Head(line)
    /\ line' = Tail(line) /\ turn' = "free"
    /\ chrome' = FALSE
    /\ \/ pc[r] = "task" /\ Reply(r, handoff, owners, receipt) /\ linked' = {}
       \/ pc[r] = "verify" /\ Recover(r, FALSE, handoff, receipt, {})
    /\ UNCHANGED <<timeouts, own, body, before, normal, surface, clientVars>>

-----------------------------------------------------------------------------
(* Promise jobs run before the next event is handled: a task starts as soon
   as it has the turn, and stopping a Chrome that is not running takes no
   time. *)
JobPending ==
    \/ turn = "free" /\ line # <<>>
    \/ \E r \in Request : body[r] \in {"begin", "verifyBegin"}
    \/ ~ chrome /\ \E r \in Request : pc[r] = "suspending"

Job(r) == Take(r) \/ BeginTask(r) \/ BeginVerification(r) \/ BeginSurface(r)

BodyStep(r) ==
    \/ Again(r) \/ Connect(r) \/ ConnectFails(r) \/ Challenge(r) \/ TaskEnds(r)
    \/ StillSignedOut(r) \/ VerificationFails(r) \/ Verified(r)

SurfaceStep(r) == SurfaceStarts(r) \/ SurfaceFails(r) \/ Revoked(r) \/ RevokeFails(r)

ClientStep(r) ==
    \/ \E w \in Owner : Call(r, w)
    \/ \E t \in issued, decision \in {"continue", "cancel", "missing"} :
          Continue(r, t, decision)

Event ==
    \/ \E r \in Request : BodyStep(r) \/ SurfaceStep(r) \/ ClientStep(r)
                          \/ Timeout(r) \/ ResetDone(r)
    \/ HumanDone
    \/ ResetCancels

Next ==
    \/ \E r \in Request : Job(r)
    \/ ~ JobPending /\ Event

Spec == Init /\ [][Next]_vars

-----------------------------------------------------------------------------
(* What holds until an operation times out.  All but HumanAlone rely on more:
   the client submits a requestState once and surfaces do not expire, and
   AuthorityExclusive on a normal Chrome that can be closed.                *)

(* Agent authority is never back while the Human's browser is open
   (docs/execution-handoff.md:58): not when a continuation verifies, not when
   an intervention is cancelled, not when a surface expires. *)
AuthorityExclusive == normal => Authority(handoff) # "agent"

(* While the Human has control nothing of the agent is on the page or on its
   way to it: every task that was admitted earlier has ended, and one that has
   just got its turn has yet to ask whose turn it is on the page. *)
HumanAlone ==
    handoff.status = "human_active" =>
        /\ linked = {}
        /\ \A r \in Request : body[r] \in {"none", "queued", "begin", "verifyBegin"}

(* An active intervention has an owner, so that somebody can resume or cancel
   it: the finally block of executeToolTask() binds it before the queue lets
   another operation see it (docs/execution-handoff.md:72). *)
OwnerPresent == handoff.id # 0 => owners[handoff.id] # NoOwner

(* An active intervention changes only when its Human surface reports the end
   of Human authority, or in a request of its own owner. *)
OnlyOwnerActs ==
    [][handoff.id # 0 /\ handoff' # handoff =>
         \/ HumanDone
         \/ \E r \in Request :
               /\ pc'[r] # pc[r]
               /\ own'[r] = owners[handoff.id]]_vars

(* A prompt goes to the client, for the first time or again, for the
   intervention and generation that are in Human hands at that moment, with
   the Human's browser open, although prepareHandoffPrompt() awaited two
   browsers since it looked the intervention up. *)
PromptCurrent ==
    [][\A t \in (issued' \ spent') \ (issued \ spent) :
          /\ handoff.id = t.id /\ handoff.epoch = t.epoch
          /\ handoff.status = "human_active"
          /\ normal']_vars

-----------------------------------------------------------------------------
(* What holds always.                                                      *)

(* The queue holds exactly the requests that await an operation, each once,
   and every task outside it is a zombie of a request that was answered or
   that went on to something else. *)
LineExact ==
    /\ \A r \in Request : pc[r] \in {"task", "verify"} <=> \E k \in 1 .. Len(line) : line[k] = r
    /\ \A j, k \in 1 .. Len(line) : line[j] = line[k] => j = k
    /\ Len(line) <= MaxPending
    /\ turn # "free" => line # <<>>

(* An intervention's owner never becomes another one, and one that lost its
   owner does not get one again once a Human took control
   (docs/execution-handoff-v3.md:38). *)
OwnerNeverRebound ==
    [][\A i \in Interventions : owners'[i] # owners[i] =>
          \/ owners'[i] = NoOwner
          \/ /\ owners[i] = NoOwner
             /\ i = handoff.id => handoff.status = "awaiting_human"
             /\ i # handoff.id => i > handoff.begun]_vars

(* A call is replayed only by the continuation of a live, completed
   intervention, which the same step ends: however often a requestState is
   submitted, the interrupted action is replayed at most once, and by then
   the Human's browser is closed. *)
ReplayOnce ==
    [][\A r \in Request : pc[r] = "verify" /\ pc'[r] = "task" =>
          /\ handoff.id = token[r].id /\ handoff.status = "verifying"
          /\ handoff'.id = 0
          /\ owners[handoff.id] \in {own[r], NoOwner}
          /\ ~ normal]_vars

-----------------------------------------------------------------------------
(* Progress.  The watchdog's timer, the jobs of the event loop and the calls
   that have time limits of their own (stopping and starting a Chrome) end;
   a task in the browser may hang, and the Human may never come back. *)
Fairness ==
    /\ \A r \in Request :
          /\ WF_vars(Job(r))
          /\ WF_vars(~ JobPending /\ (Timeout(r) \/ ResetDone(r)))
          /\ WF_vars(~ JobPending /\ SurfaceStep(r))
    /\ WF_vars(~ JobPending /\ ResetCancels)

FairSpec == Spec /\ Fairness

(* Every tool call is answered, with a result, a prompt or an error. *)
EveryCallAnswered ==
    \A r \in Request : pc[r] # "idle" ~> pc[r] = "done"

=============================================================================
