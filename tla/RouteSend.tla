------------------------------ MODULE RouteSend ------------------------------
(***************************************************************************)
(* maps_send_route_to_device: the one tool with an effect outside of the   *)
(* browser.  A first call reads the devices and asks the user to approve;  *)
(* a second call, with the requestState of the first, sends.  In between   *)
(* and while the second call waits for its turn the approval can expire,   *)
(* be cancelled, or be submitted again, other operations can change the    *)
(* page, the connection to Chrome can be lost, and the watchdog can give   *)
(* up an operation whose task then goes on.                                *)
(*                                                                         *)
(* The module models ActionApprovalManager (src/src/action-approval.ts),   *)
(* its use in src/src/server.ts and src/src/browser/route-send.ts, with    *)
(* what they need of src/src/browser/runtime.ts: the connection, and what  *)
(* the runtime remembers.  An action is what runs between two awaits.  The *)
(* receipt is an HMAC over fields of the record that never change, so it   *)
(* is right whenever the other checks of consume() pass and is left out.   *)
(***************************************************************************)
EXTENDS Integers, Sequences, FiniteSets

CONSTANTS
    Request,      \* MCP requests
    Caller,       \* principal, route and device
    NoCaller,
    MaxPending,   \* config.policy.maxPendingActions
    Ttl,          \* ttlMs, in ticks
    MaxNow,       \* bound: ticks of the clock
    MaxTimeouts,  \* bound: operations the watchdog gives up
    MaxLost       \* bound: connections lost

ASSUME RequestAssumption == IsFiniteSet(Request)
ASSUME CallerAssumption == NoCaller \notin Caller
ASSUME BoundAssumption ==
    {MaxPending, Ttl, MaxNow, MaxTimeouts, MaxLost} \subseteq Nat /\ MaxPending > 0 /\ Ttl > 0

VARIABLES
    epoch,      \* the resource epoch
    now,        \* the clock
    records,    \* the Map of ActionApprovalManager
    made,       \* approvals made so far
    prompts,    \* the requestStates sent to clients
    line,       \* the operations in the queue, the first one holds the turn
    turn,       \* "free", "running" or "closing"
    timeouts,   \* how often the watchdog has fired
    pc,         \* "idle", "queue" or "done"
    kind,       \* the operation a request is
    caller,     \* who calls, and for which route and device
    state,      \* the requestState a request came with
    body,       \* what the task of a request awaits
    targets,    \* the preflights whose devices were read after they were given up
    client,     \* the CDP client: "none", "live" or "lost"
    linked,     \* the tasks that have the live client, or got it from getClient()
    lost,       \* how often a connection was lost
    page,       \* whose route is selected on the page
    dialog,     \* whether the page shows the devices
    memory,     \* whose route the runtime remembers as selected, with its request
    notified,   \* the notifications a device got under an approval
    withdrawn,  \* the approvals whose user was told nothing is sent
    astray      \* history: a selection failed over a live connection after its click

approvalVars == <<records, made>>
queueVars == <<line, turn, timeouts>>
requestVars == <<pc, kind, caller, state, body, targets>>
linkVars == <<client, linked, lost>>
pageVars == <<page, dialog, memory, astray>>
worldVars == <<prompts, notified, withdrawn>>
vars == <<epoch, now, approvalVars, queueVars, requestVars, linkVars, pageVars, worldVars>>

Approval == 1 .. Cardinality(Request)
NoState == [id |-> 0, epoch |-> 0, caller |-> NoCaller]
NoRecord == [status |-> "none", caller |-> NoCaller, epoch |-> 0, expires |-> 0]

TypeOK ==
    /\ epoch \in Nat /\ now \in 0 .. MaxNow /\ made \in 0 .. Cardinality(Request)
    /\ records \in [Approval -> [status : {"none", "requested", "granted", "consumed"},
                                 caller : Caller \cup {NoCaller}, epoch : Nat, expires : Nat]]
    /\ \A s \in prompts : s.id \in Approval /\ s.epoch \in Nat /\ s.caller \in Caller
    /\ line \in Seq(Request)
    /\ turn \in {"free", "running", "closing"} /\ timeouts \in 0 .. MaxTimeouts
    /\ pc \in [Request -> {"idle", "queue", "done"}]
    /\ kind \in [Request -> {"none", "select", "preflight", "send"}]
    /\ caller \in [Request -> Caller \cup {NoCaller}]
    /\ state \in [Request -> prompts \cup {NoState}]
    /\ body \in [Request -> {"none", "queued", "open", "landed", "checked", "verify",
                             "click", "confirm", "close", "leave"}]
    /\ targets \subseteq Request
    /\ client \in {"none", "live", "lost"} /\ linked \subseteq Request /\ lost \in 0 .. MaxLost
    /\ {page, memory} \subseteq Caller \cup {NoCaller} /\ {dialog, astray} \subseteq BOOLEAN
    /\ notified \in [Approval -> Nat] /\ withdrawn \subseteq Approval

Init ==
    /\ epoch = 0 /\ now = 0 /\ made = 0
    /\ records = [a \in Approval |-> NoRecord]
    /\ prompts = {} /\ withdrawn = {}
    /\ line = <<>> /\ turn = "free" /\ timeouts = 0
    /\ pc = [r \in Request |-> "idle"]
    /\ kind = [r \in Request |-> "none"]
    /\ caller = [r \in Request |-> NoCaller]
    /\ state = [r \in Request |-> NoState]
    /\ body = [r \in Request |-> "none"]
    /\ targets = {}
    /\ client = "none" /\ linked = {} /\ lost = 0
    /\ page = NoCaller /\ dialog = FALSE /\ memory = NoCaller /\ astray = FALSE
    /\ notified = [a \in Approval |-> 0]

-----------------------------------------------------------------------------
(* ActionApprovalManager.                                                  *)

(* The definitions named Slip... are plausible mistakes in the definition that
   follows them.  Nothing uses them but the runs that show that a property
   would notice. *)
SlipRevoke(recs, a) == [recs EXCEPT ![a].status = "requested"]
Revoke(recs, a) == [recs EXCEPT ![a] = NoRecord]

(* requireActive(): an expired record is deleted on the way. *)
Expired(a) == records[a].expires <= now
Active(a) == records[a].status # "none" /\ ~ Expired(a)
Required(a) == IF records[a].status # "none" /\ Expired(a) THEN Revoke(records, a) ELSE records

(* request(), after prune(). *)
Requested(w) ==
    [a \in Approval |->
        IF a = made + 1
        THEN [status |-> "requested", caller |-> w, epoch |-> epoch, expires |-> now + Ttl]
        ELSE IF Expired(a) \/ records[a].status = "consumed" THEN NoRecord ELSE records[a]]

(* grant() grants again what was granted or consumed before. *)
CanGrant(a, w) == Active(a) /\ records[a].caller = w
Granted(a) == [records EXCEPT ![a].status = IF @ = "consumed" THEN @ ELSE "granted"]

SlipCanConsume(a, w, e) ==
    records[a].caller = w /\ records[a].status = "granted" /\ records[a].epoch = e

(* consume(): the record's action, epoch and principal must be those of the
   request that sends. *)
CanConsume(a, w, e) ==
    /\ Active(a)
    /\ records[a].caller = w
    /\ records[a].status = "granted"
    /\ records[a].epoch = e
Consumed(a) == [records EXCEPT ![a].status = "consumed"]

-----------------------------------------------------------------------------
(* Handlers.                                                               *)

Enqueue(r, k) ==
    /\ Len(line) < MaxPending
    /\ line' = Append(line, r)
    /\ pc' = [pc EXCEPT ![r] = "queue"]
    /\ kind' = [kind EXCEPT ![r] = k]
    /\ body' = [body EXCEPT ![r] = "queued"]

Refused(r) ==
    /\ Len(line) >= MaxPending
    /\ pc' = [pc EXCEPT ![r] = "done"]
    /\ UNCHANGED <<line, kind, body>>

(* A call without requestState: selecting a route, or the first call of the
   send tool. *)
Call(r, w) ==
    /\ pc[r] = "idle"
    /\ caller' = [caller EXCEPT ![r] = w]
    /\ Enqueue(r, "select") \/ Enqueue(r, "preflight") \/ Refused(r)
    /\ UNCHANGED <<epoch, now, approvalVars, turn, timeouts, state, targets, linkVars, pageVars,
                   worldVars>>

(* runRouteSendWithApproval() with a requestState: the answers that end it at
   once. *)
Decline(r, w, s, decision) ==
    /\ pc[r] = "idle"
    /\ \/ s.caller # w \/ s.epoch # epoch
       \/ decision = "cancel"
    /\ records' = Revoke(records, s.id)
    /\ withdrawn' = withdrawn \cup {s.id}
    /\ pc' = [pc EXCEPT ![r] = "done"]
    /\ caller' = [caller EXCEPT ![r] = w]
    /\ UNCHANGED <<epoch, now, made, queueVars, kind, state, body, targets, linkVars, pageVars,
                   prompts, notified>>

(* ... and its approval: the grant, then the queue. The finally block revokes
   the approval of a call the queue refuses. *)
Approve(r, w, s) ==
    /\ pc[r] = "idle"
    /\ s.caller = w /\ s.epoch = epoch
    /\ caller' = [caller EXCEPT ![r] = w]
    /\ \/ /\ ~ CanGrant(s.id, w)
          /\ records' = Required(s.id)
          /\ pc' = [pc EXCEPT ![r] = "done"]
          /\ UNCHANGED <<line, kind, body, state>>
       \/ /\ CanGrant(s.id, w)
          /\ records' = Granted(s.id)
          /\ Enqueue(r, "send")
          /\ state' = [state EXCEPT ![r] = s]
       \/ /\ CanGrant(s.id, w)
          /\ records' = Revoke(records, s.id)
          /\ Refused(r)
          /\ UNCHANGED state
    /\ UNCHANGED <<epoch, now, made, turn, timeouts, targets, linkVars, pageVars, worldVars>>

-----------------------------------------------------------------------------
(* Tasks.                                                                  *)

HasTurn(r) == turn = "running" /\ Head(line) = r

SlipPrompted(w) ==
    /\ records' = Requested(w) /\ made' = made + 1
    /\ prompts' = prompts \cup {[id |-> made + 1, epoch |-> epoch, caller |-> memory]}

(* The end of beginRouteSendApproval(): the approval is made for the epoch of
   this moment, and the client is prompted. *)
Prompted(w) ==
    /\ records' = Requested(w) /\ made' = made + 1
    /\ prompts' = prompts \cup {[id |-> made + 1, epoch |-> epoch, caller |-> w]}

(* The task of r ends.  For the operation that has the turn the handler goes
   on: a preflight that read its devices (ok) makes the approval and prompts,
   a send revokes its approval.  A preflight that is being given up has its
   devices when its handler goes on. *)
EndTask(r, ok) ==
    /\ body' = [body EXCEPT ![r] = "none"]
    /\ linked' = linked \ {r}
    /\ \/ /\ ~ HasTurn(r)
          /\ targets' = IF ok /\ kind[r] = "preflight" /\ pc[r] = "queue"
                        THEN targets \cup {r} ELSE targets
          /\ UNCHANGED <<approvalVars, prompts, line, turn, pc>>
       \/ /\ HasTurn(r)
          /\ line' = Tail(line) /\ turn' = "free"
          /\ pc' = [pc EXCEPT ![r] = "done"]
          /\ \/ kind[r] = "preflight" /\ ok /\ Prompted(caller[r])
             \/ /\ kind[r] = "send"
                /\ records' = Revoke(records, state[r].id)
                /\ UNCHANGED <<made, prompts>>
             \/ /\ kind[r] = "select" \/ (kind[r] = "preflight" /\ ~ ok)
                /\ UNCHANGED <<approvalVars, prompts>>
          /\ UNCHANGED targets
    /\ UNCHANGED <<now, timeouts, kind, caller, state, notified, withdrawn, client, lost>>

Goto(r, from, to) ==
    /\ body[r] = from
    /\ body' = [body EXCEPT ![r] = to]
    /\ UNCHANGED <<now, line, turn, timeouts, pc, kind, caller, state, targets>>

Take(r) ==
    /\ turn = "free" /\ line # <<>> /\ r = Head(line)
    /\ turn' = "running"
    /\ body' = [body EXCEPT ![r] = "open"]
    /\ UNCHANGED <<epoch, now, approvalVars, line, timeouts, pc, kind, caller, state, targets,
                   linkVars, pageVars, worldVars>>

(* invalidateSemanticState() *)
Invalidate == epoch' = epoch + 1 /\ memory' = NoCaller

(* Awaits in which a task calls getClient(); in the others it waits for the
   client it has. *)
Reaching == {"open", "landed", "checked", "close", "leave", "confirm"}

SlipReconnect(r) ==
    /\ body[r] \in Reaching /\ client = "lost"
    /\ client' = "none"
    /\ UNCHANGED <<epoch, memory, now, approvalVars, queueVars, requestVars, linked, lost, page,
                   dialog, astray, worldVars>>

(* ensureConnected() finds that the client does not answer, lets it go and
   invalidates what is remembered.  Each of the calls of getClient() may find
   that, also the one after the check of the epoch. *)
Reconnect(r) ==
    /\ body[r] \in Reaching /\ client = "lost"
    /\ client' = "none"
    /\ Invalidate
    /\ UNCHANGED <<now, approvalVars, queueVars, requestVars, linked, lost, page, dialog, astray,
                   worldVars>>

(* ... and attaches to the page of the running Chrome, or hands out the client
   there is. *)
Attach(r) ==
    /\ body[r] \in Reaching /\ client # "lost" /\ r \notin linked
    /\ client' = "live" /\ linked' = linked \cup {r}
    /\ UNCHANGED <<epoch, now, approvalVars, queueVars, requestVars, lost, pageVars, worldVars>>

(* A route is selected in the page ... *)
Land(r) ==
    /\ kind[r] = "select" /\ r \in linked
    /\ Goto(r, "open", "landed")
    /\ page' = caller[r] /\ dialog' = FALSE
    /\ UNCHANGED <<epoch, approvalVars, linkVars, memory, astray, worldVars>>

(* ... and remembered once the page was looked at again.  After a
   reconnection the route is remembered without its request. *)
Remember(r) ==
    /\ body[r] = "landed" /\ r \in linked /\ page # NoCaller
    /\ epoch' = epoch + 1 /\ memory' \in {caller[r], NoCaller}
    /\ EndTask(r, TRUE)
    /\ UNCHANGED <<page, dialog, astray>>

(* assertSelectedSimpleRoute() looks at what is remembered; the page has to be
   a directions page only.  Then the dialog is opened and read. *)
OpensDialog(r) ==
    /\ r \in linked /\ memory = caller[r] /\ page # NoCaller
    /\ dialog' = TRUE

(* readVerifiedRouteSendTargets() *)
ReadDevices(r) ==
    /\ kind[r] = "preflight"
    /\ OpensDialog(r)
    /\ Goto(r, "open", "close")
    /\ UNCHANGED <<epoch, approvalVars, linkVars, page, memory, astray, worldVars>>

(* sendVerifiedRouteToDevice() up to the check of the epoch. *)
OpenAndCheck(r) ==
    /\ kind[r] = "send"
    /\ OpensDialog(r) /\ state[r].epoch = epoch
    /\ Goto(r, "open", "checked")
    /\ UNCHANGED <<epoch, approvalVars, linkVars, page, memory, astray, worldVars>>

(* getClient() once more, and the device is found in the dialog. *)
Verify(r) ==
    /\ r \in linked /\ dialog
    /\ Goto(r, "checked", "verify")
    /\ UNCHANGED <<epoch, approvalVars, linkVars, pageVars, worldVars>>

(* The texts of the page are read, and the approval is consumed right before
   the click is sent. *)
Consume(r) ==
    /\ body[r] = "verify" /\ r \in linked
    /\ CanConsume(state[r].id, caller[r], state[r].epoch)
    /\ Goto(r, "verify", "click")
    /\ records' = Consumed(state[r].id)
    /\ UNCHANGED <<epoch, made, linkVars, pageVars, worldVars>>

ConsumeRefused(r) ==
    /\ body[r] = "verify" /\ r \in linked
    /\ ~ CanConsume(state[r].id, caller[r], state[r].epoch)
    /\ Goto(r, "verify", "leave")
    /\ records' = Required(state[r].id)
    /\ UNCHANGED <<epoch, made, linkVars, pageVars, worldVars>>

SlipClick(r) ==
    /\ dialog
    /\ Goto(r, "click", "click")
    /\ notified' = [notified EXCEPT ![state[r].id] = @ + 1]
    /\ UNCHANGED <<epoch, approvalVars, linkVars, pageVars, prompts, withdrawn>>

(* The page clicks the approved device if it shows it.  The click was sent, and
   may happen when the connection is gone. *)
Click(r) ==
    /\ dialog /\ dialog' \in BOOLEAN
    /\ Goto(r, "click", "confirm")
    /\ notified' = [notified EXCEPT ![state[r].id] = @ + 1]
    /\ UNCHANGED <<epoch, approvalVars, linkVars, page, memory, astray, prompts, withdrawn>>

(* The end of a task whose approval was consumed, with or without
   confirmation: the semantic context is invalidated, unless it is already. *)
ClickEnds(r) ==
    /\ body[r] \in {"click", "confirm"}
    /\ \/ Invalidate
       \/ memory = NoCaller /\ UNCHANGED <<epoch, memory>>
    /\ EndTask(r, TRUE)
    /\ UNCHANGED <<page, dialog, astray>>

(* The finally block of a task that opened the dialog, and its end.  Closing
   may fail. *)
CloseDialog(r) ==
    /\ body[r] \in {"close", "leave"}
    /\ \/ UNCHANGED dialog
       \/ r \in linked /\ dialog' = FALSE
    /\ EndTask(r, body[r] = "close")
    /\ UNCHANGED <<epoch, page, memory, astray>>

(* Any failure before the approval is consumed.  An assertion about the page,
   and a second Maps tab, invalidate what is remembered. *)
MayInvalidate == Invalidate \/ UNCHANGED <<epoch, memory>>

(* ... of a task that has no dialog open.  A selection whose click is done and
   whose look at the page is rejected over a connection that is fine leaves
   the memory as it was. *)
TaskFails(r) ==
    /\ body[r] \in {"open", "landed"}
    /\ MayInvalidate
    /\ astray' = (astray \/ (body[r] = "landed" /\ client # "lost" /\ memory' # NoCaller))
    /\ EndTask(r, FALSE)
    /\ UNCHANGED <<page, dialog>>

(* ... and of one that has. *)
LeavesDialog(r) ==
    /\ MayInvalidate
    /\ \/ /\ kind[r] # "select" /\ OpensDialog(r)
          /\ Goto(r, "open", "leave")
       \/ /\ Goto(r, "checked", "leave") \/ Goto(r, "verify", "leave")
          /\ UNCHANGED dialog
    /\ UNCHANGED <<approvalVars, linkVars, page, astray, worldVars>>

-----------------------------------------------------------------------------
(* The connection is lost, with Chrome or without it. *)
Lose ==
    /\ client = "live" /\ lost < MaxLost
    /\ lost' = lost + 1
    /\ client' = "lost" /\ linked' = {}
    /\ \/ page' = NoCaller /\ dialog' = FALSE
       \/ UNCHANGED <<page, dialog>>
    /\ UNCHANGED <<epoch, now, approvalVars, queueVars, requestVars, memory, astray, worldVars>>

(* The watchdog.  The client is closed and the memory invalidated; the page stays
   until Chrome has been stopped, and then the handler gets its error.  The
   handler of a preflight goes on if the devices were read meanwhile. *)
Timeout(r) ==
    /\ HasTurn(r) /\ timeouts < MaxTimeouts
    /\ timeouts' = timeouts + 1
    /\ turn' = "closing"
    /\ client' = "none" /\ linked' = {}
    /\ Invalidate
    /\ UNCHANGED <<now, approvalVars, line, requestVars, lost, page, dialog, astray, worldVars>>

ResetDone(r) ==
    /\ turn = "closing" /\ r = Head(line)
    /\ line' = Tail(line) /\ turn' = "free"
    /\ client' = (IF client = "live" THEN "lost" ELSE client) /\ linked' = {}
    /\ page' = NoCaller /\ dialog' = FALSE
    /\ pc' = [pc EXCEPT ![r] = "done"]
    /\ \/ r \in targets /\ Prompted(caller[r])
       \/ /\ r \notin targets
          /\ records' = IF kind[r] = "send" THEN Revoke(records, state[r].id) ELSE records
          /\ UNCHANGED <<made, prompts>>
    /\ UNCHANGED <<epoch, now, timeouts, kind, caller, state, body, targets, lost, memory, astray,
                   notified, withdrawn>>

Tick ==
    /\ now < MaxNow /\ now' = now + 1
    /\ UNCHANGED <<epoch, approvalVars, queueVars, requestVars, linkVars, pageVars, worldVars>>

ClientStep(r) ==
    \E w \in Caller :
        \/ Call(r, w)
        \/ \E s \in prompts :
              \/ \E decision \in {"approve", "cancel"} : Decline(r, w, s, decision)
              \/ Approve(r, w, s)

TaskStep(r) ==
    \/ Take(r) \/ Reconnect(r) \/ Attach(r) \/ Land(r) \/ Remember(r) \/ ReadDevices(r)
    \/ OpenAndCheck(r) \/ Verify(r) \/ Consume(r) \/ ConsumeRefused(r) \/ Click(r)
    \/ ClickEnds(r) \/ CloseDialog(r) \/ TaskFails(r) \/ LeavesDialog(r)

Next ==
    \/ \E r \in Request : ClientStep(r) \/ TaskStep(r) \/ Timeout(r) \/ ResetDone(r)
    \/ Lose \/ Tick

Spec == Init /\ [][Next]_vars

-----------------------------------------------------------------------------
(* What holds always.                                                      *)

(* One approval never notifies a device twice, whatever is submitted again,
   times out or goes on as a zombie
   (docs/v5-authenticated-workflows.md:217, "exactly one device-click site per
   approved invocation"). *)
OneNotification == \A a \in Approval : notified[a] <= 1

(* Once a user has been told that nothing is sent, the approval is not used
   any more, not even by a call that was approved before and waits in the
   queue. *)
WithdrawnNeverUsed ==
    [][\A a \in withdrawn : records'[a].status = "consumed" =>
          records[a].status = "consumed"]_vars

(* An approval is used before it expires, however long its call waited, and
   for the epoch it was given for. *)
UsedInTime ==
    [][\A a \in Approval :
          records'[a].status = "consumed" /\ records[a].status # "consumed" =>
             /\ records[a].status = "granted"
             /\ now < records[a].expires
             /\ \E r \in Request : /\ body'[r] = "click" /\ state[r].id = a
                                   /\ state[r].epoch = records[a].epoch]_vars

(* As long as no operation has timed out and no selection has failed after its
   click over a connection that is fine, an approval is used on a page that
   shows the route it was given for: although the page is not asked which
   route that is, the connection can be lost between any two steps, and
   other calls select other routes while the approved one waits.  The epoch is
   the approved one too, if no connection was lost. *)
UsedOnApprovedPage ==
    [][timeouts = 0 /\ ~ astray =>
         \A a \in Approval :
            records'[a].status = "consumed" /\ records[a].status # "consumed" =>
               /\ records[a].caller = page
               /\ lost = 0 => records[a].epoch = epoch]_vars

-----------------------------------------------------------------------------
(* What the documents say and the code does not do.                        *)

(* The epoch is unchanged when the approval is used (docs/manual-e2e.md:148,
   "Immediately before the device click the server must freshly revalidate
   [...] unchanged resource epoch").  It is checked before the last call of
   getClient(), which may reconnect and advance it, and consume() compares the
   approval with the epoch of the requestState. *)
UsedInApprovedEpoch ==
    [][\A a \in Approval :
          records'[a].status = "consumed" /\ records[a].status # "consumed" =>
             records[a].epoch = epoch]_vars
=============================================================================
