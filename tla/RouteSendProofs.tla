---------------------------- MODULE RouteSendProofs ----------------------------
(***************************************************************************)
(* Proofs about RouteSend, for any finite set of requests, any callers,    *)
(* any capacity of the queue and life time of an approval, and any number  *)
(* of timeouts and of lost connections.                                    *)
(*                                                                         *)
(* That a device is notified once per approval rests on records that never *)
(* come back: an approval that was made and is consumed or gone (Over)     *)
(* stays so, whatever is submitted again, and a task about to click has    *)
(* consumed its own (Once).  That an approval is used on its page rests on *)
(* the turn, since before the first timeout no task but the one that has   *)
(* the turn does anything (Alone), and on the connection: what the runtime *)
(* remembers is what the page shows, or the connection is lost and the     *)
(* memory goes before a client is handed out again (OnPage).               *)
(***************************************************************************)
EXTENDS RouteSend, FiniteSetTheorems, SequenceTheorems, TLAPS

RecordType == [status : {"none", "requested", "granted", "consumed"},
               caller : Caller \cup {NoCaller}, epoch : Nat, expires : Nat]
BodyState == {"none", "queued", "open", "landed", "checked", "verify", "click", "confirm",
              "close", "leave"}

InLine ==
    /\ \A i, j \in 1 .. Len(line) : line[i] = line[j] => i = j
    /\ \A i \in 1 .. Len(line) : pc[line[i]] = "queue"
    /\ turn # "free" => line # <<>>
    /\ \A r \in Request : pc[r] = "idle" => body[r] = "none"

Spent == {r \in Request : pc[r] = "done"}
Counted ==
    /\ made <= Cardinality(Spent)
    /\ \A r \in Request : pc[r] # "idle" => caller[r] \in Caller

Sending ==
    /\ \A r \in Request : body[r] \in {"checked", "verify", "click", "confirm"} => kind[r] = "send"
    /\ \A r \in Request : kind[r] = "send" => state[r] \in prompts
    /\ \A s \in prompts : s.id <= made

(* The approval was made and cannot be used any more. *)
Over(a) == a <= made /\ records[a].status \in {"consumed", "none"}
Clicking(r, a) == body[r] = "click" /\ state[r].id = a

Once ==
    \A a \in Approval :
        /\ a > made => records[a].status = "none"
        /\ notified[a] \in {0, 1}
        /\ notified[a] = 1 => Over(a)
        /\ \A r \in Request : Clicking(r, a) => Over(a) /\ notified[a] = 0
        /\ \A q, r \in Request : Clicking(q, a) /\ Clicking(r, a) => q = r

Told == \A a \in withdrawn : a <= made /\ records[a].status = "none"

Alone ==
    timeouts = 0 =>
        /\ turn # "closing"
        /\ \A r \in Request : body[r] \notin {"none", "queued"} => HasTurn(r)

Connected ==
    /\ linked # {} => client = "live"
    /\ timeouts = 0 /\ client = "lost" => lost > 0

Landed(r) == body[r] = "landed"
MemoryOnPage == memory \in {NoCaller, page} \/ client = "lost" \/ \E r \in Request : Landed(r)
RequestOnPage(r) ==
    /\ Landed(r) => page \in {caller[r], NoCaller}
    /\ body[r] = "checked" => page = caller[r] \/ ~ dialog
    /\ body[r] = "verify" => page = caller[r] \/ r \notin linked
OnPage ==
    timeouts = 0 /\ ~ astray => MemoryOnPage /\ \A r \in Request : RequestOnPage(r)

InEpoch ==
    timeouts = 0 /\ lost = 0 =>
        \A r \in Request : body[r] \in {"checked", "verify"} => state[r].epoch = epoch

Basics == TypeOK /\ InLine /\ Counted /\ Sending
SendInv == Basics /\ Once /\ Told /\ Alone /\ Connected /\ OnPage /\ InEpoch

-----------------------------------------------------------------------------
LEMMA NumberOfRequests ==
    /\ Cardinality(Request) \in Nat
    /\ IsFiniteSet(Spent) /\ Cardinality(Spent) \in Nat
    /\ Cardinality(Spent) <= Cardinality(Request)
  BY RequestAssumption, FS_CardinalityType, FS_Subset DEF Spent

LEMMA InitBasics == Init => Basics
<1> SUFFICES ASSUME Init
             PROVE  Basics
  OBVIOUS
<1>1. records \in [Approval -> RecordType] /\ notified \in [Approval -> Nat]
  BY DEF Init, RecordType, NoRecord
<1>2. line \in Seq(Request) /\ Len(line) = 0
  BY DEF Init
<1>3. TypeOK
  <2>1. /\ epoch \in Nat /\ now \in 0 .. MaxNow /\ made \in 0 .. Cardinality(Request)
        /\ timeouts \in 0 .. MaxTimeouts /\ lost \in 0 .. MaxLost
    BY NumberOfRequests, BoundAssumption DEF Init
  <2>2. \A r \in Request : state[r] = NoState
    BY DEF Init
  <2>3. /\ prompts = {} /\ withdrawn = {} /\ linked = {} /\ targets = {}
        /\ {page, memory} \subseteq Caller \cup {NoCaller} /\ {dialog, astray} \subseteq BOOLEAN
        /\ turn = "free" /\ client = "none"
    BY DEF Init
  <2>4. /\ pc \in [Request -> {"idle", "queue", "done"}]
        /\ kind \in [Request -> {"none", "select", "preflight", "send"}]
        /\ caller \in [Request -> Caller \cup {NoCaller}]
        /\ state \in [Request -> prompts \cup {NoState}]
        /\ body \in [Request -> {"none", "queued", "open", "landed", "checked", "verify",
                                 "click", "confirm", "close", "leave"}]
    BY DEF Init
  <2> QED
    BY <1>1, <1>2, <2>1, <2>2, <2>3, <2>4 DEF TypeOK, RecordType
<1>4. Counted
  BY NumberOfRequests DEF Init, Counted
<1> QED
  BY <1>2, <1>3, <1>4 DEF Basics, InLine, Sending, Init

LEMMA InitSend == Init => SendInv
<1> SUFFICES ASSUME Init
             PROVE  Once /\ Told /\ Alone /\ Connected /\ OnPage /\ InEpoch
  BY InitBasics DEF SendInv
<1>1. Once
  BY DEF Init, Once, NoRecord, Over, Clicking
<1> QED
  BY <1>1 DEF Init, Told, Alone, Connected, OnPage, MemoryOnPage, RequestOnPage, Landed, InEpoch

(* The record operations keep the records, and say what becomes of a status. *)
LEMMA RevokeRecords ==
    ASSUME records \in [Approval -> RecordType], NEW a \in Approval
    PROVE  /\ Revoke(records, a) \in [Approval -> RecordType]
           /\ Revoke(records, a)[a].status = "none"
           /\ \A b \in Approval : b # a => Revoke(records, a)[b] = records[b]
<1>1. NoRecord \in RecordType /\ NoRecord.status = "none"
  BY DEF NoRecord, RecordType
<1> QED
  BY <1>1 DEF Revoke

LEMMA StatusRecords ==
    ASSUME records \in [Approval -> RecordType], NEW a \in Approval,
           NEW st \in {"granted", "consumed"}
    PROVE  LET recs == [records EXCEPT ![a].status = st] IN
           /\ recs \in [Approval -> RecordType]
           /\ recs[a].status = st
           /\ \A b \in Approval : b # a => recs[b] = records[b]
<1> DEFINE rec == [records[a] EXCEPT !.status = st]
<1>1. rec \in RecordType /\ rec.status = st
  BY DEF RecordType
<1>2. [records EXCEPT ![a].status = st] = [records EXCEPT ![a] = rec]
  OBVIOUS
<1> HIDE DEF rec
<1> QED
  BY <1>1, <1>2

LEMMA GrantedRecords ==
    ASSUME records \in [Approval -> RecordType], NEW a \in Approval
    PROVE  /\ Granted(a) \in [Approval -> RecordType]
           /\ Granted(a)[a].status = IF records[a].status = "consumed" THEN "consumed" ELSE "granted"
           /\ \A b \in Approval : b # a => Granted(a)[b] = records[b]
<1> DEFINE st == IF records[a].status = "consumed" THEN "consumed" ELSE "granted"
<1>1. Granted(a) = [records EXCEPT ![a].status = st]
  BY DEF Granted
<1>2. st \in {"granted", "consumed"}
  OBVIOUS
<1> HIDE DEF st
<1>3. /\ [records EXCEPT ![a].status = st] \in [Approval -> RecordType]
      /\ [records EXCEPT ![a].status = st][a].status = st
      /\ \A b \in Approval : b # a => [records EXCEPT ![a].status = st][b] = records[b]
  BY <1>2, StatusRecords
<1> QED
  BY <1>1, <1>3 DEF st

LEMMA ConsumedRecords ==
    ASSUME records \in [Approval -> RecordType], NEW a \in Approval
    PROVE  /\ Consumed(a) \in [Approval -> RecordType]
           /\ Consumed(a)[a].status = "consumed"
           /\ \A b \in Approval : b # a => Consumed(a)[b] = records[b]
  BY StatusRecords DEF Consumed

LEMMA RequestedRecords ==
    ASSUME TypeOK, NEW w \in Caller \cup {NoCaller}
    PROVE  /\ Requested(w) \in [Approval -> RecordType]
           /\ \A a \in Approval : a # made + 1 =>
                 Requested(w)[a] = records[a] \/ Requested(w)[a].status = "none"
           /\ \A a \in Approval : Requested(w)[a].status = "consumed" =>
                 records[a].status = "consumed"
<1> DEFINE new == [status |-> "requested", caller |-> w, epoch |-> epoch, expires |-> now + Ttl]
<1>1. new \in RecordType /\ new.status = "requested"
  BY BoundAssumption DEF TypeOK, RecordType
<1>2. NoRecord \in RecordType /\ NoRecord.status = "none"
  BY DEF NoRecord, RecordType
<1>3. Requested(w) = [a \in Approval |->
          IF a = made + 1 THEN new
          ELSE IF Expired(a) \/ records[a].status = "consumed" THEN NoRecord ELSE records[a]]
  BY DEF Requested
<1>4. \A a \in Approval : records[a] \in RecordType
  BY DEF TypeOK, RecordType
<1> HIDE DEF new
<1> QED
  BY <1>1, <1>2, <1>3, <1>4
-----------------------------------------------------------------------------
LEMMA Turn ==
    ASSUME Basics, NEW r \in Request, line # <<>>, r = Head(line)
    PROVE  /\ pc[r] = "queue" /\ caller[r] \in Caller
           /\ Tail(line) \in Seq(Request) /\ Len(Tail(line)) = Len(line) - 1
           /\ \A i \in 1 .. Len(Tail(line)) : Tail(line)[i] = line[i + 1] /\ Tail(line)[i] # r
<1>1. line \in Seq(Request) /\ Len(line) \in Nat /\ Len(line) > 0 /\ r = line[1]
  BY DEF Basics, TypeOK
<1>2. /\ Tail(line) \in Seq(Request) /\ Len(Tail(line)) = Len(line) - 1
      /\ \A i \in 1 .. Len(Tail(line)) : Tail(line)[i] = line[i + 1]
  BY <1>1, HeadTailProperties
<1>3. \A i \in 1 .. Len(line) : line[i] = r => i = 1
  BY <1>1 DEF Basics, InLine
<1>4. pc[r] = "queue"
  BY <1>1 DEF Basics, InLine
<1>5. caller[r] \in Caller
  BY <1>4 DEF Basics, Counted
<1> QED
  BY <1>1, <1>2, <1>3, <1>4, <1>5

LEMMA HeadOfTurn ==
    ASSUME Basics, NEW r \in Request, HasTurn(r)
    PROVE  line # <<>> /\ r = Head(line)
  BY DEF Basics, InLine, HasTurn

(* A request is left that has not made an approval. *)
LEMMA RoomForOne ==
    ASSUME Basics, NEW r \in Request, pc[r] = "queue"
    PROVE  made \in Nat /\ made < Cardinality(Request) /\ made + 1 \in Approval
<1>1. IsFiniteSet(Spent \cup {r}) /\ Cardinality(Spent \cup {r}) = Cardinality(Spent) + 1
  BY NumberOfRequests, FS_AddElement DEF Spent
<1>2. Cardinality(Spent \cup {r}) <= Cardinality(Request)
  BY RequestAssumption, FS_Subset DEF Spent
<1> QED
  BY <1>1, <1>2, NumberOfRequests DEF Basics, TypeOK, Counted, Approval

(* How a task ends. *)
Prompt(w) == [id |-> made + 1, epoch |-> epoch, caller |-> w]

LEMMA EndTaskMoves ==
    ASSUME Basics, NEW r \in Request, NEW ok \in BOOLEAN, EndTask(r, ok)
    PROVE  /\ body' = [body EXCEPT ![r] = "none"] /\ linked' = linked \ {r}
           /\ UNCHANGED <<now, timeouts, kind, caller, state, notified, withdrawn, client, lost>>
           /\ targets' \in {targets, targets \cup {r}}
           /\ \/ HasTurn(r) /\ line' = Tail(line) /\ turn' = "free" /\ pc' = [pc EXCEPT ![r] = "done"]
              \/ ~HasTurn(r) /\ UNCHANGED <<line, turn, pc>>
           /\ \/ UNCHANGED <<records, made, prompts>>
              \/ /\ kind[r] = "send" /\ records' = Revoke(records, state[r].id)
                 /\ UNCHANGED <<made, prompts>>
              \/ /\ HasTurn(r) /\ records' = Requested(caller[r]) /\ made' = made + 1
                 /\ prompts' = prompts \cup {Prompt(caller[r])}
  BY DEF EndTask, Prompted, Prompt, approvalVars

EndTaskOf(r) == \E ok \in BOOLEAN : EndTask(r, ok)

(* The steps of a task: it ends, or goes on, or is about its connection. *)
Ends(r) == Remember(r) \/ ClickEnds(r) \/ CloseDialog(r) \/ TaskFails(r)
Opens(r) == Land(r) \/ ReadDevices(r) \/ OpenAndCheck(r) \/ Verify(r) \/ Click(r) \/ LeavesDialog(r)
Connects(r) == Reconnect(r) \/ Attach(r)

LEMMA KindsOfSteps ==
    ASSUME NEW r \in Request, TaskStep(r)
    PROVE  Take(r) \/ Ends(r) \/ Opens(r) \/ Consume(r) \/ ConsumeRefused(r) \/ Connects(r)
  BY DEF TaskStep, Ends, Opens, Connects

LEMMA TaskEnds ==
    ASSUME NEW r \in Request, Ends(r)
    PROVE  EndTaskOf(r) /\ body[r] # "none"
<1>1. (body[r] = "close") \in BOOLEAN
  OBVIOUS
<1> QED
  BY <1>1 DEF Ends, Remember, ClickEnds, CloseDialog, TaskFails, EndTaskOf

LEMMA TaskOpens ==
    ASSUME NEW r \in Request, Opens(r)
    PROVE  /\ UNCHANGED <<approvalVars, linkVars, prompts, withdrawn>>
           /\ \E from, to \in BodyState : Goto(r, from, to)
<1>1. ASSUME Land(r) \/ ReadDevices(r) \/ OpenAndCheck(r) \/ Verify(r) \/ Click(r)
      PROVE  \E from, to \in BodyState : Goto(r, from, to)
  BY <1>1 DEF Land, ReadDevices, OpenAndCheck, Verify, Click, BodyState
<1>2. ASSUME LeavesDialog(r)
      PROVE  \E from, to \in BodyState : Goto(r, from, to)
  BY <1>2 DEF LeavesDialog, BodyState
<1> QED
  BY <1>1, <1>2 DEF Opens, Land, ReadDevices, OpenAndCheck, Verify, Click, LeavesDialog, worldVars

(* What a step does to the approvals. *)
Revokes == \E a \in Approval : records' = Revoke(records, a)
Grants == \E a \in Approval : Active(a) /\ records' = Granted(a)
Requests == \E r \in Request :
    /\ line # <<>> /\ r = Head(line) /\ pc' = [pc EXCEPT ![r] = "done"]
    /\ records' = Requested(caller[r]) /\ made' = made + 1
    /\ prompts' = prompts \cup {Prompt(caller[r])}

ApprovalsMove ==
    \/ Requests
    \/ /\ made' = made /\ prompts' = prompts
       /\ records' = records \/ Revokes \/ Grants \/ \E r \in Request : Consume(r)

LEMMA StatesValid ==
    ASSUME Basics
    PROVE  /\ \A s \in prompts : s.id \in Approval
           /\ \A r \in Request : kind[r] = "send" => state[r] \in prompts /\ state[r].id \in Approval
  BY DEF Basics, TypeOK, Sending

LEMMA HowApprovalsMove ==
    ASSUME Basics, [Next]_vars
    PROVE  ApprovalsMove
<1>1. ASSUME NEW r \in Request, EndTaskOf(r)
      PROVE  ApprovalsMove
  BY <1>1, EndTaskMoves, StatesValid, HeadOfTurn DEF EndTaskOf, ApprovalsMove, Requests, Revokes
<1>2. ASSUME NEW r \in Request, TaskStep(r)
      PROVE  ApprovalsMove
  <2>1. CASE Take(r) \/ Connects(r)
    BY <2>1 DEF Take, Connects, Reconnect, Attach, ApprovalsMove, approvalVars, worldVars
  <2>2. CASE Opens(r)
    BY <2>2, TaskOpens DEF ApprovalsMove, approvalVars
  <2>3. CASE Consume(r)
    BY <2>3 DEF Consume, ApprovalsMove, worldVars
  <2>4. CASE ConsumeRefused(r)
    <3>1. state[r].id \in Approval
      BY <2>4, StatesValid DEF ConsumeRefused, Basics, Sending
    <3> QED
      BY <2>4, <3>1 DEF ConsumeRefused, Required, ApprovalsMove, Revokes, worldVars
  <2> QED
    BY <1>1, <1>2, <2>1, <2>2, <2>3, <2>4, TaskEnds, KindsOfSteps
<1>3. ASSUME NEW r \in Request, ClientStep(r)
      PROVE  ApprovalsMove
  <2>1. ASSUME NEW w \in Caller, Call(r, w)
        PROVE  ApprovalsMove
    BY <2>1 DEF Call, ApprovalsMove, approvalVars, worldVars
  <2>2. ASSUME NEW w \in Caller, NEW s \in prompts, NEW decision, Decline(r, w, s, decision)
        PROVE  ApprovalsMove
    BY <2>2, StatesValid DEF Decline, ApprovalsMove, Revokes
  <2>3. ASSUME NEW w \in Caller, NEW s \in prompts, Approve(r, w, s)
        PROVE  ApprovalsMove
    BY <2>3, StatesValid DEF Approve, ApprovalsMove, Revokes, Grants, Required, CanGrant, worldVars
  <2> QED
    BY <1>3, <2>1, <2>2, <2>3 DEF ClientStep
<1>4. ASSUME NEW r \in Request, Timeout(r)
      PROVE  ApprovalsMove
  BY <1>4 DEF Timeout, ApprovalsMove, approvalVars, worldVars
<1>5. ASSUME NEW r \in Request, ResetDone(r)
      PROVE  ApprovalsMove
  <2>1. line # <<>>
    BY <1>5 DEF ResetDone, Basics, InLine
  <2>2. CASE r \in targets /\ Prompted(caller[r])
    BY <1>5, <2>1, <2>2 DEF ResetDone, Prompted, Prompt, ApprovalsMove, Requests
  <2>3. CASE r \notin targets
    BY <1>5, <2>3, StatesValid DEF ResetDone, ApprovalsMove, Revokes
  <2> QED
    BY <1>5, <2>2, <2>3 DEF ResetDone
<1>6. CASE Lose \/ Tick \/ UNCHANGED vars
  BY <1>6 DEF Lose, Tick, vars, ApprovalsMove, approvalVars, worldVars
<1> QED
  BY <1>2, <1>3, <1>4, <1>5, <1>6 DEF Next

LEMMA RequestsRoom ==
    ASSUME Basics, Requests
    PROVE  /\ made + 1 \in Approval /\ made < Cardinality(Request) /\ made' = made + 1
           /\ \E w \in Caller : /\ records' = Requested(w)
                                /\ prompts' = prompts \cup {Prompt(w)}
<1>1. PICK r \in Request : /\ line # <<>> /\ r = Head(line) /\ made' = made + 1
                           /\ records' = Requested(caller[r])
                           /\ prompts' = prompts \cup {Prompt(caller[r])}
  BY DEF Requests
<1> QED
  BY <1>1, Turn, RoomForOne

LEMMA ConsumeMoves ==
    ASSUME Basics, NEW r \in Request, Consume(r)
    PROVE  state[r].id \in Approval /\ records' = Consumed(state[r].id)
  BY StatesValid DEF Consume, Goto, Basics, Sending

LEMMA Typed ==
    ASSUME Basics
    PROVE  records \in [Approval -> RecordType] /\ made \in Nat /\ Cardinality(Request) \in Nat
  BY NumberOfRequests DEF Basics, TypeOK, RecordType

LEMMA ApprovalsTyped ==
    ASSUME Basics, [Next]_vars
    PROVE  /\ records' \in [Approval -> RecordType] /\ made' \in 0 .. Cardinality(Request)
           /\ made <= made' /\ prompts \subseteq prompts'
           /\ \A s \in prompts' : /\ s.id \in Approval /\ s.epoch \in Nat /\ s.caller \in Caller
                                  /\ s.id <= made'
<1>1. CASE Requests
  <2>1. PICK w \in Caller : records' = Requested(w) /\ prompts' = prompts \cup {Prompt(w)}
    BY <1>1, RequestsRoom
  <2>2. Prompt(w).id = made + 1 /\ Prompt(w).epoch = epoch /\ Prompt(w).caller = w
    BY DEF Prompt
  <2>3. records' \in [Approval -> RecordType]
    BY <2>1, RequestedRecords DEF Basics
  <2>4. \A s \in prompts : s.id \in Approval /\ s.epoch \in Nat /\ s.caller \in Caller /\ s.id <= made
    BY DEF Basics, TypeOK, Sending
  <2> HIDE DEF Prompt
  <2>5. epoch \in Nat
    BY DEF Basics, TypeOK
  <2>6. \A s \in Approval : s \in Nat
    BY DEF Approval
  <2> QED
    BY <1>1, <2>1, <2>2, <2>3, <2>4, <2>5, <2>6, RequestsRoom, Typed
<1>2. CASE /\ made' = made /\ prompts' = prompts
           /\ records' = records \/ Revokes \/ Grants \/ \E r \in Request : Consume(r)
  <2>1. records' \in [Approval -> RecordType]
    BY <1>2, Typed, RevokeRecords, GrantedRecords, ConsumedRecords, ConsumeMoves
    DEF Revokes, Grants
  <2> QED
    BY <1>2, <2>1, Typed DEF Basics, TypeOK, Sending
<1> QED
  BY <1>1, <1>2, HowApprovalsMove DEF ApprovalsMove

(* An approval that is over stays over, and one is consumed in one way. *)
LEMMA StatusMoves ==
    ASSUME Basics, \A b \in Approval : b > made => records[b].status = "none", [Next]_vars,
           NEW a \in Approval
    PROVE  /\ a > made' => records'[a].status = "none"
           /\ a <= made /\ records[a].status = "none" => records'[a].status = "none"
           /\ Over(a) => Over(a)'
           /\ records'[a].status = "consumed" /\ records[a].status # "consumed" =>
                 \E r \in Request : Consume(r) /\ state[r].id = a
<1>0. a \in Nat
  BY DEF Approval
<1>1. CASE Requests
  <2>1. PICK w \in Caller : records' = Requested(w)
    BY <1>1, RequestsRoom
  <2>2. /\ a # made + 1 => records'[a] = records[a] \/ records'[a].status = "none"
        /\ records'[a].status = "consumed" => records[a].status = "consumed"
    BY <2>1, RequestedRecords DEF Basics
  <2> QED
    BY <1>0, <1>1, <2>2, RequestsRoom, Typed DEF Over
<1>2. CASE made' = made /\ (records' = records \/ Revokes)
  <2>1. records'[a] = records[a] \/ records'[a].status = "none"
    BY <1>2, Typed, RevokeRecords DEF Revokes
  <2> QED
    BY <1>2, <2>1 DEF Over
<1>3. CASE made' = made /\ Grants
  <2>1. PICK b \in Approval : Active(b) /\ records' = Granted(b)
    BY <1>3 DEF Grants
  <2>2. records[b].status # "none"
    BY <2>1 DEF Active
  <2>3. CASE a = b
    BY <1>3, <2>1, <2>2, <2>3, Typed, GrantedRecords DEF Over
  <2>4. CASE a # b
    <3>1. records'[a] = records[a]
      BY <2>1, <2>4, Typed, GrantedRecords
    <3> QED
      BY <1>3, <3>1 DEF Over
  <2> QED
    BY <2>3, <2>4
<1>4. CASE made' = made /\ \E r \in Request : Consume(r)
  <2>1. PICK r \in Request : Consume(r)
    BY <1>4
  <2>2. CASE a = state[r].id
    <3>1. records[a].status = "granted"
      BY <2>1, <2>2 DEF Consume, CanConsume
    <3>2. records'[a].status = "consumed"
      BY <2>1, <2>2, Typed, ConsumeMoves, ConsumedRecords
    <3> QED
      BY <1>4, <2>1, <2>2, <3>1, <3>2 DEF Over
  <2>3. CASE a # state[r].id
    <3>1. records'[a] = records[a]
      BY <2>1, <2>3, Typed, ConsumeMoves, ConsumedRecords
    <3> QED
      BY <1>4, <3>1 DEF Over
  <2> QED
    BY <2>2, <2>3
<1> QED
  BY <1>1, <1>2, <1>3, <1>4, HowApprovalsMove DEF ApprovalsMove

-----------------------------------------------------------------------------
(* The queue. *)
TakesLeave(r) ==
    /\ line # <<>> /\ r = Head(line)
    /\ line' = Tail(line) /\ turn' = "free" /\ pc' = [pc EXCEPT ![r] = "done"]

LEMMA EndTaskQueue ==
    ASSUME Basics, NEW r \in Request, EndTaskOf(r)
    PROVE  /\ body' = [body EXCEPT ![r] = "none"] /\ linked' = linked \ {r}
           /\ UNCHANGED <<now, timeouts, kind, caller, state, notified, withdrawn, client, lost>>
           /\ targets' \in {targets, targets \cup {r}}
           /\ HasTurn(r) => TakesLeave(r)
           /\ ~HasTurn(r) => UNCHANGED <<line, turn, pc>>
  BY EndTaskMoves, HeadOfTurn DEF EndTaskOf, TakesLeave

(* What a request has got after it was enqueued or refused. *)
Queued ==
    /\ line' \in Seq(Request)
    /\ pc' \in [Request -> {"idle", "queue", "done"}]
    /\ kind' \in [Request -> {"none", "select", "preflight", "send"}]
    /\ body' \in [Request -> BodyState]

LEMMA EnqueueTyped ==
    ASSUME TypeOK, NEW r \in Request,
           Refused(r) \/ \E k \in {"select", "preflight", "send"} : Enqueue(r, k)
    PROVE  Queued
<1>1. CASE Refused(r)
  BY <1>1 DEF Refused, TypeOK, Queued, BodyState
<1>2. ASSUME NEW k \in {"select", "preflight", "send"}, Enqueue(r, k)
      PROVE  Queued
  <2>1. line' \in Seq(Request)
    BY <1>2, AppendProperties DEF Enqueue, TypeOK
  <2> QED
    BY <1>2, <2>1 DEF Enqueue, TypeOK, Queued, BodyState
<1> QED
  BY <1>1, <1>2

LEMMA Bump ==
    ASSUME NEW f \in [Approval -> Nat], NEW a
    PROVE  [f EXCEPT ![a] = @ + 1] \in [Approval -> Nat]
<1>1. \A b \in Approval : [f EXCEPT ![a] = @ + 1][b] \in {f[b], f[b] + 1}
  OBVIOUS
<1>2. \A b \in Approval : f[b] \in Nat /\ f[b] + 1 \in Nat
  OBVIOUS
<1> QED
  BY <1>1, <1>2

(* The page and what is remembered of it keep their types. *)
PageTyped ==
    /\ epoch' \in Nat
    /\ page' \in Caller \cup {NoCaller} /\ memory' \in Caller \cup {NoCaller}
    /\ dialog' \in BOOLEAN /\ astray' \in BOOLEAN

LEMMA StepPageTyped ==
    ASSUME TypeOK, NEW r \in Request, Ends(r) \/ Opens(r) \/ Consume(r) \/ ConsumeRefused(r)
    PROVE  PageTyped
<1>1. /\ epoch' \in {epoch, epoch + 1} /\ memory' \in {memory, caller[r], NoCaller}
      /\ page' \in {page, caller[r]}
  <2>1. CASE Ends(r)
    BY <2>1 DEF Ends, Remember, ClickEnds, CloseDialog, TaskFails, MayInvalidate, Invalidate
  <2>2. CASE Opens(r)
    BY <2>2 DEF Opens, Land, ReadDevices, OpenAndCheck, Verify, Click, LeavesDialog, MayInvalidate,
         Invalidate, pageVars
  <2>3. CASE Consume(r) \/ ConsumeRefused(r)
    BY <2>3 DEF Consume, ConsumeRefused, pageVars
  <2> QED
    BY <2>1, <2>2, <2>3
<1>2. dialog' \in {dialog, TRUE, FALSE} /\ astray' \in BOOLEAN
  <2>1. CASE Ends(r)
    BY <2>1 DEF Ends, Remember, ClickEnds, CloseDialog, TaskFails, TypeOK
  <2>2. CASE Opens(r)
    BY <2>2 DEF Opens, Land, ReadDevices, OpenAndCheck, Verify, Click, LeavesDialog, OpensDialog,
         pageVars, TypeOK
  <2>3. CASE Consume(r) \/ ConsumeRefused(r)
    BY <2>3 DEF Consume, ConsumeRefused, pageVars, TypeOK
  <2> QED
    BY <2>1, <2>2, <2>3
<1>3. epoch' \in Nat
  BY <1>1 DEF TypeOK
<1>4. page' \in Caller \cup {NoCaller} /\ memory' \in Caller \cup {NoCaller}
  BY <1>1 DEF TypeOK
<1>5. dialog' \in BOOLEAN
  BY <1>2 DEF TypeOK
<1> QED
  BY <1>2, <1>3, <1>4, <1>5 DEF PageTyped

LEMMA TypeStep ==
    ASSUME Basics, [Next]_vars
    PROVE  TypeOK'
<1>0. /\ TypeOK /\ records' \in [Approval -> RecordType] /\ made' \in 0 .. Cardinality(Request)
      /\ prompts \subseteq prompts'
      /\ \A s \in prompts' : s.id \in Approval /\ s.epoch \in Nat /\ s.caller \in Caller
  BY ApprovalsTyped DEF Basics
<1>a. records' \in [Approval -> [status : {"none", "requested", "granted", "consumed"},
                                caller : Caller \cup {NoCaller}, epoch : Nat, expires : Nat]]
  BY <1>0 DEF RecordType
<1>b. line # <<>> => Head(line) \in Request /\ Tail(line) \in Seq(Request)
  BY <1>0 DEF TypeOK
<1> USE <1>0, <1>a, <1>b DEF TypeOK
<1>c. /\ body \in [Request -> BodyState]
      /\ body' \in [Request -> BodyState] =>
            body' \in [Request -> {"none", "queued", "open", "landed", "checked", "verify",
                                   "click", "confirm", "close", "leave"}]
  BY DEF BodyState
<1>1. ASSUME NEW r \in Request, EndTaskOf(r), PageTyped
      PROVE  TypeOK'
  <2>1. /\ line' \in Seq(Request) /\ turn' \in {"free", "running", "closing"}
        /\ pc' \in [Request -> {"idle", "queue", "done"}]
    BY <1>1, EndTaskQueue DEF TakesLeave
  <2>2. body' \in [Request -> BodyState]
    BY <1>1, <1>c, EndTaskQueue DEF BodyState
  <2>3. targets' \subseteq Request /\ linked' \subseteq Request
    <3>1. targets' \in {targets, targets \cup {r}} /\ linked' = linked \ {r}
      BY <1>1, EndTaskQueue
    <3> QED
      BY <3>1
  <2>4. UNCHANGED <<now, timeouts, kind, caller, state, notified, withdrawn, client, lost>>
    BY <1>1, EndTaskQueue
  <2> QED
    BY <1>1, <1>c, <2>1, <2>2, <2>3, <2>4 DEF PageTyped
<1>2. ASSUME NEW r \in Request, TaskStep(r)
      PROVE  TypeOK'
  <2>1. CASE Take(r)
    <3>1. body' \in [Request -> BodyState]
      BY <1>c, <2>1 DEF Take, BodyState
    <3> QED
      BY <1>c, <2>1, <3>1 DEF Take, linkVars, pageVars, worldVars
  <2>2. CASE Connects(r)
    BY <2>2 DEF Connects, Reconnect, Attach, Invalidate, queueVars, requestVars, pageVars, worldVars
  <2>3. CASE Opens(r) \/ Consume(r) \/ ConsumeRefused(r)
    <3>1. PICK from \in BodyState, to \in BodyState : Goto(r, from, to)
      BY <2>3, TaskOpens DEF Consume, ConsumeRefused, BodyState
    <3>2. /\ body' \in [Request -> BodyState]
          /\ UNCHANGED <<now, line, turn, timeouts, pc, kind, caller, state, targets>>
      BY <1>c, <3>1 DEF Goto
    <3>3. PageTyped
      BY <2>3, StepPageTyped DEF Opens
    <3>4. notified' \in [Approval -> Nat]
      <4>1. CASE Click(r)
        BY <4>1, Bump DEF Click
      <4> QED
        BY <2>3, <4>1 DEF Opens, Land, ReadDevices, OpenAndCheck, Verify, Consume, ConsumeRefused,
             LeavesDialog, worldVars
    <3>5. UNCHANGED <<client, linked, lost, prompts, withdrawn>>
      BY <2>3, TaskOpens DEF Consume, ConsumeRefused, linkVars, worldVars
    <3> QED
      BY <1>c, <3>2, <3>3, <3>4, <3>5 DEF PageTyped
  <2>4. CASE Ends(r)
    BY <1>1, <2>4, TaskEnds, StepPageTyped
  <2> QED
    BY <1>2, <2>1, <2>2, <2>3, <2>4, KindsOfSteps
<1>3. ASSUME NEW r \in Request, ClientStep(r)
      PROVE  TypeOK'
  <2>1. ASSUME NEW w \in Caller, Call(r, w)
        PROVE  TypeOK'
    <3>1. Queued
      BY <2>1, EnqueueTyped DEF Call
    <3> QED
      BY <1>c, <2>1, <3>1 DEF Call, Queued, linkVars, pageVars, worldVars
  <2>2. ASSUME NEW w \in Caller, NEW s \in prompts, NEW decision, Decline(r, w, s, decision)
        PROVE  TypeOK'
    BY <2>2 DEF Decline, queueVars, linkVars, pageVars
  <2>3. ASSUME NEW w \in Caller, NEW s \in prompts, Approve(r, w, s)
        PROVE  TypeOK'
    <3>1. CASE Refused(r) \/ Enqueue(r, "send")
      <4>1. Queued
        BY <3>1, EnqueueTyped
      <4>2. state' = state \/ state' = [state EXCEPT ![r] = s]
        BY <2>3 DEF Approve
      <4>3. state' \in [Request -> prompts' \cup {NoState}]
        BY <4>2
      <4> QED
        BY <1>c, <2>3, <4>1, <4>3 DEF Approve, Queued, linkVars, pageVars, worldVars
    <3>2. CASE UNCHANGED <<line, kind, body, state>> /\ pc' = [pc EXCEPT ![r] = "done"]
      BY <2>3, <3>2 DEF Approve, linkVars, pageVars, worldVars
    <3> QED
      BY <2>3, <3>1, <3>2 DEF Approve
  <2> QED
    BY <1>3, <2>1, <2>2, <2>3 DEF ClientStep
<1>4. ASSUME NEW r \in Request, Timeout(r)
      PROVE  TypeOK'
  <2>1. timeouts' \in 0 .. MaxTimeouts /\ epoch' \in Nat /\ memory' = NoCaller
    BY <1>4, BoundAssumption DEF Timeout, Invalidate
  <2> QED
    BY <1>4, <2>1 DEF Timeout, requestVars, worldVars, approvalVars
<1>5. ASSUME NEW r \in Request, ResetDone(r)
      PROVE  TypeOK'
  <2>1. line # <<>>
    BY <1>5 DEF Basics, InLine, ResetDone
  <2> QED
    BY <1>5, <2>1 DEF ResetDone
<1>6. CASE Lose
  <2>1. lost' \in 0 .. MaxLost /\ client' = "lost" /\ linked' = {}
    BY <1>6, BoundAssumption DEF Lose
  <2>2. page' \in {page, NoCaller} /\ dialog' \in {dialog, FALSE}
    BY <1>6 DEF Lose
  <2>3. UNCHANGED <<epoch, now, approvalVars, queueVars, requestVars, memory, astray, worldVars>>
    BY <1>6 DEF Lose
  <2> QED
    BY <2>1, <2>2, <2>3 DEF queueVars, requestVars, worldVars
<1>7. CASE Tick
  BY <1>7, BoundAssumption DEF Tick, queueVars, requestVars, linkVars, pageVars, worldVars
<1>8. CASE UNCHANGED vars
  BY <1>8 DEF vars, approvalVars, queueVars, requestVars, linkVars, pageVars, worldVars
<1> QED
  BY <1>2, <1>3, <1>4, <1>5, <1>6, <1>7, <1>8 DEF Next

(* What a step does to a request. *)
Same(r) == /\ pc'[r] = pc[r] /\ body'[r] = body[r] /\ kind'[r] = kind[r] /\ state'[r] = state[r]
           /\ caller'[r] = caller[r]

(* Where a task that goes on may go. *)
Onward(r) ==
    \/ body[r] = "open" /\ body'[r] = "landed" /\ Land(r)
    \/ body[r] = "open" /\ body'[r] = "checked" /\ OpenAndCheck(r)
    \/ body[r] = "checked" /\ body'[r] = "verify" /\ Verify(r)
    \/ body[r] = "verify" /\ body'[r] = "click" /\ Consume(r)
    \/ body[r] = "click" /\ body'[r] = "confirm" /\ Click(r)
    \/ body[r] \in {"open", "checked", "verify"} /\ body'[r] \in {"close", "leave"}

Works(r) ==
    /\ pc[r] # "idle"
    /\ \/ pc'[r] = pc[r]
       \/ TakesLeave(r) /\ (body'[r] = "none" \/ turn = "closing")
    /\ kind'[r] = kind[r] /\ state'[r] = state[r] /\ caller'[r] = caller[r]
    /\ \/ body'[r] \in {"none", body[r]}
       \/ body'[r] = "open" /\ turn = "free" /\ turn' = "running" /\ r = Head(line) /\ line' = line
       \/ Onward(r)

Enters(r) ==
    /\ pc[r] = "idle" /\ caller'[r] \in Caller
    /\ \/ pc'[r] = "done" /\ body'[r] = body[r] /\ kind'[r] = kind[r] /\ state'[r] = state[r]
       \/ /\ pc'[r] = "queue" /\ body'[r] = "queued"
          /\ \/ kind'[r] # "send" /\ state'[r] = state[r]
             \/ kind'[r] = "send" /\ state'[r] \in prompts

RequestMoves == \A r \in Request : Same(r) \/ Works(r) \/ Enters(r)

(* And to the queue. *)
LineMoves ==
    \/ line' = line /\ turn' = turn
    \/ line' = line /\ turn = "free" /\ turn' = "running" /\ line # <<>>
    \/ line' = line /\ turn = "running" /\ turn' = "closing" /\ timeouts' = timeouts + 1
    \/ \E r \in Request : TakesLeave(r)
    \/ \E r \in Request : pc[r] = "idle" /\ pc'[r] = "queue" /\ line' = Append(line, r) /\ turn' = turn

Moves == RequestMoves /\ LineMoves

(* A task that goes on, and leaves the queue alone. *)
LEMMA GotoMoves ==
    ASSUME Basics, NEW r \in Request, NEW from, NEW to, Goto(r, from, to), from # "none",
           body'[r] = to => Onward(r)
    PROVE  Moves
<1>1. /\ pc' = pc /\ kind' = kind /\ state' = state /\ caller' = caller
      /\ line' = line /\ turn' = turn
      /\ body[r] = from /\ body' = [body EXCEPT ![r] = to]
  BY DEF Goto
<1>2. body'[r] = to /\ \A q \in Request : q # r => body'[q] = body[q]
  BY <1>1 DEF Basics, TypeOK
<1>3. pc[r] # "idle"
  BY <1>1 DEF Basics, InLine
<1>4. Works(r)
  BY <1>1, <1>2, <1>3 DEF Works
<1>5. \A q \in Request : q # r => Same(q)
  BY <1>1, <1>2 DEF Same
<1> QED
  BY <1>1, <1>4, <1>5 DEF Moves, RequestMoves, LineMoves

LEMMA OpensMoves ==
    ASSUME Basics, NEW r \in Request, Opens(r)
    PROVE  Moves
<1>1. CASE Land(r)
  BY <1>1, GotoMoves DEF Land, Onward, Goto
<1>2. CASE ReadDevices(r)
  BY <1>2, GotoMoves DEF ReadDevices, Onward, Goto
<1>3. CASE OpenAndCheck(r)
  BY <1>3, GotoMoves DEF OpenAndCheck, Onward, Goto
<1>4. CASE Verify(r)
  BY <1>4, GotoMoves DEF Verify, Onward, Goto
<1>5. CASE Click(r)
  BY <1>5, GotoMoves DEF Click, Onward, Goto
<1>6. CASE LeavesDialog(r)
  <2>1. PICK from \in {"open", "checked", "verify"} : Goto(r, from, "leave")
    BY <1>6 DEF LeavesDialog
  <2> QED
    BY <2>1, GotoMoves DEF Onward, Goto
<1> QED
  BY <1>1, <1>2, <1>3, <1>4, <1>5, <1>6 DEF Opens

LEMMA HowTheRestMoves ==
    ASSUME Basics, [Next]_vars
    PROVE  Moves
<1>0. TypeOK /\ InLine
  BY DEF Basics
<1>a. \A r \in Request : body[r] # "none" => pc[r] # "idle"
  BY <1>0 DEF InLine
<1>b. /\ DOMAIN pc = Request /\ DOMAIN body = Request /\ DOMAIN kind = Request
      /\ DOMAIN state = Request /\ DOMAIN caller = Request
  BY <1>0 DEF TypeOK
<1>1. ASSUME NEW r \in Request, EndTaskOf(r), body[r] # "none"
      PROVE  Moves
  BY <1>a, <1>b, <1>1, EndTaskQueue DEF Moves, RequestMoves, LineMoves, Same, Works, TakesLeave
<1>2. ASSUME NEW r \in Request, TaskStep(r)
      PROVE  Moves
  <2>1. CASE Take(r)
    <3>1. pc[r] = "queue"
      BY <2>1, Turn DEF Take
    <3>2. /\ pc' = pc /\ kind' = kind /\ state' = state /\ caller' = caller
          /\ line' = line /\ turn = "free" /\ turn' = "running" /\ line # <<>> /\ r = Head(line)
      BY <2>1 DEF Take
    <3>3. body'[r] = "open" /\ \A q \in Request : q # r => body'[q] = body[q]
      BY <1>b, <2>1 DEF Take
    <3>4. Works(r)
      BY <3>1, <3>2, <3>3 DEF Works
    <3> QED
      BY <3>2, <3>3, <3>4 DEF Moves, RequestMoves, LineMoves, Same
  <2>2. CASE Connects(r)
    BY <2>2 DEF Connects, Reconnect, Attach, queueVars, requestVars, Moves, RequestMoves, LineMoves, Same
  <2>3. CASE Opens(r)
    BY <2>3, OpensMoves
  <2>4. CASE Consume(r)
    BY <2>4, GotoMoves DEF Consume, Onward, Goto
  <2>5. CASE ConsumeRefused(r)
    BY <2>5, GotoMoves DEF ConsumeRefused, Onward, Goto
  <2>6. CASE Ends(r)
    BY <1>1, <2>6, TaskEnds
  <2> QED
    BY <1>2, <2>1, <2>2, <2>3, <2>4, <2>5, <2>6, KindsOfSteps
<1>3. ASSUME NEW r \in Request, ClientStep(r)
      PROVE  Moves
  <2>1. ASSUME NEW w \in Caller, Call(r, w)
        PROVE  Moves
    <3>1. CASE Refused(r)
      BY <1>b, <2>1, <3>1 DEF Call, Refused, Moves, RequestMoves, LineMoves, Same, Enters
    <3>2. ASSUME NEW k \in {"select", "preflight"}, Enqueue(r, k)
          PROVE  Moves
      BY <1>b, <2>1, <3>2 DEF Call, Enqueue, Moves, RequestMoves, LineMoves, Same, Enters
    <3> QED
      BY <2>1, <3>1, <3>2 DEF Call
  <2>2. ASSUME NEW w \in Caller, NEW s \in prompts, NEW decision, Decline(r, w, s, decision)
        PROVE  Moves
    BY <1>b, <2>2 DEF Decline, queueVars, Moves, RequestMoves, LineMoves, Same, Enters
  <2>3. ASSUME NEW w \in Caller, NEW s \in prompts, Approve(r, w, s)
        PROVE  Moves
    <3>1. pc[r] = "idle" /\ caller' = [caller EXCEPT ![r] = w] /\ turn' = turn
      BY <2>3 DEF Approve
    <3>2. CASE UNCHANGED <<line, kind, body, state>> /\ pc' = [pc EXCEPT ![r] = "done"]
      BY <1>b, <3>1, <3>2 DEF Moves, RequestMoves, LineMoves, Same, Enters
    <3>3. CASE Enqueue(r, "send") /\ state' = [state EXCEPT ![r] = s]
      BY <1>b, <3>1, <3>3 DEF Enqueue, Moves, RequestMoves, LineMoves, Same, Enters
    <3> QED
      BY <2>3, <3>2, <3>3 DEF Approve, Refused
  <2> QED
    BY <1>3, <2>1, <2>2, <2>3 DEF ClientStep
<1>4. ASSUME NEW r \in Request, Timeout(r)
      PROVE  Moves
  BY <1>4 DEF Timeout, requestVars, HasTurn, Moves, RequestMoves, LineMoves, Same
<1>5. ASSUME NEW r \in Request, ResetDone(r)
      PROVE  Moves
  <2>1. line # <<>>
    BY <1>0, <1>5 DEF InLine, ResetDone
  <2>2. pc[r] = "queue"
    BY <1>5, <2>1, Turn DEF ResetDone
  <2> QED
    BY <1>b, <1>5, <2>1, <2>2 DEF ResetDone, Moves, RequestMoves, LineMoves, Same, Works, TakesLeave
<1>6. CASE Lose \/ Tick \/ UNCHANGED vars
  BY <1>6 DEF Lose, Tick, vars, queueVars, requestVars, Moves, RequestMoves, LineMoves, Same
<1> QED
  BY <1>2, <1>3, <1>4, <1>5, <1>6 DEF Next

LEMMA InLineStep ==
    ASSUME Basics, RequestMoves, LineMoves
    PROVE  InLine'
<1>0. TypeOK /\ InLine /\ line \in Seq(Request) /\ Len(line) \in Nat
  BY DEF Basics, TypeOK
<1>1. ASSUME NEW r \in Request, pc'[r] = "idle"
      PROVE  body'[r] = "none"
  <2>1. CASE Same(r)
    BY <1>0, <1>1, <2>1 DEF InLine, Same
  <2>2. ~ Works(r)
    BY <1>0, <1>1 DEF Works, TakesLeave, TypeOK
  <2>3. ~ Enters(r)
    BY <1>1 DEF Enters
  <2> QED
    BY <2>1, <2>2, <2>3 DEF RequestMoves
<1>2. ASSUME NEW i \in 1 .. Len(line), ~ \E r \in Request : TakesLeave(r)
      PROVE  pc'[line[i]] = "queue"
  BY <1>0, <1>2 DEF InLine, RequestMoves, Same, Works, Enters
<1>3. CASE line' = line /\ (turn' = turn \/ line # <<>>) /\ ~ \E r \in Request : TakesLeave(r)
  BY <1>0, <1>1, <1>2, <1>3 DEF InLine
<1>4. ASSUME NEW r \in Request, TakesLeave(r)
      PROVE  InLine'
  <2>1. /\ pc[r] = "queue" /\ line' = Tail(line) /\ Len(line') = Len(line) - 1
        /\ \A i \in 1 .. Len(line') : line'[i] = line[i + 1] /\ line'[i] # r
    BY <1>4, Turn DEF TakesLeave
  <2>2. \A i, j \in 1 .. Len(line') : line'[i] = line'[j] => i = j
    BY <1>0, <2>1 DEF InLine
  <2>3. \A i \in 1 .. Len(line') : pc'[line'[i]] = "queue"
    BY <1>0, <1>4, <2>1 DEF InLine, TakesLeave, TypeOK
  <2> QED
    BY <1>1, <1>4, <2>2, <2>3 DEF InLine, TakesLeave
<1>5. ASSUME NEW r \in Request, pc[r] = "idle", pc'[r] = "queue", line' = Append(line, r), turn' = turn,
             ~ \E q \in Request : TakesLeave(q)
      PROVE  InLine'
  <2>1. /\ Len(line') = Len(line) + 1 /\ line'[Len(line) + 1] = r /\ line' # <<>>
        /\ \A i \in 1 .. Len(line) : line'[i] = line[i] /\ line[i] # r
    BY <1>0, <1>5, AppendProperties DEF InLine
  <2>2. \A i, j \in 1 .. Len(line') : line'[i] = line'[j] => i = j
    BY <1>0, <2>1 DEF InLine
  <2>3. \A i \in 1 .. Len(line') : pc'[line'[i]] = "queue"
    BY <1>0, <1>2, <1>5, <2>1
  <2> QED
    BY <1>1, <2>1, <2>2, <2>3 DEF InLine
<1> QED
  BY <1>0, <1>3, <1>4, <1>5 DEF LineMoves, InLine

LEMMA CountedStep ==
    ASSUME Basics, TypeOK', ApprovalsMove, RequestMoves
    PROVE  Counted'
<1>1. /\ \A r \in Request : pc'[r] # "idle" => caller'[r] \in Caller
      /\ Spent \subseteq Spent'
  <2>1. ASSUME NEW r \in Request
        PROVE  /\ pc'[r] # "idle" => caller'[r] \in Caller
               /\ pc[r] = "done" => pc'[r] = "done"
    <3>1. CASE Same(r)
      BY <3>1 DEF Same, Basics, Counted
    <3>2. CASE Works(r)
      BY <3>2 DEF Works, TakesLeave, Basics, Counted, TypeOK
    <3>3. CASE Enters(r)
      BY <3>3 DEF Enters
    <3> QED
      BY <3>1, <3>2, <3>3 DEF RequestMoves
  <2> QED
    BY <2>1 DEF Spent
<1>2. IsFiniteSet(Spent') /\ Cardinality(Spent') \in Nat
  BY RequestAssumption, FS_Subset, FS_CardinalityType DEF Spent
<1>3. Cardinality(Spent) <= Cardinality(Spent')
  BY <1>1, <1>2, FS_Subset
<1>4. CASE made' = made
  BY <1>1, <1>2, <1>3, <1>4, NumberOfRequests, Typed DEF Basics, Counted
<1>5. CASE Requests
  <2>1. PICK r \in Request : line # <<>> /\ r = Head(line) /\ pc' = [pc EXCEPT ![r] = "done"]
                             /\ made' = made + 1
    BY <1>5 DEF Requests
  <2>2. pc[r] = "queue"
    BY <2>1, Turn
  <2>3. Spent \cup {r} \subseteq Spent' /\ r \notin Spent
    BY <1>1, <2>1, <2>2 DEF Spent, Basics, TypeOK
  <2>4. Cardinality(Spent \cup {r}) = Cardinality(Spent) + 1
    BY <2>3, NumberOfRequests, FS_AddElement
  <2>5. Cardinality(Spent \cup {r}) <= Cardinality(Spent')
    BY <1>2, <2>3, FS_Subset
  <2> QED
    BY <1>1, <1>2, <2>1, <2>4, <2>5, NumberOfRequests, Typed DEF Basics, Counted
<1> QED
  BY <1>4, <1>5 DEF ApprovalsMove

LEMMA SendingStep ==
    ASSUME Basics, [Next]_vars, RequestMoves
    PROVE  Sending'
<1>1. ASSUME NEW r \in Request
      PROVE  /\ body'[r] \in {"checked", "verify", "click", "confirm"} => kind'[r] = "send"
             /\ kind'[r] = "send" => state'[r] \in prompts'
  <2>1. body[r] \in {"checked", "verify", "click", "confirm"} => kind[r] = "send"
    BY DEF Basics, Sending
  <2>2. kind[r] = "send" => state[r] \in prompts
    BY DEF Basics, Sending
  <2>3. prompts \subseteq prompts'
    BY ApprovalsTyped
  <2>4. CASE Same(r)
    BY <2>1, <2>2, <2>3, <2>4 DEF Same
  <2>5. CASE Works(r)
    <3>1. OpenAndCheck(r) => kind[r] = "send"
      BY DEF OpenAndCheck
    <3> QED
      BY <2>1, <2>2, <2>3, <2>5, <3>1 DEF Works, Onward
  <2>6. CASE Enters(r)
    BY <2>2, <2>3, <2>6 DEF Enters, Basics, InLine
  <2> QED
    BY <2>4, <2>5, <2>6 DEF RequestMoves
<1> QED
  BY <1>1, ApprovalsTyped DEF Sending

LEMMA BasicsStep ==
    ASSUME Basics, [Next]_vars
    PROVE  Basics'
<1>1. TypeOK' /\ InLine'
  BY TypeStep, InLineStep, HowTheRestMoves DEF Moves
<1>2. Counted'
  BY <1>1, CountedStep, HowApprovalsMove, HowTheRestMoves DEF Moves
<1>3. Sending'
  BY SendingStep, HowTheRestMoves DEF Moves
<1> QED
  BY <1>1, <1>2, <1>3 DEF Basics
-----------------------------------------------------------------------------
(* Devices are notified by Click and users told by Decline, and nothing else. *)
LEMMA WorldMoves ==
    ASSUME Basics, [Next]_vars
    PROVE  /\ notified' = notified \/ \E r \in Request : Click(r)
           /\ \/ withdrawn' = withdrawn
              \/ \E a \in Approval :
                    /\ withdrawn' = withdrawn \cup {a} /\ records' = Revoke(records, a)
                    /\ a <= made /\ made' = made
<1> DEFINE Q == /\ notified' = notified \/ \E r \in Request : Click(r)
                /\ \/ withdrawn' = withdrawn
                   \/ \E a \in Approval :
                         /\ withdrawn' = withdrawn \cup {a} /\ records' = Revoke(records, a)
                         /\ a <= made /\ made' = made
<1>1. ASSUME NEW r \in Request, TaskStep(r)
      PROVE  Q
  <2>1. CASE Ends(r)
    BY <2>1, TaskEnds, EndTaskQueue
  <2>2. CASE Take(r) \/ Connects(r) \/ Consume(r) \/ ConsumeRefused(r)
    BY <2>2 DEF Take, Connects, Reconnect, Attach, Consume, ConsumeRefused, worldVars
  <2>3. CASE Opens(r)
    BY <2>3 DEF Opens, Land, ReadDevices, OpenAndCheck, Verify, Click, LeavesDialog, worldVars
  <2> QED
    BY <1>1, <2>1, <2>2, <2>3, KindsOfSteps
<1>2. ASSUME NEW r \in Request, ClientStep(r)
      PROVE  Q
  <2>1. ASSUME NEW w \in Caller, NEW s \in prompts, NEW decision, Decline(r, w, s, decision)
        PROVE  Q
    <3>1. s.id \in Approval /\ s.id <= made
      BY StatesValid DEF Basics, Sending
    <3> QED
      BY <2>1, <3>1 DEF Decline
  <2>2. ASSUME NEW w \in Caller, Call(r, w) \/ \E s \in prompts : Approve(r, w, s)
        PROVE  Q
    BY <2>2 DEF Call, Approve, worldVars
  <2> QED
    BY <1>2, <2>1, <2>2 DEF ClientStep
<1>3. ASSUME NEW r \in Request, Timeout(r) \/ ResetDone(r)
      PROVE  Q
  BY <1>3 DEF Timeout, ResetDone, worldVars
<1>4. CASE Lose \/ Tick \/ UNCHANGED vars
  BY <1>4 DEF Lose, Tick, vars, worldVars
<1> QED
  BY <1>1, <1>2, <1>3, <1>4 DEF Next

LEMMA OnceStep ==
    ASSUME Basics, Once, [Next]_vars
    PROVE  Once'
<1>0. \A b \in Approval : b > made => records[b].status = "none"
  BY DEF Once
<1>1. ASSUME NEW a \in Approval
      PROVE  /\ a > made' => records'[a].status = "none"
             /\ Over(a) => Over(a)'
  BY <1>0, StatusMoves
<1>2. ASSUME NEW a \in Approval, NEW r \in Request, Clicking(r, a)'
      PROVE  \/ Clicking(r, a) /\ ~Click(r)
             \/ Consume(r) /\ state[r].id = a
  <2>1. Same(r) \/ Works(r) \/ Enters(r)
    BY HowTheRestMoves DEF Moves, RequestMoves
  <2>2. body[r] = "click" => ~Click(r)
    BY <1>2 DEF Click, Goto, Clicking, Basics, TypeOK
  <2> QED
    BY <1>2, <2>1, <2>2 DEF Same, Works, Onward, Enters, Clicking, Basics, InLine
<1>3. ASSUME NEW r \in Request, NEW a \in Approval, Consume(r), state[r].id = a
      PROVE  /\ Over(a)' /\ notified'[a] = 0
             /\ \A q \in Request : ~Clicking(q, a)
  <2>1. records[a].status = "granted"
    BY <1>3 DEF Consume, CanConsume
  <2>2. records'[a].status = "consumed" /\ made' = made /\ notified' = notified
    BY <1>3, Typed, ConsumeMoves, ConsumedRecords DEF Consume, worldVars
  <2>3. notified[a] = 0 /\ a <= made /\ \A q \in Request : ~Clicking(q, a)
    <3>1. a \in Nat
      BY DEF Approval
    <3> QED
      BY <2>1, <3>1, Typed DEF Once, Over
  <2> QED
    BY <2>2, <2>3 DEF Over
<1>4. ASSUME NEW a \in Approval
      PROVE  \/ notified'[a] = notified[a]
             \/ \E r \in Request : Click(r) /\ Clicking(r, a) /\ notified'[a] = notified[a] + 1
  <2>1. ASSUME NEW r \in Request, Click(r)
        PROVE  \/ notified'[a] = notified[a]
               \/ Clicking(r, a) /\ notified'[a] = notified[a] + 1
    BY <2>1 DEF Click, Goto, Clicking, Basics, TypeOK
  <2> QED
    BY <2>1, WorldMoves
<1>5. ASSUME NEW a \in Approval
      PROVE  notified'[a] \in {0, 1} /\ (notified'[a] = 1 => Over(a)')
  BY <1>1, <1>4 DEF Once
<1>6. ASSUME NEW a \in Approval, NEW r \in Request, Clicking(r, a)'
      PROVE  Over(a)' /\ notified'[a] = 0
  <2>1. CASE Consume(r) /\ state[r].id = a
    BY <1>3, <2>1
  <2>2. CASE Clicking(r, a) /\ ~Click(r)
    <3>1. Over(a) /\ notified[a] = 0 /\ \A q \in Request : Clicking(q, a) => q = r
      BY <2>2 DEF Once
    <3> QED
      BY <1>1, <1>4, <2>2, <3>1
  <2> QED
    BY <1>2, <1>6, <2>1, <2>2
<1>7. ASSUME NEW a \in Approval, NEW q \in Request, NEW r \in Request, Clicking(q, a)', Clicking(r, a)'
      PROVE  q = r
  <2>1. CASE Clicking(q, a) /\ Clicking(r, a)
    BY <2>1 DEF Once
  <2>2. CASE Consume(q) /\ Consume(r)
    BY <1>7, <2>2, HowTheRestMoves DEF Consume, Goto, Basics, TypeOK, Clicking
  <2> QED
    BY <1>2, <1>3, <1>7, <2>1, <2>2
<1> QED
  BY <1>1, <1>5, <1>6, <1>7 DEF Once

LEMMA ToldStep ==
    ASSUME Basics, Once, Told, [Next]_vars
    PROVE  Told'
<1>1. made <= made' /\ made \in Nat /\ made' \in Nat /\ withdrawn \subseteq Approval
  BY ApprovalsTyped, Typed DEF Basics, TypeOK
<1>2. ASSUME NEW a \in withdrawn
      PROVE  a <= made' /\ records'[a].status = "none"
  <2>1. a \in Approval /\ a \in Nat /\ a <= made /\ records[a].status = "none"
    BY <1>1 DEF Told, Approval
  <2>2. records'[a].status = "none"
    BY <2>1, StatusMoves DEF Once
  <2> QED
    BY <1>1, <2>1, <2>2
<1>3. CASE withdrawn' = withdrawn
  BY <1>2, <1>3 DEF Told
<1>4. ASSUME NEW a \in Approval, withdrawn' = withdrawn \cup {a}, records' = Revoke(records, a),
             a <= made, made' = made
      PROVE  Told'
  <2>1. records'[a].status = "none"
    BY <1>4, Typed, RevokeRecords
  <2> QED
    BY <1>2, <1>4, <2>1 DEF Told
<1> QED
  BY <1>3, <1>4, WorldMoves

(* No timeout and no lost connection is taken back. *)
LEMMA CountsGrow ==
    ASSUME Basics, [Next]_vars
    PROVE  /\ timeouts' = timeouts \/ \E r \in Request : Timeout(r)
           /\ lost' = lost \/ Lose
           /\ lost \in Nat /\ lost' \in Nat /\ timeouts \in Nat
           /\ lost' = 0 => lost = 0
           /\ timeouts' = 0 => timeouts = 0
<1>1. ASSUME NEW r \in Request, TaskStep(r)
      PROVE  timeouts' = timeouts /\ lost' = lost
  <2>1. CASE Ends(r)
    BY <2>1, TaskEnds, EndTaskQueue
  <2>2. CASE Opens(r)
    BY <2>2, TaskOpens DEF Goto, linkVars
  <2>3. CASE Take(r) \/ Connects(r) \/ Consume(r) \/ ConsumeRefused(r)
    BY <2>3 DEF Take, Connects, Reconnect, Attach, Consume, ConsumeRefused, Goto, queueVars, linkVars
  <2> QED
    BY <1>1, <2>1, <2>2, <2>3, KindsOfSteps
<1>2. ASSUME NEW r \in Request, ClientStep(r)
      PROVE  timeouts' = timeouts /\ lost' = lost
  BY <1>2 DEF ClientStep, Call, Decline, Approve, queueVars, linkVars
<1>3. ASSUME NEW r \in Request, Timeout(r) \/ ResetDone(r)
      PROVE  lost' = lost /\ (timeouts' = timeouts \/ Timeout(r))
  <2>1. CASE Timeout(r)
    BY <2>1 DEF Timeout
  <2>2. CASE ResetDone(r)
    BY <2>2 DEF ResetDone
  <2> QED
    BY <1>3, <2>1, <2>2
<1>4. ASSUME Lose \/ Tick \/ UNCHANGED vars
      PROVE  timeouts' = timeouts /\ (lost' = lost \/ Lose)
  BY <1>4 DEF Lose, Tick, vars, queueVars, linkVars
<1>5. /\ timeouts' = timeouts \/ \E r \in Request : Timeout(r)
      /\ lost' = lost \/ Lose
  BY <1>1, <1>2, <1>3, <1>4 DEF Next
<1>6. lost \in Nat /\ timeouts \in Nat
  BY BoundAssumption DEF Basics, TypeOK
<1> QED
  BY <1>5, <1>6 DEF Lose, Timeout

LEMMA AloneStep ==
    ASSUME Basics, Basics', Alone, [Next]_vars
    PROVE  Alone'
<1> SUFFICES ASSUME timeouts' = 0
             PROVE  /\ turn' # "closing"
                    /\ \A r \in Request : body'[r] \notin {"none", "queued"} => HasTurn(r)'
  BY DEF Alone
<1>1. timeouts = 0 /\ timeouts' = timeouts
  BY CountsGrow
<1>2. /\ turn # "closing"
      /\ \A r \in Request : body[r] \notin {"none", "queued"} => HasTurn(r)
  BY <1>1 DEF Alone
<1>3. turn' # "closing"
  BY <1>1, <1>2, HowTheRestMoves DEF Moves, LineMoves, TakesLeave
<1>4. ASSUME NEW r \in Request, body'[r] \notin {"none", "queued"}
      PROVE  HasTurn(r)'
  <2>1. CASE body'[r] = "open" /\ turn = "free" /\ turn' = "running" /\ r = Head(line) /\ line' = line
    BY <2>1 DEF HasTurn
  <2>2. CASE HasTurn(r) /\ pc'[r] # "done"
    <3>1. line # <<>> /\ r = Head(line) /\ line \in Seq(Request)
      BY <2>2, HeadOfTurn DEF Basics, TypeOK
    <3>2. ~ \E q \in Request : TakesLeave(q)
      BY <2>2, <3>1 DEF TakesLeave, Basics, TypeOK
    <3>3. \A q \in Request : Head(Append(line, q)) = Head(line)
      BY <3>1
    <3> QED
      BY <1>1, <1>3, <2>2, <3>2, <3>3, HowTheRestMoves DEF Moves, LineMoves, HasTurn
  <2>3. Same(r) \/ Works(r)
    <3>1. ~ Enters(r)
      BY <1>4 DEF Enters, Basics, InLine
    <3> QED
      BY <3>1, HowTheRestMoves DEF Moves, RequestMoves
  <2>4. CASE HasTurn(r)
    <3>1. pc[r] = "queue"
      BY <2>4, Turn, HeadOfTurn
    <3>2. pc'[r] = pc[r]
      BY <1>2, <1>4, <2>3 DEF Same, Works
    <3> QED
      BY <2>2, <2>4, <3>1, <3>2
  <2>5. CASE ~HasTurn(r)
    <3>1. body[r] \in {"none", "queued"}
      BY <1>2, <2>5
    <3>2. ~ Onward(r)
      BY <3>1 DEF Onward
    <3> QED
      BY <1>4, <2>1, <2>3, <3>1, <3>2 DEF Same, Works
  <2> QED
    BY <2>4, <2>5
<1> QED
  BY <1>3, <1>4

(* Only the task that has the turn does anything. *)
LEMMA OneWorks ==
    ASSUME Alone, timeouts = 0, NEW q \in Request, NEW r \in Request,
           body[q] \notin {"none", "queued"}, body[r] \notin {"none", "queued"}
    PROVE  q = r
  BY DEF Alone, HasTurn

LEMMA ConnectedStep ==
    ASSUME Basics, Alone, Connected, [Next]_vars
    PROVE  Connected'
<1>1. ASSUME NEW r \in Request, TaskStep(r)
      PROVE  Connected'
  <2>1. CASE Ends(r)
    <3>1. linked' = linked \ {r} /\ UNCHANGED <<client, lost, timeouts>>
      BY <2>1, TaskEnds, EndTaskQueue
    <3> QED
      BY <3>1 DEF Connected
  <2>2. CASE Take(r) \/ Opens(r) \/ Consume(r) \/ ConsumeRefused(r)
    <3>1. UNCHANGED <<linked, client, lost, timeouts>>
      BY <2>2, TaskOpens DEF Take, Consume, ConsumeRefused, Goto, linkVars
    <3> QED
      BY <3>1 DEF Connected
  <2>3. CASE Connects(r)
    BY <2>3 DEF Connects, Reconnect, Attach, Connected
  <2> QED
    BY <1>1, <2>1, <2>2, <2>3, KindsOfSteps
<1>2. ASSUME NEW r \in Request, ClientStep(r)
      PROVE  Connected'
  BY <1>2 DEF ClientStep, Call, Decline, Approve, queueVars, linkVars, Connected
<1>3. ASSUME NEW r \in Request, Timeout(r) \/ ResetDone(r)
      PROVE  Connected'
  <2>1. CASE Timeout(r)
    <3>1. linked' = {} /\ client' = "none"
      BY <2>1 DEF Timeout
    <3> QED
      BY <3>1 DEF Connected
  <2>2. CASE ResetDone(r)
    <3>1. linked' = {} /\ timeouts' = timeouts /\ turn = "closing"
      BY <2>2 DEF ResetDone
    <3> QED
      BY <3>1 DEF Connected, Alone
  <2> QED
    BY <1>3, <2>1, <2>2
<1>4. CASE Lose
  <2>1. linked' = {} /\ lost' = lost + 1 /\ lost \in Nat
    BY <1>4, CountsGrow DEF Lose
  <2> QED
    BY <2>1 DEF Connected
<1>5. CASE Tick \/ UNCHANGED vars
  BY <1>5 DEF Tick, vars, queueVars, linkVars, Connected
<1> QED
  BY <1>1, <1>2, <1>3, <1>4, <1>5 DEF Next

(* The task that has the turn leaves nothing to say about the others. *)
LEMMA OthersOnPage ==
    ASSUME Basics, Alone, timeouts = 0, NEW r \in Request, body[r] \notin {"none", "queued"},
           NEW to, body' = [body EXCEPT ![r] = to]
    PROVE  \A q \in Request : q # r => RequestOnPage(q)' /\ ~ Landed(q) /\ ~ Landed(q)'
  BY OneWorks DEF Basics, TypeOK, RequestOnPage, Landed

LEMMA OpensOnPage ==
    ASSUME Basics, Alone, Connected, OnPage, timeouts = 0, ~ astray, NEW r \in Request, Opens(r)
    PROVE  MemoryOnPage' /\ \A q \in Request : RequestOnPage(q)'
<1>1. /\ MemoryOnPage /\ RequestOnPage(r) /\ NoCaller \notin Caller /\ DOMAIN body = Request
      /\ UNCHANGED <<client, linked>>
  BY CallerAssumption, TaskOpens DEF OnPage, Basics, TypeOK, linkVars
<1>2. PICK to \in BodyState : /\ body[r] \notin {"none", "queued"} /\ caller' = caller
                              /\ body' = [body EXCEPT ![r] = to]
  BY DEF Opens, Land, ReadDevices, OpenAndCheck, Verify, Click, LeavesDialog, Goto, BodyState
<1>3. /\ body'[r] = to
      /\ \A q \in Request : q # r => RequestOnPage(q)' /\ ~ Landed(q) /\ ~ Landed(q)'
  BY <1>1, <1>2, OthersOnPage
<1>4. caller[r] \in Caller
  BY <1>2 DEF Basics, Counted, InLine
<1>5. CASE Land(r)
  <2>1. body'[r] = "landed" /\ page' = caller[r]
    BY <1>1, <1>5 DEF Land, Goto
  <2> QED
    BY <1>2, <1>3, <2>1 DEF MemoryOnPage, RequestOnPage, Landed
<1>6. CASE ~ Land(r)
  <2>1. /\ body[r] # "landed" /\ body'[r] # "landed" /\ page' = page
        /\ memory' \in {memory, NoCaller}
    BY <1>1, <1>6 DEF Opens, ReadDevices, OpenAndCheck, Verify, Click, LeavesDialog, Goto,
       MayInvalidate, Invalidate, pageVars
  <2>2. \A q \in Request : ~ Landed(q)
    BY <1>3, <2>1 DEF Landed
  <2>3. memory \in {NoCaller, page} \/ client = "lost"
    BY <1>1, <2>2 DEF MemoryOnPage
  <2>4. MemoryOnPage'
    BY <1>1, <2>1, <2>3 DEF MemoryOnPage
  <2>5. body'[r] = "checked" => page = caller[r]
    <3>1. ASSUME body'[r] = "checked"
          PROVE  OpenAndCheck(r)
      BY <1>1, <1>6, <3>1 DEF Opens, ReadDevices, Verify, Click, LeavesDialog, Goto
    <3>2. OpenAndCheck(r) => page = caller[r]
      BY <1>4, <1>1, <2>3 DEF OpenAndCheck, OpensDialog, Connected
    <3> QED
      BY <3>1, <3>2
  <2>6. body'[r] = "verify" => page = caller[r]
    <3>1. ASSUME body'[r] = "verify"
          PROVE  Verify(r)
      BY <1>1, <1>6, <3>1 DEF Opens, ReadDevices, OpenAndCheck, Click, LeavesDialog, Goto
    <3>2. Verify(r) => page = caller[r]
      BY <1>1 DEF Verify, Goto, RequestOnPage
    <3> QED
      BY <3>1, <3>2
  <2>7. RequestOnPage(r)'
    BY <1>2, <2>1, <2>5, <2>6 DEF RequestOnPage, Landed
  <2> QED
    BY <1>3, <2>4, <2>7
<1> QED
  BY <1>5, <1>6

LEMMA EndsOnPage ==
    ASSUME Basics, Alone, OnPage, timeouts = 0, ~ astray', NEW r \in Request, Ends(r)
    PROVE  MemoryOnPage' /\ \A q \in Request : RequestOnPage(q)'
<1>1. EndTaskOf(r) /\ body[r] \notin {"none", "queued"}
  BY TaskEnds DEF Ends, Remember, ClickEnds, CloseDialog, TaskFails
<1>2. /\ body' = [body EXCEPT ![r] = "none"] /\ caller' = caller /\ client' = client
      /\ DOMAIN body = Request
  BY <1>1, EndTaskQueue DEF Basics, TypeOK
<1>3. \A q \in Request : RequestOnPage(q)' /\ (q # r => ~ Landed(q))
  BY <1>1, <1>2, OthersOnPage DEF RequestOnPage, Landed
<1>4. ~ astray /\ page' = page
  <2>1. page' = page /\ (astray' = astray \/ TaskFails(r))
    BY DEF Ends, Remember, ClickEnds, CloseDialog, TaskFails
  <2>2. TaskFails(r) => ~ astray
    BY DEF TaskFails
  <2> QED
    BY <2>1, <2>2
<1>5. MemoryOnPage /\ RequestOnPage(r)
  BY <1>4 DEF OnPage
<1>6. CASE Remember(r)
  <2>1. page = caller[r] /\ memory' \in {caller[r], NoCaller}
    BY <1>5, <1>6 DEF Remember, RequestOnPage, Landed
  <2> QED
    BY <1>3, <1>4, <2>1 DEF MemoryOnPage
<1>7. CASE TaskFails(r) /\ body[r] = "landed"
  <2>1. client = "lost" \/ memory' = NoCaller
    BY <1>7, <1>4 DEF TaskFails
  <2> QED
    BY <1>2, <1>3, <2>1 DEF MemoryOnPage
<1>8. CASE body[r] # "landed"
  <2>1. memory' \in {memory, NoCaller}
    BY <1>8 DEF Ends, Remember, ClickEnds, CloseDialog, TaskFails, MayInvalidate, Invalidate
  <2> QED
    BY <1>2, <1>3, <1>4, <1>5, <1>8, <2>1 DEF MemoryOnPage, Landed
<1> QED
  BY <1>6, <1>7, <1>8 DEF Ends, Remember, ClickEnds, CloseDialog, TaskFails

LEMMA OnPageStep ==
    ASSUME Basics, Alone, Connected, OnPage, [Next]_vars
    PROVE  OnPage'
<1> SUFFICES ASSUME timeouts' = 0, ~ astray'
             PROVE  MemoryOnPage' /\ \A q \in Request : RequestOnPage(q)'
  BY DEF OnPage
<1>1. timeouts = 0 /\ timeouts' = timeouts /\ DOMAIN body = Request
  BY CountsGrow DEF Basics, TypeOK
<1>2. ASSUME NEW r \in Request, Ends(r)
      PROVE  MemoryOnPage' /\ \A q \in Request : RequestOnPage(q)'
  BY <1>1, <1>2, EndsOnPage
<1>3. CASE astray' = astray
  <2>0. MemoryOnPage /\ \A q \in Request : RequestOnPage(q)
    BY <1>1, <1>3 DEF OnPage
  <2>1. ASSUME NEW r \in Request, TaskStep(r)
        PROVE  MemoryOnPage' /\ \A q \in Request : RequestOnPage(q)'
    <3>1. CASE Opens(r)
      BY <1>1, <1>3, <3>1, OpensOnPage
    <3>2. CASE Take(r)
      <4>1. /\ UNCHANGED <<client, linked, page, dialog, memory, caller>>
            /\ body' = [body EXCEPT ![r] = "open"] /\ turn = "free"
        BY <3>2 DEF Take, linkVars, pageVars
      <4>2. \A q \in Request : ~ Landed(q)
        BY <1>1, <4>1 DEF Alone, HasTurn, Landed
      <4> QED
        BY <1>1, <2>0, <4>1, <4>2 DEF MemoryOnPage, RequestOnPage, Landed
    <3>3. CASE Reconnect(r)
      BY <2>0, <3>3 DEF Reconnect, Invalidate, requestVars, MemoryOnPage, RequestOnPage, Landed
    <3>4. CASE Attach(r)
      <4>1. /\ UNCHANGED <<page, dialog, memory, caller, body>> /\ client # "lost"
            /\ linked' = linked \cup {r} /\ body[r] # "verify"
        BY <3>4 DEF Attach, pageVars, requestVars, Reaching
      <4> QED
        BY <2>0, <4>1 DEF MemoryOnPage, RequestOnPage, Landed
    <3>5. CASE Consume(r) \/ ConsumeRefused(r)
      <4>1. /\ UNCHANGED <<client, linked, page, dialog, memory, caller>>
            /\ body[r] = "verify"
            /\ \E to \in {"click", "leave"} : body' = [body EXCEPT ![r] = to]
        BY <3>5 DEF Consume, ConsumeRefused, Goto, linkVars, pageVars
      <4> QED
        BY <1>1, <2>0, <4>1 DEF MemoryOnPage, RequestOnPage, Landed
    <3> QED
      BY <1>2, <2>1, <3>1, <3>2, <3>3, <3>4, <3>5, KindsOfSteps DEF Connects
  <2>2. ASSUME NEW r \in Request, ClientStep(r)
        PROVE  MemoryOnPage' /\ \A q \in Request : RequestOnPage(q)'
    <3>1. /\ UNCHANGED <<client, linked, page, dialog, memory>>
          /\ pc[r] = "idle"
      BY <2>2 DEF ClientStep, Call, Decline, Approve, linkVars, pageVars
    <3>2. /\ body[r] = "none" /\ body'[r] \in {"none", "queued"}
          /\ \A q \in Request : q # r => body'[q] = body[q] /\ caller'[q] = caller[q]
      <4>1. body[r] = "none"
        BY <3>1 DEF Basics, InLine
      <4>2. body' \in {body, [body EXCEPT ![r] = "queued"]} /\ \E w \in Caller : caller' = [caller EXCEPT ![r] = w]
        BY <2>2 DEF ClientStep, Call, Decline, Approve, Enqueue, Refused
      <4> QED
        BY <1>1, <4>1, <4>2 DEF Basics, TypeOK
    <3> QED
      BY <2>0, <3>1, <3>2 DEF MemoryOnPage, RequestOnPage, Landed
  <2>3. ASSUME NEW r \in Request, Timeout(r) \/ ResetDone(r)
        PROVE  FALSE
    <3>1. timeouts \in Nat /\ turn # "closing"
      BY <1>1 DEF Alone
    <3> QED
      BY <1>1, <2>3, <3>1 DEF Timeout, ResetDone
  <2>4. CASE Lose
    BY <2>0, <2>4 DEF Lose, requestVars, MemoryOnPage, RequestOnPage, Landed
  <2>5. CASE Tick \/ UNCHANGED vars
    BY <2>0, <2>5 DEF Tick, vars, requestVars, linkVars, pageVars, MemoryOnPage, RequestOnPage, Landed
  <2> QED
    BY <2>1, <2>2, <2>3, <2>4, <2>5 DEF Next
<1>4. astray' = astray \/ \E r \in Request : Ends(r)
  <2>1. ASSUME NEW r \in Request, TaskStep(r), ~ Ends(r)
        PROVE  astray' = astray
    BY <2>1, KindsOfSteps DEF Opens, Take, Connects, Reconnect, Attach, Land, ReadDevices, OpenAndCheck,
       Verify, Consume, ConsumeRefused, Click, LeavesDialog, pageVars
  <2>2. ASSUME NEW r \in Request, ClientStep(r) \/ Timeout(r) \/ ResetDone(r)
        PROVE  astray' = astray
    BY <2>2 DEF ClientStep, Call, Decline, Approve, Timeout, ResetDone, pageVars
  <2>3. CASE Lose \/ Tick \/ UNCHANGED vars
    BY <2>3 DEF Lose, Tick, vars, pageVars
  <2> QED
    BY <2>1, <2>2, <2>3 DEF Next
<1> QED
  BY <1>2, <1>3, <1>4

LEMMA InEpochStep ==
    ASSUME Basics, Alone, Connected, InEpoch, [Next]_vars
    PROVE  InEpoch'
<1> SUFFICES ASSUME timeouts' = 0, lost' = 0, NEW r \in Request, body'[r] \in {"checked", "verify"}
             PROVE  state'[r].epoch = epoch'
  BY DEF InEpoch
<1>1. /\ timeouts = 0 /\ lost = 0 /\ timeouts' = timeouts /\ lost' = lost
      /\ DOMAIN body = Request
  BY CountsGrow DEF Basics, TypeOK
<1>2. client # "lost"
  BY <1>1 DEF Connected
<1>3. Same(r) \/ Works(r)
  BY HowTheRestMoves DEF Moves, RequestMoves, Enters, Basics, InLine
<1>4. /\ state'[r] = state[r] /\ body[r] \in {"open", "checked", "verify"}
      /\ body[r] = "open" => OpenAndCheck(r)
  BY <1>3 DEF Same, Works, Onward
<1>5. state[r].epoch = epoch
  BY <1>1, <1>4 DEF InEpoch, OpenAndCheck
<1>6. \A q \in Request : body[q] \notin {"none", "queued"} => q = r
  BY <1>1, <1>4, OneWorks
<1>7. epoch' = epoch
  <2>1. ASSUME NEW q \in Request, TaskStep(q)
        PROVE  epoch' = epoch
    <3>1. CASE Ends(q)
      <4>1. body[q] \notin {"none", "queued"} /\ body'[q] = "none"
        BY <1>1, <3>1, TaskEnds, EndTaskQueue DEF Ends, Remember, ClickEnds, CloseDialog, TaskFails
      <4> QED
        BY <1>6, <4>1
    <3>2. CASE Opens(q)
      <4>1. CASE LeavesDialog(q)
        <5>1. body[q] \notin {"none", "queued"} /\ body'[q] = "leave"
          BY <1>1, <4>1 DEF LeavesDialog, Goto
        <5> QED
          BY <1>6, <5>1
      <4> QED
        BY <3>2, <4>1 DEF Opens, Land, ReadDevices, OpenAndCheck, Verify, Click
    <3>3. CASE Take(q) \/ Connects(q) \/ Consume(q) \/ ConsumeRefused(q)
      BY <1>2, <3>3 DEF Take, Connects, Reconnect, Attach, Consume, ConsumeRefused
    <3> QED
      BY <2>1, <3>1, <3>2, <3>3, KindsOfSteps
  <2>2. ASSUME NEW q \in Request, ClientStep(q)
        PROVE  epoch' = epoch
    BY <2>2 DEF ClientStep, Call, Decline, Approve
  <2>3. ASSUME NEW q \in Request, Timeout(q) \/ ResetDone(q)
        PROVE  epoch' = epoch
    BY <1>1, <2>3 DEF Timeout, ResetDone
  <2>4. CASE Lose \/ Tick \/ UNCHANGED vars
    BY <2>4 DEF Lose, Tick, vars
  <2> QED
    BY <2>1, <2>2, <2>3, <2>4 DEF Next
<1> QED
  BY <1>4, <1>5, <1>7

LEMMA Invariance == Spec => []SendInv
<1>1. SendInv /\ [Next]_vars => SendInv'
  BY BasicsStep, OnceStep, ToldStep, AloneStep, ConnectedStep, OnPageStep, InEpochStep DEF SendInv
<1> QED
  BY InitSend, <1>1, PTL DEF Spec

-----------------------------------------------------------------------------
(* The approvals, the requests and the queue keep their shape: in particular
   no more approvals are made than there are requests. *)
THEOREM TypeCorrect == Spec => []TypeOK
<1>1. SendInv => TypeOK
  BY DEF SendInv, Basics
<1> QED
  BY <1>1, Invariance, PTL

(* A device is notified at most once under one approval, however often a
   requestState is submitted, and whatever a task that was given up still does
   (action-approval.ts, route-send.ts). *)
THEOREM OneNotificationHolds == Spec => []OneNotification
<1>1. SendInv => OneNotification
  BY DEF SendInv, Once, OneNotification
<1> QED
  BY <1>1, Invariance, PTL

(* Once its user was told that nothing is sent, an approval is used by no call
   any more. *)
THEOREM WithdrawnNeverUsedHolds == Spec => WithdrawnNeverUsed
<1>1. ASSUME SendInv, [Next]_vars, NEW a \in withdrawn
      PROVE  records'[a].status = "consumed" => records[a].status = "consumed"
  BY <1>1, StatusMoves DEF SendInv, Told, Once, Basics, TypeOK
<1>2. SendInv /\ [Next]_vars =>
        [\A a \in withdrawn : records'[a].status = "consumed" => records[a].status = "consumed"]_vars
  BY <1>1
<1> QED
  BY <1>2, Invariance, PTL DEF Spec, WithdrawnNeverUsed

(* What Consume does when it uses an approval. *)
LEMMA Used ==
    ASSUME SendInv, [Next]_vars, NEW a \in Approval,
           records'[a].status = "consumed", records[a].status # "consumed"
    PROVE  \E r \in Request :
              /\ Consume(r) /\ state[r].id = a /\ body'[r] = "click"
              /\ CanConsume(a, caller[r], state[r].epoch)
<1>1. PICK r \in Request : Consume(r) /\ state[r].id = a
  BY StatusMoves DEF SendInv, Once
<1>2. body'[r] = "click"
  BY <1>1 DEF Consume, Goto, SendInv, Basics, TypeOK
<1> QED
  BY <1>1, <1>2 DEF Consume

(* An approval is used before it expires and for the epoch it was given for,
   however long its call waited (consume() in action-approval.ts). *)
THEOREM UsedInTimeHolds == Spec => UsedInTime
<1> DEFINE Step == \A a \in Approval :
          records'[a].status = "consumed" /\ records[a].status # "consumed" =>
             /\ records[a].status = "granted"
             /\ now < records[a].expires
             /\ \E r \in Request : /\ body'[r] = "click" /\ state[r].id = a
                                   /\ state[r].epoch = records[a].epoch
<1>1. ASSUME SendInv, [Next]_vars
      PROVE  Step
  <2> SUFFICES ASSUME NEW a \in Approval,
                      records'[a].status = "consumed", records[a].status # "consumed"
               PROVE  /\ records[a].status = "granted"
                      /\ now < records[a].expires
                      /\ \E r \in Request : /\ body'[r] = "click" /\ state[r].id = a
                                            /\ state[r].epoch = records[a].epoch
    OBVIOUS
  <2>1. PICK r \in Request : /\ state[r].id = a /\ body'[r] = "click"
                             /\ CanConsume(a, caller[r], state[r].epoch)
    BY <1>1, Used
  <2>2. records[a].expires \in Nat /\ now \in Nat
    BY <1>1, BoundAssumption DEF SendInv, Basics, TypeOK
  <2> QED
    BY <2>1, <2>2 DEF CanConsume, Active, Expired
<1>2. SendInv /\ [Next]_vars => [Step]_vars
  BY <1>1
<1> QED
  BY <1>2, Invariance, PTL DEF Spec, UsedInTime

(* Before the first timeout, and as long as no selection has failed after its
   click over a connection that is fine, an approval is used on a page that
   shows the route it was given for, although the connection may be lost and
   found again between any two steps; and in the epoch it was given for, if no
   connection was lost (sendVerifiedRouteToDevice()). *)
THEOREM UsedOnApprovedPageHolds == Spec => UsedOnApprovedPage
<1> DEFINE Step == timeouts = 0 /\ ~ astray =>
         \A a \in Approval :
            records'[a].status = "consumed" /\ records[a].status # "consumed" =>
               /\ records[a].caller = page
               /\ lost = 0 => records[a].epoch = epoch
<1>1. ASSUME SendInv, [Next]_vars
      PROVE  Step
  <2> SUFFICES ASSUME timeouts = 0, ~ astray, NEW a \in Approval,
                      records'[a].status = "consumed", records[a].status # "consumed"
               PROVE  /\ records[a].caller = page
                      /\ lost = 0 => records[a].epoch = epoch
    OBVIOUS
  <2>1. PICK r \in Request : Consume(r) /\ CanConsume(a, caller[r], state[r].epoch)
    BY <1>1, Used
  <2>2. page = caller[r]
    BY <1>1, <2>1 DEF Consume, SendInv, OnPage, RequestOnPage
  <2>3. lost = 0 => state[r].epoch = epoch
    BY <1>1, <2>1 DEF Consume, SendInv, InEpoch
  <2> QED
    BY <2>1, <2>2, <2>3 DEF CanConsume
<1>2. SendInv /\ [Next]_vars => [Step]_vars
  BY <1>1
<1> QED
  BY <1>2, Invariance, PTL DEF Spec, UsedOnApprovedPage

=============================================================================
