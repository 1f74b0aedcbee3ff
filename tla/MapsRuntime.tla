----------------------------- MODULE MapsRuntime -----------------------------
(***************************************************************************)
(* What MapsBrowserRuntime remembers about the page, and the page itself.  *)
(*                                                                         *)
(* src/src/browser/runtime.ts keeps lastAction, selectedRoute, viewState   *)
(* and a resource epoch beside a page that challenges, redirects, clicks,  *)
(* a lost CDP connection and the person at the machine can change.  Each   *)
(* tool checks the page, acts on it, waits, checks again and only then     *)
(* writes what it remembers.  An action here is what runs between two      *)
(* awaits; tools interleave because the task of an operation that the      *)
(* watchdog gave up goes on beside the next one, as a zombie.              *)
(*                                                                         *)
(* Of the semantic tools there is one of each shape: maps_search and       *)
(* maps_directions (navigate), selecting a place and a route, the UI-only  *)
(* mutation (setting the Recommended mode) and a read.  How an             *)
(* intervention goes on is in HandoffServer; here it is only active.       *)
(***************************************************************************)
EXTENDS Integers, FiniteSets

CONSTANTS
    Operation,    \* operations of the queue
    NoOperation,
    Search,       \* the search requests
    Directions,   \* the directions requests
    NoAction,
    MaxTimeouts,  \* bound: operations the watchdog gives up
    MaxDrops,     \* bound: CDP connections lost
    MaxMoves,     \* bound: navigations by hand
    MaxChallenges, \* bound: challenges the page shows
    ChromeCrashes, \* whether Chrome can go down with a connection
    EvaluationsFail \* whether a read can fail over a live connection

Action == Search \cup Directions
Route == 1 .. 2

ASSUME NamesAssumption ==
    /\ NoOperation \notin Operation /\ NoAction \notin Action
    /\ Search \cap Directions = {}
ASSUME BoundAssumption == {MaxTimeouts, MaxDrops, MaxMoves, MaxChallenges} \subseteq Nat
ASSUME FailureAssumption == {ChromeCrashes, EvaluationsFail} \subseteq BOOLEAN

VARIABLES
    memory,     \* lastAction, viewState and selectedRoute
    epoch,      \* the resource epoch
    active,     \* whether an intervention is active
    client,     \* the CDP client, 0 when there is none
    attached,   \* how many clients were attached so far: their names
    sockets,    \* the clients whose socket is open
    chrome,     \* whether Chrome runs
    page,       \* what the page shows, and what clicks changed on it
    task,       \* the task of each operation
    turn,       \* the operation that has the turn
    reset,      \* the watchdog's close(): "no", "dropped" or "closing"
    used,       \* how much of each bound is used up
    calm        \* history: no timeout, crash, failed read or move so far

memoryVars == <<memory, epoch, active>>
browserVars == <<client, attached, sockets, chrome, page>>
queueVars == <<turn, reset>>
historyVars == <<used, calm>>
vars == <<memoryVars, browserVars, task, queueVars, historyVars>>

Tools == {"navigate", "selectPlace", "selectRoute", "recommended", "read"}
Kinds == {"blank", "search", "place", "directions", "other"}
Views == {"blank", "search", "place", "directions", "route"}
NoRoute == [of |-> NoAction, route |-> 0]
NoMemory == [last |-> NoAction, view |-> "blank", route |-> NoRoute]

(* at: what the task awaits.  arg: the request it is for.  seen: the kind of
   page it read last.  picked: the route it clicked.  clicked: uiMutated.
   held: the client it captured.
   link: whether the access it awaits has been through ensureConnected(). *)
NoTask == [at |-> "idle", tool |-> "none", arg |-> NoAction, seen |-> "blank",
           picked |-> NoRoute, clicked |-> FALSE, held |-> 0, link |-> "ask"]

(* Awaits of an access through getClient(), of one with the captured client,
   and of a timer. *)
Access == {"go", "url1", "inline1", "url2", "inline2", "url3", "inline3",
           "click", "poll", "same1", "same2", "take"}
Captured == {"mark", "verify"}
Timers == {"load", "settle"}

Page(kind, a) == [kind |-> kind, of |-> a, route |-> 0, refined |-> FALSE]
BlankPage == Page("blank", NoAction)
OtherPage == Page("other", NoAction)

SelectedRoutes == [of : Directions, route : Route] \cup {NoRoute}

TypeOK ==
    /\ memory \in [last : Action \cup {NoAction}, view : Views, route : SelectedRoutes]
    /\ {epoch, client, attached} \subseteq Nat
    /\ sockets \subseteq 1 .. attached /\ client <= attached
    /\ {active, chrome} \subseteq BOOLEAN
    /\ page \in [kind : Kinds, of : Action \cup {NoAction},
                 route : {0} \cup Route, refined : BOOLEAN]
    /\ task \in [Operation ->
                    [at : Access \cup Captured \cup Timers \cup {"idle", "done"},
                     tool : Tools \cup {"none"}, arg : Action \cup {NoAction},
                     seen : Kinds, picked : SelectedRoutes, clicked : BOOLEAN,
                     held : Nat, link : {"ask", "connecting", "answered"}]]
    /\ turn \in Operation \cup {NoOperation}
    /\ reset \in {"no", "dropped", "closing"}
    /\ reset # "no" => turn # NoOperation
    /\ ~ chrome => sockets = {} /\ page = BlankPage
    /\ used \in [timeouts : 0 .. MaxTimeouts, drops : 0 .. MaxDrops,
                 moves : 0 .. MaxMoves, challenges : 0 .. MaxChallenges]
    /\ calm \in BOOLEAN

Init ==
    /\ memory = NoMemory /\ epoch = 0 /\ active = FALSE
    /\ client = 0 /\ attached = 0 /\ sockets = {} /\ chrome = FALSE /\ page = BlankPage
    /\ task = [o \in Operation |-> NoTask]
    /\ turn = NoOperation /\ reset = "no"
    /\ used = [timeouts |-> 0, drops |-> 0, moves |-> 0, challenges |-> 0]
    /\ calm = TRUE

-----------------------------------------------------------------------------
(* Ends of a segment of operation o.  t is its task, m and e are memory and *)
(* epoch, as the segment has computed them so far.                          *)

(* The definitions named Slip... are plausible mistakes in the definition that
   follows them.  Nothing uses them but the runs that show that a property
   would notice. *)

Leaves(o) ==
    /\ task' = [task EXCEPT ![o] = [NoTask EXCEPT !.at = "done"]]
    /\ turn' = IF turn = o /\ reset = "no" THEN NoOperation ELSE turn

Succeeds(o, m) ==
    memory' = m /\ epoch' = epoch + 1 /\ Leaves(o)

SlipFails(o, t, m, e, human) ==
    memory' = m /\ epoch' = e /\ Leaves(o)

(* An error leaves the task.  A UI-only mutation that has clicked calls
   invalidateSemanticContext(), unless an intervention is active. *)
Fails(o, t, m, e, human) ==
    LET undo == t.clicked /\ ~ human /\ (m.view # "blank" \/ m.last # NoAction)
    IN  /\ memory' = IF undo THEN NoMemory ELSE m
        /\ epoch' = IF undo THEN e + 1 ELSE e
        /\ Leaves(o)

FailsPlainly(o) == Fails(o, task[o], memory, epoch, active)

(* invalidateSemanticState(), and the error that follows it. *)
Invalidates(o) == Fails(o, task[o], NoMemory, epoch + 1, active)

(* The next await needs no authority. *)
Waits(o, t, await) ==
    /\ task' = [task EXCEPT ![o] = [t EXCEPT !.at = await, !.link = "ask"]]
    /\ UNCHANGED <<memory, epoch, turn>>

(* The next await is an access through getClient(): assertAgentAuthority(). *)
Goes(o, t, await) ==
    \/ active /\ Fails(o, t, memory, epoch, TRUE)
    \/ ~ active /\ Waits(o, t, await)

-----------------------------------------------------------------------------
(* The connection.                                                         *)

Live == client \in sockets

(* Task o awaits a reply that can arrive. *)
Replied(o, await) ==
    /\ task[o].at = await
    /\ await \in Access => Live /\ task[o].link # "connecting"
    /\ await \in Captured => task[o].held \in sockets

SlipReconnect(o) ==
    /\ task[o].at \in Access /\ ~ Live /\ task[o].link = "ask"
    /\ task' = [task EXCEPT ![o].link = "connecting"]
    /\ client' = 0
    /\ UNCHANGED <<memoryVars, attached, sockets, chrome, page, queueVars, historyVars>>

(* ensureConnected() finds no client, or one that does not answer: semantic
   state is invalidated. *)
Reconnect(o) ==
    /\ task[o].at \in Access /\ ~ Live /\ task[o].link = "ask"
    /\ task' = [task EXCEPT ![o].link = "connecting"]
    /\ client' = 0
    /\ IF client # 0
       THEN memory' = NoMemory /\ epoch' = epoch + 1
       ELSE UNCHANGED <<memory, epoch>>
    /\ UNCHANGED <<active, attached, sockets, chrome, page, queueVars, historyVars>>

(* ... and attaches to the Maps page of the running Chrome, or starts one.
   When two tasks do so the later client replaces the earlier one, whose
   socket stays open. *)
Attach(o) ==
    /\ task[o].link = "connecting"
    /\ task' = [task EXCEPT ![o].link = "answered"]
    /\ attached' = attached + 1 /\ client' = attached'
    /\ sockets' = sockets \cup {attached'}
    /\ chrome' = TRUE
    /\ memory' = IF memory.last = NoAction THEN [memory EXCEPT !.view = "blank"] ELSE memory
    /\ UNCHANGED <<epoch, active, page, queueVars, historyVars>>

(* Chrome does not start, or has two Maps pages. *)
AttachFails(o) ==
    /\ task[o].link = "connecting"
    /\ \/ FailsPlainly(o)
       \/ chrome /\ Invalidates(o)
    /\ UNCHANGED <<active, browserVars, reset, historyVars>>

(* The client is closed, or its connection lost, while a reply is awaited. *)
AccessFails(o) ==
    /\ \/ task[o].at \in Access /\ ~ Live /\ task[o].link # "connecting"
       \/ task[o].at \in Captured /\ task[o].held \notin sockets
    /\ FailsPlainly(o)
    /\ UNCHANGED <<active, browserVars, reset, historyVars>>

(* Reading the page fails although the connection is fine: the page goes
   while it is read. *)
EvaluationFails(o) ==
    /\ EvaluationsFail
    /\ \E await \in {"url1", "inline1", "url2", "inline2", "url3", "inline3",
                    "poll", "same1", "same2", "verify"} : Replied(o, await)
    /\ FailsPlainly(o) /\ calm' = FALSE
    /\ UNCHANGED <<active, browserVars, reset, used>>

-----------------------------------------------------------------------------
(* What an access may do to the page.                                      *)

KindOf(a) == IF a \in Directions THEN "directions" ELSE "search"

(* Page.navigate: a search with one result may land on a place.            *)
Landing(a) == {Page(KindOf(a), a)} \cup (IF a \in Search THEN {Page("place", a)} ELSE {})

(* candidateExpression() and recommendedModeExpression() click only what
   they find. *)
Effects(o) ==
    LET t == task[o] IN
    CASE t.at = "go" -> Landing(t.arg)
      [] t.at = "click" /\ t.tool = "selectRoute" /\ page.kind = "directions" ->
            {[page EXCEPT !.route = r] : r \in Route} \cup {OtherPage}
      [] t.at = "click" /\ t.tool = "selectPlace" /\ page.kind = "search" ->
            {page, [page EXCEPT !.kind = "place"], OtherPage}
      [] t.at = "mark" /\ page.kind = "directions" /\ ~ page.refined ->
            {[page EXCEPT !.refined = TRUE]}
      [] OTHER -> {}

-----------------------------------------------------------------------------
(* Tools.                                                                  *)

ArgumentsOf(k) ==
    CASE k = "navigate" -> Action
      [] k = "recommended" -> Directions
      [] OTHER -> {NoAction}

(* The operation gets the turn; its first await is in getClient(). *)
Start(o) ==
    /\ turn = NoOperation /\ task[o].at = "idle"
    /\ \E k \in Tools, a \in Action \cup {NoAction} :
          LET t == [NoTask EXCEPT !.tool = k, !.arg = a] IN
          /\ a \in ArgumentsOf(k)
          /\ \/ active /\ task' = [task EXCEPT ![o].at = "done"] /\ UNCHANGED turn
             \/ /\ ~ active /\ turn' = o
                /\ task' = [task EXCEPT ![o] =
                               [t EXCEPT !.at = IF k = "navigate" THEN "go" ELSE "url1"]]
    /\ UNCHANGED <<memoryVars, browserVars, reset, historyVars>>

TaskStep(o, step) ==
    step /\ UNCHANGED <<active, client, attached, sockets, chrome, reset, historyVars>>

(* navigate(): the load event, or 8 seconds. *)
Go(o) == Replied(o, "go") /\ page' \in Effects(o) /\ Waits(o, task[o], "load")
Loaded(o) == Replied(o, "load") /\ Goes(o, task[o], "url1") /\ UNCHANGED page

(* currentUrl() and assertAllowedCurrentUrl(). *)
ReadUrl(o, await, next) ==
    /\ Replied(o, await)
    /\ \/ page.kind = "blank" /\ Invalidates(o)
       \/ page.kind # "blank" /\ Goes(o, [task[o] EXCEPT !.seen = page.kind], next)
    /\ UNCHANGED page

Navigated(o) ==
    Succeeds(o, [last |-> task[o].arg, view |-> KindOf(task[o].arg), route |-> NoRoute])

Readable(o) ==
    \/ task[o].seen \in {"search", "place"} /\ memory.view \in {"search", "place"}
    \/ task[o].seen = "directions" /\ memory.view \in {"directions", "route"}

OnPlaces(o) == task[o].seen = "search" /\ memory.view = "search"
OnRoutes(o) == task[o].seen = "directions" /\ memory.view \in {"directions", "route"}
OnDirections(o) == task[o].seen = "directions" /\ memory.last \in Directions

(* assertDirectionsContext(), then the identity of the request. *)
Fresh(o, next) ==
    \/ ~ OnDirections(o) /\ Invalidates(o)
    \/ OnDirections(o) /\ memory.last # task[o].arg /\ FailsPlainly(o)
    \/ OnDirections(o) /\ memory.last = task[o].arg /\ Goes(o, task[o], next)

(* assertNoInlineChallenge() has passed, and with it the surface check. *)
Checked1(o) ==
    /\ Replied(o, "inline1")
    /\ \/ task[o].tool = "navigate" /\ Navigated(o)
       \/ /\ task[o].tool = "read"
          /\ \/ Readable(o) /\ Leaves(o) /\ UNCHANGED <<memory, epoch>>
             \/ ~ Readable(o) /\ Invalidates(o)
       \/ /\ task[o].tool = "selectPlace"
          /\ \/ OnPlaces(o) /\ Goes(o, task[o], "click")
             \/ ~ OnPlaces(o) /\ Invalidates(o)
       \/ /\ task[o].tool = "selectRoute"
          /\ \/ OnRoutes(o) /\ Goes(o, task[o], "click")
             \/ ~ OnRoutes(o) /\ Invalidates(o)
       \/ task[o].tool = "recommended" /\ Fresh(o, "same1")
    /\ UNCHANGED page

Checked2(o) ==
    /\ Replied(o, "inline2")
    /\ \/ /\ task[o].tool = "selectPlace"
          /\ Succeeds(o, [memory EXCEPT !.view = "place", !.route = NoRoute])
       \/ /\ task[o].tool = "selectRoute"
          /\ \/ /\ task[o].seen = "directions"
                /\ Succeeds(o, [memory EXCEPT !.view = "route", !.route = task[o].picked])
             \/ task[o].seen # "directions" /\ Invalidates(o)
       \/ task[o].tool = "recommended" /\ Fresh(o, "same2")
    /\ UNCHANGED page

Checked3(o) ==
    /\ Replied(o, "inline3")
    /\ \/ task[o].tool = "selectPlace" /\ Invalidates(o)
       \/ /\ task[o].tool = "recommended"
          /\ \/ task[o].seen = "directions" /\ Waits(o, task[o], "verify")
             \/ task[o].seen # "directions" /\ FailsPlainly(o)
    /\ UNCHANGED page

(* clickCandidate(): nothing or something else is found, or it is clicked. *)
Click(o) ==
    /\ Replied(o, "click")
    /\ \/ FailsPlainly(o) /\ UNCHANGED page
       \/ /\ page' \in Effects(o)
          /\ \/ task[o].tool = "selectPlace" /\ Goes(o, task[o], "poll")
             \/ /\ task[o].tool = "selectRoute"
                /\ page'.kind = "directions"
                /\ Waits(o, [task[o] EXCEPT !.picked =
                        [of |-> page.of, route |-> page'.route]],
                         "settle")
             \/ /\ task[o].tool = "selectRoute"
                /\ page'.kind # "directions"
                /\ Waits(o, task[o], "settle")

Settled(o) == Replied(o, "settle") /\ Goes(o, task[o], "url2") /\ UNCHANGED page

(* waitForMapsPathKind("place"), until 8 seconds are over. *)
Poll(o) ==
    /\ Replied(o, "poll")
    /\ \/ page.kind = "blank" /\ Invalidates(o)
       \/ page.kind = "place" /\ Goes(o, task[o], "inline2")
       \/ page.kind \notin {"blank", "place"} /\ Goes(o, task[o], "url3")
    /\ UNCHANGED page

(* The URL is that of the fresh request; then the client is captured, and
   everything is checked again. *)
Same(o) ==
    /\ \/ Replied(o, "same1") /\ \/ page.of = memory.last /\ Goes(o, task[o], "take")
                                 \/ FailsPlainly(o)
       \/ Replied(o, "same2") /\ \/ page.of = memory.last /\ Waits(o, task[o], "mark")
                                 \/ FailsPlainly(o)
    /\ UNCHANGED page

Take(o) ==
    /\ Replied(o, "take")
    /\ Goes(o, [task[o] EXCEPT !.held = client], "url2")
    /\ UNCHANGED page

(* The control is clicked, is set already, is not there yet, or never comes. *)
Mark(o) ==
    /\ Replied(o, "mark")
    /\ \/ page' \in Effects(o) /\ Goes(o, [task[o] EXCEPT !.clicked = TRUE], "url3")
       \/ page.refined /\ Goes(o, task[o], "url3") /\ UNCHANGED page
       \/ ~ page.refined /\ Goes(o, task[o], "url2") /\ UNCHANGED page
       \/ FailsPlainly(o) /\ UNCHANGED page

(* The postcondition holds, not yet, or never: markSemanticMutation...(). *)
Verify(o) ==
    /\ Replied(o, "verify")
    /\ \/ /\ page.refined /\ ~ active
          /\ Succeeds(o, [memory EXCEPT !.last = NoAction, !.route = NoRoute])
       \/ page.refined /\ active /\ FailsPlainly(o)
       \/ Goes(o, task[o], "url3")
       \/ FailsPlainly(o)
    /\ UNCHANGED page

Tool(o) ==
    \/ Go(o) \/ Loaded(o) \/ Click(o) \/ Settled(o) \/ Poll(o) \/ Same(o) \/ Take(o)
    \/ ReadUrl(o, "url1", "inline1") \/ ReadUrl(o, "url2", "inline2")
    \/ ReadUrl(o, "url3", "inline3")
    \/ Checked1(o) \/ Checked2(o) \/ Checked3(o) \/ Mark(o) \/ Verify(o)

(* requireHumanIntervention(): begin() returns the active intervention if
   there is one, and advances the epoch if there is none. *)
Challenge(o) ==
    /\ used.challenges < MaxChallenges
    /\ \E await \in {"url1", "inline1", "url2", "inline2", "url3", "inline3", "poll"} :
          Replied(o, await)
    /\ used' = [used EXCEPT !.challenges = @ + 1]
    /\ active' = TRUE
    /\ Fails(o, task[o], NoMemory, IF active THEN epoch ELSE epoch + 1, TRUE)
    /\ page' = OtherPage
    /\ UNCHANGED <<client, attached, sockets, chrome, reset, calm>>

-----------------------------------------------------------------------------
(* The watchdog: MapsBrowserRuntime.close().                               *)

(* resetClient() *)
Detach == sockets' = sockets \ {client} /\ client' = 0

Timeout(o) ==
    /\ turn = o /\ reset = "no" /\ used.timeouts < MaxTimeouts
    /\ used' = [used EXCEPT !.timeouts = @ + 1]
    /\ reset' = "dropped" /\ calm' = FALSE
    /\ Detach
    /\ UNCHANGED <<memoryVars, attached, chrome, page, task, turn>>

SlipResetForgets ==
    /\ reset = "dropped"
    /\ reset' = "closing"
    /\ active' = FALSE
    /\ memory' = NoMemory
    /\ UNCHANGED <<epoch, browserVars, task, turn, historyVars>>

(* The client is closed: an intervention is cancelled, the memory erased. *)
ResetForgets ==
    /\ reset = "dropped"
    /\ reset' = "closing"
    /\ active' = FALSE
    /\ memory' = NoMemory /\ epoch' = epoch + 1
    /\ UNCHANGED <<browserVars, task, turn, historyVars>>

(* Chrome has been stopped, and the next operation gets its turn. *)
SlipChromeStops == chrome' = FALSE /\ UNCHANGED page

ChromeStops == chrome' = FALSE /\ page' = BlankPage

ResetEnds ==
    /\ reset = "closing"
    /\ reset' = "no" /\ turn' = NoOperation
    /\ ChromeStops /\ sockets' = {}
    /\ UNCHANGED <<memoryVars, client, attached, task, historyVars>>

-----------------------------------------------------------------------------
(* The Human.                                                              *)

(* suspendAutomationForCredentialSafeHumanControl() *)
HumanTakes ==
    /\ active /\ turn = NoOperation /\ chrome
    /\ memory' = NoMemory
    /\ client' = 0 /\ sockets' = {} /\ ChromeStops
    /\ UNCHANGED <<epoch, active, attached, task, queueVars, historyVars>>

(* The intervention is completed or cancelled; both advance the epoch.     *)
HumanEnds ==
    /\ active
    /\ active' = FALSE /\ epoch' = epoch + 1
    /\ UNCHANGED <<memory, browserVars, task, queueVars, historyVars>>

(* Somebody navigates the dedicated browser by hand. *)
Move ==
    /\ chrome /\ used.moves < MaxMoves
    /\ used' = [used EXCEPT !.moves = @ + 1] /\ calm' = FALSE
    /\ page' \in {OtherPage} \cup {Page(KindOf(a), a) : a \in Action}
    /\ UNCHANGED <<memoryVars, client, attached, sockets, chrome, task, queueVars>>

(* The connection is lost, with Chrome or without it. *)
Drop ==
    /\ Live /\ used.drops < MaxDrops
    /\ used' = [used EXCEPT !.drops = @ + 1]
    /\ \/ sockets' = sockets \ {client} /\ UNCHANGED <<chrome, page, calm>>
       \/ ChromeCrashes /\ sockets' = {} /\ ChromeStops /\ calm' = FALSE
    /\ UNCHANGED <<memoryVars, client, attached, task, queueVars>>

(* ... after the page has done what was asked and before the reply. *)
ReplyLost(o) ==
    /\ \E await \in {"go", "click", "mark"} : Replied(o, await)
    /\ used.drops < MaxDrops
    /\ used' = [used EXCEPT !.drops = @ + 1]
    /\ page' \in Effects(o)
    /\ sockets' = sockets \ {client}
    /\ FailsPlainly(o)
    /\ UNCHANGED <<active, client, attached, chrome, reset, calm>>

Next ==
    \/ \E o \in Operation :
          \/ Start(o) \/ TaskStep(o, Tool(o)) \/ Challenge(o) \/ ReplyLost(o)
          \/ Reconnect(o) \/ Attach(o) \/ AttachFails(o) \/ AccessFails(o)
          \/ EvaluationFails(o) \/ Timeout(o)
    \/ ResetForgets \/ ResetEnds \/ HumanTakes \/ HumanEnds \/ Move \/ Drop

Spec == Init /\ [][Next]_vars

-----------------------------------------------------------------------------
(* What holds until an operation times out.                                *)

Quiet == turn = NoOperation /\ Live

(* Between operations the runtime remembers what the page shows: its request,
   and the route that is selected on it, although clicks miss, replies get
   lost, pages leave and connections break in the middle of every tool.  A
   navigation that is done and cannot be read leaves the memory of the request
   before, and a Chrome that went down inside a navigation the request of a page
   that is gone: both are what calm leaves out. *)
MemoryMatchesPage ==
    Quiet /\ calm =>
        /\ memory.last # NoAction => page.of = memory.last
        /\ memory.route # NoRoute =>
              page.of = memory.route.of /\ page.route = memory.route.route

(* Until the first timeout: once the UI of a directions page was changed by a
   click, the request it was opened with is no longer there to be replayed or
   recompiled: neither after a verified mutation nor after one that failed half
   way, whatever failed
   (docs/maps-web-capability-inventory.md:108: success "drops the stale replayable action"). *)
ReplayFenced ==
    Quiet /\ used.timeouts = 0 /\ page.refined => memory.last = NoAction

-----------------------------------------------------------------------------
(* What holds always.                                                      *)

(* As long as the agent has control, the selected route and the replayable
   request never change within one resource epoch: what was approved for an
   epoch (RouteSend) was approved for that route, whatever zombies do. *)
EpochFence ==
    [][~ active /\ (memory'.last # memory.last \/ memory'.route # memory.route) =>
          epoch' > epoch]_vars

=============================================================================
