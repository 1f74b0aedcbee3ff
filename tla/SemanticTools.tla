---------------------------- MODULE SemanticTools ----------------------------
(***************************************************************************)
(* A semantic tool at work on the page.                                    *)
(*                                                                         *)
(* The operation queue runs one call at a time; between any two awaits of  *)
(* it the page may get to a click, move on its own, show a challenge, or   *)
(* lose the connection.  Every tool of src/src/browser follows a plan of   *)
(* stages (SearchTools, PlaceTools, DirectionsTools), so one step of the   *)
(* machine is an assertion or an expression of the current stage; what     *)
(* sets the tools apart is what a finished or a failed call does to the    *)
(* memory of the runtime.                                                  *)
(***************************************************************************)
EXTENDS SearchTools, PlaceTools, DirectionsTools

CONSTANTS
    Tools,          \* the tools that are called
    MaxFaults       \* bound: moves of the page on its own, challenges, lost
                    \* connections and marks by given-up calls, per context

SearchToolNames == {"rating", "zoom", "searchShare", "suggest", "select"}
PlaceToolNames == {"save", "saveState", "nearby", "hours", "tab", "photos", "placeShare"}
DirectionsToolNames == {"time", "routeShare", "swap", "travelMode"}

ASSUME ToolsAssumption ==
    Tools \subseteq SearchToolNames \cup PlaceToolNames \cup DirectionsToolNames
ASSUME BoundAssumption == MaxFaults \in Nat

VARIABLES
    page,     \* what the page shows
    memory,   \* viewState and lastAction
    epoch,    \* how often the resource epoch advanced since the call began
    active,   \* whether an intervention is active
    linked,   \* whether the CDP connection is up
    call,     \* the call that runs, or the last one
    faults    \* what went wrong in the current context

vars == <<page, memory, epoch, active, linked, call, faults>>

NoCall == [tool |-> "none", item |-> NoItem, to |-> NoItem, stage |-> "start", at |-> "idle",
           from |-> NoItem, late |-> FALSE, mutated |-> FALSE, failing |-> FALSE,
           reopened |-> FALSE, unfenced |-> FALSE, result |-> "none"]
NoFault == [number |-> 0, moved |-> FALSE]
Fault(moved) ==
    /\ faults.number < MaxFaults
    /\ faults' = [number |-> faults.number + 1, moved |-> faults.moved \/ moved]

PlanOf(tool) ==
    CASE tool = "rating" -> RatingPlan       [] tool = "zoom" -> ZoomPlan
      [] tool = "searchShare" -> SearchSharePlan
      [] tool = "suggest" -> SuggestPlan     [] tool = "select" -> SelectSuggestionPlan
      [] tool = "save" -> SavePlan           [] tool = "saveState" -> SaveStatePlan
      [] tool = "nearby" -> NearbyPlan       [] tool = "hours" -> HoursPlan
      [] tool = "tab" -> TabPlan             [] tool = "photos" -> PhotoPlan
      [] tool = "placeShare" -> PlaceSharePlan
      [] tool = "time" -> TimePlan           [] tool = "routeShare" -> RouteSharePlan
      [] tool = "swap" -> SwapPlan           [] tool = "travelMode" -> TravelModePlan

Now == PlanOf(call.tool)[call.stage]

(* Stages that only assert, and stages that send keys or the pointer. *)
OnlyAsserts == {"start", "again", "last", "leave"}
Sending == {"type", "press"}

(* What the expression of the current stage may do and reply. *)
Finds(c, p) ==
    CASE c.tool = "rating" -> RatingSees(c.stage, p, c.item)
      [] c.tool = "zoom" /\ c.stage = "click" -> ZoomActionSees(p, c.item, c.to)
      [] c.tool = "zoom" /\ c.stage # "click" -> ZoomPostSees(p, c.item, c.to, c.from)
      [] c.tool = "searchShare" -> SearchShareSees(c.stage, p, c.item)
      [] c.tool \in {"suggest", "select"} -> SuggestSees(c.stage, p, c.item)
      [] c.tool = "save" -> SaveSees(c.stage, p, c.item, c.reopened)
      [] c.tool = "nearby" -> NearbySees(c.stage, p, c.item, c.to)
      [] c.tool = "time" -> TimeSees(c.stage, p, c.from)
      [] c.tool = "routeShare" -> RouteShareSees(c.stage, p)
      [] OTHER -> PlaceSees(c.tool, c.stage, p, c.item)

Sees(c, p) ==
    IF c.stage \in OnlyAsserts THEN {Saw(p, "ok")}
    ELSE Finds(c, p) \cup (IF c.stage \in Sending THEN {} ELSE Odd(p))

(* ------------------------- how a call is remembered -------------------- *)
(* The stages whose "ok" sets uiMutated, opened or clickAttempted. *)
Mutates(tool, stage) ==
    \/ tool \in {"rating"} /\ stage = "trigger"
    \/ tool \in {"zoom", "select", "hours", "tab"} /\ stage = "click"
    \/ tool \in {"time", "searchShare", "routeShare"} /\ stage = "open"
    \/ tool = "save" /\ stage = "point"

(* A mutant: failed opening hours leave the memory as it is. *)
SlipInvalidating == {"rating", "zoom", "select", "tab", "time", "save"}

Invalidating == {"rating", "zoom", "select", "hours", "tab", "time", "save"}

Sharing == {"searchShare", "routeShare"}

(* A tool that opened a menu or a dialog sends Escape at the end, whatever
   came of it, while the agent has authority. *)
EscapesAfter(tool, stage) ==
    \/ tool = "save" /\ stage # "start"
    \/ tool \in {"saveState", "placeShare"} /\ stage = "read"

Leave(c, p, blocked) ==
    IF EscapesAfter(c.tool, c.stage) /\ ~blocked THEN Click(p, "close") ELSE p

Advance == IF epoch < 2 THEN epoch + 1 ELSE epoch

(* unfenced: history, whether a call failed in this context that clicks and
   never invalidates. *)
Unfencing == {"nearby", "photos"}
Ended(c, result) ==
    [NoCall EXCEPT !.tool = c.tool, !.result = result,
                   !.unfenced = c.unfenced \/ (c.tool \in Unfencing /\ result = "error")]

(* Whether a failed call drops the memory: it may have changed the page and no
   intervention, which has dropped it already, is active. *)
Drops(c, human) ==
    \/ c.tool \in Invalidating /\ c.mutated /\ ~human
    \/ c.tool \in Sharing /\ c.failing

(* Whether a share dialog may be open: it is closed for good at the last
   assertion. *)
Opened(c) == c.tool \in Sharing /\ c.mutated /\ c.stage # "last"

(* The catch and finally blocks: the call threw on page p, with memory m, and
   an intervention may be active. *)
Throw(c, p, m, human) ==
    IF Opened(c) /\ ~c.failing /\ ~human
    THEN /\ call' = [c EXCEPT !.stage = "close", !.at = "guard", !.late = FALSE, !.failing = TRUE]
         /\ page' = p /\ memory' = m /\ epoch' = epoch
    ELSE /\ memory' = IF Drops(c, human) THEN Blank ELSE m
         /\ epoch' = IF Drops(c, human) /\ m # Blank THEN Advance ELSE epoch
         /\ page' = Leave(c, p, human)
         /\ call' = Ended(c, "error")

(* The call returns: what it marks, adopts or navigates to. *)
Return(c, p, result) ==
    LET goes == IF c.tool = "nearby" THEN "search" ELSE "directions"
        navigates == c.tool \in {"nearby", "swap", "travelMode"}
    IN /\ memory' =
            IF c.failing \/ result = "already" THEN memory
            ELSE CASE navigates -> [view |-> goes, last |-> c.to]
                   [] c.tool = "select" ->
                         [view |-> p.path, last |-> IF p.path = "search" THEN p.of ELSE c.item]
                   [] c.tool = "time" -> [memory EXCEPT !.last = NoItem]
                   [] c.tool = "hours" /\ p.hours = "detail" -> Blank
                   [] OTHER -> memory
       /\ epoch' = IF result = "ok" /\ ~c.failing /\ (c.tool \in Invalidating \/ navigates)
                   THEN Advance ELSE epoch
       /\ page' = IF navigates THEN Fresh(goes, c.to, Settled(p).saved) ELSE Leave(c, p, FALSE)
       /\ call' = Ended(c, IF c.failing THEN "error" ELSE result)

(* ------------------------------- the call ------------------------------- *)
Items(tool) ==
    IF tool \in SearchToolNames THEN Query
    ELSE IF tool \in PlaceToolNames THEN Place ELSE Trip

(* What else a call names: a zoom direction, a query, the trip to go to. *)
Choices(tool) ==
    CASE tool = "zoom" -> {1, -1}
      [] tool = "nearby" -> Query
      [] tool \in {"swap", "travelMode"} -> Trip
      [] OTHER -> {NoItem}

(* A call gets its client first: a connection that was lost is set up again,
   and the memory of the old page dropped.  Reading suggestions navigates. *)
Begin(tool, item, to) ==
    /\ call.at = "idle" /\ ~active /\ page.path # "blocked"
    /\ call' = [NoCall EXCEPT !.tool = tool, !.item = item, !.to = to, !.at = "guard",
                           !.unfenced = call.unfenced]
    /\ IF tool = "suggest"
       THEN /\ page' = Fresh("home", NoItem, Settled(page).saved)
            /\ memory' = [view |-> "suggestions", last |-> item]
       ELSE /\ page' = page
            /\ memory' = IF linked THEN memory ELSE Blank
    /\ linked' = TRUE
    /\ epoch' = 0
    /\ UNCHANGED <<active, faults>>

(* Reasons to refuse that the page record leaves out: the account is not
   signed in; Maps has rewritten the directions URL. *)
MayRefuse(c) == \/ c.tool \in {"save", "saveState"} /\ c.stage = "start"
                \/ Now.guard = "trip"

(* The save is refused when the epoch is not the one it began with: once the
   lists are read, and again before the row is. *)
StaleEpoch(c, stage) == c.tool = "save" /\ c.stage = stage /\ epoch # 0

Origin(c, p) ==
    CASE c.tool = "hours" /\ c.stage = "start" -> p.of
      [] OTHER -> c.from

AssertContext ==
    /\ call.at = "guard"
    /\ ~(call.late /\ Now.poll = "head")
    /\ LET verdict == Assertion(Now.guard, page, memory, call.item, call.from)
       IN \/ /\ verdict = "ok" /\ ~StaleEpoch(call, "point")
             /\ call' = [call EXCEPT !.at = "look", !.from = Origin(call, page)]
             /\ UNCHANGED <<page, memory, epoch, active>>
          \/ /\ verdict = "ok" /\ (StaleEpoch(call, "point") \/ MayRefuse(call))
             /\ Throw(call, page, memory, FALSE)
             /\ UNCHANGED active
          \/ /\ verdict = "human"
             /\ active' = TRUE
             /\ Throw(call, page, Blank, TRUE)
          \/ /\ verdict = "drop" /\ call.tool = "photos" /\ call.stage = "leave" /\ ~call.failing
             /\ memory' = Blank /\ epoch' = Advance
             /\ call' = Ended(call, "ok")
             /\ UNCHANGED <<page, active>>
          \/ /\ verdict = "drop"
             /\ ~(call.tool = "photos" /\ call.stage = "leave" /\ ~call.failing)
             /\ Throw(call, page, Blank, FALSE)
             /\ UNCHANGED active
          \/ /\ verdict = "throw"
             /\ Throw(call, page, memory, FALSE)
             /\ UNCHANGED active
    /\ UNCHANGED <<linked, faults>>

(* Where a reply leads, other than to the next stage. *)
Follows(c, reply) ==
    CASE reply = "closed" /\ c.tool = "save" -> "reopen"
      [] reply = "closed" /\ c.tool # "save" -> "last"
      [] reply = "still_open" -> "close"
      [] OTHER -> Now.next

(* What the expression read and a later stage compares with. *)
Noted(c, p) ==
    CASE c.tool = "zoom" /\ c.stage = "click" -> p.zoom
      [] c.tool = "time" /\ c.stage = "open" -> p.of
      [] OTHER -> c.from

GoesTo(c, stage, p) ==
    [c EXCEPT !.stage = stage, !.at = "guard",
              !.late = IF stage = "close" /\ c.stage = "closed" THEN c.late ELSE FALSE,
              !.from = Noted(c, page),
              !.mutated = c.mutated \/ Mutates(c.tool, c.stage),
              !.reopened = c.reopened \/ stage = "reopen"]

(* The expression runs in the page, and its reply is parsed. *)
Look ==
    /\ call.at = "look"
    /\ \E s \in Sees(call, page) :
         LET outcome == IF call.stage \in OnlyAsserts THEN "go" ELSE Outcome(Now.parser, s.reply)
             stage == Follows(call, s.reply)
             over == stage = "end" \/ (stage = "last" /\ call.failing)
         IN \/ /\ outcome = "go" /\ over
               /\ Return(call, s.page, "ok")
            \/ /\ outcome = "go" /\ ~over
               /\ page' = s.page
               /\ call' = GoesTo(call, stage, s.page)
               /\ UNCHANGED <<memory, epoch>>
            \/ /\ outcome = "done" /\ ~StaleEpoch(call, "read")
               /\ Return(call, s.page, "already")
            \/ /\ outcome = "again" /\ (Now.poll = "head" \/ (Now.poll = "tail" /\ ~call.late))
               /\ page' = s.page
               /\ call' = [call EXCEPT !.at = "guard"]
               /\ UNCHANGED <<memory, epoch>>
            \/ /\ \/ outcome = "throw"
                  \/ outcome = "done" /\ StaleEpoch(call, "read")
                  \/ outcome = "again" /\ (Now.poll = "once" \/ (Now.poll = "tail" /\ call.late))
               /\ Throw(call, s.page, memory, FALSE)
    /\ UNCHANGED <<active, linked, faults>>

(* A mutant: the deadline is not looked at while the page is busy. *)
SlipExpire ==
    /\ call.at = "guard" /\ call.late /\ Now.poll = "head" /\ page.lag = NoEffect
    /\ Throw(call, page, memory, FALSE)
    /\ UNCHANGED <<active, linked, faults>>

(* The loop finds its deadline gone.  Photos look whether the page left the
   place. *)
Expire ==
    /\ call.at = "guard" /\ call.late /\ Now.poll = "head"
    /\ IF call.tool = "photos" /\ page.path # "place"
       THEN /\ call' = [call EXCEPT !.stage = "leave", !.failing = TRUE, !.late = FALSE]
            /\ UNCHANGED <<page, memory, epoch>>
       ELSE Throw(call, page, memory, FALSE)
    /\ UNCHANGED <<active, linked, faults>>

(* ----------------------------- the surroundings ------------------------- *)
DeadlinePasses ==
    /\ call.at # "idle" /\ ~call.late /\ Now.poll # "once"
    /\ call' = [call EXCEPT !.late = TRUE]
    /\ UNCHANGED <<page, memory, epoch, active, linked, faults>>

Settle ==
    /\ page.lag # NoEffect
    /\ page' = Settled(page)
    /\ UNCHANGED <<memory, epoch, active, linked, call, faults>>

(* The page shows something else, of no modelled item perhaps: by a person at
   the machine, or Maps itself. *)
Move(path, x) ==
    /\ Fault(TRUE) /\ page.path # "blocked" /\ page.of # x
    /\ page' = Fresh(path, x, page.saved)
    /\ UNCHANGED <<memory, epoch, active, linked, call>>

Challenge ==
    /\ Fault(TRUE) /\ page.path # "blocked"
    /\ page' = Fresh("blocked", NoItem, page.saved)
    /\ UNCHANGED <<memory, epoch, active, linked, call>>

(* The connection is lost: the access that waits for a reply fails, whether
   or not the page has run its expression. *)
Lose ==
    /\ Fault(FALSE) /\ linked
    /\ linked' = FALSE
    /\ IF call.at = "idle" THEN UNCHANGED <<page, memory, epoch, call>>
       ELSE \E p \in {page} \cup (IF call.at = "look" THEN {s.page : s \in Sees(call, page)} ELSE {}) :
               Throw([call EXCEPT !.failing = @ \/ Opened(call)], p, memory, FALSE)
    /\ UNCHANGED active

(* The task of a call that the watchdog gave up marks a mutation. *)
Straggle ==
    /\ Fault(FALSE) /\ call.at # "idle" /\ epoch < 2
    /\ epoch' = epoch + 1
    /\ UNCHANGED <<page, memory, active, linked, call>>

(* The person deals with the challenge and hands the page back. *)
Resolve ==
    /\ call.at = "idle" /\ active
    /\ active' = FALSE
    /\ page' = Fresh("home", NoItem, page.saved)
    /\ UNCHANGED <<memory, epoch, linked, call, faults>>

(* A context for the tools is set up: maps_search, maps_directions, or the
   choice of a place or a route, each modelled by MapsRuntime.  A save that
   the old page had not got to may be lost with it. *)
Establish(view, last, path, x) ==
    /\ call.at = "idle" /\ ~active
    /\ \E saved \in {page.saved, Settled(page).saved} : page' = Fresh(path, x, saved)
    /\ memory' = [view |-> view, last |-> last]
    /\ epoch' = 0 /\ linked' = TRUE /\ faults' = NoFault
    /\ call' = NoCall
    /\ UNCHANGED active

-----------------------------------------------------------------------------
Init ==
    /\ page = Fresh("home", NoItem, {})
    /\ memory = Blank
    /\ epoch = 0
    /\ active = FALSE
    /\ linked = TRUE
    /\ call = NoCall
    /\ faults = NoFault

Step == AssertContext \/ Look \/ Expire

Contexts ==
    \/ \E q \in Query : Establish("search", q, "search", q)
    \/ \E q \in Query, x \in Place : Establish("place", q, "place", x)
    \/ \E t \in Trip : Establish("directions", t, "directions", t)
    \/ \E t \in Trip : Establish("route", t, "directions", t)

Next ==
    \/ \E tool \in Tools : \E item \in Items(tool), to \in Choices(tool) : Begin(tool, item, to)
    \/ Step
    \/ DeadlinePasses \/ Settle \/ Challenge \/ Lose \/ Straggle \/ Resolve
    \/ \E q \in Query \cup {NoItem} : Move("search", q)
    \/ \E x \in Place \cup {NoItem} : Move("place", x)
    \/ \E t \in Trip \cup {NoItem} : Move("directions", t)
    \/ Contexts

(* The tool's own steps are taken, and its deadlines pass. *)
Spec == Init /\ [][Next]_vars /\ WF_vars(Step) /\ WF_vars(DeadlinePasses)

-----------------------------------------------------------------------------
TypeOK ==
    /\ page \in [path : Paths, of : Item, over : Overlays,
                 lag : [do : STRING, to : Item], rating : BOOLEAN, zoom : 0 .. 2, tab : BOOLEAN,
                 hours : {"collapsed", "inline", "detail"}, time : {"now", "input", "set"},
                 saved : SUBSET Place]
    /\ memory \in [view : Views, last : Query \cup Trip \cup {NoItem}]
    /\ epoch \in 0 .. 2
    /\ active \in BOOLEAN /\ linked \in BOOLEAN
    /\ call.tool \in Tools \cup {"none"} /\ call.at \in {"idle", "guard", "look"}
    /\ call.at # "idle" => call.stage \in DOMAIN PlanOf(call.tool)
    /\ call.result \in {"none", "ok", "already", "error"}

Returns(result) == call.at # "idle" /\ call'.at = "idle" /\ call'.result = result

(* What a tool says it did when it returns. *)
Promised(c, p) ==
    CASE c.tool = "rating" -> p.of = c.item /\ p.rating
      [] c.tool = "zoom" -> p.of = c.item /\ p.zoom = c.from + c.to
      [] c.tool = "tab" -> p.of = c.item /\ p.tab
      [] c.tool = "hours" -> p.path = "place" /\ p.hours # "collapsed"
      [] c.tool = "save" -> c.item \in p.saved
      [] c.tool = "time" -> p.of = c.item /\ p.time = "set"
      [] c.tool = "nearby" -> p.path = "search" /\ p.of = c.to
      [] c.tool = "select" -> p.path \in {"search", "place"}
      [] OTHER -> TRUE

(* A tool that reports success, or that nothing was left to do, does so of a
   page that shows it, on the item it was called for: the postconditions of
   all tools, with clicks that take effect late and pages that move. *)
SuccessIsReal ==
    [][Returns("ok") \/ Returns("already") => Promised(call, page')]_vars

(* Between calls, what the runtime remembers is what the page shows or will
   show, unless the page moved on its own: no late click of a finished or a
   failed call turns the page under a memory that is still in use.  The
   tools nearby and photos do not promise this when they fail. *)
MemoryIsTrue ==
    LET p == Settled(page)
    IN call.at = "idle" /\ linked /\ ~faults.moved
       /\ ~call.unfenced
       => /\ memory.view = "search" => p.path = "search" /\ p.of = memory.last
          /\ memory.view = "place" => p.path = "place" /\ p.hours # "detail"
          /\ memory.view \in {"directions", "route"} /\ memory.last \in Trip
               => p.path = "directions" /\ p.of = memory.last /\ p.time = "now"

(* No call takes a saved place off the list: the click that saves toggles,
   so it is sent once and only to a row that was read as not saved. *)
SavedStaysSaved == [][page.saved \subseteq page'.saved]_vars

(* A share link is returned with the dialog closed, and with the search or
   the route it is of still remembered. *)
ShareLeavesNoTrace ==
    [][Returns("ok") /\ call.tool \in Sharing
        => /\ page'.over # "dialog" /\ Settled(page').over # "dialog"
           /\ memory' = memory /\ memory.last = call.item
           /\ memory.view = (IF call.tool = "searchShare" THEN "search" ELSE "route")]_vars

(* Every call ends: each of its loops has a deadline. *)
CallsEnd == call.at # "idle" ~> call.at = "idle"

=============================================================================
