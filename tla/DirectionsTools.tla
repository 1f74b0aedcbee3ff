--------------------------- MODULE DirectionsTools ---------------------------
(***************************************************************************)
(* The tools of the directions view: transit-time.ts, route-share.ts,      *)
(* route-swap.ts and setTravelMode of semantic-controller.ts.              *)
(***************************************************************************)
EXTENDS MapsPage

(* ------------------------------ transit time ---------------------------- *)
TimeOpenParser == Parser({"ok"}, {}, {"pending"})
TimeMenuParser == Parser({"ok"}, {}, {"pending"})
TimeInputParser == Parser({"ok"}, {}, {"pending"})
TimePostParser == Parser({"ok"}, {}, {"pending", "other_time"})

(* The expressions find the two endpoints, whatever they are; the later ones
   compare them with what the first one read. *)
TimeOpenSees(p) ==
    IF p.path # "directions" THEN {Saw(p, "pending")}
    ELSE IF p.time # "now" THEN {Saw(p, "stale_time_state")}
    ELSE {Saw(Click(p, "timeMenu"), "ok")}

TimeMenuSees(p) ==
    IF p.over # "timeMenu" THEN {Saw(p, "pending")} ELSE {Saw(Click(p, "timeInput"), "ok")}

TimeInputSees(p, from) ==
    IF p.of # from THEN {Saw(p, "changed_route")}
    ELSE {Saw(p, IF p.time = "now" THEN "pending" ELSE "ok")}

(* The time and Enter go to whatever has the focus. *)
TimeTypes(p) == {Saw(IF p.time = "now" THEN p ELSE Click(p, "time"), "ok")}

(* A mutant: the time that is set is not looked at. *)
SlipTimePostSees(p, from) == IF p.of # from THEN {Saw(p, "changed_route")} ELSE {Saw(p, "ok")}

TimePostSees(p, from) ==
    IF p.of # from THEN {Saw(p, "changed_route")}
    ELSE {Saw(p, IF p.time = "now" THEN "pending"
                 ELSE IF p.time = "set" THEN "ok" ELSE "other_time")}

TimeSees(stage, p, from) ==
    CASE stage = "open" -> TimeOpenSees(p)
      [] stage = "mode" -> TimeMenuSees(p)
      [] stage = "input" -> TimeInputSees(p, from)
      [] stage = "type" -> TimeTypes(p)
      [] stage = "post" -> TimePostSees(p, from)

TimePlan ==
    [start |-> Stage("trip", "once", GoOn, "open"),
     open |-> Stage("directions", "head", TimeOpenParser, "again"),
     again |-> Stage("trip", "once", GoOn, "mode"),
     mode |-> Stage("none", "head", TimeMenuParser, "input"),
     input |-> Stage("directionsPath", "head", TimeInputParser, "type"),
     type |-> Stage("none", "once", GoOn, "post"),
     post |-> Stage("directionsPath", "head", TimePostParser, "end")]

(* ------------------------------ route share ----------------------------- *)
RouteShareOpenParser == Parser({"ok"}, {}, {"pending"})
RouteShareLinkParser == Parser({"ok"}, {}, {"pending"})
RouteShareCloseParser == Parser({"ok", "closed"}, {}, {"pending"})

RouteShareOpenSees(p) ==
    {IF p.path = "directions" THEN Saw(Click(p, "dialog"), "ok") ELSE Saw(p, "pending")}

RouteShareReadSees(p) == {Saw(p, IF p.over = "dialog" THEN "ok" ELSE "pending")}

RouteCloseSees(p) ==
    IF p.over # "dialog" THEN {Saw(p, "closed")} ELSE {Saw(Click(p, "close"), "ok")}

(* A mutant: the click on Close is taken for the closing. *)
SlipRouteClosedSees(p) == {Saw(p, "ok")}

(* A dialog that is still there is clicked again. *)
RouteClosedSees(p) == {Saw(p, IF p.over # "dialog" THEN "ok" ELSE "still_open")}

RouteShareSees(stage, p) ==
    CASE stage = "open" -> RouteShareOpenSees(p)
      [] stage = "read" -> RouteShareReadSees(p)
      [] stage = "close" -> RouteCloseSees(p)
      [] stage = "closed" -> RouteClosedSees(p)

RouteSharePlan ==
    [start |-> Stage("route", "once", GoOn, "open"),
     open |-> Stage("route", "head", RouteShareOpenParser, "read"),
     read |-> Stage("route", "head", RouteShareLinkParser, "close"),
     close |-> Stage("directions", "head", RouteShareCloseParser, "closed"),
     closed |-> Stage("none", "once", Parser({"ok", "still_open"}, {}, {}), "last"),
     last |-> Stage("route", "once", GoOn, "end")]

(* Swapping the endpoints, and choosing a travel mode, compile a new URL from
   the last request and navigate to it. *)
SwapPlan == [start |-> Stage("trip", "once", GoOn, "end")]
TravelModePlan == [start |-> Stage("directions", "once", GoOn, "end")]

=============================================================================
