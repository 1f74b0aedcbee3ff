------------------------------ MODULE PlaceTools ------------------------------
(***************************************************************************)
(* The tools of the place view: place-save-action.ts, place-save-state.ts, *)
(* place-nearby.ts, place-opening-hours.ts, place-tabs.ts, place-photos.ts *)
(* and place-share.ts.                                                     *)
(***************************************************************************)
EXTENDS MapsPage

(* Every expression first looks for the one pane headed by the place. *)
ForPlace(p, x, seen) ==
    IF p.path # "place" \/ p.of # x \/ p.hours = "detail" THEN {Saw(p, "changed")} ELSE seen

(* ---------------------------- saving to a list -------------------------- *)
SaveOpenParser == Parser({"ok"}, {}, {"pending", "missing_save"})
SaveReadParser == Parser({"ok"}, {"saved"}, {"pending"})
SavePointParser == Parser({"ok"}, {"saved"}, {})
SavePostParser == Parser({"saved", "closed"}, {}, {"ok", "pending"})

(* The Save button opens the chooser of lists; what it does to an open one
   is up to Google Maps. *)
SaveOpenSees(p, x) ==
    ForPlace(p, x,
        {Saw(Click(p, "saveMenu"), "ok"), Saw(p, "missing_save")}
        \cup (IF p.over = "saveMenu" THEN {Saw(Click(p, "close"), "ok")} ELSE {}))

(* A mutant: the row is clicked whether or not it is checked. *)
SlipSaveRowSees(p, x) ==
    ForPlace(p, x, {Saw(p, IF p.over # "saveMenu" THEN "pending" ELSE "ok")})

(* The row of the list asked for: found by its index, with its label. *)
SaveRowSees(p, x) ==
    ForPlace(p, x,
        {Saw(p, IF p.over # "saveMenu" THEN "pending"
                ELSE IF x \in p.saved THEN "saved" ELSE "ok")})

(* The pointer goes to where the row was when its point was read. *)
SavePress(p, x) ==
    {Saw(IF p.path = "place" /\ p.over = "saveMenu" /\ p.lag = NoEffect
         THEN Click(p, "save") ELSE p, "ok")}

(* A chooser that closed is opened once more to be read. *)
SavePostSees(p, x, reopened) ==
    ForPlace(p, x,
        {Saw(p, IF p.over # "saveMenu" THEN (IF reopened THEN "pending" ELSE "closed")
                ELSE IF x \in p.saved THEN "saved" ELSE "ok")})

SaveSees(stage, p, x, reopened) ==
    CASE stage \in {"open", "reopen"} -> SaveOpenSees(p, x)
      [] stage \in {"read", "point"} -> SaveRowSees(p, x)
      [] stage = "press" -> SavePress(p, x)
      [] stage = "post" -> SavePostSees(p, x, reopened)

SavePlan ==
    [start |-> Stage("place", "once", GoOn, "open"),
     open |-> Stage("readable", "tail", SaveOpenParser, "read"),
     read |-> Stage("readable", "tail", SaveReadParser, "point"),
     point |-> Stage("readable", "once", SavePointParser, "press"),
     press |-> Stage("none", "once", GoOn, "post"),
     post |-> Stage("readable", "tail", SavePostParser, "end"),
     reopen |-> Stage("readable", "tail", SaveOpenParser, "post")]

(* Reading the lists opens the chooser, and reads it without asserting again. *)
SaveStateReadParser == Parser({"ok", "saved"}, {}, {"pending"})

SaveStatePlan ==
    [start |-> Stage("readable", "once", GoOn, "open"),
     open |-> Stage("none", "once", GoOn, "read"),
     read |-> Stage("none", "tail", SaveStateReadParser, "end")]

(* -------------------------------- nearby -------------------------------- *)
NearbyOpenParser == Parser({"ok"}, {}, {})
NearbyInputParser == Parser({"ok"}, {}, {"missing", "fallback_not_ready", "pending"})
NearbyPostParser == Parser({"ok"}, {}, {"pending"})

NearbyOpenSees(p, x) == ForPlace(p, x, {Saw(Click(p, "nearbyBox"), "ok")})

NearbyInputSees(p) == {Saw(p, IF p.over = "nearbyBox" THEN "ok" ELSE "missing")}

(* The query and Enter go to whatever has the focus. *)
NearbyTypes(p, q) ==
    {Saw(IF p.over = "nearbyBox" THEN Sends(p, "search", q) ELSE p, "ok")}

NearbyPostSees(p, q) ==
    {Saw(p, IF p.path = "search" /\ p.of = q THEN "ok" ELSE "pending")}

NearbySees(stage, p, x, q) ==
    CASE stage = "open" -> NearbyOpenSees(p, x)
      [] stage = "input" -> NearbyInputSees(p)
      [] stage = "type" -> NearbyTypes(p, q)
      [] stage = "post" -> NearbyPostSees(p, q)

NearbyPlan ==
    [start |-> Stage("place", "once", GoOn, "open"),
     open |-> Stage("none", "once", NearbyOpenParser, "input"),
     input |-> Stage("surface", "head", NearbyInputParser, "type"),
     type |-> Stage("surface", "once", GoOn, "post"),
     post |-> Stage("surface", "head", NearbyPostParser, "end")]

(* ----------------------------- opening hours ---------------------------- *)
HoursActionParser == Parser({"ok"}, {"already"}, {})
HoursPostParser == Parser({"ok"}, {}, {"pending"})

HoursActionSees(p, x) ==
    ForPlace(p, x,
        IF p.hours = "inline" THEN {Saw(p, "already")}
        ELSE {Saw(Click(p, do), "ok") : do \in {"inline", "detail"}})

(* In the detail layout the pane of the place is gone: any hours will do. *)
HoursPostSees(p, x) ==
    {Saw(p, IF p.hours = "detail" \/ (p.hours = "inline" /\ p.of = x)
            THEN "ok" ELSE "pending")}

HoursPlan ==
    [start |-> Stage("place", "once", GoOn, "click"),
     click |-> Stage("none", "once", HoursActionParser, "post"),
     post |-> Stage("samePlace", "head", HoursPostParser, "end")]

(* --------------------------------- tabs --------------------------------- *)
TabActionParser == Parser({"ok"}, {"already"}, {})
TabPostParser == Parser({"ok"}, {}, {"pending", "unselected"})

TabActionSees(p, x) ==
    ForPlace(p, x, {IF p.tab THEN Saw(p, "already") ELSE Saw(Click(p, "tab"), "ok")})

TabPostSees(p, x) == ForPlace(p, x, {Saw(p, IF p.tab THEN "ok" ELSE "unselected")})

TabPlan ==
    [start |-> Stage("place", "once", GoOn, "click"),
     click |-> Stage("none", "once", TabActionParser, "post"),
     post |-> Stage("readable", "head", TabPostParser, "end")]

(* -------------------------------- photos -------------------------------- *)
PhotoOpenParser == Parser({"ok"}, {}, {})
PhotoSurfaceParser == Parser({"ok"}, {}, {"pending"})

PhotoOpenSees(p, x) == ForPlace(p, x, {Saw(Click(p, "viewer"), "ok")})

PhotoSurfaceSees(p, x) ==
    {Saw(p, IF p.path = "viewer" /\ p.of = x THEN "ok" ELSE "pending")}

(* The viewer is no state to replay: the last stage expects the assertion
   that a place is readable to fail and drop the memory. *)
PhotoPlan ==
    [start |-> Stage("place", "once", GoOn, "open"),
     open |-> Stage("none", "once", PhotoOpenParser, "view"),
     view |-> Stage("surface", "head", PhotoSurfaceParser, "leave"),
     leave |-> Stage("gone", "once", GoOn, "end")]

(* ------------------------------ place share ----------------------------- *)
PlaceShareOpenParser == Parser({"ok"}, {}, {})
PlaceShareLinkParser == Parser({"ok"}, {}, {"pending"})

PlaceShareOpenSees(p, x) == ForPlace(p, x, {Saw(Click(p, "dialog"), "ok")})

(* The dialog itself names no place. *)
PlaceShareReadSees(p, x) ==
    ForPlace(p, x, {Saw(p, IF p.over = "dialog" THEN "ok" ELSE "pending")})

PlaceSharePlan ==
    [start |-> Stage("place", "once", GoOn, "open"),
     open |-> Stage("none", "once", PlaceShareOpenParser, "read"),
     read |-> Stage("readable", "head", PlaceShareLinkParser, "end")]

PlaceSees(tool, stage, p, x) ==
    CASE tool = "hours" -> IF stage = "click" THEN HoursActionSees(p, x) ELSE HoursPostSees(p, x)
      [] tool = "tab" -> IF stage = "click" THEN TabActionSees(p, x) ELSE TabPostSees(p, x)
      [] tool = "photos" -> IF stage = "open" THEN PhotoOpenSees(p, x) ELSE PhotoSurfaceSees(p, x)
      [] tool = "placeShare" ->
            IF stage = "open" THEN PlaceShareOpenSees(p, x) ELSE PlaceShareReadSees(p, x)
      [] tool = "saveState" -> IF stage = "open" THEN SaveOpenSees(p, x) ELSE SaveRowSees(p, x)

=============================================================================
