----------------------------- MODULE SearchTools -----------------------------
(***************************************************************************)
(* The tools of the search view: search-rating-filter.ts, search-zoom.ts,  *)
(* search-share.ts and search-suggestions.ts.  A plan names the stages of  *)
(* a tool; Sees operators are the expressions the stages run.              *)
(***************************************************************************)
EXTENDS MapsPage

(* ------------------------------ rating filter --------------------------- *)
RatingTriggerParser == Parser({"ok"}, {"already"}, {"pending"})
RatingMenuParser == Parser({"ok"}, {}, {"pending"})
RatingOptionParser == Parser({"ok"}, {}, {"pending"})
RatingChipParser == Parser({"ok"}, {}, {"pending", "unapplied"})

(* Every expression first looks for the one box that shows the query. *)
ForQuery(p, q, seen) == IF p.of # q THEN {Saw(p, "changed")} ELSE seen

RatingTriggerSees(p, q) ==
    ForQuery(p, q,
        IF p.over = "ratingMenu" THEN {Saw(p, "menu_open")}
        ELSE IF p.rating THEN {Saw(p, "already")}
        ELSE {Saw(Click(p, "ratingMenu"), "ok")})

RatingMenuSees(p, q) ==
    ForQuery(p, q,
        IF p.over # "ratingMenu" THEN {Saw(p, "pending")}
        ELSE IF p.rating THEN {Saw(p, "checked")}
        ELSE {Saw(p, "ok")})

RatingOptionSees(p, q) ==
    ForQuery(p, q,
        IF p.over # "ratingMenu" THEN {Saw(p, "pending")}
        ELSE {Saw(Click(p, "rating"), "ok")})

RatingChipSees(p, q) ==
    ForQuery(p, q,
        {Saw(p, IF p.rating /\ p.over # "ratingMenu" THEN "ok" ELSE "unapplied")})

RatingSees(stage, p, q) ==
    CASE stage = "trigger" -> RatingTriggerSees(p, q)
      [] stage = "menu" -> RatingMenuSees(p, q)
      [] stage = "option" -> RatingOptionSees(p, q)
      [] stage = "chip" -> RatingChipSees(p, q)

RatingPlan ==
    [start |-> Stage("search", "once", GoOn, "trigger"),
     trigger |-> Stage("search", "head", RatingTriggerParser, "menu"),
     menu |-> Stage("search", "head", RatingMenuParser, "option"),
     option |-> Stage("search", "head", RatingOptionParser, "chip"),
     chip |-> Stage("search", "head", RatingChipParser, "end")]

(* --------------------------------- zoom --------------------------------- *)
(* in and out: the directions; the reply carries the zoom it was read at. *)
ZoomActionParser == Parser({"ok"}, {}, {"pending"})
ZoomPostParser == Parser({"ok"}, {}, {"pending"})

ZoomActionSees(p, q, by) ==
    ForQuery(p, q,
        IF p.zoom + by \notin 0 .. 2 THEN {Saw(p, "disabled")}
        ELSE {Saw(Click(p, IF by = 1 THEN "zoomIn" ELSE "zoomOut"), "ok")})

(* from: the zoom before the click.  Any other zoom is unexpected. *)
ZoomPostSees(p, q, by, from) ==
    ForQuery(p, q,
        {Saw(p, IF p.zoom = from + by THEN "ok"
                ELSE IF p.zoom = from THEN "pending" ELSE "unexpected")})

ZoomPlan ==
    [start |-> Stage("search", "once", GoOn, "click"),
     click |-> Stage("search", "head", ZoomActionParser, "post"),
     post |-> Stage("search", "head", ZoomPostParser, "end")]

(* ----------------------------- search share ----------------------------- *)
SearchShareOpenParser == Parser({"ok"}, {}, {"pending"})
SearchShareLinkParser == Parser({"ok"}, {}, {"pending"})
SearchShareCloseParser == Parser({"ok", "closed"}, {}, {"pending"})

SearchShareOpenSees(p, q) == ForQuery(p, q, {Saw(Click(p, "dialog"), "ok")})

SearchShareReadSees(p, q) ==
    ForQuery(p, q, {Saw(p, IF p.over = "dialog" THEN "ok" ELSE "pending")})

ShareCloseSees(p) ==
    IF p.over # "dialog" THEN {Saw(p, "closed")} ELSE {Saw(Click(p, "close"), "ok")}

ShareClosedSees(p) == {Saw(p, IF p.over # "dialog" THEN "ok" ELSE "pending")}

SearchShareSees(stage, p, q) ==
    CASE stage = "open" -> SearchShareOpenSees(p, q)
      [] stage = "read" -> SearchShareReadSees(p, q)
      [] stage = "close" -> ShareCloseSees(p)
      [] stage = "closed" -> ShareClosedSees(p)

(* Closing clicks once and then only looks; a dialog that is gone already
   ends it. *)
SearchShareClose ==
    [close |-> Stage("searchShare", "head", SearchShareCloseParser, "closed"),
     closed |-> Stage("searchShare", "head", Parser({"ok"}, {}, {"pending"}), "last")]

SearchSharePlan ==
    [start |-> Stage("searchShare", "once", GoOn, "open"),
     open |-> Stage("searchShare", "head", SearchShareOpenParser, "read"),
     read |-> Stage("searchShare", "head", SearchShareLinkParser, "close"),
     close |-> SearchShareClose.close,
     closed |-> SearchShareClose.closed,
     last |-> Stage("searchShare", "once", GoOn, "end")]

(* ------------------------------ suggestions ----------------------------- *)
SuggestionInputParser == Parser({"ok"}, {}, {"pending"})
SuggestionListParser == Parser({"ok"}, {}, {"pending"})
SuggestionClickParser == Parser({"ok"}, {}, {})
SuggestionPostParser == Parser({"ok"}, {}, {"pending"})

(* The box must be empty before the query is typed into it. *)
SuggestionFocusSees(p) == {Saw(p, IF p.of = NoItem THEN "ok" ELSE "stale_input")}

SuggestionTypes(p, q) ==
    {Saw(IF p.path = "home" /\ p.of = NoItem
         THEN [Click(p, "suggestions") EXCEPT !.of = q] ELSE p, "ok")}

SuggestionListSees(p, q) ==
    ForQuery(p, q, {Saw(p, IF p.over # "suggestions" THEN "pending" ELSE "ok")})

(* A suggestion names a place or a search. *)
SuggestionClickSees(p, q) ==
    ForQuery(p, q,
        IF p.over # "suggestions" THEN {Saw(p, "pending")}
        ELSE {Saw(Sends(p, "search", x), "ok") : x \in Query}
             \cup {Saw(Sends(p, "place", x), "ok") : x \in Place})

SuggestionPostSees(p) ==
    {Saw(p, IF p.over # "suggestions" /\ p.path \in {"search", "place"}
            THEN "ok" ELSE "pending")}

SuggestSees(stage, p, q) ==
    CASE stage = "focus" -> SuggestionFocusSees(p)
      [] stage = "type" -> SuggestionTypes(p, q)
      [] stage = "list" -> SuggestionListSees(p, q)
      [] stage = "click" -> SuggestionClickSees(p, q)
      [] stage = "post" -> SuggestionPostSees(p)

(* Reading suggestions navigates to an empty search box first. *)
SuggestPlan ==
    [start |-> Stage("none", "once", GoOn, "focus"),
     focus |-> Stage("surface", "head", SuggestionInputParser, "type"),
     type |-> Stage("none", "once", GoOn, "list"),
     list |-> Stage("surface", "head", SuggestionListParser, "end")]

SelectSuggestionPlan ==
    [start |-> Stage("suggestions", "once", GoOn, "click"),
     click |-> Stage("suggestions", "once", SuggestionClickParser, "post"),
     post |-> Stage("surface", "head", SuggestionPostParser, "end")]

=============================================================================
