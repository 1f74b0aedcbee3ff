------------------------------- MODULE MapsPage -------------------------------
(***************************************************************************)
(* The Google Maps page as the semantic tools of src/src/browser see it,   *)
(* and what MapsBrowserRuntime remembers about it: the operators the tools *)
(* are built from.                                                         *)
(*                                                                         *)
(* A tool never holds the page still.  It asserts what the URL shows, asks *)
(* the page to run an expression, parses the reply, sleeps, and asserts    *)
(* again; clicks take effect later.  Here a page is a record, an           *)
(* expression is the set of pages it may leave with the reply it gives,    *)
(* and a parser says what the tool does with a reply.                      *)
(***************************************************************************)
EXTENDS Integers

CONSTANTS
    Query,   \* search requests
    Place,   \* places, by the label of their heading
    Trip,    \* simple transit requests, by their endpoints
    NoItem

ASSUME ItemAssumption ==
    /\ NoItem \notin Query \cup Place \cup Trip
    /\ Query \cap Place = {} /\ Query \cap Trip = {} /\ Place \cap Trip = {}

Item == Query \cup Place \cup Trip \cup {NoItem}
Paths == {"home", "search", "place", "directions", "viewer", "blocked"}
Overlays == {"none", "ratingMenu", "timeMenu", "saveMenu", "nearbyBox", "suggestions", "dialog"}

(* of: the query, place or trip the page shows.  over: the menu or dialog
   that is open.  lag: what a click or a key will do once the page gets to it. *)
NoEffect == [do |-> "none", to |-> NoItem]
Fresh(path, x, saved) ==
    [path |-> path, of |-> x, over |-> "none", lag |-> NoEffect, rating |-> FALSE, zoom |-> 1,
     tab |-> FALSE, hours |-> "collapsed", time |-> "now", saved |-> saved]

(* The page gets to the last click. *)
Settled(p) ==
    LET q == [p EXCEPT !.lag = NoEffect]
        shut == [q EXCEPT !.over = "none"]
        do == p.lag.do
    IN CASE do = "none" -> p
         [] do = "close" -> shut
         [] do \in Overlays \ {"none"} -> [q EXCEPT !.over = do]
         [] do = "rating" -> [shut EXCEPT !.rating = TRUE]
         [] do = "zoomIn" -> [q EXCEPT !.zoom = @ + 1]
         [] do = "zoomOut" -> [q EXCEPT !.zoom = @ - 1]
         [] do = "tab" -> [q EXCEPT !.tab = TRUE]
         [] do \in {"inline", "detail"} -> [q EXCEPT !.hours = do]
         [] do = "save" -> [shut EXCEPT !.saved = IF p.of \in @ THEN @ \ {p.of} ELSE @ \cup {p.of}]
         [] do = "timeInput" -> [shut EXCEPT !.time = "input"]
         [] do = "time" -> [q EXCEPT !.time = "set"]
         [] do = "viewer" -> [q EXCEPT !.path = "viewer"]
         [] do \in {"search", "place"} -> Fresh(do, p.lag.to, p.saved)

(* The page handles clicks and keys in the order they come. *)
Sends(p, do, to) == [Settled(p) EXCEPT !.lag = [do |-> do, to |-> to]]
Click(p, do) == Sends(p, do, NoItem)

Saw(p, reply) == [page |-> p, reply |-> reply]

(* What any expression may find instead of its control: nothing yet, or more
   than one.  It clicks nothing then. *)
Odd(p) == {Saw(p, "pending"), Saw(p, "ambiguous")}

(* A parser: the replies after which the tool goes on, reports the state it
   asked for as already there, or asks again; any other reply throws. *)
Parser(go, done, again) == [go |-> go, done |-> done, again |-> again]
Outcome(parser, reply) ==
    CASE reply \in parser.go -> "go"
      [] reply \in parser.done -> "done"
      [] reply \in parser.again -> "again"
      [] OTHER -> "throw"

(* guard: what is asserted before the expression runs.  poll: how often it
   runs: "once", or until a deadline that is looked at before ("head") or
   after ("tail") it runs.  next: the stage after it. *)
Stage(guard, poll, parser, next) ==
    [guard |-> guard, poll |-> poll, parser |-> parser, next |-> next]
GoOn == Parser({"ok"}, {}, {})

(* ------------------------ what the runtime remembers ------------------- *)
Blank == [view |-> "blank", last |-> NoItem]
Views == {"blank", "search", "place", "directions", "route", "suggestions"}

Readable(p, m) == p.path \in {"search", "place"} /\ m.view \in {"search", "place"}
InSearch(p, m) == p.path = "search" /\ m.view = "search"
InDirections(p, m) == p.path = "directions" /\ m.last \in Trip

(* What an assertion comes to on page p with memory m: "human" when a
   challenge starts an intervention, "drop" when the memory is dropped and
   the tool throws, "throw" when it only throws.  item: what the tool is
   called for.  origin: what the page showed when the call began. *)
Assertion(guard, p, m, item, origin) ==
    LET drops ==
            \/ guard \in {"readable", "place", "searchShare", "gone"} /\ ~Readable(p, m)
            \/ guard = "search" /\ ~(Readable(p, m) /\ InSearch(p, m))
            \/ guard \in {"directions", "trip", "route"} /\ ~InDirections(p, m)
        throws ==
            \/ guard = "gone"
            \/ guard = "place" /\ m.view # "place"
            \/ guard = "searchShare" /\ ~(m.view = "search" /\ m.last = item)
            \/ guard = "trip" /\ ~(m.last = item /\ p.of = item)
            \/ guard = "route" /\ ~(m.view = "route" /\ m.last = item)
            \/ guard = "suggestions" /\ ~(m.view = "suggestions" /\ m.last = item)
            \/ guard = "samePlace" /\ ~(p.path = "place" /\ p.of = origin)
            \/ guard = "directionsPath" /\ p.path # "directions"
    IN IF guard = "none" THEN "ok"
       ELSE IF p.path = "blocked" THEN "human"
       ELSE IF drops THEN "drop" ELSE IF throws THEN "throw" ELSE "ok"

=============================================================================
