-------------------------- MODULE SemanticToolsProofs --------------------------
(***************************************************************************)
(* Proofs about SemanticTools, for any queries, places and trips, any of   *)
(* the tools and any number of faults.                                     *)
(*                                                                         *)
(* Saved places: the click that saves toggles, and it may take effect long *)
(* after it was sent.  A page that has such a click before it is of a      *)
(* place that is not saved (Harmless), and a call about to press saw the   *)
(* row it would press, if the chooser is still there, as not saved, which  *)
(* it still is (Unsaved).  All other expressions only have to be known to  *)
(* send another click.                                                     *)
(*                                                                         *)
(* Postconditions: most are what the last expression reads.  The time, the *)
(* hours and a share dialog are not, and TimeInv, HoursInv and ShareInv    *)
(* say what the stages before it have made sure of.                        *)
(*                                                                         *)
(* Memory: the page Fits what is remembered unless a call is Turning it,   *)
(* and then Pages says what that call may leave behind.  For all of them   *)
(* a step has one of a few shapes (StepShape).                             *)
(***************************************************************************)
EXTENDS SemanticTools, TLAPS

ToolNames == SearchToolNames \cup PlaceToolNames \cup DirectionsToolNames

(* What a click or a key may do. *)
Effects ==
    (Overlays \ {"none"}) \cup
    {"none", "close", "rating", "zoomIn", "zoomOut", "tab", "inline", "detail", "save",
     "timeInput", "time", "viewer", "search", "place"}

PageType ==
    [path : Paths, of : Item, over : Overlays, lag : [do : Effects, to : Item],
     rating : BOOLEAN, zoom : Int, tab : BOOLEAN, hours : {"collapsed", "inline", "detail"},
     time : {"now", "input", "set"}, saved : SUBSET Item]

Stages ==
    {"start", "trigger", "menu", "option", "chip", "click", "post", "open", "read", "close",
     "closed", "last", "focus", "type", "list", "point", "press", "reopen", "input", "view",
     "leave", "again", "mode"}

CallType ==
    [tool : ToolNames \cup {"none"}, item : Item, to : Item \cup Int, stage : Stages,
     at : {"idle", "guard", "look"}, from : Item \cup Int, late : BOOLEAN,
     mutated : BOOLEAN, failing : BOOLEAN, reopened : BOOLEAN, unfenced : BOOLEAN,
     result : {"none", "ok", "already", "error"}]

(* The stages of a tool. *)
StagesOf(tool) ==
    CASE tool = "rating" -> {"start", "trigger", "menu", "option", "chip"}
      [] tool = "zoom" -> {"start", "click", "post"}
      [] tool = "searchShare" -> {"start", "open", "read", "close", "closed", "last"}
      [] tool = "suggest" -> {"start", "focus", "type", "list"}
      [] tool = "select" -> {"start", "click", "post"}
      [] tool = "save" -> {"start", "open", "read", "point", "press", "post", "reopen"}
      [] tool = "saveState" -> {"start", "open", "read"}
      [] tool = "nearby" -> {"start", "open", "input", "type", "post"}
      [] tool = "hours" -> {"start", "click", "post"}
      [] tool = "tab" -> {"start", "click", "post"}
      [] tool = "photos" -> {"start", "open", "view", "leave"}
      [] tool = "placeShare" -> {"start", "open", "read"}
      [] tool = "time" -> {"start", "open", "again", "mode", "input", "type", "post"}
      [] tool = "routeShare" -> {"start", "open", "read", "close", "closed", "last"}
      [] OTHER -> {"start"}

(* A save that is on its way saves; the boxes of the other views are not
   open over directions, and nothing typed into them is on its way there. *)
Boxes == {"nearbyBox", "suggestions"}
Leaving == {"search", "place"}
Harmless(p) ==
    /\ p.lag.do = "save" => p.of \notin p.saved
    /\ p.path = "directions" => p.over \notin Boxes /\ p.lag.do \notin Boxes \cup Leaving

(* A chooser that is open, or about to open, is one of a place not saved. *)
Unsaved(p) == p.of \notin p.saved \/ (p.over # "saveMenu" /\ p.lag.do # "saveMenu")

Navigating == {"nearby", "swap", "travelMode"}

CallShape(c) ==
    /\ c \in CallType
    /\ c.at # "idle" => c.tool \in ToolNames /\ c.stage \in StagesOf(c.tool)
    /\ c.tool \in Navigating => c.to \in Item

SavingInv ==
    /\ page \in PageType /\ Harmless(page)
    /\ CallShape(call)
    /\ call.at # "idle" /\ call.tool = "save" /\ call.stage = "press" => Unsaved(page)

(* A page that follows p: nothing saved is lost, now or when it gets to its
   click, and no challenge comes of it. *)
Follow(p) ==
    {q \in PageType : /\ Harmless(q) /\ p.saved \subseteq q.saved
                      /\ q.path = "blocked" => p.path = "blocked"}

-----------------------------------------------------------------------------
(* Pages. *)

LEMMA FreshPage ==
    ASSUME NEW path \in Paths, NEW x \in Item, NEW saved \in SUBSET Item
    PROVE  LET p == Fresh(path, x, saved) IN
           /\ p \in PageType /\ Harmless(p) /\ p.saved = saved
           /\ p.over = "none" /\ p.lag.do = "none" /\ p.of = x
<1>1. NoItem \in Item /\ "none" \in Effects
  BY DEF Item, Effects
<1>2. NoEffect \in [do : Effects, to : Item] /\ NoEffect.do = "none"
  BY <1>1 DEF NoEffect
<1> QED
  BY <1>2 DEF Fresh, PageType, Harmless, Overlays, Boxes, Leaving

LEMMA FreshPath == \A path, x, saved : Fresh(path, x, saved).path = path
  BY DEF Fresh

LEMMA NotLagging == NoEffect.do = "none"
  BY DEF NoEffect

(* The page gets to its click. *)
LEMMA SettledPage ==
    ASSUME NEW p \in PageType, Harmless(p)
    PROVE  /\ Settled(p) \in Follow(p) /\ Settled(p).lag.do = "none"
           /\ Unsaved(p) => Unsaved(Settled(p))
           /\ Settled(p).path = p.path \/ p.lag.do \in Leaving \cup {"viewer"}
           /\ p.path # "directions" => Settled(p).path # "directions"
           /\ Settled(p).over \in {"none", p.over, p.lag.do}
           /\ Settled(p).of = p.of \/ (Settled(p).over = "none" /\ p.lag.do \in Leaving)
           /\ p.lag = NoEffect => Settled(p) = p
<1> DEFINE q == [p EXCEPT !.lag = NoEffect]
           shut == [q EXCEPT !.over = "none"]
           do == p.lag.do
<1>1. NoItem \in Item /\ "none" \in Effects
  BY DEF Item, Effects
<1>2. NoEffect \in [do : Effects, to : Item] /\ NoEffect.do = "none"
  BY <1>1 DEF NoEffect
<1>3. /\ q \in PageType /\ q.lag.do = "none" /\ q.saved = p.saved /\ q.of = p.of
      /\ q.over = p.over /\ q.path = p.path
  BY <1>2 DEF PageType
<1>4. shut \in PageType /\ shut.lag.do = "none" /\ shut.saved = p.saved /\ shut.of = p.of
      /\ shut.over = "none" /\ shut.path = p.path
  BY <1>3 DEF PageType, Overlays
<1>5. do \in Effects /\ p.lag.to \in Item /\ p.saved \in SUBSET Item /\ p.of \in Item
  BY DEF PageType
<1> DEFINE Fits(s) ==
        /\ s \in Follow(p) /\ s.lag.do = "none"
        /\ Unsaved(p) => Unsaved(s)
        /\ s.path = p.path \/ do \in Leaving \cup {"viewer"}
        /\ p.path # "directions" => s.path # "directions"
        /\ s.over \in {"none", p.over, do}
        /\ s.of = p.of \/ (s.over = "none" /\ do \in Leaving)
<1>6. ASSUME NEW s \in PageType, s.lag.do = "none", s.saved = p.saved, s.of = p.of,
             s.path = p.path \/ (do = "viewer" /\ s.path = "viewer"),
             s.over \in {"none", p.over, do}
      PROVE  Fits(s)
  <2>1. Harmless(s)
    BY <1>6 DEF Harmless, Boxes, Leaving
  <2> QED
    BY <1>6, <2>1 DEF Follow, Unsaved
<1>7. CASE do = "none"
  <2>1. Settled(p) = p
    BY <1>7 DEF Settled
  <2> QED
    BY <1>7, <2>1 DEF Follow
<1>8. CASE do = "close" \/ do \in {"rating", "timeInput"}
  <2>1. \/ Settled(p) = shut
        \/ Settled(p) = [shut EXCEPT !.rating = TRUE]
        \/ Settled(p) = [shut EXCEPT !.time = "input"]
    BY <1>8 DEF Settled, Overlays
  <2> HIDE DEF shut
  <2> DEFINE Like(s) == s \in PageType /\ s.lag = shut.lag /\ s.saved = shut.saved
                       /\ s.of = shut.of /\ s.over = shut.over /\ s.path = shut.path
  <2>2. Like(shut) /\ Like([shut EXCEPT !.rating = TRUE])
    BY <1>4 DEF PageType
  <2>4. Like([shut EXCEPT !.time = "input"])
    BY <1>4 DEF PageType
  <2>5. Like(Settled(p))
    BY <2>1, <2>2, <2>4
  <2>3. Fits(Settled(p))
    BY <1>4, <1>6, <2>5
  <2> QED
    BY <1>8, <2>3, NotLagging
<1>9. CASE do \in Overlays \ {"none"}
  <2>1. Settled(p) = [q EXCEPT !.over = do]
    BY <1>9 DEF Settled, Overlays
  <2> HIDE DEF q
  <2>3. LET s == [q EXCEPT !.over = do] IN
        /\ s \in PageType /\ s.lag = q.lag /\ s.saved = q.saved /\ s.of = q.of
        /\ s.over = do /\ s.path = q.path
    BY <1>3, <1>9 DEF PageType
  <2>4. Fits(Settled(p))
    BY <1>3, <1>6, <2>1, <2>3
  <2> QED
    BY <1>9, <2>4, NotLagging DEF Overlays
<1>10. CASE do \in {"zoomIn", "zoomOut", "tab", "inline", "detail", "time", "viewer"}
  <2>1. \/ Settled(p) = [q EXCEPT !.zoom = @ + 1]
        \/ Settled(p) = [q EXCEPT !.zoom = @ - 1]
        \/ Settled(p) = [q EXCEPT !.tab = TRUE]
        \/ Settled(p) = [q EXCEPT !.hours = "inline"]
        \/ Settled(p) = [q EXCEPT !.hours = "detail"]
        \/ Settled(p) = [q EXCEPT !.time = "set"]
        \/ do = "viewer" /\ Settled(p) = [q EXCEPT !.path = "viewer"]
    BY <1>10 DEF Settled, Overlays
  <2> HIDE DEF q
  <2> DEFINE Like(s) == s \in PageType /\ s.lag = q.lag /\ s.saved = q.saved /\ s.of = q.of
                       /\ s.over = q.over
                       /\ (s.path = q.path \/ (do = "viewer" /\ s.path = "viewer"))
  <2>2. Like([q EXCEPT !.zoom = @ + 1]) /\ Like([q EXCEPT !.zoom = @ - 1])
    BY <1>3 DEF PageType
  <2>3. Like([q EXCEPT !.tab = TRUE]) /\ (do = "viewer" => Like([q EXCEPT !.path = "viewer"]))
    BY <1>3 DEF PageType, Paths
  <2>5. Like([q EXCEPT !.hours = "inline"]) /\ Like([q EXCEPT !.hours = "detail"])
        /\ Like([q EXCEPT !.time = "set"])
    BY <1>3 DEF PageType
  <2>6. Like(Settled(p))
    BY <2>1, <2>2, <2>3, <2>5
  <2>4. Fits(Settled(p))
    BY <1>3, <1>6, <2>6
  <2> QED
    BY <1>10, <2>4, NotLagging
<1>11. CASE do = "save"
  <2>1. p.of \notin p.saved
    BY <1>11 DEF Harmless
  <2>2. Settled(p) = [shut EXCEPT !.saved = IF p.of \in @ THEN @ \ {p.of} ELSE @ \cup {p.of}]
    BY <1>11 DEF Settled, Overlays
  <2> HIDE DEF shut
  <2>3. Settled(p) = [shut EXCEPT !.saved = p.saved \cup {p.of}]
    BY <1>4, <2>1, <2>2
  <2>4. p.saved \cup {p.of} \in SUBSET Item
    BY <1>5
  <2>5. /\ Settled(p) \in PageType /\ Settled(p).lag = shut.lag /\ Settled(p).over = "none"
        /\ Settled(p).path = p.path /\ Settled(p).of = p.of
        /\ Settled(p).saved = p.saved \cup {p.of}
    BY <1>4, <2>3, <2>4 DEF PageType
  <2>6. Fits(Settled(p))
    BY <1>4, <2>5 DEF Follow, Harmless, Unsaved, Boxes, Leaving
  <2> QED
    BY <1>11, <2>6, NotLagging
<1>12. CASE do \in {"search", "place"}
  <2>1. Settled(p) = Fresh(do, p.lag.to, p.saved)
    BY <1>12 DEF Settled, Overlays
  <2>2. do \in Paths
    BY <1>12 DEF Paths
  <2>3. Fits(Settled(p))
    BY <1>5, <1>12, <2>1, <2>2, FreshPage, FreshPath DEF Follow, Unsaved, Leaving
  <2> QED
    BY <1>12, <2>3, NotLagging
<1> QED
  BY <1>5, <1>7, <1>8, <1>9, <1>10, <1>11, <1>12 DEF Effects

(* It gets to its click and has the next one before it. *)
LEMMA SentPage ==
    ASSUME NEW p \in PageType, Harmless(p), NEW do \in Effects, NEW to \in Item, do # "save",
           do \in Boxes \cup Leaving => p.path # "directions"
    PROVE  /\ Sends(p, do, to) \in Follow(p) /\ Sends(p, do, to).of = Settled(p).of
           /\ Sends(p, do, to).lag.do = do /\ Sends(p, do, to).over = Settled(p).over
           /\ Sends(p, do, to).path = Settled(p).path
<1> DEFINE s == Settled(p)
           q == [s EXCEPT !.lag = [do |-> do, to |-> to]]
<1>1. s \in Follow(p) /\ (p.path # "directions" => s.path # "directions")
  BY SettledPage
<1>2. s \in PageType /\ p.saved \subseteq s.saved /\ Harmless(s)
  BY <1>1 DEF Follow
<1>3. Sends(p, do, to) = q
  BY DEF Sends
<1> HIDE DEF s
<1>4. /\ q \in PageType /\ q.saved = s.saved /\ q.of = s.of /\ q.lag.do = do
      /\ q.path = s.path /\ q.over = s.over
  BY <1>2 DEF PageType
<1>5. Harmless(q)
  BY <1>1, <1>2, <1>4 DEF Harmless
<1> QED
  BY <1>1, <1>2, <1>3, <1>4, <1>5 DEF Follow, s

(* Save is pressed on the row of a place that is not saved. *)
LEMMA PressedPage ==
    ASSUME NEW p \in PageType, Harmless(p), p.lag = NoEffect, p.of \notin p.saved
    PROVE  Click(p, "save") \in Follow(p)
<1> DEFINE q == [p EXCEPT !.lag = [do |-> "save", to |-> NoItem]]
<1>1. Settled(p) = p
  BY SettledPage
<1>2. Click(p, "save") = q
  BY <1>1 DEF Click, Sends
<1>3. NoItem \in Item /\ "save" \in Effects
  BY DEF Item, Effects
<1>4. /\ q \in PageType /\ q.saved = p.saved /\ q.of = p.of /\ q.lag.do = "save"
      /\ q.over = p.over /\ q.path = p.path
  BY <1>3 DEF PageType
<1> QED
  BY <1>2, <1>4 DEF Follow, Harmless, Boxes, Leaving

LEMMA SamePage == \A p \in PageType : Harmless(p) => p \in Follow(p)
  BY DEF Follow

-----------------------------------------------------------------------------
(* Expressions: none but SavePress sends a save. *)

Plain == Effects \ ({"save"} \cup Boxes \cup Leaving)

LEMMA EffectNames ==
    /\ {"ratingMenu", "timeMenu", "saveMenu", "dialog", "close", "rating", "zoomIn", "zoomOut",
        "tab", "inline", "detail", "timeInput", "time", "viewer"} \subseteq Plain
    /\ Boxes \cup Leaving \subseteq Effects \ {"save"}
  BY DEF Plain, Effects, Overlays, Boxes, Leaving

LEMMA Followers ==
    ASSUME NEW p \in PageType, Harmless(p)
    PROVE  /\ p \in Follow(p)
           /\ \A do \in Plain : Click(p, do) \in Follow(p)
           /\ p.path # "directions" =>
                /\ \A do \in Boxes : Click(p, do) \in Follow(p)
                /\ \A do \in Leaving, to \in Item : Sends(p, do, to) \in Follow(p)
<1>1. NoItem \in Item
  BY DEF Item
<1>2. \A do \in Plain : Sends(p, do, NoItem) \in Follow(p)
  BY <1>1, SentPage DEF Plain
<1>3. p.path # "directions" =>
        \A do \in Boxes \cup Leaving, to \in Item : Sends(p, do, to) \in Follow(p)
  BY SentPage, EffectNames
<1> QED
  BY <1>1, <1>2, <1>3, SamePage DEF Click

LEMMA SearchFollow ==
    ASSUME NEW p \in PageType, Harmless(p), NEW x, NEW y, NEW z,
           NEW stage
    PROVE  /\ stage \in {"trigger", "menu", "option", "chip"} =>
                \A s \in RatingSees(stage, p, x) : s.page \in Follow(p)
           /\ \A s \in ZoomActionSees(p, x, y) : s.page \in Follow(p)
           /\ \A s \in ZoomPostSees(p, x, y, z) : s.page \in Follow(p)
           /\ stage \in {"open", "read", "close", "closed"} =>
                \A s \in SearchShareSees(stage, p, x) : s.page \in Follow(p)
<1> DEFINE F == Follow(p)
<1>1. p \in F
  BY Followers
<1>2. /\ Click(p, "ratingMenu") \in F /\ Click(p, "rating") \in F /\ Click(p, "zoomIn") \in F
      /\ Click(p, "zoomOut") \in F /\ Click(p, "dialog") \in F /\ Click(p, "close") \in F
  BY Followers, EffectNames
<1> HIDE DEF F
<1>3. stage \in {"trigger", "menu", "option", "chip"} =>
                \A s \in RatingSees(stage, p, x) : s.page \in F
  BY <1>1, <1>2 DEF RatingSees, RatingTriggerSees, RatingMenuSees, RatingOptionSees,
                    RatingChipSees, ForQuery, Saw
<1>4. \A s \in ZoomActionSees(p, x, y) : s.page \in F
  BY <1>1, <1>2 DEF ZoomActionSees, ForQuery, Saw
<1>5. \A s \in ZoomPostSees(p, x, y, z) : s.page \in F
  BY <1>1, <1>2 DEF ZoomPostSees, ForQuery, Saw
<1>6. stage \in {"open", "read", "close", "closed"} =>
                \A s \in SearchShareSees(stage, p, x) : s.page \in F
  BY <1>1, <1>2 DEF SearchShareSees, SearchShareOpenSees, SearchShareReadSees,
                    ShareCloseSees, ShareClosedSees, ForQuery, Saw
<1> QED
  BY <1>3, <1>4, <1>5, <1>6 DEF F

LEMMA SuggestFollow ==
    ASSUME NEW p \in PageType, Harmless(p), NEW x \in Item,
           NEW stage \in {"focus", "type", "list", "click", "post"},
           NEW s \in SuggestSees(stage, p, x)
    PROVE  s.page \in Follow(p)
<1> DEFINE F == Follow(p)
<1>1. p \in F
  BY Followers
<1>2. ASSUME p.over = "suggestions"
      PROVE  /\ \A q \in Query : Sends(p, "search", q) \in F
             /\ \A q \in Place : Sends(p, "place", q) \in F
  <2>1. p.path # "directions"
    BY <1>2 DEF Harmless, Boxes
  <2> QED
    BY <2>1, Followers DEF Item, Leaving
<1>3. p.path = "home" => [Click(p, "suggestions") EXCEPT !.of = x] \in F
  <2> SUFFICES ASSUME p.path = "home" PROVE [Click(p, "suggestions") EXCEPT !.of = x] \in F
    OBVIOUS
  <2> DEFINE c == Click(p, "suggestions")
  <2>1. NoItem \in Item /\ "suggestions" \in Effects \ {"save"} /\ p.path # "directions"
    BY EffectNames DEF Item, Boxes
  <2>2. c \in Follow(p) /\ c.lag.do = "suggestions"
    BY <2>1, SentPage DEF Click
  <2> HIDE DEF c
  <2>3. /\ [c EXCEPT !.of = x] \in PageType /\ [c EXCEPT !.of = x].saved = c.saved
        /\ [c EXCEPT !.of = x].lag = c.lag /\ [c EXCEPT !.of = x].over = c.over
        /\ [c EXCEPT !.of = x].path = c.path
    BY <2>2 DEF Follow, PageType
  <2>4. [c EXCEPT !.of = x] \in F
    BY <2>2, <2>3 DEF Follow, Harmless
  <2> QED
    BY <2>4 DEF c
<1> HIDE DEF F
<1>4. ASSUME stage = "focus" PROVE s.page \in F
  BY <1>1, <1>4 DEF SuggestSees, SuggestionFocusSees, Saw
<1>5. ASSUME stage = "type" PROVE s.page \in F
  BY <1>1, <1>3, <1>5 DEF SuggestSees, SuggestionTypes, Saw
<1>6. ASSUME stage = "list" PROVE s.page \in F
  BY <1>1, <1>6 DEF SuggestSees, SuggestionListSees, ForQuery, Saw
<1>7. ASSUME stage = "click" PROVE s.page \in F
  BY <1>1, <1>2, <1>7 DEF SuggestSees, SuggestionClickSees, ForQuery, Saw
<1>8. ASSUME stage = "post" PROVE s.page \in F
  BY <1>1, <1>8 DEF SuggestSees, SuggestionPostSees, Saw
<1>9. s.page \in F
  BY <1>4, <1>5, <1>6, <1>7, <1>8
<1> QED
  BY <1>9 DEF F

LEMMA DirectionsFollow ==
    ASSUME NEW p \in PageType, Harmless(p), NEW x, NEW stage
    PROVE  /\ stage \in {"open", "mode", "input", "type", "post"} =>
                \A s \in TimeSees(stage, p, x) : s.page \in Follow(p)
           /\ stage \in {"open", "read", "close", "closed"} =>
                \A s \in RouteShareSees(stage, p) : s.page \in Follow(p)
<1> DEFINE F == Follow(p)
<1>1. p \in F
  BY Followers
<1>2. /\ Click(p, "timeMenu") \in F /\ Click(p, "timeInput") \in F /\ Click(p, "time") \in F
      /\ Click(p, "dialog") \in F /\ Click(p, "close") \in F
  BY Followers, EffectNames
<1> HIDE DEF F
<1>3. stage \in {"open", "mode", "input", "type", "post"} =>
                \A s \in TimeSees(stage, p, x) : s.page \in F
  BY <1>1, <1>2 DEF TimeSees, TimeOpenSees, TimeMenuSees, TimeInputSees, TimeTypes,
                    TimePostSees, Saw
<1>4. stage \in {"open", "read", "close", "closed"} =>
                \A s \in RouteShareSees(stage, p) : s.page \in F
  BY <1>1, <1>2 DEF RouteShareSees, RouteShareOpenSees, RouteShareReadSees, RouteCloseSees,
                    RouteClosedSees, Saw
<1> QED
  BY <1>3, <1>4 DEF F

LEMMA NearbyFollow ==
    ASSUME NEW p \in PageType, Harmless(p), NEW x, NEW y \in Item,
           NEW stage \in {"open", "input", "type", "post"}, NEW s \in NearbySees(stage, p, x, y)
    PROVE  s.page \in Follow(p)
<1> DEFINE F == Follow(p)
<1>1. p \in F
  BY Followers
<1>2. p.path = "place" => Click(p, "nearbyBox") \in F
  BY Followers DEF Boxes
<1>3. p.over = "nearbyBox" => Sends(p, "search", y) \in F
  BY Followers DEF Harmless, Boxes, Leaving
<1> HIDE DEF F
<1>4. s.page \in F
  BY <1>1, <1>2, <1>3 DEF NearbySees, NearbyOpenSees, NearbyInputSees, NearbyTypes,
                          NearbyPostSees, ForPlace, Saw
<1> QED
  BY <1>4 DEF F

LEMMA PlaceFollow ==
    ASSUME NEW p \in PageType, Harmless(p), NEW x, NEW stage,
           NEW tool \in {"hours", "tab", "photos", "placeShare", "saveState"},
           NEW s \in PlaceSees(tool, stage, p, x)
    PROVE  s.page \in Follow(p)
<1> DEFINE F == Follow(p)
<1>1. p \in F
  BY Followers
<1>2. /\ Click(p, "inline") \in F /\ Click(p, "detail") \in F /\ Click(p, "tab") \in F
      /\ Click(p, "viewer") \in F /\ Click(p, "dialog") \in F /\ Click(p, "saveMenu") \in F
      /\ Click(p, "close") \in F
  BY Followers, EffectNames
<1> HIDE DEF F
<1>3. ASSUME tool = "hours" PROVE s.page \in F
  BY <1>1, <1>2, <1>3 DEF PlaceSees, HoursActionSees, HoursPostSees, ForPlace, Saw
<1>4. ASSUME tool = "tab" PROVE s.page \in F
  BY <1>1, <1>2, <1>4 DEF PlaceSees, TabActionSees, TabPostSees, ForPlace, Saw
<1>5. ASSUME tool = "photos" PROVE s.page \in F
  BY <1>1, <1>2, <1>5 DEF PlaceSees, PhotoOpenSees, PhotoSurfaceSees, ForPlace, Saw
<1>6. ASSUME tool = "placeShare" PROVE s.page \in F
  BY <1>1, <1>2, <1>6 DEF PlaceSees, PlaceShareOpenSees, PlaceShareReadSees, ForPlace, Saw
<1>7. ASSUME tool = "saveState" PROVE s.page \in F
  BY <1>1, <1>2, <1>7 DEF PlaceSees, SaveOpenSees, SaveRowSees, ForPlace, Saw
<1>8. s.page \in F
  BY <1>3, <1>4, <1>5, <1>6, <1>7
<1> QED
  BY <1>8 DEF F

(* Only a page whose chooser is one of a place that is not saved is pressed. *)
LEMMA SaveFollow ==
    ASSUME NEW p \in PageType, Harmless(p), NEW x, NEW reopened,
           NEW stage \in {"open", "read", "point", "press", "post", "reopen"},
           stage = "press" => Unsaved(p),
           NEW s \in SaveSees(stage, p, x, reopened)
    PROVE  s.page \in Follow(p) /\ (stage = "point" /\ s.reply = "ok" => Unsaved(s.page))
<1> DEFINE F == Follow(p)
<1>1. p \in F
  BY Followers
<1>2. Click(p, "saveMenu") \in F /\ Click(p, "close") \in F
  BY Followers, EffectNames
<1>3. ASSUME Unsaved(p), p.over = "saveMenu", p.lag = NoEffect
      PROVE  Click(p, "save") \in F
  BY <1>3, PressedPage DEF Unsaved
<1> HIDE DEF F
<1>4. CASE stage \in {"open", "reopen"}
  <2>1. s.page \in F
    BY <1>1, <1>2, <1>4 DEF SaveSees, SaveOpenSees, ForPlace, Saw
  <2> QED
    BY <1>4, <2>1 DEF F
<1>5. CASE stage \in {"read", "point"}
  <2>1. s.page = p /\ (s.reply = "ok" => x \notin p.saved /\ p.of = x)
    BY <1>5 DEF SaveSees, SaveRowSees, ForPlace, Saw
  <2> QED
    BY <1>1, <2>1 DEF F, Unsaved
<1>6. CASE stage = "press"
  <2>1. s.page \in F
    BY <1>1, <1>3, <1>6 DEF SaveSees, SavePress, Saw
  <2> QED
    BY <1>6, <2>1 DEF F
<1>7. CASE stage = "post"
  <2>1. s.page \in F
    BY <1>1, <1>7 DEF SaveSees, SavePostSees, ForPlace, Saw
  <2> QED
    BY <1>7, <2>1 DEF F
<1> QED
  BY <1>4, <1>5, <1>6, <1>7

(* What any stage of any call leaves. *)
LEMMA SeesFollow ==
    ASSUME SavingInv, call.at # "idle", NEW s \in Sees(call, page)
    PROVE  /\ s.page \in Follow(page)
           /\ call.tool = "save" /\ call.stage = "point" /\ s.reply = "ok" => Unsaved(s.page)
<1> DEFINE c == call
           p == page
<1>1. p \in PageType /\ Harmless(p) /\ p \in Follow(p)
  BY Followers DEF SavingInv
<1>2. c.tool \in ToolNames /\ c.stage \in StagesOf(c.tool) /\ c.item \in Item
      /\ (c.tool \in Navigating => c.to \in Item)
      /\ (c.tool = "save" /\ c.stage = "press" => Unsaved(p))
  BY DEF SavingInv, CallShape, CallType
<1> HIDE DEF c, p
<1>3. CASE c.stage \in OnlyAsserts
  <2>1. s = Saw(p, "ok")
    BY <1>3 DEF Sees, c, p
  <2> QED
    BY <1>1, <1>3, <2>1 DEF Saw, OnlyAsserts, c, p
<1>4. CASE s \in Odd(p)
  BY <1>1, <1>4 DEF Odd, Saw, c, p
<1>5. CASE c.stage \notin OnlyAsserts /\ s \in Finds(c, p)
  <2>1. CASE c.tool \in {"rating", "zoom", "searchShare"}
    <3>1. s.page \in Follow(p)
      BY <1>1, <1>2, <1>5, <2>1, SearchFollow DEF Finds, StagesOf, OnlyAsserts
    <3> QED
      BY <2>1, <3>1 DEF c, p
  <2>2. CASE c.tool \in {"suggest", "select"}
    <3>1. s.page \in Follow(p)
      BY <1>1, <1>2, <1>5, <2>2, SuggestFollow DEF Finds, StagesOf, OnlyAsserts
    <3> QED
      BY <2>2, <3>1 DEF c, p
  <2>3. CASE c.tool = "save"
    <3>1. s.page \in Follow(p) /\ (c.stage = "point" /\ s.reply = "ok" => Unsaved(s.page))
      BY <1>1, <1>2, <1>5, <2>3, SaveFollow DEF Finds, StagesOf, OnlyAsserts
    <3> QED
      BY <3>1 DEF c, p
  <2>4. CASE c.tool = "nearby"
    <3>1. s.page \in Follow(p)
      BY <1>1, <1>2, <1>5, <2>4, NearbyFollow DEF Finds, StagesOf, OnlyAsserts, Navigating
    <3> QED
      BY <2>4, <3>1 DEF c, p
  <2>5. CASE c.tool \in {"time", "routeShare"}
    <3>1. s.page \in Follow(p)
      BY <1>1, <1>2, <1>5, <2>5, DirectionsFollow DEF Finds, StagesOf, OnlyAsserts
    <3> QED
      BY <2>5, <3>1 DEF c, p
  <2>6. CASE c.tool \in {"hours", "tab", "photos", "placeShare", "saveState"}
    <3>1. s.page \in Follow(p)
      BY <1>1, <1>2, <1>5, <2>6, PlaceFollow DEF Finds, StagesOf, OnlyAsserts
    <3> QED
      BY <2>6, <3>1 DEF c, p
  <2>7. CASE c.tool \in {"swap", "travelMode"}
    BY <1>2, <1>5, <2>7 DEF StagesOf, OnlyAsserts
  <2> QED
    BY <1>2, <2>1, <2>2, <2>3, <2>4, <2>5, <2>6, <2>7
    DEF ToolNames, SearchToolNames, PlaceToolNames, DirectionsToolNames
<1> QED
  BY <1>3, <1>4, <1>5 DEF Sees, c, p

-----------------------------------------------------------------------------
(* Plans. *)

(* A stage of a plan leads to stages of the tool; only the tools that share,
   and the save, know of a dialog or a chooser that closed; and only the row
   that was read as not saved leads to the press. *)
Leads(tool, stage, st) ==
    /\ st.next \in StagesOf(tool) \cup {"end"}
    /\ "closed" \in st.parser.go => tool \in {"save", "searchShare", "routeShare"}
    /\ "still_open" \in st.parser.go => tool = "routeShare"
    /\ tool = "save" /\ st.next = "press" => stage = "point" /\ st.parser.go = {"ok"}

LEMMA SearchPlans ==
    /\ \A stage \in StagesOf("rating") : Leads("rating", stage, RatingPlan[stage])
    /\ \A stage \in StagesOf("zoom") : Leads("zoom", stage, ZoomPlan[stage])
    /\ \A stage \in StagesOf("searchShare") : Leads("searchShare", stage, SearchSharePlan[stage])
    /\ \A stage \in StagesOf("suggest") : Leads("suggest", stage, SuggestPlan[stage])
    /\ \A stage \in StagesOf("select") : Leads("select", stage, SelectSuggestionPlan[stage])
<1> USE DEF Leads, StagesOf, Stage, Parser, GoOn
<1>1. \A stage \in StagesOf("rating") : Leads("rating", stage, RatingPlan[stage])
  BY DEF RatingPlan, RatingTriggerParser, RatingMenuParser, RatingOptionParser, RatingChipParser
<1>2. \A stage \in StagesOf("zoom") : Leads("zoom", stage, ZoomPlan[stage])
  BY DEF ZoomPlan, ZoomActionParser, ZoomPostParser
<1>3. \A stage \in StagesOf("searchShare") : Leads("searchShare", stage, SearchSharePlan[stage])
  BY DEF SearchSharePlan, SearchShareClose, SearchShareOpenParser, SearchShareLinkParser,
         SearchShareCloseParser
<1>4. \A stage \in StagesOf("suggest") : Leads("suggest", stage, SuggestPlan[stage])
  BY DEF SuggestPlan, SuggestionInputParser, SuggestionListParser
<1>5. \A stage \in StagesOf("select") : Leads("select", stage, SelectSuggestionPlan[stage])
  BY DEF SelectSuggestionPlan, SuggestionClickParser, SuggestionPostParser
<1> QED
  BY <1>1, <1>2, <1>3, <1>4, <1>5

LEMMA PlacePlans ==
    /\ \A stage \in StagesOf("save") : Leads("save", stage, SavePlan[stage])
    /\ \A stage \in StagesOf("saveState") : Leads("saveState", stage, SaveStatePlan[stage])
    /\ \A stage \in StagesOf("nearby") : Leads("nearby", stage, NearbyPlan[stage])
    /\ \A stage \in StagesOf("hours") : Leads("hours", stage, HoursPlan[stage])
    /\ \A stage \in StagesOf("tab") : Leads("tab", stage, TabPlan[stage])
    /\ \A stage \in StagesOf("photos") : Leads("photos", stage, PhotoPlan[stage])
    /\ \A stage \in StagesOf("placeShare") : Leads("placeShare", stage, PlaceSharePlan[stage])
<1> USE DEF Leads, StagesOf, Stage, Parser, GoOn
<1>1. \A stage \in StagesOf("save") : Leads("save", stage, SavePlan[stage])
  BY DEF SavePlan, SaveOpenParser, SaveReadParser, SavePointParser, SavePostParser
<1>2. \A stage \in StagesOf("saveState") : Leads("saveState", stage, SaveStatePlan[stage])
  BY DEF SaveStatePlan, SaveStateReadParser
<1>3. \A stage \in StagesOf("nearby") : Leads("nearby", stage, NearbyPlan[stage])
  BY DEF NearbyPlan, NearbyOpenParser, NearbyInputParser, NearbyPostParser
<1>4. \A stage \in StagesOf("hours") : Leads("hours", stage, HoursPlan[stage])
  BY DEF HoursPlan, HoursActionParser, HoursPostParser
<1>5. \A stage \in StagesOf("tab") : Leads("tab", stage, TabPlan[stage])
  BY DEF TabPlan, TabActionParser, TabPostParser
<1>6. \A stage \in StagesOf("photos") : Leads("photos", stage, PhotoPlan[stage])
  BY DEF PhotoPlan, PhotoOpenParser, PhotoSurfaceParser
<1>7. \A stage \in StagesOf("placeShare") : Leads("placeShare", stage, PlaceSharePlan[stage])
  BY DEF PlaceSharePlan, PlaceShareOpenParser, PlaceShareLinkParser
<1> QED
  BY <1>1, <1>2, <1>3, <1>4, <1>5, <1>6, <1>7

LEMMA DirectionsPlans ==
    /\ \A stage \in StagesOf("time") : Leads("time", stage, TimePlan[stage])
    /\ \A stage \in StagesOf("routeShare") : Leads("routeShare", stage, RouteSharePlan[stage])
    /\ \A stage \in StagesOf("swap") : Leads("swap", stage, SwapPlan[stage])
    /\ \A stage \in StagesOf("travelMode") : Leads("travelMode", stage, TravelModePlan[stage])
<1> USE DEF Leads, StagesOf, Stage, Parser, GoOn
<1>1. \A stage \in StagesOf("time") : Leads("time", stage, TimePlan[stage])
  BY DEF TimePlan, TimeOpenParser, TimeMenuParser, TimeInputParser, TimePostParser
<1>2. \A stage \in StagesOf("routeShare") : Leads("routeShare", stage, RouteSharePlan[stage])
  BY DEF RouteSharePlan, RouteShareOpenParser, RouteShareLinkParser, RouteShareCloseParser
<1>3. /\ \A stage \in StagesOf("swap") : Leads("swap", stage, SwapPlan[stage])
      /\ \A stage \in StagesOf("travelMode") : Leads("travelMode", stage, TravelModePlan[stage])
  BY DEF SwapPlan, TravelModePlan
<1> QED
  BY <1>1, <1>2, <1>3

LEMMA Plans ==
    ASSUME NEW tool \in ToolNames, NEW stage \in StagesOf(tool)
    PROVE  Leads(tool, stage, PlanOf(tool)[stage])
<1>1. ASSUME tool \in SearchToolNames PROVE Leads(tool, stage, PlanOf(tool)[stage])
  BY <1>1, SearchPlans DEF SearchToolNames, PlanOf
<1>2. ASSUME tool \in PlaceToolNames PROVE Leads(tool, stage, PlanOf(tool)[stage])
  BY <1>2, PlacePlans DEF PlaceToolNames, PlanOf
<1>3. ASSUME tool \in DirectionsToolNames PROVE Leads(tool, stage, PlanOf(tool)[stage])
  BY <1>3, DirectionsPlans DEF DirectionsToolNames, PlanOf
<1> QED
  BY <1>1, <1>2, <1>3 DEF ToolNames

LEMMA PressNeverAgain == call.tool = "save" /\ call.stage = "press" => Now.parser.again = {}
  BY DEF Now, PlanOf, SavePlan, Stage, GoOn, Parser

-----------------------------------------------------------------------------
(* Calls. *)

LEMMA Passing ==
    ASSUME NEW p, NEW q \in Follow(p), NEW r \in Follow(q)
    PROVE  r \in Follow(p)
  BY DEF Follow

LEMMA NoCallShape == NoCall \in CallType /\ CallShape(NoCall) /\ NoCall.at = "idle"
<1>1. NoItem \in Item
  BY DEF Item
<1>2. NoCall \in CallType /\ NoCall.at = "idle" /\ NoCall.tool = "none"
  BY <1>1 DEF NoCall, CallType, Stages
<1> QED
  BY <1>2 DEF CallShape, Navigating

LEMMA EndedShape ==
    ASSUME NEW c \in CallType, NEW result \in {"ok", "already", "error"}
    PROVE  CallShape(Ended(c, result)) /\ Ended(c, result).at = "idle"
<1> DEFINE gone == c.unfenced \/ (c.tool \in Unfencing /\ result = "error")
<1>1. gone \in BOOLEAN /\ c.tool \in ToolNames \cup {"none"}
  BY DEF CallType
<1>2. NoItem \in Item /\ NoCall \in CallType /\ NoCall.at = "idle" /\ NoCall.to = NoItem
  BY NoCallShape DEF Item, NoCall
<1>3. Ended(c, result) = [NoCall EXCEPT !.tool = c.tool, !.result = result, !.unfenced = gone]
  BY DEF Ended
<1> HIDE DEF gone
<1>4. Ended(c, result) \in CallType
  BY <1>1, <1>2, <1>3 DEF CallType
<1>5. Ended(c, result).at = "idle" /\ Ended(c, result).to = NoItem
  BY <1>2, <1>3 DEF CallType
<1> QED
  BY <1>2, <1>4, <1>5 DEF CallShape

LEMMA EndedResult == \A c, result : Ended(c, result).result = result
  BY DEF Ended, NoCall

LEMMA LeftPage ==
    ASSUME NEW c, NEW p \in PageType, Harmless(p), NEW blocked
    PROVE  Leave(c, p, blocked) \in Follow(p)
<1>1. p \in Follow(p) /\ Click(p, "close") \in Follow(p)
  BY Followers, EffectNames
<1> QED
  BY <1>1 DEF Leave

(* The call c throws on page p. *)
LEMMA ThrowKeeps ==
    ASSUME NEW c, CallShape(c), c.tool \in ToolNames, NEW p \in PageType, Harmless(p),
           NEW m, NEW human, Throw(c, p, m, human)
    PROVE  page' \in Follow(p) /\ CallShape(call') /\ (call'.at = "idle" \/ call'.stage = "close")
<1> DEFINE closes == Opened(c) /\ ~c.failing /\ ~human
           d == [c EXCEPT !.stage = "close", !.at = "guard", !.late = FALSE, !.failing = TRUE]
<1>1. c \in CallType
  BY DEF CallShape
<1>2. CASE closes
  <2>1. call' = d /\ page' = p
    BY <1>2 DEF Throw
  <2> DEFINE e == [c EXCEPT !.stage = "close", !.at = "guard"]
  <2>6. e \in CallType
    BY <1>1 DEF CallType, Stages
  <2>7. d = [e EXCEPT !.late = FALSE, !.failing = TRUE]
    BY <1>1 DEF CallType
  <2> HIDE DEF e
  <2>2. d \in CallType
    <3> HIDE DEF d
    <3> QED
      BY <2>6, <2>7 DEF CallType
  <2>5. d.tool = c.tool /\ d.stage = "close" /\ d.to = c.to
    BY <1>1 DEF CallType
  <2>3. "close" \in StagesOf(c.tool) /\ c.tool \notin Navigating
    BY <1>2 DEF Opened, Sharing, StagesOf, Navigating
  <2> HIDE DEF d
  <2>4. CallShape(d)
    BY <2>2, <2>3, <2>5 DEF CallShape
  <2> QED
    BY <2>1, <2>4, <2>5, SamePage
<1>3. CASE ~closes
  <2>1. page' = Leave(c, p, human) /\ call' = Ended(c, "error")
    BY <1>3 DEF Throw
  <2> QED
    BY <1>1, <2>1, EndedShape, LeftPage
<1> QED
  BY <1>2, <1>3

(* The call c returns on page p. *)
LEMMA ReturnKeeps ==
    ASSUME NEW c, CallShape(c), NEW p \in PageType, Harmless(p),
           NEW result \in {"ok", "already"}, Return(c, p, result)
    PROVE  page' \in Follow(p) /\ CallShape(call') /\ call'.at = "idle"
<1> DEFINE goes == IF c.tool = "nearby" THEN "search" ELSE "directions"
           got == IF c.failing THEN "error" ELSE result
<1>1. call' = Ended(c, got) /\ got \in {"ok", "already", "error"}
  BY DEF Return
<1>2. page' = IF c.tool \in Navigating THEN Fresh(goes, c.to, Settled(p).saved)
              ELSE Leave(c, p, FALSE)
  BY DEF Return, Navigating
<1> HIDE DEF got
<1>3. CallShape(call') /\ call'.at = "idle"
  BY <1>1, EndedShape DEF CallShape
<1>4. page' \in Follow(p)
  <2>1. CASE c.tool \in Navigating
    <3>1. Settled(p) \in Follow(p) /\ Settled(p).saved \in SUBSET Item
      BY SettledPage DEF Follow, PageType
    <3>2. c.to \in Item /\ goes \in Paths /\ goes # "blocked"
      BY <2>1 DEF CallShape, Paths
    <3> HIDE DEF goes
    <3> QED
      BY <1>2, <2>1, <3>1, <3>2, FreshPage, FreshPath DEF Follow
  <2>2. CASE c.tool \notin Navigating
    BY <1>2, <2>2, LeftPage
  <2> QED
    BY <2>1, <2>2
<1> QED
  BY <1>3, <1>4

(* A step of the call leaves it in another stage. *)
LEMMA GoesToShape ==
    ASSUME SavingInv, call.at # "idle", NEW stage \in StagesOf(call.tool), stage \in Stages, NEW q
    PROVE  /\ CallShape(GoesTo(call, stage, q))
           /\ GoesTo(call, stage, q).tool = call.tool /\ GoesTo(call, stage, q).stage = stage
<1> DEFINE late == IF stage = "close" /\ call.stage = "closed" THEN call.late ELSE FALSE
           from == Noted(call, page)
           mutated == call.mutated \/ Mutates(call.tool, call.stage)
           reopened == call.reopened \/ stage = "reopen"
           d == [call EXCEPT !.stage = stage, !.at = "guard", !.late = late, !.from = from,
                             !.mutated = mutated, !.reopened = reopened]
<1>1. call \in CallType /\ page \in PageType /\ call.tool \in ToolNames
      /\ (call.tool \in Navigating => call.to \in Item)
  BY DEF SavingInv, CallShape
<1>2. GoesTo(call, stage, q) = d
  BY DEF GoesTo
<1>3. late \in BOOLEAN
  BY <1>1 DEF CallType
<1>4. from \in Item \cup Int
  BY <1>1 DEF CallType, PageType, Noted
<1>5. mutated \in BOOLEAN /\ reopened \in BOOLEAN
  BY <1>1 DEF CallType, Mutates
<1> HIDE DEF late, from, mutated, reopened
<1>6. d \in CallType
  BY <1>1, <1>3, <1>4, <1>5 DEF CallType
<1>7. d.tool = call.tool /\ d.stage = stage /\ d.to = call.to /\ d.at = "guard"
  BY <1>1 DEF CallType
<1> HIDE DEF d
<1> QED
  BY <1>1, <1>2, <1>6, <1>7 DEF CallShape

LEMMA StageNames == \A tool \in ToolNames : StagesOf(tool) \subseteq Stages
  BY DEF ToolNames, SearchToolNames, PlaceToolNames, DirectionsToolNames, StagesOf, Stages

-----------------------------------------------------------------------------
(* Steps. *)

Kept ==
    /\ SavingInv' /\ page.saved \subseteq page'.saved
    /\ page'.path = "blocked" => page.path = "blocked" \/ faults'.moved

LEMMA KeptWhenIdle ==
    ASSUME page' \in Follow(page), CallShape(call'),
           call'.at = "idle" \/ call'.stage = "close"
    PROVE  Kept
  BY DEF Kept, SavingInv, Follow

LEMMA KeptPage ==
    ASSUME SavingInv, call' = call, page' \in PageType, Harmless(page'),
           page.saved \subseteq page'.saved, Unsaved(page) => Unsaved(page'),
           page'.path = "blocked" => page.path = "blocked" \/ faults'.moved
    PROVE  Kept
  BY DEF Kept, SavingInv, Follow

(* A call that runs throws or returns on a page that follows. *)
LEMMA ThrowsOnFollower ==
    ASSUME SavingInv, NEW c, CallShape(c), c.tool \in ToolNames, NEW p \in Follow(page),
           NEW m, NEW human, Throw(c, p, m, human)
    PROVE  Kept
<1>1. p \in PageType /\ Harmless(p)
  BY DEF Follow
<1>2. page' \in Follow(p) /\ CallShape(call') /\ (call'.at = "idle" \/ call'.stage = "close")
  BY <1>1, ThrowKeeps
<1>3. page' \in Follow(page)
  BY <1>2, Passing
<1> QED
  BY <1>2, <1>3, KeptWhenIdle

LEMMA ReturnsOnFollower ==
    ASSUME SavingInv, NEW p \in Follow(page), NEW result \in {"ok", "already"},
           Return(call, p, result)
    PROVE  Kept
<1>1. p \in PageType /\ Harmless(p) /\ CallShape(call)
  BY DEF Follow, SavingInv
<1>2. page' \in Follow(p) /\ CallShape(call') /\ call'.at = "idle"
  BY <1>1, ReturnKeeps
<1>3. page' \in Follow(page)
  BY <1>2, Passing
<1> QED
  BY <1>2, <1>3, KeptWhenIdle

LEMMA Running ==
    ASSUME SavingInv, call.at # "idle"
    PROVE  /\ CallShape(call) /\ call \in CallType /\ call.tool \in ToolNames
           /\ call.stage \in StagesOf(call.tool) /\ call.stage \in Stages
           /\ page \in Follow(page)
  BY Followers, StageNames DEF SavingInv, CallShape

LEMMA BeginKeeps ==
    ASSUME SavingInv, NEW tool \in ToolNames, NEW item \in Item, NEW to \in Item \cup Int,
           tool \in Navigating => to \in Item, Begin(tool, item, to)
    PROVE  Kept
<1> DEFINE gone == call.unfenced
           d == [NoCall EXCEPT !.tool = tool, !.item = item, !.to = to, !.at = "guard",
                               !.unfenced = gone]
<1>1. gone \in BOOLEAN /\ page \in PageType /\ Harmless(page)
  BY DEF SavingInv, CallShape, CallType
<1>2. call' = d
  BY DEF Begin
<1> HIDE DEF gone
<1>3. d \in CallType /\ d.tool = tool /\ d.stage = "start" /\ d.to = to
  <2>1. NoCall \in CallType /\ NoCall.stage = "start"
    BY NoCallShape DEF NoCall
  <2> QED
    BY <1>1, <2>1 DEF CallType
<1>4. "start" \in StagesOf(tool)
  BY DEF ToolNames, SearchToolNames, PlaceToolNames, DirectionsToolNames, StagesOf
<1> HIDE DEF d
<1>5. CallShape(d)
  BY <1>3, <1>4 DEF CallShape
<1>6. page' \in Follow(page)
  <2>1. Settled(page) \in Follow(page) /\ Settled(page).saved \in SUBSET Item
    BY <1>1, SettledPage DEF Follow, PageType
  <2>2. NoItem \in Item /\ "home" \in Paths
    BY DEF Item, Paths
  <2>3. Fresh("home", NoItem, Settled(page).saved) \in Follow(page)
    BY <2>1, <2>2, FreshPage, FreshPath DEF Follow
  <2>4. page' = page \/ page' = Fresh("home", NoItem, Settled(page).saved)
    BY DEF Begin
  <2> QED
    BY <1>1, <2>3, <2>4, SamePage
<1> QED
  BY <1>2, <1>3, <1>5, <1>6 DEF Kept, SavingInv, Follow

LEMMA AssertKeeps ==
    ASSUME SavingInv, AssertContext
    PROVE  Kept
<1> DEFINE d == [call EXCEPT !.at = "look", !.from = Origin(call, page)]
<1>1. call.at = "guard"
  BY DEF AssertContext
<1>2. CallShape(call) /\ call \in CallType /\ call.tool \in ToolNames /\ page \in Follow(page)
  BY <1>1, Running
<1>3. ASSUME NEW m, NEW human, Throw(call, page, m, human) PROVE Kept
  BY <1>2, <1>3, ThrowsOnFollower
<1>4. ASSUME call' = d, page' = page PROVE Kept
  <2>1. Origin(call, page) \in Item \cup Int
    BY <1>2 DEF Origin, CallType, SavingInv, PageType
  <2>2. d \in CallType /\ d.tool = call.tool /\ d.stage = call.stage /\ d.to = call.to
    BY <1>2, <2>1 DEF CallType
  <2> HIDE DEF d
  <2>3. CallShape(d)
    BY <1>1, <1>2, <2>2 DEF CallShape
  <2> QED
    BY <1>1, <1>2, <1>4, <2>2, <2>3 DEF Kept, SavingInv
<1>5. ASSUME call' = Ended(call, "ok"), page' = page PROVE Kept
  BY <1>2, <1>5, EndedShape, KeptWhenIdle
<1>6. \/ call' = d /\ page' = page
      \/ call' = Ended(call, "ok") /\ page' = page
      \/ Throw(call, page, memory, FALSE)
      \/ Throw(call, page, Blank, TRUE)
      \/ Throw(call, page, Blank, FALSE)
  BY DEF AssertContext
<1> QED
  BY <1>3, <1>4, <1>5, <1>6

(* A call that goes on. *)
LEMMA GoingOn ==
    ASSUME SavingInv, call.at # "idle", NEW s \in Sees(call, page), NEW stage,
           call.stage \in OnlyAsserts \/ s.reply \in Now.parser.go,
           stage = Follows(call, s.reply), stage # "end",
           page' = s.page, call' = GoesTo(call, stage, s.page)
    PROVE  Kept
<1>1. /\ s.page \in Follow(page)
      /\ call.tool = "save" /\ call.stage = "point" /\ s.reply = "ok" => Unsaved(s.page)
  BY SeesFollow
<1>2. call.tool \in ToolNames /\ call.stage \in StagesOf(call.tool)
  BY Running
<1>3. Leads(call.tool, call.stage, Now)
  BY <1>2, Plans DEF Now
<1>4. call.stage \in OnlyAsserts => s.reply = "ok"
  BY DEF Sees, Saw
<1>5. stage \in StagesOf(call.tool)
  <2>1. CASE s.reply \notin {"closed", "still_open"}
    <3>1. stage = Now.next
      BY <2>1 DEF Follows
    <3> QED
      BY <1>3, <3>1 DEF Leads
  <2>2. CASE s.reply = "closed"
    <3>1. call.tool \in {"save", "searchShare", "routeShare"}
      BY <1>3, <1>4, <2>2 DEF Leads
    <3>2. stage = IF call.tool = "save" THEN "reopen" ELSE "last"
      BY <2>2 DEF Follows
    <3> QED
      BY <3>1, <3>2 DEF StagesOf
  <2>3. CASE s.reply = "still_open"
    <3>1. call.tool = "routeShare" /\ stage = "close"
      BY <1>3, <1>4, <2>3 DEF Leads, Follows
    <3> QED
      BY <3>1 DEF StagesOf
  <2> QED
    BY <2>1, <2>2, <2>3
<1>6. stage = "press" /\ call.tool = "save" => Unsaved(s.page)
  <2>1. SUFFICES ASSUME stage = "press", call.tool = "save" PROVE Unsaved(s.page)
    OBVIOUS
  <2>2. Now.next = "press"
    BY <2>1 DEF Follows
  <2>3. call.stage = "point" /\ Now.parser.go = {"ok"}
    BY <1>3, <2>1, <2>2 DEF Leads
  <2>4. s.reply = "ok"
    BY <2>3 DEF OnlyAsserts
  <2> QED
    BY <1>1, <2>1, <2>3, <2>4
<1>7. stage \in Stages
  BY <1>2, <1>5, StageNames
<1>8. CallShape(call') /\ call'.tool = call.tool /\ call'.stage = stage
  BY <1>5, <1>7, GoesToShape
<1> QED
  BY <1>1, <1>6, <1>8 DEF Kept, SavingInv, Follow

LEMMA LookKeeps ==
    ASSUME SavingInv, Look
    PROVE  Kept
<1>1. call.at = "look"
  BY DEF Look
<1>2. CallShape(call) /\ call \in CallType /\ call.tool \in ToolNames
  BY <1>1, Running
<1> DEFINE OutcomeOf(s) ==
        IF call.stage \in OnlyAsserts THEN "go" ELSE Outcome(Now.parser, s.reply)
           d == [call EXCEPT !.at = "guard"]
<1>3. PICK s \in Sees(call, page) :
         \/ Return(call, s.page, "ok")
         \/ /\ OutcomeOf(s) = "go" /\ Follows(call, s.reply) # "end"
            /\ page' = s.page /\ call' = GoesTo(call, Follows(call, s.reply), s.page)
         \/ Return(call, s.page, "already")
         \/ OutcomeOf(s) = "again" /\ page' = s.page /\ call' = d
         \/ Throw(call, s.page, memory, FALSE)
  BY DEF Look
<1>4. /\ s.page \in Follow(page)
      /\ s.page \in PageType /\ Harmless(s.page)
  BY <1>1, SeesFollow DEF Follow
<1>5. CASE Return(call, s.page, "ok") \/ Return(call, s.page, "already")
  BY <1>4, <1>5, ReturnsOnFollower
<1>6. CASE /\ OutcomeOf(s) = "go" /\ Follows(call, s.reply) # "end"
           /\ page' = s.page /\ call' = GoesTo(call, Follows(call, s.reply), s.page)
  <2>1. call.stage \in OnlyAsserts \/ s.reply \in Now.parser.go
    BY <1>6 DEF Outcome
  <2> HIDE DEF OutcomeOf
  <2> QED
    BY <1>1, <1>6, <2>1, GoingOn
<1>7. CASE OutcomeOf(s) = "again" /\ page' = s.page /\ call' = d
  <2>1. ~(call.tool = "save" /\ call.stage = "press")
    BY <1>7, PressNeverAgain DEF Outcome, OnlyAsserts
  <2>2. d \in CallType /\ d.tool = call.tool /\ d.stage = call.stage /\ d.to = call.to
    BY <1>2 DEF CallType
  <2> HIDE DEF d, OutcomeOf
  <2>3. CallShape(d)
    BY <1>1, <1>2, <2>2 DEF CallShape
  <2> QED
    BY <1>4, <1>7, <2>1, <2>2, <2>3 DEF Kept, SavingInv, Follow
<1>8. CASE Throw(call, s.page, memory, FALSE)
  BY <1>2, <1>4, <1>8, ThrowsOnFollower
<1> HIDE DEF OutcomeOf, d
<1> QED
  BY <1>3, <1>5, <1>6, <1>7, <1>8

LEMMA ExpireKeeps ==
    ASSUME SavingInv, Expire
    PROVE  Kept
<1> DEFINE d == [call EXCEPT !.stage = "leave", !.failing = TRUE, !.late = FALSE]
<1>1. call.at = "guard"
  BY DEF Expire
<1>2. CallShape(call) /\ call \in CallType /\ call.tool \in ToolNames /\ page \in Follow(page)
  BY <1>1, Running
<1>3. CASE call' = d /\ page' = page /\ call.tool = "photos"
  <2>1. d \in CallType /\ d.tool = "photos" /\ d.stage = "leave" /\ d.to = call.to
    BY <1>2, <1>3 DEF CallType, Stages
  <2> HIDE DEF d
  <2>2. "leave" \in StagesOf("photos") /\ "photos" \notin Navigating
    BY DEF StagesOf, Navigating
  <2>3. CallShape(d)
    BY <1>2, <1>3, <2>1, <2>2 DEF CallShape
  <2> QED
    BY <1>3, <2>1, <2>3 DEF Kept, SavingInv, Follow
<1>4. CASE Throw(call, page, memory, FALSE)
  BY <1>2, <1>4, ThrowsOnFollower
<1> QED
  BY <1>3, <1>4 DEF Expire

LEMMA DeadlineKeeps ==
    ASSUME SavingInv, DeadlinePasses
    PROVE  Kept
<1> DEFINE d == [call EXCEPT !.late = TRUE]
<1>1. call.at # "idle" /\ call' = d /\ page' = page
  BY DEF DeadlinePasses
<1>2. CallShape(call) /\ call \in CallType /\ page \in Follow(page)
  BY <1>1, Running
<1>3. /\ d \in CallType /\ d.tool = call.tool /\ d.stage = call.stage /\ d.to = call.to
      /\ d.at = call.at
  BY <1>2 DEF CallType
<1> HIDE DEF d
<1>4. CallShape(d)
  BY <1>2, <1>3 DEF CallShape
<1> QED
  BY <1>1, <1>2, <1>3, <1>4 DEF Kept, SavingInv

LEMMA SettleKeeps ==
    ASSUME SavingInv, Settle
    PROVE  Kept
<1>1. page' = Settled(page) /\ call' = call /\ page \in PageType /\ Harmless(page)
  BY DEF Settle, SavingInv
<1>2. page' \in Follow(page) /\ (Unsaved(page) => Unsaved(page'))
  BY <1>1, SettledPage
<1> QED
  BY <1>1, <1>2, KeptPage DEF Follow

(* Another page is shown, with the same places saved. *)
LEMMA FreshKeeps ==
    ASSUME SavingInv, NEW path \in Paths, NEW x \in Item,
           page' = Fresh(path, x, page.saved), call' = call,
           path = "blocked" => faults'.moved
    PROVE  Kept
<1>1. page.saved \in SUBSET Item
  BY DEF SavingInv, PageType
<1>2. /\ page' \in PageType /\ Harmless(page') /\ page'.saved = page.saved
      /\ page'.over = "none" /\ page'.lag.do = "none" /\ page'.path = path
  BY <1>1, FreshPage, FreshPath
<1> QED
  BY <1>2, KeptPage DEF Unsaved

LEMMA LoseKeeps ==
    ASSUME SavingInv, Lose
    PROVE  Kept
<1>1. CASE call.at = "idle"
  <2>1. page' = page /\ call' = call
    BY <1>1 DEF Lose
  <2> QED
    BY <2>1 DEF Kept, SavingInv, Follow
<1>2. CASE call.at # "idle"
  <2> DEFINE fails == call.failing \/ Opened(call)
             d == [call EXCEPT !.failing = fails]
  <2>1. CallShape(call) /\ call \in CallType /\ call.tool \in ToolNames /\ page \in Follow(page)
    BY <1>2, Running
  <2>2. PICK p \in {page} \cup {s.page : s \in Sees(call, page)} : Throw(d, p, memory, FALSE)
    BY <1>2 DEF Lose
  <2>3. p \in Follow(page)
    BY <1>2, <2>1, SeesFollow
  <2>4. fails \in BOOLEAN
    BY <2>1 DEF CallType
  <2> HIDE DEF fails
  <2>5. /\ d \in CallType /\ d.tool = call.tool /\ d.stage = call.stage /\ d.to = call.to
        /\ d.at = call.at
    BY <2>1, <2>4 DEF CallType
  <2> HIDE DEF d
  <2>6. CallShape(d)
    BY <2>1, <2>5 DEF CallShape
  <2> QED
    BY <2>1, <2>2, <2>3, <2>5, <2>6, ThrowsOnFollower
<1> QED
  BY <1>1, <1>2

LEMMA EstablishKeeps ==
    ASSUME SavingInv, NEW view, NEW last, NEW path \in Paths, path # "blocked", NEW x \in Item,
           Establish(view, last, path, x)
    PROVE  Kept
<1>1. page \in PageType /\ Harmless(page)
  BY DEF SavingInv
<1>2. page \in Follow(page) /\ Settled(page) \in Follow(page)
  BY <1>1, SamePage, SettledPage
<1>3. PICK saved \in {page.saved, Settled(page).saved} : page' = Fresh(path, x, saved)
  BY DEF Establish
<1>4. saved \in SUBSET Item /\ page.saved \subseteq saved
  BY <1>2, <1>3 DEF Follow, PageType
<1>5. page' \in Follow(page)
  BY <1>3, <1>4, FreshPage, FreshPath DEF Follow
<1>6. call' = NoCall
  BY DEF Establish
<1> QED
  BY <1>5, <1>6, NoCallShape, KeptWhenIdle

LEMMA FaultMoves == Fault(TRUE) => faults'.moved
<1> SUFFICES ASSUME Fault(TRUE) PROVE faults'.moved
  OBVIOUS
<1>1. faults' = [number |-> faults.number + 1, moved |-> faults.moved \/ TRUE]
  BY DEF Fault
<1> QED
  BY <1>1, Zenon

LEMMA StepKeeps ==
    ASSUME SavingInv, Next
    PROVE  Kept
<1>1. Query \cup {NoItem} \subseteq Item /\ Place \cup {NoItem} \subseteq Item
      /\ Trip \cup {NoItem} \subseteq Item
      /\ {"home", "search", "place", "directions", "blocked"} \subseteq Paths
  BY DEF Item, Paths
<1>2. CASE \E tool \in Tools : \E item \in Items(tool), to \in Choices(tool) :
              Begin(tool, item, to)
  <2>1. PICK tool \in Tools : \E item \in Items(tool), to \in Choices(tool) :
              Begin(tool, item, to)
    BY <1>2
  <2>2. PICK item \in Items(tool), to \in Choices(tool) : Begin(tool, item, to)
    BY <2>1
  <2>3. tool \in ToolNames
    BY ToolsAssumption DEF ToolNames
  <2>4. item \in Item
    BY <1>1 DEF Items
  <2>5. to \in Item \cup Int
    BY <1>1 DEF Choices
  <2>6. tool \in Navigating => to \in Item
    BY <1>1 DEF Choices, Navigating
  <2> QED
    BY <2>2, <2>3, <2>4, <2>5, <2>6, BeginKeeps
<1>3. CASE Step
  BY <1>3, AssertKeeps, LookKeeps, ExpireKeeps DEF Step
<1>4. CASE DeadlinePasses \/ Settle
  BY <1>4, DeadlineKeeps, SettleKeeps
<1>5. CASE Challenge \/ Resolve
  <2>1. /\ call' = call
        /\ \/ page' = Fresh("blocked", NoItem, page.saved) /\ faults'.moved
           \/ page' = Fresh("home", NoItem, page.saved)
    BY <1>5, FaultMoves DEF Challenge, Resolve
  <2> QED
    BY <1>1, <2>1, FreshKeeps
<1>6. CASE Lose
  BY <1>6, LoseKeeps
<1>7. CASE Straggle
  <2>1. page' = page /\ call' = call
    BY <1>7 DEF Straggle
  <2> QED
    BY <2>1 DEF Kept, SavingInv, Follow
<1>8. ASSUME NEW path \in Paths, NEW x \in Item, Move(path, x)
      PROVE  Kept
  BY <1>8, FreshKeeps, FaultMoves DEF Move
<1>9. CASE \/ \E q \in Query \cup {NoItem} : Move("search", q)
           \/ \E x \in Place \cup {NoItem} : Move("place", x)
           \/ \E t \in Trip \cup {NoItem} : Move("directions", t)
  BY <1>1, <1>8, <1>9
<1>10. CASE Contexts
  <2>1. ASSUME NEW q \in Query PROVE Establish("search", q, "search", q) => Kept
    BY <1>1, EstablishKeeps
  <2>2. ASSUME NEW q \in Query, NEW x \in Place PROVE Establish("place", q, "place", x) => Kept
    BY <1>1, EstablishKeeps
  <2>3. ASSUME NEW t \in Trip
        PROVE  /\ Establish("directions", t, "directions", t) => Kept
               /\ Establish("route", t, "directions", t) => Kept
    BY <1>1, EstablishKeeps
  <2> QED
    BY <1>10, <2>1, <2>2, <2>3 DEF Contexts
<1> QED
  BY <1>2, <1>3, <1>4, <1>5, <1>6, <1>7, <1>9, <1>10 DEF Next

LEMMA InitSaving == Init => SavingInv
<1>1. NoItem \in Item /\ "home" \in Paths /\ {} \in SUBSET Item
  BY DEF Item, Paths
<1>2. Fresh("home", NoItem, {}) \in PageType /\ Harmless(Fresh("home", NoItem, {}))
  BY <1>1, FreshPage
<1> QED
  BY <1>2, NoCallShape DEF Init, SavingInv

(* A place that is saved stays saved, whatever is called, however late the
   clicks take effect, and whatever the page does meanwhile.               *)
THEOREM SavedStaysSavedHolds == Spec => SavedStaysSaved
<1>1. SavingInv /\ [Next]_vars => SavingInv' /\ [page.saved \subseteq page'.saved]_vars
  <2>1. ASSUME SavingInv, Next PROVE SavingInv' /\ page.saved \subseteq page'.saved
    BY <2>1, StepKeeps DEF Kept
  <2>2. ASSUME SavingInv, UNCHANGED vars PROVE SavingInv'
    BY <2>2 DEF SavingInv, vars
  <2> QED
    BY <2>1, <2>2
<1>2. Init /\ [][Next]_vars => [][page.saved \subseteq page'.saved]_vars
  BY <1>1, InitSaving, PTL
<1> QED
  BY <1>2, PTL DEF Spec, SavedStaysSaved

-----------------------------------------------------------------------------
(* What the postconditions need. *)

Opens(p, x) == p.over = x \/ p.lag.do = x

(* The time is set for the trip the call is about: the menu can only be that
   of the page the endpoints were read from. *)
TimeInv ==
    call.at # "idle" /\ call.tool = "time" =>
        /\ call.stage \in {"again", "mode"} /\ Opens(page, "timeMenu") => page.of = call.from
        /\ (call.stage = "mode" \/ (call.stage = "again" /\ call.at = "look"))
             /\ Opens(page, "timeMenu") => call.from = call.item
        /\ call.stage \in {"input", "type", "post"} => call.from = call.item

(* Hours show on a place: a page that left has none, and will have none. *)
HoursInv ==
    call.at # "idle" /\ call.tool = "hours" /\ call.stage = "post" =>
        /\ page.lag.do \in {"none", "inline", "detail"}
        /\ call.at = "look" =>
             page.path = "place" \/ (page.hours = "collapsed" /\ page.lag.do = "none")

(* The dialog goes away for good, and what is shared is still remembered. *)
ShareInv ==
    call.at # "idle" /\ call.tool \in Sharing /\ ~call.failing =>
        /\ call.stage = "close" /\ page.lag.do = "dialog" => page.over = "dialog"
        /\ call.stage = "closed" => page.lag.do # "dialog"
        /\ call.stage = "last" =>
             /\ ~Opens(page, "dialog")
             /\ call.at = "look" =>
                  /\ memory.last = call.item
                  /\ memory.view = (IF call.tool = "searchShare" THEN "search" ELSE "route")

Alike(c, d) ==
    /\ d.tool = c.tool /\ d.item = c.item /\ d.stage = c.stage /\ d.from = c.from
    /\ d.failing = c.failing /\ d.mutated = c.mutated

Bare(p) == p.over = "none" /\ p.lag.do = "none" /\ p.hours = "collapsed"

(* The call begins, ends, or has failed. *)
NoClaim ==
    \/ call'.at = "idle"
    \/ call'.stage = "start" /\ call'.at = "guard" /\ ~call'.failing /\ ~call'.mutated
    \/ call'.stage = "leave" /\ call'.tool = "photos" /\ call'.at = "guard"
    \/ call'.stage = "close" /\ call'.failing /\ call'.tool \in Sharing

(* The page gets to its click, or is another one. *)
Surroundings ==
    /\ Alike(call, call') /\ call'.at = call.at /\ memory' = memory
    /\ page' = page \/ page' = Settled(page) \/ Bare(page')

Asserted ==
    /\ call.at = "guard" /\ call'.at = "look" /\ page' = page /\ memory' = memory
    /\ call'.tool = call.tool /\ call'.item = call.item /\ call'.stage = call.stage
    /\ call'.failing = call.failing /\ call'.from = Origin(call, page)
    /\ call'.mutated = call.mutated
    /\ Assertion(Now.guard, page, memory, call.item, call.from) = "ok"

LookedAgain(s) ==
    /\ call.at = "look" /\ call'.at = "guard" /\ memory' = memory /\ page' = s.page
    /\ call.stage \notin OnlyAsserts /\ s.reply \in Now.parser.again
    /\ Alike(call, call')

WentOn(s) ==
    /\ call.at = "look" /\ call'.at = "guard" /\ memory' = memory /\ page' = s.page
    /\ call.stage \in OnlyAsserts \/ s.reply \in Now.parser.go
    /\ call'.tool = call.tool /\ call'.item = call.item /\ call'.failing = call.failing
    /\ call'.stage = Follows(call, s.reply) /\ call'.stage # "end"
    /\ call'.from = Noted(call, page)
    /\ call'.mutated <=> call.mutated \/ Mutates(call.tool, call.stage)

StepShape ==
    \/ NoClaim
    \/ Surroundings
    \/ Asserted
    \/ \E s \in Sees(call, page) : LookedAgain(s) \/ WentOn(s)

LEMMA ThrowShape ==
    ASSUME NEW c \in CallType, NEW p, NEW m, NEW human, Throw(c, p, m, human)
    PROVE  /\ \/ call'.at = "idle"
              \/ call'.stage = "close" /\ call'.failing /\ call'.tool \in Sharing
           /\ call'.at = "idle" => call'.result = "error"
<1> DEFINE closes == Opened(c) /\ ~c.failing /\ ~human
           d == [c EXCEPT !.stage = "close", !.at = "guard", !.late = FALSE, !.failing = TRUE]
<1>1. CASE closes
  <2>1. call' = d
    BY <1>1 DEF Throw
  <2>2. d.stage = "close" /\ d.failing /\ d.at = "guard" /\ d.tool = c.tool
    BY DEF CallType
  <2> QED
    BY <1>1, <2>1, <2>2 DEF Opened
<1>2. CASE ~closes
  <2>1. call' = Ended(c, "error")
    BY <1>2 DEF Throw
  <2>2. Ended(c, "error").at = "idle" /\ Ended(c, "error").result = "error"
    BY EndedShape, EndedResult
  <2> QED
    BY <2>1, <2>2
<1> QED
  BY <1>1, <1>2

LEMMA ReturnShape ==
    ASSUME NEW c \in CallType, NEW p, NEW result \in {"ok", "already"}, Return(c, p, result)
    PROVE  /\ call'.at = "idle"
           /\ call'.result = IF c.failing THEN "error" ELSE result
<1> DEFINE got == IF c.failing THEN "error" ELSE result
<1>1. call' = Ended(c, got) /\ got \in {"ok", "already", "error"}
  BY DEF Return
<1> QED
  BY <1>1, EndedShape, EndedResult

LEMMA AssertShape ==
    ASSUME SavingInv, AssertContext
    PROVE  NoClaim \/ Asserted
<1> DEFINE d == [call EXCEPT !.at = "look", !.from = Origin(call, page)]
<1>1. call.at = "guard"
  BY DEF AssertContext
<1>2. call \in CallType
  BY <1>1, Running
<1>3. \/ /\ call' = d /\ page' = page /\ memory' = memory
         /\ Assertion(Now.guard, page, memory, call.item, call.from) = "ok"
      \/ call' = Ended(call, "ok")
      \/ Throw(call, page, memory, FALSE)
      \/ Throw(call, page, Blank, TRUE)
      \/ Throw(call, page, Blank, FALSE)
  BY DEF AssertContext
<1>4. /\ d.at = "look" /\ d.tool = call.tool /\ d.item = call.item /\ d.stage = call.stage
      /\ d.failing = call.failing /\ d.from = Origin(call, page) /\ d.mutated = call.mutated
  BY <1>2 DEF CallType
<1> HIDE DEF d
<1>5. ASSUME call' = d /\ page' = page /\ memory' = memory
             /\ Assertion(Now.guard, page, memory, call.item, call.from) = "ok"
      PROVE  Asserted
  BY <1>1, <1>4, <1>5 DEF Asserted
<1>6. ASSUME call' = Ended(call, "ok") PROVE NoClaim
  BY <1>2, <1>6, EndedShape DEF NoClaim
<1>7. ASSUME NEW m, NEW human, Throw(call, page, m, human) PROVE NoClaim
  BY <1>2, <1>7, ThrowShape DEF NoClaim
<1> QED
  BY <1>3, <1>5, <1>6, <1>7

LEMMA LookShape ==
    ASSUME SavingInv, Look
    PROVE  NoClaim \/ \E s \in Sees(call, page) : LookedAgain(s) \/ WentOn(s)
<1>1. call.at = "look"
  BY DEF Look
<1>2. call \in CallType
  BY <1>1, Running
<1> DEFINE OutcomeOf(s) ==
        IF call.stage \in OnlyAsserts THEN "go" ELSE Outcome(Now.parser, s.reply)
           d == [call EXCEPT !.at = "guard"]
<1>3. PICK s \in Sees(call, page) :
         \/ Return(call, s.page, "ok")
         \/ /\ OutcomeOf(s) = "go" /\ Follows(call, s.reply) # "end" /\ memory' = memory
            /\ page' = s.page /\ call' = GoesTo(call, Follows(call, s.reply), s.page)
         \/ Return(call, s.page, "already")
         \/ OutcomeOf(s) = "again" /\ page' = s.page /\ call' = d /\ memory' = memory
         \/ Throw(call, s.page, memory, FALSE)
  BY DEF Look
<1>4. CASE Return(call, s.page, "ok") \/ Return(call, s.page, "already")
  BY <1>2, <1>4, ReturnShape DEF NoClaim
<1>5. CASE /\ OutcomeOf(s) = "go" /\ Follows(call, s.reply) # "end" /\ memory' = memory
           /\ page' = s.page /\ call' = GoesTo(call, Follows(call, s.reply), s.page)
  <2>1. call.stage \in OnlyAsserts \/ s.reply \in Now.parser.go
    BY <1>5 DEF Outcome
  <2> DEFINE stage == Follows(call, s.reply)
             e == GoesTo(call, stage, s.page)
  <2>2. /\ e.at = "guard" /\ e.tool = call.tool /\ e.item = call.item /\ e.stage = stage
        /\ e.failing = call.failing /\ e.from = Noted(call, page)
    <3> HIDE DEF stage
    <3> QED
      BY <1>2 DEF GoesTo, CallType
  <2>4. e.mutated <=> call.mutated \/ Mutates(call.tool, call.stage)
    <3> HIDE DEF stage
    <3> QED
      BY <1>2 DEF GoesTo, CallType
  <2>3. WentOn(s)
    <3> HIDE DEF OutcomeOf, e
    <3>1. call' = e
      BY <1>5 DEF e
    <3> QED
      BY <1>1, <1>5, <2>1, <2>2, <2>4, <3>1 DEF WentOn
  <2> QED
    BY <2>3
<1>6. CASE OutcomeOf(s) = "again" /\ page' = s.page /\ call' = d /\ memory' = memory
  <2>1. call.stage \notin OnlyAsserts /\ s.reply \in Now.parser.again
    BY <1>6 DEF Outcome
  <2>2. d.at = "guard" /\ Alike(call, d)
    BY <1>2 DEF CallType, Alike
  <2> HIDE DEF OutcomeOf, d
  <2> QED
    BY <1>1, <1>6, <2>1, <2>2 DEF LookedAgain
<1>7. CASE Throw(call, s.page, memory, FALSE)
  BY <1>2, <1>7, ThrowShape DEF NoClaim
<1> HIDE DEF OutcomeOf, d
<1> QED
  BY <1>3, <1>4, <1>5, <1>6, <1>7

LEMMA FreshBare ==
    \A path, x, saved : Bare(Fresh(path, x, saved))
  BY NotLagging DEF Bare, Fresh

LEMMA NextShape ==
    ASSUME SavingInv, Next
    PROVE  StepShape
<1>1. CASE \E tool \in Tools : \E item \in Items(tool), to \in Choices(tool) :
              Begin(tool, item, to)
  <2>1. PICK tool, item, to : Begin(tool, item, to)
    BY <1>1
  <2> DEFINE d == [NoCall EXCEPT !.tool = tool, !.item = item, !.to = to, !.at = "guard",
                                 !.unfenced = call.unfenced]
  <2>2. call' = d
    BY <2>1 DEF Begin
  <2>3. d.stage = "start" /\ d.at = "guard" /\ ~d.failing /\ ~d.mutated
    BY DEF NoCall
  <2> QED
    BY <2>2, <2>3 DEF StepShape, NoClaim
<1>2. CASE AssertContext
  BY <1>2, AssertShape DEF StepShape
<1>3. CASE Look
  BY <1>3, LookShape DEF StepShape
<1>4. CASE Expire
  <2>1. call \in CallType /\ call.at = "guard"
    BY <1>4, Running DEF Expire
  <2>2. CASE /\ call.tool = "photos"
             /\ call' = [call EXCEPT !.stage = "leave", !.failing = TRUE, !.late = FALSE]
    <3>1. call'.stage = "leave" /\ call'.tool = "photos" /\ call'.at = "guard"
      BY <2>1, <2>2 DEF CallType
    <3> QED
      BY <3>1 DEF StepShape, NoClaim
  <2>3. CASE Throw(call, page, memory, FALSE)
    BY <2>1, <2>3, ThrowShape DEF StepShape, NoClaim
  <2> QED
    BY <1>4, <2>2, <2>3 DEF Expire
<1>5. CASE DeadlinePasses
  <2>1. call \in CallType /\ call' = [call EXCEPT !.late = TRUE] /\ page' = page
        /\ memory' = memory
    BY <1>5, Running DEF DeadlinePasses
  <2>2. Alike(call, call') /\ call'.at = call.at
    BY <2>1 DEF Alike, CallType
  <2> QED
    BY <2>1, <2>2 DEF StepShape, Surroundings
<1>6. CASE Settle
  BY <1>6 DEF Settle, StepShape, Surroundings, Alike
<1>7. CASE Challenge
  BY <1>7, FreshBare DEF Challenge, StepShape, Surroundings, Alike
<1>8. CASE Lose
  <2>1. CASE call.at = "idle"
    BY <1>8, <2>1 DEF Lose, StepShape, NoClaim
  <2>2. CASE call.at # "idle"
    <3> DEFINE fails == call.failing \/ Opened(call)
               d == [call EXCEPT !.failing = fails]
    <3>1. call \in CallType
      BY <2>2, Running
    <3>2. PICK p : Throw(d, p, memory, FALSE)
      BY <1>8, <2>2 DEF Lose
    <3>3. fails \in BOOLEAN
      BY <3>1 DEF CallType
    <3> HIDE DEF fails
    <3>4. d \in CallType
      BY <3>1, <3>3 DEF CallType
    <3> HIDE DEF d
    <3> QED
      BY <3>2, <3>4, ThrowShape DEF StepShape, NoClaim
  <2> QED
    BY <2>1, <2>2
<1>9. CASE Straggle
  BY <1>9 DEF Straggle, StepShape, Surroundings, Alike
<1>10. CASE Resolve
  BY <1>10 DEF Resolve, StepShape, NoClaim
<1>11. ASSUME NEW path, NEW x, Move(path, x) PROVE StepShape
  BY <1>11, FreshBare DEF Move, StepShape, Surroundings, Alike
<1>12. CASE Contexts
  <2>1. call' = NoCall
    BY <1>12 DEF Contexts, Establish
  <2> QED
    BY <2>1, NoCallShape DEF StepShape, NoClaim
<1> QED
  BY <1>1, <1>2, <1>3, <1>4, <1>5, <1>6, <1>7, <1>8, <1>9, <1>10, <1>11, <1>12 DEF Next, Step

-----------------------------------------------------------------------------
(* The three claims are kept. *)

LEMMA SettledFacts ==
    ASSUME SavingInv
    PROVE  /\ Settled(page).lag.do = "none"
           /\ Settled(page).path = page.path \/ page.lag.do \in Leaving \cup {"viewer"}
           /\ Settled(page).over \in {"none", page.over, page.lag.do}
           /\ Settled(page).of = page.of \/ (Settled(page).over = "none" /\ page.lag.do \in Leaving)
           /\ page.lag.do = "none" => Settled(page) = page
<1>1. page.lag.do = "none" => Settled(page) = page
  BY DEF Settled
<1> QED
  BY <1>1, SettledPage DEF SavingInv

LEMMA SentFacts ==
    ASSUME SavingInv, NEW do \in Plain
    PROVE  LET q == Click(page, do) IN
           /\ q.lag.do = do /\ q.of = Settled(page).of
           /\ q.over \in {"none", page.over, page.lag.do}
<1>1. NoItem \in Item /\ do \in Effects /\ do # "save" /\ do \notin Boxes \cup Leaving
  BY DEF Item, Plain
<1>2. page \in PageType /\ Harmless(page)
  BY DEF SavingInv
<1> QED
  BY <1>1, <1>2, SentPage, SettledFacts DEF Click

(* The stages of the three plans. *)
LEMMA TimeStages ==
    ASSUME call.tool = "time"
    PROVE  /\ call.stage = "start" => Now.next = "open"
           /\ call.stage = "open" => Now.next = "again" /\ Now.parser.go = {"ok"}
           /\ call.stage = "again" => Now.next = "mode" /\ Now.guard = "trip"
           /\ call.stage = "mode" => Now.next = "input" /\ Now.parser.go = {"ok"}
                                     /\ Now.parser.again = {"pending"}
           /\ call.stage = "input" => Now.next = "type" /\ Now.parser.go = {"ok"}
           /\ call.stage = "type" => Now.next = "post" /\ Now.parser.go = {"ok"}
           /\ call.stage = "post" => Now.next = "end" /\ Now.parser.go = {"ok"}
                                     /\ Now.parser.done = {}
  BY DEF Now, PlanOf, TimePlan, TimeOpenParser, TimeMenuParser, TimeInputParser, TimePostParser,
         Stage, Parser, GoOn

LEMMA TimeKept ==
    ASSUME SavingInv, TimeInv, StepShape
    PROVE  TimeInv'
<1> SUFFICES ASSUME call'.at # "idle", call'.tool = "time"
             PROVE  /\ call'.stage \in {"again", "mode"} /\ Opens(page', "timeMenu")
                         => page'.of = call'.from
                    /\ (call'.stage = "mode" \/ (call'.stage = "again" /\ call'.at = "look"))
                         /\ Opens(page', "timeMenu") => call'.from = call'.item
                    /\ call'.stage \in {"input", "type", "post"} => call'.from = call'.item
  BY DEF TimeInv, Opens
<1>1. CASE NoClaim
  BY <1>1 DEF NoClaim, Sharing
<1>2. CASE Surroundings
  <2>1. Opens(page', "timeMenu") => Opens(page, "timeMenu") /\ page'.of = page.of
    BY <1>2, SettledFacts DEF Surroundings, Bare, Opens
  <2> QED
    BY <1>2, <2>1 DEF Surroundings, Alike, TimeInv
<1>3. CASE Asserted
  <2>1. call'.from = call.from
    BY <1>3 DEF Asserted, Origin
  <2>2. call.stage = "again" => page.of = call.item
    BY <1>3, TimeStages DEF Asserted, Assertion
  <2> QED
    BY <1>3, <2>1, <2>2 DEF Asserted, TimeInv
<1>4. ASSUME NEW s \in Sees(call, page), LookedAgain(s)
      PROVE  /\ call'.stage \in {"again", "mode"} /\ Opens(page', "timeMenu")
                   => page'.of = call'.from
             /\ (call'.stage = "mode" \/ (call'.stage = "again" /\ call'.at = "look"))
                   /\ Opens(page', "timeMenu") => call'.from = call'.item
             /\ call'.stage \in {"input", "type", "post"} => call'.from = call'.item
  <2>1. call.tool = "time" /\ call.at = "look" /\ call'.at = "guard" /\ Alike(call, call')
        /\ page' = s.page /\ call.stage # "again"
    BY <1>4 DEF LookedAgain, Alike, OnlyAsserts
  <2>2. call.stage = "mode" => s.page = page
    BY <1>4, <2>1, TimeStages
    DEF LookedAgain, Sees, OnlyAsserts, Finds, TimeSees, TimeMenuSees, Odd, Saw
  <2> QED
    BY <2>1, <2>2 DEF Alike, TimeInv
<1>5. ASSUME NEW s \in Sees(call, page), WentOn(s)
      PROVE  /\ call'.stage \in {"again", "mode"} /\ Opens(page', "timeMenu")
                   => page'.of = call'.from
             /\ (call'.stage = "mode" \/ (call'.stage = "again" /\ call'.at = "look"))
                   /\ Opens(page', "timeMenu") => call'.from = call'.item
             /\ call'.stage \in {"input", "type", "post"} => call'.from = call'.item
  <2>1. /\ call.tool = "time" /\ call.at = "look" /\ call'.at = "guard" /\ page' = s.page
        /\ call'.item = call.item /\ call'.stage = Follows(call, s.reply) /\ call'.stage # "end"
        /\ call'.from = IF call.stage = "open" THEN page.of ELSE call.from
    BY <1>5 DEF WentOn, Noted
  <2>2. call.stage \in StagesOf("time")
    BY <2>1, Running
  <2>3. call.stage \in OnlyAsserts => s = Saw(page, "ok")
    BY DEF Sees
  <2>4. s.reply = "ok"
    BY <1>5, <2>1, <2>2, <2>3, TimeStages DEF WentOn, StagesOf, OnlyAsserts, Saw
  <2>5. call'.stage = Now.next
    BY <2>1, <2>4 DEF Follows
  <2>6. CASE call.stage = "open"
    <3>1. page.path = "directions" /\ s.page = Click(page, "timeMenu")
      BY <2>1, <2>4, <2>6
      DEF Sees, OnlyAsserts, Finds, TimeSees, TimeOpenSees, Odd, Saw
    <3>2. Settled(page).of = page.of
      BY <3>1, SettledFacts DEF SavingInv, Harmless
    <3>3. page'.of = page.of
      BY <2>1, <3>1, <3>2, SentFacts, EffectNames
    <3> QED
      BY <2>1, <2>5, <2>6, <3>3, TimeStages
  <2>7. CASE call.stage = "again"
    <3>1. page' = page /\ call'.stage = "mode" /\ call'.from = call.from
      BY <2>1, <2>3, <2>5, <2>7, TimeStages DEF OnlyAsserts, Saw
    <3> QED
      BY <2>1, <2>7, <3>1 DEF TimeInv
  <2>8. CASE call.stage = "mode"
    <3>1. page.over = "timeMenu"
      BY <2>1, <2>4, <2>8
      DEF Sees, OnlyAsserts, Finds, TimeSees, TimeMenuSees, Odd, Saw
    <3>2. call.from = call.item
      BY <2>1, <2>8, <3>1 DEF TimeInv, Opens
    <3> QED
      BY <2>1, <2>5, <2>8, <3>2, TimeStages
  <2>9. CASE call.stage \in {"input", "type"}
    <3>1. call.from = call.item
      BY <2>1, <2>9 DEF TimeInv
    <3> QED
      BY <2>1, <2>5, <2>9, <3>1, TimeStages
  <2>10. CASE call.stage \in {"start", "post"}
    BY <2>1, <2>5, <2>10, TimeStages
  <2> QED
    BY <2>2, <2>6, <2>7, <2>8, <2>9, <2>10 DEF StagesOf
<1> QED
  BY <1>1, <1>2, <1>3, <1>4, <1>5 DEF StepShape

LEMMA HoursStages ==
    ASSUME call.tool = "hours"
    PROVE  /\ call.stage = "start" => Now.next = "click"
           /\ call.stage = "click" => Now.next = "post" /\ Now.parser.go = {"ok"}
           /\ call.stage = "post" => Now.next = "end" /\ Now.parser.go = {"ok"}
                                     /\ Now.parser.done = {} /\ Now.guard = "samePlace"
  BY DEF Now, PlanOf, HoursPlan, HoursActionParser, HoursPostParser, Stage, Parser, GoOn

LEMMA HoursKept ==
    ASSUME SavingInv, HoursInv, StepShape
    PROVE  HoursInv'
<1> DEFINE Claim ==
        /\ page'.lag.do \in {"none", "inline", "detail"}
        /\ call'.at = "look" =>
             page'.path = "place" \/ (page'.hours = "collapsed" /\ page'.lag.do = "none")
<1> SUFFICES ASSUME call'.at # "idle", call'.tool = "hours", call'.stage = "post"
             PROVE  Claim
  BY DEF HoursInv
<1>1. CASE NoClaim
  BY <1>1 DEF NoClaim, Sharing
<1>2. CASE Surroundings
  <2>1. /\ call.at # "idle" /\ call.tool = "hours" /\ call.stage = "post"
        /\ call'.at = call.at
    BY <1>2 DEF Surroundings, Alike
  <2>2. page.lag.do \in {"none", "inline", "detail"}
        /\ (call.at = "look" =>
              page.path = "place" \/ (page.hours = "collapsed" /\ page.lag.do = "none"))
    BY <2>1 DEF HoursInv
  <2>3. CASE page' = page
    BY <2>1, <2>2, <2>3
  <2>4. CASE page' = Settled(page)
    <3>1. Settled(page).path = page.path
      BY <2>2, SettledFacts DEF Leaving
    <3> QED
      BY <2>1, <2>2, <2>4, <3>1, SettledFacts
  <2>5. CASE Bare(page')
    BY <2>5 DEF Bare
  <2> QED
    BY <1>2, <2>3, <2>4, <2>5 DEF Surroundings
<1>3. CASE Asserted
  <2>1. call.tool = "hours" /\ call.stage = "post" /\ call.at # "idle" /\ page' = page
    BY <1>3 DEF Asserted
  <2>2. page.path = "place"
    BY <1>3, <2>1, HoursStages DEF Asserted, Assertion
  <2> QED
    BY <2>1, <2>2 DEF HoursInv
<1>4. ASSUME NEW s \in Sees(call, page), LookedAgain(s)
      PROVE  Claim
  <2>1. call.tool = "hours" /\ call.stage = "post" /\ call.at # "idle" /\ call'.at = "guard"
        /\ page' = s.page
    BY <1>4 DEF LookedAgain, Alike
  <2>2. s.page = page
    BY <2>1 DEF Sees, OnlyAsserts, Finds, PlaceSees, HoursPostSees, Odd, Saw
  <2> QED
    BY <2>1, <2>2 DEF HoursInv
<1>5. ASSUME NEW s \in Sees(call, page), WentOn(s)
      PROVE  Claim
  <2>1. /\ call.tool = "hours" /\ call.at = "look" /\ call'.at = "guard" /\ page' = s.page
        /\ call'.stage = Follows(call, s.reply)
    BY <1>5 DEF WentOn
  <2>2. call.stage \in StagesOf("hours")
    BY <2>1, Running
  <2>3. call.stage = "start" => s.reply = "ok"
    BY DEF Sees, OnlyAsserts, Saw
  <2>4. s.reply = "ok"
    BY <1>5, <2>1, <2>2, <2>3, HoursStages DEF WentOn, StagesOf, OnlyAsserts
  <2>5. Now.next = "post"
    BY <2>1, <2>4 DEF Follows
  <2>6. call.stage = "click"
    BY <2>1, <2>2, <2>5, HoursStages DEF StagesOf
  <2>7. \E do \in {"inline", "detail"} : s.page = Click(page, do)
    BY <2>1, <2>4, <2>6
    DEF Sees, OnlyAsserts, Sending, Finds, PlaceSees, HoursActionSees, ForPlace, Odd, Saw
  <2>8. page'.lag.do \in {"inline", "detail"}
    BY <2>1, <2>7, SentFacts, EffectNames
  <2> QED
    BY <2>1, <2>8
<1> HIDE DEF Claim
<1> QED
  BY <1>1, <1>2, <1>3, <1>4, <1>5 DEF StepShape

LEMMA SelectStages ==
    ASSUME call.tool = "select"
    PROVE  /\ call.stage = "start" => Now.next = "click"
           /\ call.stage = "click" => Now.next = "post" /\ Now.parser.go = {"ok"}
                                      /\ Now.parser.again = {} /\ Now.parser.done = {}
           /\ call.stage = "post" => Now.next = "end" /\ Now.parser.go = {"ok"}
                                     /\ Now.parser.done = {}
  BY DEF Now, PlanOf, SelectSuggestionPlan, SuggestionClickParser, SuggestionPostParser,
         Stage, Parser, GoOn

LEMMA ShareStages ==
    ASSUME call.tool \in Sharing
    PROVE  /\ call.stage = "start" => Now.next = "open"
           /\ call.stage = "open" => Now.next = "read" /\ Now.parser.go = {"ok"}
           /\ call.stage = "read" => Now.next = "close" /\ Now.parser.go = {"ok"}
           /\ call.stage = "close" => Now.next = "closed" /\ Now.parser.go = {"ok", "closed"}
                                      /\ Now.parser.again = {"pending"}
           /\ call.stage = "closed" => Now.next = "last" /\ Now.parser.go \subseteq {"ok", "still_open"}
                                       /\ Now.parser.again \subseteq {"pending"}
           /\ call.stage = "last" => Now.next = "end"
                /\ Now.guard = (IF call.tool = "searchShare" THEN "searchShare" ELSE "route")
<1>1. CASE call.tool = "searchShare"
  BY <1>1 DEF Now, PlanOf, SearchSharePlan, SearchShareClose, SearchShareOpenParser,
              SearchShareLinkParser, SearchShareCloseParser, Stage, Parser, GoOn
<1>2. CASE call.tool = "routeShare"
  BY <1>2 DEF Now, PlanOf, RouteSharePlan, RouteShareOpenParser, RouteShareLinkParser,
              RouteShareCloseParser, Stage, Parser, GoOn
<1> QED
  BY <1>1, <1>2 DEF Sharing

(* The expressions of both tools, at the stages that matter. *)
LEMMA ShareLooks ==
    ASSUME call.tool \in Sharing, NEW s \in Sees(call, page)
    PROVE  /\ call.stage = "read" /\ s.reply = "ok" => s.page = page /\ page.over = "dialog"
           /\ call.stage = "close" /\ s.reply = "ok" => s.page = Click(page, "close")
           /\ call.stage = "close" /\ s.reply = "closed" => s.page = page /\ page.over # "dialog"
           /\ call.stage \in {"close", "closed"} /\ s.reply = "pending" => s.page = page
           /\ call.stage = "closed" /\ s.reply = "ok" => s.page = page /\ page.over # "dialog"
           /\ call.stage = "closed" /\ s.reply = "still_open"
                => s.page = page /\ page.over = "dialog"
           /\ call.stage \in OnlyAsserts => s = Saw(page, "ok")
           /\ call.stage \in {"open", "read"} => s.reply \notin {"closed", "still_open"}
<1>1. CASE call.tool = "searchShare"
  BY <1>1 DEF Sees, OnlyAsserts, Sending, Finds, SearchShareSees, SearchShareOpenSees,
              SearchShareReadSees, ShareCloseSees, ShareClosedSees, ForQuery, Odd, Saw
<1>2. CASE call.tool = "routeShare"
  BY <1>2 DEF Sees, OnlyAsserts, Sending, Finds, RouteShareSees, RouteShareOpenSees,
              RouteShareReadSees, RouteCloseSees, RouteClosedSees, Odd, Saw
<1> QED
  BY <1>1, <1>2 DEF Sharing

LEMMA ShareKept ==
    ASSUME SavingInv, ShareInv, StepShape
    PROVE  ShareInv'
<1> DEFINE Claim ==
        /\ call'.stage = "close" /\ page'.lag.do = "dialog" => page'.over = "dialog"
        /\ call'.stage = "closed" => page'.lag.do # "dialog"
        /\ call'.stage = "last" =>
             /\ ~Opens(page', "dialog")
             /\ call'.at = "look" =>
                  /\ memory'.last = call'.item
                  /\ memory'.view = (IF call'.tool = "searchShare" THEN "search" ELSE "route")
<1> SUFFICES ASSUME call'.at # "idle", call'.tool \in Sharing, ~call'.failing
             PROVE  Claim
  BY DEF ShareInv, Opens
<1>1. CASE NoClaim
  BY <1>1 DEF NoClaim, Sharing
<1>2. CASE Surroundings
  <2>1. /\ call.at # "idle" /\ call.tool \in Sharing /\ ~call.failing
        /\ call'.at = call.at /\ call'.stage = call.stage /\ memory' = memory
        /\ call'.item = call.item /\ call'.tool = call.tool
    BY <1>2 DEF Surroundings, Alike
  <2>2. CASE page' = page
    BY <2>1, <2>2 DEF ShareInv, Opens
  <2>3. CASE page' = Settled(page)
    <3>1. /\ page'.lag.do = "none"
          /\ call.stage = "last" => page'.over # "dialog"
      BY <2>1, <2>3, SettledFacts DEF ShareInv, Opens
    <3> QED
      BY <2>1, <3>1 DEF ShareInv, Opens
  <2>4. CASE Bare(page')
    BY <2>1, <2>4 DEF ShareInv, Opens, Bare
  <2> QED
    BY <1>2, <2>2, <2>3, <2>4 DEF Surroundings
<1>3. CASE Asserted
  <2>1. /\ call.at # "idle" /\ call.tool \in Sharing /\ ~call.failing
        /\ page' = page /\ memory' = memory
        /\ call'.stage = call.stage /\ call'.item = call.item /\ call'.tool = call.tool
    BY <1>3 DEF Asserted
  <2>2. call.stage = "last" =>
          /\ memory.last = call.item
          /\ memory.view = (IF call.tool = "searchShare" THEN "search" ELSE "route")
    BY <1>3, <2>1, ShareStages DEF Asserted, Assertion
  <2> QED
    BY <2>1, <2>2 DEF ShareInv, Opens
<1>4. ASSUME NEW s \in Sees(call, page), LookedAgain(s)
      PROVE  Claim
  <2>1. /\ call.at # "idle" /\ call.tool \in Sharing /\ ~call.failing /\ call'.at = "guard"
        /\ page' = s.page /\ call'.stage = call.stage /\ call.stage # "last"
    BY <1>4 DEF LookedAgain, Alike, OnlyAsserts
  <2>2. call.stage \in {"close", "closed"} => s.page = page
    BY <1>4, <2>1, ShareStages, ShareLooks DEF LookedAgain
  <2> QED
    BY <2>1, <2>2 DEF ShareInv
<1>5. ASSUME NEW s \in Sees(call, page), WentOn(s)
      PROVE  Claim
  <2>1. /\ call.tool \in Sharing /\ call.at = "look" /\ ~call.failing /\ call'.at = "guard"
        /\ page' = s.page /\ call'.stage = Follows(call, s.reply) /\ call'.stage # "end"
    BY <1>5 DEF WentOn
  <2>2. call.stage \in {"start", "open", "read", "close", "closed", "last"}
    BY <2>1, Running DEF Sharing, StagesOf
  <2>3. CASE call.stage \in {"start", "open"}
    <3>1. s.reply \notin {"closed", "still_open"}
      BY <2>1, <2>3, ShareLooks DEF OnlyAsserts, Saw
    <3>2. call'.stage \in {"open", "read"}
      BY <2>1, <2>3, <3>1, ShareStages DEF Follows
    <3> QED
      BY <3>2
  <2>4. CASE call.stage = "read"
    <3>1. s.reply = "ok"
      BY <1>5, <2>1, <2>4, ShareStages DEF WentOn, OnlyAsserts
    <3>2. call'.stage = "close" /\ page'.over = "dialog"
      BY <2>1, <2>4, <3>1, ShareStages, ShareLooks DEF Follows
    <3> QED
      BY <3>2
  <2>5. CASE call.stage = "close"
    <3>1. s.reply \in {"ok", "closed"}
      BY <1>5, <2>1, <2>5, ShareStages DEF WentOn, OnlyAsserts
    <3>2. CASE s.reply = "ok"
      <4>1. call'.stage = "closed"
        BY <2>1, <2>5, <3>2, ShareStages DEF Follows
      <4>2. page' = Click(page, "close")
        BY <2>1, <2>5, <3>2, ShareLooks
      <4>3. page'.lag.do = "close"
        BY <4>2, SentFacts, EffectNames
      <4> QED
        BY <4>1, <4>3
    <3>3. CASE s.reply = "closed"
      <4>1. call'.stage = "last"
        BY <2>1, <2>5, <3>3 DEF Follows, Sharing
      <4>2. page' = page /\ page.over # "dialog"
        BY <2>1, <2>5, <3>3, ShareLooks
      <4>3. page.lag.do # "dialog"
        BY <2>1, <2>5, <4>2 DEF ShareInv
      <4> QED
        BY <2>1, <4>1, <4>2, <4>3 DEF Opens
    <3> QED
      BY <3>1, <3>2, <3>3
  <2>6. CASE call.stage = "closed"
    <3>1. s.reply \in {"ok", "still_open"}
      BY <1>5, <2>1, <2>6, ShareStages DEF WentOn, OnlyAsserts
    <3>2. CASE s.reply = "ok"
      <4>1. call'.stage = "last"
        BY <2>1, <2>6, <3>2, ShareStages DEF Follows
      <4>2. page' = page /\ page.over # "dialog" /\ page.lag.do # "dialog"
        BY <2>1, <2>6, <3>2, ShareLooks DEF ShareInv
      <4> QED
        BY <2>1, <4>1, <4>2 DEF Opens
    <3>3. CASE s.reply = "still_open"
      <4>1. call'.stage = "close"
        BY <2>1, <3>3 DEF Follows
      <4>2. page' = page /\ page.over = "dialog"
        BY <2>1, <2>6, <3>3, ShareLooks
      <4> QED
        BY <4>1, <4>2
    <3> QED
      BY <3>1, <3>2, <3>3
  <2>7. CASE call.stage = "last"
    BY <2>1, <2>7, ShareStages, ShareLooks DEF Follows, OnlyAsserts, Saw
  <2> QED
    BY <2>2, <2>3, <2>4, <2>5, <2>6, <2>7
<1> HIDE DEF Claim
<1> QED
  BY <1>1, <1>2, <1>3, <1>4, <1>5 DEF StepShape

ToolsInv == SavingInv /\ TimeInv /\ HoursInv /\ ShareInv

LEMMA InitTools == Init => ToolsInv
  BY InitSaving, NoCallShape DEF ToolsInv, Init, TimeInv, HoursInv, ShareInv

LEMMA ToolsKept ==
    ASSUME ToolsInv, [Next]_vars
    PROVE  ToolsInv'
<1>1. CASE Next
  <2>1. SavingInv' /\ StepShape
    BY <1>1, StepKeeps, NextShape DEF ToolsInv, Kept
  <2> QED
    BY <2>1, TimeKept, HoursKept, ShareKept DEF ToolsInv
<1>2. CASE UNCHANGED vars
  BY <1>2 DEF ToolsInv, SavingInv, TimeInv, HoursInv, ShareInv, vars, Opens
<1> QED
  BY <1>1, <1>2

-----------------------------------------------------------------------------
(* What a call that returns has seen. *)

(* The last expression of the call was run on the page, and read. *)
LastLook(s, result) ==
    /\ Return(call, s.page, result) /\ ~call.failing /\ call.at = "look"
    /\ result = "ok" =>
         /\ call.stage \in OnlyAsserts \/ s.reply \in Now.parser.go
         /\ Follows(call, s.reply) = "end"
    /\ result = "already" => call.stage \notin OnlyAsserts /\ s.reply \in Now.parser.done

LEMMA Returning ==
    ASSUME SavingInv, Next, NEW result \in {"ok", "already"}, Returns(result)
    PROVE  \/ call.tool = "photos"
           \/ \E s \in Sees(call, page) : LastLook(s, result)
<1>1. call.at # "idle" /\ call'.at = "idle" /\ call'.result = result
  BY DEF Returns
<1>2. call \in CallType
  BY <1>1, Running
<1>3. ASSUME NEW c \in CallType, NEW p, NEW m, NEW human PROVE ~Throw(c, p, m, human)
  BY <1>1, <1>3, ThrowShape
<1>4. CASE AssertContext
  <2> DEFINE d == [call EXCEPT !.at = "look", !.from = Origin(call, page)]
  <2>1. \/ call' = d
        \/ call.tool = "photos"
        \/ Throw(call, page, memory, FALSE)
        \/ Throw(call, page, Blank, TRUE)
        \/ Throw(call, page, Blank, FALSE)
    BY <1>4 DEF AssertContext
  <2>2. d.at = "look"
    BY <1>2 DEF CallType
  <2> HIDE DEF d
  <2> QED
    BY <1>1, <1>2, <1>3, <2>1, <2>2
<1>5. CASE Look
  <2> DEFINE OutcomeOf(s) ==
          IF call.stage \in OnlyAsserts THEN "go" ELSE Outcome(Now.parser, s.reply)
             d == [call EXCEPT !.at = "guard"]
  <2>1. call.at = "look"
    BY <1>5 DEF Look
  <2>2. PICK s \in Sees(call, page) :
           \/ /\ Return(call, s.page, "ok") /\ OutcomeOf(s) = "go"
              /\ Follows(call, s.reply) = "end"
                   \/ (Follows(call, s.reply) = "last" /\ call.failing)
           \/ call' = GoesTo(call, Follows(call, s.reply), s.page)
           \/ Return(call, s.page, "already") /\ OutcomeOf(s) = "done"
           \/ call' = d
           \/ Throw(call, s.page, memory, FALSE)
    BY <1>5 DEF Look
  <2>3. d.at = "guard" /\ GoesTo(call, Follows(call, s.reply), s.page).at = "guard"
    BY <1>2 DEF CallType, GoesTo
  <2>4. CASE Return(call, s.page, "ok") /\ OutcomeOf(s) = "go"
             /\ (Follows(call, s.reply) = "end"
                   \/ (Follows(call, s.reply) = "last" /\ call.failing))
    <3>1. call.stage \in OnlyAsserts \/ s.reply \in Now.parser.go
      BY <2>4 DEF Outcome
    <3>2. ~call.failing /\ result = "ok"
      BY <1>1, <1>2, <2>4, ReturnShape
    <3> HIDE DEF OutcomeOf
    <3>3. LastLook(s, result)
      BY <2>1, <2>4, <3>1, <3>2 DEF LastLook
    <3> QED
      BY <3>3
  <2>5. CASE Return(call, s.page, "already") /\ OutcomeOf(s) = "done"
    <3>1. call.stage \notin OnlyAsserts /\ s.reply \in Now.parser.done
      BY <2>5 DEF Outcome
    <3>2. ~call.failing /\ result = "already"
      BY <1>1, <1>2, <2>5, ReturnShape
    <3> HIDE DEF OutcomeOf
    <3>3. LastLook(s, result)
      BY <2>1, <2>5, <3>1, <3>2 DEF LastLook
    <3> QED
      BY <3>3
  <2> HIDE DEF OutcomeOf, d
  <2> QED
    BY <1>1, <1>2, <1>3, <2>2, <2>3, <2>4, <2>5
<1>6. ~(Contexts \/ Resolve)
  BY <1>1 DEF Contexts, Establish, Resolve
<1>7. ASSUME NEW tool, NEW item, NEW to, Begin(tool, item, to) PROVE FALSE
  BY <1>1, <1>7 DEF Begin
<1>8. ~Expire
  <2> SUFFICES ASSUME Expire PROVE FALSE
    OBVIOUS
  <2>1. call' = [call EXCEPT !.stage = "leave", !.failing = TRUE, !.late = FALSE]
        \/ Throw(call, page, memory, FALSE)
    BY DEF Expire
  <2>2. [call EXCEPT !.stage = "leave", !.failing = TRUE, !.late = FALSE].at = call.at
    BY <1>2 DEF CallType
  <2> QED
    BY <1>1, <1>2, <1>3, <2>1, <2>2
<1>9. ~DeadlinePasses
  BY <1>1, <1>2 DEF DeadlinePasses, CallType
<1>10. ~Lose
  <2> SUFFICES ASSUME Lose PROVE FALSE
    OBVIOUS
  <2> DEFINE fails == call.failing \/ Opened(call)
             d == [call EXCEPT !.failing = fails]
  <2>1. PICK p : Throw(d, p, memory, FALSE)
    BY <1>1 DEF Lose
  <2>2. fails \in BOOLEAN
    BY <1>2 DEF CallType
  <2> HIDE DEF fails
  <2>3. d \in CallType
    BY <1>2, <2>2 DEF CallType
  <2> HIDE DEF d
  <2> QED
    BY <1>3, <2>1, <2>3
<1>11. call' # call
  BY <1>1
<1> QED
  BY <1>4, <1>5, <1>6, <1>7, <1>8, <1>9, <1>10, <1>11
  DEF Next, Step, Settle, Challenge, Straggle, Move

(* The memory and the page the call leaves. *)
LEMMA Returned ==
    ASSUME SavingInv, NEW s \in Sees(call, page), NEW result, LastLook(s, result),
           call.tool \notin Navigating
    PROVE  /\ EscapesAfter(call.tool, call.stage) \/ page' = s.page
           /\ page' \in Follow(s.page)
           /\ call.tool \in Sharing => memory' = memory
<1>1. call.at # "idle" /\ Return(call, s.page, result) /\ ~call.failing
  BY DEF LastLook
<1>2. s.page \in PageType /\ Harmless(s.page)
  BY <1>1, SeesFollow DEF Follow
<1>3. page' = Leave(call, s.page, FALSE)
  BY <1>1 DEF Return, Navigating
<1>4. call.tool \in Sharing => memory' = memory
  BY <1>1 DEF Return, Sharing
<1> QED
  BY <1>2, <1>3, <1>4, LeftPage DEF Leave

LEMMA RatingPromise ==
    ASSUME SavingInv, call.tool = "rating", NEW s \in Sees(call, page),
           NEW result \in {"ok", "already"}, LastLook(s, result)
    PROVE  Promised(call, page')
<1>1. call.stage \in StagesOf("rating")
  BY Running DEF LastLook
<1>2. page' = s.page
  BY Returned DEF Navigating, EscapesAfter
<1>3. /\ call.stage = "start" => Now.next = "trigger"
      /\ call.stage = "trigger" =>
           Now.next = "menu" /\ Now.parser.go = {"ok"} /\ Now.parser.done = {"already"}
      /\ call.stage = "menu" =>
           Now.next = "option" /\ Now.parser.go = {"ok"} /\ Now.parser.done = {}
      /\ call.stage = "option" =>
           Now.next = "chip" /\ Now.parser.go = {"ok"} /\ Now.parser.done = {}
      /\ call.stage = "chip" =>
           Now.next = "end" /\ Now.parser.go = {"ok"} /\ Now.parser.done = {}
  BY DEF Now, PlanOf, RatingPlan, RatingTriggerParser, RatingMenuParser, RatingOptionParser,
         RatingChipParser, Stage, Parser, GoOn
<1>4. call.stage = "start" => s.reply = "ok"
  BY DEF Sees, OnlyAsserts, Saw
<1>5. \/ call.stage = "chip" /\ s.reply = "ok"
      \/ call.stage = "trigger" /\ s.reply = "already"
  BY <1>1, <1>3, <1>4 DEF LastLook, StagesOf, OnlyAsserts, Follows
<1>6. s.page.of = call.item /\ s.page.rating
  BY <1>5 DEF Sees, OnlyAsserts, Sending, Finds, RatingSees, RatingChipSees, RatingTriggerSees,
              ForQuery, Odd, Saw
<1> QED
  BY <1>2, <1>6 DEF Promised

LEMMA ZoomPromise ==
    ASSUME SavingInv, call.tool = "zoom", NEW s \in Sees(call, page),
           NEW result \in {"ok", "already"}, LastLook(s, result)
    PROVE  Promised(call, page')
<1>1. call.stage \in StagesOf("zoom")
  BY Running DEF LastLook
<1>2. page' = s.page
  BY Returned DEF Navigating, EscapesAfter
<1>3. /\ call.stage = "start" => Now.next = "click"
      /\ call.stage = "click" =>
           Now.next = "post" /\ Now.parser.go = {"ok"} /\ Now.parser.done = {}
      /\ call.stage = "post" =>
           Now.next = "end" /\ Now.parser.go = {"ok"} /\ Now.parser.done = {}
  BY DEF Now, PlanOf, ZoomPlan, ZoomActionParser, ZoomPostParser, Stage, Parser, GoOn
<1>4. call.stage = "start" => s.reply = "ok"
  BY DEF Sees, OnlyAsserts, Saw
<1>5. call.stage = "post" /\ s.reply = "ok"
  BY <1>1, <1>3, <1>4 DEF LastLook, StagesOf, OnlyAsserts, Follows
<1>6. s.page.of = call.item /\ s.page.zoom = call.from + call.to
  BY <1>5 DEF Sees, OnlyAsserts, Sending, Finds, ZoomPostSees, ForQuery, Odd, Saw
<1> QED
  BY <1>2, <1>6 DEF Promised

LEMMA SelectPromise ==
    ASSUME SavingInv, call.tool = "select", NEW s \in Sees(call, page),
           NEW result \in {"ok", "already"}, LastLook(s, result)
    PROVE  Promised(call, page')
<1>1. call.stage \in StagesOf("select")
  BY Running DEF LastLook
<1>2. page' = s.page
  BY Returned DEF Navigating, EscapesAfter
<1>3. /\ call.stage = "start" => Now.next = "click"
      /\ call.stage = "click" =>
           Now.next = "post" /\ Now.parser.go = {"ok"} /\ Now.parser.done = {}
      /\ call.stage = "post" =>
           Now.next = "end" /\ Now.parser.go = {"ok"} /\ Now.parser.done = {}
  BY DEF Now, PlanOf, SelectSuggestionPlan, SuggestionClickParser, SuggestionPostParser,
         Stage, Parser, GoOn
<1>4. call.stage = "start" => s.reply = "ok"
  BY DEF Sees, OnlyAsserts, Saw
<1>5. call.stage = "post" /\ s.reply = "ok"
  BY <1>1, <1>3, <1>4 DEF LastLook, StagesOf, OnlyAsserts, Follows
<1>6. s.page.path \in {"search", "place"}
  BY <1>5 DEF Sees, OnlyAsserts, Sending, Finds, SuggestSees, SuggestionPostSees, Odd, Saw
<1> QED
  BY <1>2, <1>6 DEF Promised

LEMMA TabPromise ==
    ASSUME SavingInv, call.tool = "tab", NEW s \in Sees(call, page),
           NEW result \in {"ok", "already"}, LastLook(s, result)
    PROVE  Promised(call, page')
<1>1. call.stage \in StagesOf("tab")
  BY Running DEF LastLook
<1>2. page' = s.page
  BY Returned DEF Navigating, EscapesAfter
<1>3. /\ call.stage = "start" => Now.next = "click"
      /\ call.stage = "click" =>
           Now.next = "post" /\ Now.parser.go = {"ok"} /\ Now.parser.done = {"already"}
      /\ call.stage = "post" =>
           Now.next = "end" /\ Now.parser.go = {"ok"} /\ Now.parser.done = {}
  BY DEF Now, PlanOf, TabPlan, TabActionParser, TabPostParser, Stage, Parser, GoOn
<1>4. call.stage = "start" => s.reply = "ok"
  BY DEF Sees, OnlyAsserts, Saw
<1>5. \/ call.stage = "post" /\ s.reply = "ok"
      \/ call.stage = "click" /\ s.reply = "already"
  BY <1>1, <1>3, <1>4 DEF LastLook, StagesOf, OnlyAsserts, Follows
<1>6. s.page.of = call.item /\ s.page.tab
  BY <1>5 DEF Sees, OnlyAsserts, Sending, Finds, PlaceSees, TabActionSees, TabPostSees,
              ForPlace, Odd, Saw
<1> QED
  BY <1>2, <1>6 DEF Promised

LEMMA HoursPromise ==
    ASSUME SavingInv, HoursInv, call.tool = "hours", NEW s \in Sees(call, page),
           NEW result \in {"ok", "already"}, LastLook(s, result)
    PROVE  Promised(call, page')
<1>1. call.stage \in StagesOf("hours")
  BY Running DEF LastLook
<1>2. page' = s.page
  BY Returned DEF Navigating, EscapesAfter
<1>3. call.stage = "click" => Now.parser.done = {"already"}
  BY DEF Now, PlanOf, HoursPlan, HoursActionParser, Stage, Parser
<1>4. call.stage = "start" => s.reply = "ok"
  BY DEF Sees, OnlyAsserts, Saw
<1>5. \/ call.stage = "post" /\ s.reply = "ok"
      \/ call.stage = "click" /\ s.reply = "already"
  BY <1>1, <1>3, <1>4, HoursStages DEF LastLook, StagesOf, OnlyAsserts, Follows
<1>6. s.page = page /\ page.hours # "collapsed"
  BY <1>5 DEF Sees, OnlyAsserts, Sending, Finds, PlaceSees, HoursActionSees, HoursPostSees,
              ForPlace, Odd, Saw
<1>7. call.stage = "click" => page.path = "place"
  BY <1>5 DEF Sees, OnlyAsserts, Sending, Finds, PlaceSees, HoursActionSees, ForPlace, Odd, Saw
<1>8. page.path = "place"
  BY <1>5, <1>6, <1>7 DEF HoursInv, LastLook
<1> QED
  BY <1>2, <1>6, <1>8 DEF Promised

LEMMA SavePromise ==
    ASSUME SavingInv, call.tool = "save", NEW s \in Sees(call, page),
           NEW result \in {"ok", "already"}, LastLook(s, result)
    PROVE  Promised(call, page')
<1>1. call.stage \in StagesOf("save")
  BY Running DEF LastLook
<1>2. page' \in Follow(s.page)
  BY Returned DEF Navigating
<1>3. /\ call.stage = "start" => Now.next = "open"
      /\ call.stage = "open" =>
           Now.next = "read" /\ Now.parser.go = {"ok"} /\ Now.parser.done = {}
      /\ call.stage = "read" =>
           Now.next = "point" /\ Now.parser.go = {"ok"} /\ Now.parser.done = {"saved"}
      /\ call.stage = "point" =>
           Now.next = "press" /\ Now.parser.go = {"ok"} /\ Now.parser.done = {"saved"}
      /\ call.stage = "press" =>
           Now.next = "post" /\ Now.parser.go = {"ok"} /\ Now.parser.done = {}
      /\ call.stage = "post" =>
           Now.next = "end" /\ Now.parser.go = {"saved", "closed"} /\ Now.parser.done = {}
      /\ call.stage = "reopen" =>
           Now.next = "post" /\ Now.parser.go = {"ok"} /\ Now.parser.done = {}
  BY DEF Now, PlanOf, SavePlan, SaveOpenParser, SaveReadParser, SavePointParser, SavePostParser,
         Stage, Parser, GoOn
<1>4. call.stage = "start" => s.reply = "ok"
  BY DEF Sees, OnlyAsserts, Saw
<1>5. s.reply = "saved" /\ call.stage \in {"read", "point", "post"}
  BY <1>1, <1>3, <1>4 DEF LastLook, StagesOf, OnlyAsserts, Follows
<1>6. call.item \in s.page.saved
  BY <1>5 DEF Sees, OnlyAsserts, Sending, Finds, SaveSees, SaveRowSees, SavePostSees,
              ForPlace, Odd, Saw
<1>7. call.item \in page'.saved
  BY <1>2, <1>6 DEF Follow
<1> QED
  BY <1>7 DEF Promised

LEMMA TimePromise ==
    ASSUME SavingInv, TimeInv, call.tool = "time", NEW s \in Sees(call, page),
           NEW result \in {"ok", "already"}, LastLook(s, result)
    PROVE  Promised(call, page')
<1>1. call.stage \in StagesOf("time")
  BY Running DEF LastLook
<1>2. page' = s.page
  BY Returned DEF Navigating, EscapesAfter
<1>3. call.stage \in {"open", "mode", "input", "type"} => Now.parser.done = {}
  BY DEF Now, PlanOf, TimePlan, TimeOpenParser, TimeMenuParser, TimeInputParser, Stage, Parser, GoOn
<1>4. call.stage \in OnlyAsserts => s.reply = "ok"
  BY DEF Sees, Saw
<1>5. call.stage = "post" /\ s.reply = "ok"
  BY <1>1, <1>3, <1>4, TimeStages DEF LastLook, StagesOf, OnlyAsserts, Follows
<1>6. s.page.of = call.from /\ s.page.time = "set"
  BY <1>5 DEF Sees, OnlyAsserts, Sending, Finds, TimeSees, TimePostSees, Odd, Saw
<1>7. call.from = call.item
  BY <1>5 DEF TimeInv, LastLook
<1> QED
  BY <1>2, <1>6, <1>7 DEF Promised

LEMMA NearbyPromise ==
    ASSUME SavingInv, call.tool = "nearby", NEW s \in Sees(call, page),
           NEW result, LastLook(s, result)
    PROVE  Promised(call, page')
<1>1. page' = Fresh("search", call.to, Settled(s.page).saved)
  BY DEF LastLook, Return
<1>2. Fresh("search", call.to, Settled(s.page).saved).path = "search"
      /\ Fresh("search", call.to, Settled(s.page).saved).of = call.to
  BY DEF Fresh
<1> QED
  BY <1>1, <1>2 DEF Promised

LEMMA ReturnKeepsPromise ==
    ASSUME ToolsInv, Next, Returns("ok") \/ Returns("already")
    PROVE  Promised(call, page')
<1>1. PICK result \in {"ok", "already"} : Returns(result)
  OBVIOUS
<1>2. CASE call.tool \in {"rating", "zoom", "select", "tab", "hours", "save", "time", "nearby"}
  <2>1. PICK s \in Sees(call, page) : LastLook(s, result)
    BY <1>1, <1>2, Returning DEF ToolsInv
  <2> QED
    BY <1>2, <2>1, RatingPromise, ZoomPromise, SelectPromise, TabPromise, HoursPromise,
       SavePromise, TimePromise, NearbyPromise DEF ToolsInv
<1>3. CASE call.tool \notin {"rating", "zoom", "select", "tab", "hours", "save", "time", "nearby"}
  BY <1>3 DEF Promised
<1> QED
  BY <1>2, <1>3

LEMMA ReturnLeavesNoTrace ==
    ASSUME ToolsInv, Next, Returns("ok"), call.tool \in Sharing
    PROVE  /\ page'.over # "dialog" /\ Settled(page').over # "dialog"
           /\ memory' = memory /\ memory.last = call.item
           /\ memory.view = (IF call.tool = "searchShare" THEN "search" ELSE "route")
<1>1. PICK s \in Sees(call, page) : LastLook(s, "ok")
  BY Returning DEF ToolsInv, Sharing
<1>2. SavingInv /\ call.at = "look" /\ ~call.failing
      /\ call.stage \in {"start", "open", "read", "close", "closed", "last"}
  BY <1>1, Running DEF ToolsInv, LastLook, Sharing, StagesOf
<1>3. call.stage = "last"
  <2>1. Follows(call, s.reply) = "end"
    BY <1>1 DEF LastLook
  <2>2. Now.next = "end"
    BY <2>1 DEF Follows
  <2> QED
    BY <1>2, <2>2, ShareStages
<1>4. page' = page /\ memory' = memory
  <2>1. s = Saw(page, "ok")
    BY <1>3, ShareLooks DEF OnlyAsserts
  <2>2. page' = s.page /\ memory' = memory
    BY <1>1, <1>2, Returned DEF Sharing, Navigating, EscapesAfter
  <2> QED
    BY <2>1, <2>2 DEF Saw
<1>5. ~Opens(page, "dialog") /\ memory.last = call.item
      /\ memory.view = (IF call.tool = "searchShare" THEN "search" ELSE "route")
  BY <1>2, <1>3 DEF ToolsInv, ShareInv
<1>6. Settled(page).over # "dialog" /\ page.over # "dialog"
  BY <1>2, <1>5, SettledFacts DEF Opens
<1> QED
  BY <1>4, <1>5, <1>6

(* A tool that reports success, or that nothing was left to do, does so of a
   page that shows it: whatever the page does on its own, however often, and
   however late its clicks take effect.                                    *)
THEOREM SuccessIsRealHolds == Spec => SuccessIsReal
<1>1. ToolsInv /\ [Next]_vars => ToolsInv'
  BY ToolsKept
<1>2. ToolsInv /\ [Next]_vars
        => [Returns("ok") \/ Returns("already") => Promised(call, page')]_vars
  BY ReturnKeepsPromise
<1>3. Init /\ [][Next]_vars
        => [][Returns("ok") \/ Returns("already") => Promised(call, page')]_vars
  BY <1>1, <1>2, InitTools, PTL
<1> QED
  BY <1>3, PTL DEF Spec, SuccessIsReal

(* A share link is returned with the dialog closed for good, and with the
   search or the route it is of still remembered.                          *)
THEOREM ShareLeavesNoTraceHolds == Spec => ShareLeavesNoTrace
<1>1. ToolsInv /\ [Next]_vars => ToolsInv'
  BY ToolsKept
<1> DEFINE Traceless ==
        Returns("ok") /\ call.tool \in Sharing
        => /\ page'.over # "dialog" /\ Settled(page').over # "dialog"
           /\ memory' = memory /\ memory.last = call.item
           /\ memory.view = (IF call.tool = "searchShare" THEN "search" ELSE "route")
<1>2. ToolsInv /\ [Next]_vars => [Traceless]_vars
  BY ReturnLeavesNoTrace
<1> HIDE DEF Traceless
<1>3. Init /\ [][Next]_vars => [][Traceless]_vars
  BY <1>1, <1>2, InitTools, PTL
<1>4. Spec => [][Traceless]_vars
  BY <1>3, PTL DEF Spec
<1> QED
  BY <1>4 DEF ShareLeavesNoTrace, Traceless

-----------------------------------------------------------------------------
(* What the memory rests on. *)

(* Effects that leave what the page is of as it is. *)
Benign ==
    (Overlays \ {"none"}) \cup
    {"none", "close", "rating", "zoomIn", "zoomOut", "tab", "save"}

(* The page shows what is remembered, and will when it gets to its click. *)
Fits(p, m) ==
    /\ m.view = "search" => p.path = "search" /\ p.of = m.last /\ p.lag.do \in Benign
    /\ m.view = "place" => p.path = "place" /\ p.hours # "detail" /\ p.lag.do \in Benign
    /\ m.view \in {"directions", "route"} /\ m.last \in Trip
         => p.path = "directions" /\ p.of = m.last /\ p.time = "now" /\ p.lag.do \in Benign
    /\ m.view = "suggestions" => p.path = "home" /\ p.lag.do \in Benign

(* Calls that have sent what turns the page: they end with the memory of the
   new page, or without any, or unfenced. *)
Turning(c) ==
    c.at # "idle" /\ (c.tool \in {"nearby", "photos"}
                      \/ (c.tool \in {"time", "hours", "select"} /\ c.mutated))

PlaceOnly(m) ==
    /\ m.view \notin {"search", "suggestions"}
    /\ m.view \in {"directions", "route"} => m.last \notin Trip

TurningHours(p, m) ==
    /\ PlaceOnly(m) /\ p.path = "place"
    /\ p.lag.do = "none" \/ (p.lag.do \in {"inline", "detail"} /\ p.hours = "collapsed")

TurningSelect(p) == Bare(p) \/ (p.path = "home" /\ p.lag.do \in Leaving)

CallInv ==
    call.at # "idle" =>
        /\ call.failing => call.tool \in Sharing \cup {"photos"}
        /\ call.tool = "time" /\ call.stage \notin {"start", "open"} => call.mutated
        /\ call.tool \in {"hours", "select"} => (call.mutated <=> call.stage = "post")
        /\ call.tool = "photos" /\ call.stage = "leave" => call.at = "guard"

(* What a call was begun with is remembered until it ends. *)
AskedInv ==
    call.at # "idle" =>
        /\ call.tool = "hours" /\ (call.stage = "click" \/ (call.stage = "start" /\ call.at = "look"))
             => memory.view = "place"
        /\ call.tool = "select" /\ call.stage = "click" /\ call.at = "look"
             => memory.view = "suggestions"

Recorded == DOMAIN memory = {"view", "last"}

MovedInv == active \/ page.path = "blocked" => faults.moved

MemoryInv ==
    linked /\ ~faults.moved /\ ~call.unfenced =>
        /\ ~Turning(call) => Fits(page, memory)
        /\ Turning(call) /\ call.tool = "hours" => TurningHours(page, memory)
        /\ Turning(call) /\ call.tool = "select" => TurningSelect(page)
        /\ Turning(call) /\ call.tool = "time"
             => memory.view \notin {"search", "place", "suggestions"}

LEMMA CallInvKept ==
    ASSUME SavingInv, CallInv, StepShape
    PROVE  CallInv'
<1> DEFINE Claim ==
        /\ call'.failing => call'.tool \in Sharing \cup {"photos"}
        /\ call'.tool = "time" /\ call'.stage \notin {"start", "open"} => call'.mutated
        /\ call'.tool \in {"hours", "select"} => (call'.mutated <=> call'.stage = "post")
        /\ call'.tool = "photos" /\ call'.stage = "leave" => call'.at = "guard"
<1> SUFFICES ASSUME call'.at # "idle" PROVE Claim
  BY DEF CallInv
<1>1. CASE NoClaim
  BY <1>1 DEF NoClaim, Sharing
<1>2. CASE Surroundings
  BY <1>2 DEF Surroundings, Alike, CallInv
<1>3. CASE Asserted
  <2>1. ~(call.tool = "photos" /\ call.stage = "leave")
    <3> SUFFICES ASSUME call.tool = "photos", call.stage = "leave" PROVE FALSE
      OBVIOUS
    <3>1. Now.guard = "gone"
      BY DEF Now, PlanOf, PhotoPlan, Stage
    <3> QED
      BY <1>3, <3>1 DEF Asserted, Assertion
  <2> QED
    BY <1>3, <2>1 DEF Asserted, CallInv
<1>4. ASSUME NEW s \in Sees(call, page), LookedAgain(s) PROVE Claim
  BY <1>4 DEF LookedAgain, Alike, CallInv
<1>5. ASSUME NEW s \in Sees(call, page), WentOn(s) PROVE Claim
  <2>1. /\ call.at = "look" /\ call'.at = "guard" /\ call'.tool = call.tool
        /\ call'.failing = call.failing /\ call'.stage = Follows(call, s.reply)
        /\ call'.stage # "end" /\ (call'.mutated <=> call.mutated \/ Mutates(call.tool, call.stage))
        /\ call.stage \in OnlyAsserts \/ s.reply \in Now.parser.go
    BY <1>5 DEF WentOn
  <2>2. call.stage \in StagesOf(call.tool)
    BY <2>1, Running
  <2>3. call.stage \in OnlyAsserts => s.reply = "ok"
    BY DEF Sees, Saw
  <2>4. CASE call.tool = "time"
    <3>1. s.reply = "ok"
      BY <2>1, <2>2, <2>3, <2>4, TimeStages DEF StagesOf, OnlyAsserts
    <3>2. call'.stage = Now.next
      BY <2>1, <3>1 DEF Follows
    <3>3. call.stage = "start" => call'.stage = "open"
      BY <2>4, <3>2, TimeStages
    <3>4. call.stage # "start" => call'.mutated
      BY <2>1, <2>4 DEF CallInv, Mutates
    <3>5. call'.failing => call'.tool \in Sharing \cup {"photos"}
      BY <2>1 DEF CallInv
    <3> QED
      BY <2>1, <2>4, <3>3, <3>4, <3>5
  <2>5. CASE call.tool = "hours"
    <3>1. s.reply = "ok"
      BY <2>1, <2>2, <2>3, <2>5, HoursStages DEF StagesOf, OnlyAsserts
    <3>2. call'.stage = Now.next
      BY <2>1, <3>1 DEF Follows
    <3> QED
      BY <2>1, <2>2, <2>5, <3>2, HoursStages DEF CallInv, StagesOf, Mutates, Sharing
  <2>6. CASE call.tool = "select"
    <3>1. s.reply = "ok"
      BY <2>1, <2>2, <2>3, <2>6, SelectStages DEF StagesOf, OnlyAsserts
    <3>2. call'.stage = Now.next
      BY <2>1, <3>1 DEF Follows
    <3> QED
      BY <2>1, <2>2, <2>6, <3>2, SelectStages DEF CallInv, StagesOf, Mutates, Sharing
  <2>7. CASE call.tool \notin {"time", "hours", "select"}
    BY <2>1, <2>7 DEF CallInv
  <2> HIDE DEF Claim
  <2> QED
    BY <2>4, <2>5, <2>6, <2>7
<1> HIDE DEF Claim
<1> QED
  BY <1>1, <1>2, <1>3, <1>4, <1>5 DEF StepShape

-----------------------------------------------------------------------------
(* Pages that fit the memory. *)

LEMMA BenignSettled ==
    ASSUME NEW p \in PageType, p.lag.do \in Benign
    PROVE  /\ Settled(p).path = p.path /\ Settled(p).of = p.of /\ Settled(p).hours = p.hours
           /\ Settled(p).time = p.time
<1> DEFINE q == [p EXCEPT !.lag = NoEffect]
           shut == [q EXCEPT !.over = "none"]
           do == p.lag.do
           Like(s) == s.path = p.path /\ s.of = p.of /\ s.hours = p.hours /\ s.time = p.time
<1>1. Like(p) /\ Like(q) /\ Like(shut)
  BY DEF PageType
<1>2. DOMAIN q = DOMAIN p /\ DOMAIN shut = DOMAIN p
  BY DEF PageType
<1>3. \/ Settled(p) = p
      \/ Settled(p) = shut
      \/ Settled(p) = [q EXCEPT !.over = do]
      \/ Settled(p) = [shut EXCEPT !.rating = TRUE]
      \/ Settled(p) = [q EXCEPT !.zoom = @ + 1]
      \/ Settled(p) = [q EXCEPT !.zoom = @ - 1]
      \/ Settled(p) = [q EXCEPT !.tab = TRUE]
      \/ Settled(p) = [shut EXCEPT !.saved = IF p.of \in @ THEN @ \ {p.of} ELSE @ \cup {p.of}]
  BY DEF Settled, Benign, Overlays
<1>4. "path" \in DOMAIN p /\ "of" \in DOMAIN p /\ "hours" \in DOMAIN p /\ "time" \in DOMAIN p
  BY DEF PageType
<1> HIDE DEF q, shut
<1>5. /\ Like([q EXCEPT !.over = do]) /\ Like([shut EXCEPT !.rating = TRUE])
      /\ Like([q EXCEPT !.zoom = @ + 1]) /\ Like([q EXCEPT !.zoom = @ - 1])
      /\ Like([q EXCEPT !.tab = TRUE])
      /\ Like([shut EXCEPT !.saved = IF p.of \in @ THEN @ \ {p.of} ELSE @ \cup {p.of}])
  BY <1>1, <1>2, <1>4
<1> HIDE DEF Like
<1>6. Like(Settled(p))
  BY <1>1, <1>3, <1>5
<1> QED
  BY <1>6 DEF Like

(* A page that Fits requires something of has nothing but a benign click before it. *)
LEMMA SettledFits ==
    ASSUME NEW p \in PageType, Harmless(p), NEW m, Fits(p, m)
    PROVE  Fits(Settled(p), m)
<1>1. Settled(p).lag.do = "none" /\ "none" \in Benign
  BY SettledPage DEF Benign
<1> QED
  BY <1>1, BenignSettled DEF Fits

LEMMA SentFields ==
    ASSUME NEW p \in PageType, Harmless(p), NEW do, NEW to
    PROVE  LET q == Sends(p, do, to) IN
           /\ q.path = Settled(p).path /\ q.of = Settled(p).of /\ q.hours = Settled(p).hours
           /\ q.time = Settled(p).time /\ q.lag = [do |-> do, to |-> to]
<1> DEFINE s == Settled(p)
<1>1. s \in PageType
  BY SettledPage DEF Follow
<1>2. Sends(p, do, to) = [s EXCEPT !.lag = [do |-> do, to |-> to]]
  BY DEF Sends
<1> HIDE DEF s
<1> QED
  BY <1>1, <1>2 DEF PageType, s

LEMMA ClickFits ==
    ASSUME NEW p \in PageType, Harmless(p), NEW m, Fits(p, m), NEW do \in Benign
    PROVE  Fits(Click(p, do), m)
<1>1. Fits(Settled(p), m)
  BY SettledFits
<1>2. LET q == Click(p, do) IN
      /\ q.path = Settled(p).path /\ q.of = Settled(p).of /\ q.hours = Settled(p).hours
      /\ q.time = Settled(p).time /\ q.lag.do = do
  <2> DEFINE q == Sends(p, do, NoItem)
  <2>1. q.path = Settled(p).path /\ q.of = Settled(p).of /\ q.hours = Settled(p).hours
        /\ q.time = Settled(p).time /\ q.lag = [do |-> do, to |-> NoItem]
    BY SentFields
  <2>2. Click(p, do) = q
    BY DEF Click
  <2> HIDE DEF q
  <2> QED
    BY <2>1, <2>2
<1> QED
  BY <1>1, <1>2 DEF Fits

LEMMA LeaveFits ==
    ASSUME NEW p \in PageType, Harmless(p), NEW m, Fits(p, m), NEW c, NEW blocked
    PROVE  Fits(Leave(c, p, blocked), m)
  BY ClickFits DEF Leave, Benign

LEMMA BlankFits == \A p : Fits(p, Blank)
  BY DEF Fits, Blank

LEMMA FreshFits ==
    ASSUME NEW path, NEW x, NEW saved
    PROVE  LET p == Fresh(path, x, saved) IN
           /\ p.path = path /\ p.of = x /\ p.lag.do \in Benign /\ p.hours = "collapsed"
           /\ p.time = "now" /\ Bare(p)
  BY NotLagging DEF Fresh, Benign, Bare

(* Expressions of a call that has not turned the page send nothing that does,
   but for the click after which the call is one that does. *)
Turns(c, s) ==
    /\ s.reply = "ok" /\ c.stage \notin OnlyAsserts
    /\ c.tool \in {"time", "hours", "select"} /\ Mutates(c.tool, c.stage)

LEMMA SearchFits ==
    ASSUME SavingInv, NEW m, Fits(page, m), call.tool \in {"rating", "zoom", "searchShare"},
           call.stage \in StagesOf(call.tool), call.stage \notin OnlyAsserts,
           NEW s \in Finds(call, page)
    PROVE  Fits(s.page, m)
<1> DEFINE F == {q \in {s.page, page} \cup {Click(page, do) : do \in Benign} : Fits(q, m)}
           p == page
           c == call
<1>1. p \in F
  OBVIOUS
<1>2. \A do \in Benign : Click(p, do) \in F
  BY ClickFits DEF SavingInv
<1>3. /\ Click(p, "ratingMenu") \in F /\ Click(p, "rating") \in F /\ Click(p, "zoomIn") \in F
      /\ Click(p, "zoomOut") \in F /\ Click(p, "dialog") \in F /\ Click(p, "close") \in F
  BY <1>2 DEF Benign, Overlays
<1> HIDE DEF F, p, c
<1>4. ASSUME c.tool = "rating", c.stage \in {"trigger", "menu", "option", "chip"},
             s \in RatingSees(c.stage, p, c.item)
      PROVE  s.page \in F
  BY <1>1, <1>3, <1>4 DEF RatingSees, RatingTriggerSees, RatingMenuSees, RatingOptionSees,
                          RatingChipSees, ForQuery, Saw
<1>5. ASSUME s \in ZoomActionSees(p, c.item, c.to) \/ s \in ZoomPostSees(p, c.item, c.to, c.from)
      PROVE  s.page \in F
  BY <1>1, <1>3, <1>5 DEF ZoomActionSees, ZoomPostSees, ForQuery, Saw
<1>6. ASSUME c.stage \in {"open", "read", "close", "closed"},
             s \in SearchShareSees(c.stage, p, c.item)
      PROVE  s.page \in F
  BY <1>1, <1>3, <1>6 DEF SearchShareSees, SearchShareOpenSees, SearchShareReadSees,
                          ShareCloseSees, ShareClosedSees, ForQuery, Saw
<1>7. s.page \in F
  BY <1>4, <1>5, <1>6 DEF Finds, StagesOf, OnlyAsserts, p, c
<1> QED
  BY <1>7 DEF F

LEMMA PlaceFits ==
    ASSUME SavingInv, NEW m, Fits(page, m),
           call.tool \in {"save", "tab", "placeShare", "saveState", "routeShare"},
           call.stage \in StagesOf(call.tool), call.stage \notin OnlyAsserts,
           NEW s \in Finds(call, page)
    PROVE  Fits(s.page, m)
<1> DEFINE F == {q \in {s.page, page} \cup {Click(page, do) : do \in Benign} : Fits(q, m)}
           p == page
           c == call
<1>1. p \in F
  OBVIOUS
<1>2. \A do \in Benign : Click(p, do) \in F
  BY ClickFits DEF SavingInv
<1>3. /\ Click(p, "saveMenu") \in F /\ Click(p, "save") \in F /\ Click(p, "tab") \in F
      /\ Click(p, "dialog") \in F /\ Click(p, "close") \in F
  BY <1>2 DEF Benign, Overlays
<1> HIDE DEF F, p, c
<1>4. ASSUME c.stage \in {"open", "read", "point", "press", "post", "reopen"},
             s \in SaveSees(c.stage, p, c.item, c.reopened)
      PROVE  s.page \in F
  BY <1>1, <1>3, <1>4 DEF SaveSees, SaveOpenSees, SaveRowSees, SavePress, SavePostSees,
                          ForPlace, Saw
<1>5. ASSUME s \in PlaceSees("tab", c.stage, p, c.item) PROVE s.page \in F
  BY <1>1, <1>3, <1>5 DEF PlaceSees, TabActionSees, TabPostSees, ForPlace, Saw
<1>6. ASSUME s \in PlaceSees("placeShare", c.stage, p, c.item) PROVE s.page \in F
  BY <1>1, <1>3, <1>6 DEF PlaceSees, PlaceShareOpenSees, PlaceShareReadSees, ForPlace, Saw
<1>7. ASSUME s \in PlaceSees("saveState", c.stage, p, c.item) PROVE s.page \in F
  BY <1>1, <1>3, <1>7 DEF PlaceSees, SaveOpenSees, SaveRowSees, ForPlace, Saw
<1>8. ASSUME c.stage \in {"open", "read", "close", "closed"}, s \in RouteShareSees(c.stage, p)
      PROVE  s.page \in F
  BY <1>1, <1>3, <1>8 DEF RouteShareSees, RouteShareOpenSees, RouteShareReadSees,
                          RouteCloseSees, RouteClosedSees, Saw
<1>9. s.page \in F
  BY <1>4, <1>5, <1>6, <1>7, <1>8 DEF Finds, StagesOf, OnlyAsserts, p, c
<1> QED
  BY <1>9 DEF F

LEMMA SuggestFits ==
    ASSUME SavingInv, NEW m, Fits(page, m), call.tool = "suggest",
           call.stage \in {"focus", "type", "list"}, NEW s \in Finds(call, page)
    PROVE  Fits(s.page, m)
<1>1. s \in SuggestSees(call.stage, page, call.item)
  BY DEF Finds
<1>2. CASE call.stage \in {"focus", "list"}
  <2>1. s.page = page
    BY <1>1, <1>2 DEF SuggestSees, SuggestionFocusSees, SuggestionListSees, ForQuery, Saw
  <2> QED
    BY <2>1
<1>3. CASE call.stage = "type"
  <2> DEFINE c == Click(page, "suggestions")
             q == [c EXCEPT !.of = call.item]
  <2>1. s.page = page \/ (page.path = "home" /\ s.page = q)
    BY <1>1, <1>3 DEF SuggestSees, SuggestionTypes, Saw
  <2>2. ASSUME page.path = "home" PROVE Fits(q, m)
    <3>1. "suggestions" \in Benign /\ "suggestions" \in Boxes
      BY DEF Benign, Overlays, Boxes
    <3>2. Fits(c, m)
      BY <3>1, ClickFits DEF SavingInv
    <3>3. c \in PageType
      BY <2>2, <3>1, Followers DEF SavingInv, Follow
    <3> HIDE DEF c
    <3>4. q.path = c.path /\ q.lag = c.lag
      BY <3>3 DEF PageType
    <3>5. m.view \notin {"search", "place"} /\ ~(m.view \in {"directions", "route"} /\ m.last \in Trip)
      BY <2>2 DEF Fits
    <3> QED
      BY <3>2, <3>4, <3>5 DEF Fits
  <2> HIDE DEF q
  <2> QED
    BY <2>1, <2>2
<1> QED
  BY <1>2, <1>3

(* The tools that turn the page, before they have. *)
LEMMA TurnersFit ==
    ASSUME SavingInv, CallInv, call.at = "look", ~Turning(call),
           NEW m, Fits(page, m), call.tool \in {"time", "hours", "select"},
           call.stage \notin OnlyAsserts, NEW s \in Finds(call, page)
    PROVE  Fits(s.page, m) \/ Turns(call, s)
<1>1. ~call.mutated
  BY DEF Turning
<1>2. call.stage \in StagesOf(call.tool)
  BY Running
<1>3. CASE call.tool = "time"
  <2>1. call.stage = "open"
    BY <1>1, <1>2, <1>3 DEF CallInv, OnlyAsserts
  <2>2. s.page = page \/ s.reply = "ok"
    BY <1>3, <2>1 DEF Finds, TimeSees, TimeOpenSees, Saw
  <2> QED
    BY <1>3, <2>1, <2>2 DEF Turns, Mutates
<1>4. CASE call.tool = "hours"
  <2>1. call.stage = "click"
    BY <1>1, <1>2, <1>4 DEF CallInv, OnlyAsserts, StagesOf
  <2>2. s.page = page \/ s.reply = "ok"
    BY <1>4, <2>1 DEF Finds, PlaceSees, HoursActionSees, ForPlace, Saw
  <2> QED
    BY <1>4, <2>1, <2>2 DEF Turns, Mutates
<1>5. CASE call.tool = "select"
  <2>1. call.stage = "click"
    BY <1>1, <1>2, <1>5 DEF CallInv, OnlyAsserts, StagesOf
  <2>2. s.page = page \/ s.reply = "ok"
    BY <1>5, <2>1 DEF Finds, SuggestSees, SuggestionClickSees, ForQuery, Saw
  <2> QED
    BY <1>5, <2>1, <2>2 DEF Turns, Mutates
<1> QED
  BY <1>3, <1>4, <1>5

LEMMA SeesFits ==
    ASSUME SavingInv, CallInv, call.at = "look", ~Turning(call),
           NEW m, Fits(page, m), NEW s \in Sees(call, page)
    PROVE  Fits(s.page, m) \/ Turns(call, s)
<1>1. call.tool \in ToolNames /\ call.stage \in StagesOf(call.tool)
  BY Running
<1>2. CASE call.stage \in OnlyAsserts \/ s \in Odd(page)
  <2>1. s.page = page
    BY <1>2 DEF Sees, Odd, Saw
  <2> QED
    BY <2>1
<1>3. CASE call.stage \notin OnlyAsserts /\ s \in Finds(call, page)
  <2>1. CASE call.tool \in {"rating", "zoom", "searchShare"}
    BY <1>1, <1>3, <2>1, SearchFits
  <2>2. CASE call.tool \in {"save", "tab", "placeShare", "saveState", "routeShare"}
    BY <1>1, <1>3, <2>2, PlaceFits
  <2>3. CASE call.tool = "suggest"
    BY <1>1, <1>3, <2>3, SuggestFits DEF StagesOf, OnlyAsserts
  <2>4. CASE call.tool \in {"time", "hours", "select"}
    BY <1>3, <2>4, TurnersFit
  <2>5. CASE call.tool \in {"nearby", "photos"}
    BY <2>5 DEF Turning
  <2>6. CASE call.tool \in {"swap", "travelMode"}
    BY <1>1, <1>3, <2>6 DEF StagesOf, OnlyAsserts
  <2> QED
    BY <1>1, <2>1, <2>2, <2>3, <2>4, <2>5, <2>6
    DEF ToolNames, SearchToolNames, PlaceToolNames, DirectionsToolNames
<1> QED
  BY <1>2, <1>3 DEF Sees

-----------------------------------------------------------------------------
(* Calls and the memory. *)

Env == SavingInv /\ CallInv /\ AskedInv /\ Recorded /\ MovedInv /\ MemoryInv

Pages(c, p, m) ==
    /\ ~Turning(c) => Fits(p, m)
    /\ Turning(c) /\ c.tool = "hours" => TurningHours(p, m)
    /\ Turning(c) /\ c.tool = "select" => TurningSelect(p)
    /\ Turning(c) /\ c.tool = "time" => m.view \notin {"search", "place", "suggestions"}

LEMMA PagesInv == MemoryInv <=> (linked /\ ~faults.moved /\ ~call.unfenced => Pages(call, page, memory))
  BY DEF MemoryInv, Pages

(* A call that ends leaves a page that fits, or is unfenced. *)
LEMMA EndedPages ==
    ASSUME NEW c \in CallType, NEW result, NEW p, NEW m, Fits(p, m)
    PROVE  Pages(Ended(c, result), p, m)
<1>1. Ended(c, result).at = "idle"
  BY DEF Ended, NoCall
<1> QED
  BY <1>1 DEF Pages, Turning

LEMMA EndedUnfenced ==
    ASSUME NEW c, NEW result
    PROVE  /\ c.unfenced => Ended(c, result).unfenced
           /\ c.tool \in Unfencing /\ result = "error" => Ended(c, result).unfenced
<1>1. Ended(c, result).unfenced = (c.unfenced \/ (c.tool \in Unfencing /\ result = "error"))
  BY DEF Ended, NoCall
<1> QED
  BY <1>1, Zenon

LEMMA ThrowUnfenced ==
    ASSUME NEW c \in CallType, c.unfenced, NEW p, NEW m, NEW human, Throw(c, p, m, human)
    PROVE  call'.unfenced
<1>1. CASE Opened(c) /\ ~c.failing /\ ~human
  <2>1. call' = [c EXCEPT !.stage = "close", !.at = "guard", !.late = FALSE, !.failing = TRUE]
    BY <1>1 DEF Throw
  <2> QED
    BY <2>1 DEF CallType
<1>2. CASE ~(Opened(c) /\ ~c.failing /\ ~human)
  <2>1. call' = Ended(c, "error")
    BY <1>2 DEF Throw
  <2> QED
    BY <2>1, EndedUnfenced
<1> QED
  BY <1>1, <1>2

LEMMA ThrowPages ==
    ASSUME NEW c \in CallType, c.at # "idle", NEW p \in PageType, Harmless(p), NEW m,
           NEW human \in BOOLEAN, Throw(c, p, m, human),
           ~Turning(c) => Fits(p, m), human => m = Blank, ~call'.unfenced
    PROVE  Pages(call', page', memory') /\ ~c.unfenced
<1> DEFINE closes == Opened(c) /\ ~c.failing /\ ~human
           d == [c EXCEPT !.stage = "close", !.at = "guard", !.late = FALSE, !.failing = TRUE]
<1>1. CASE closes
  <2>1. call' = d /\ page' = p /\ memory' = m
    BY <1>1 DEF Throw
  <2>2. d.tool = c.tool /\ d.unfenced = c.unfenced
    BY DEF CallType
  <2> HIDE DEF d
  <2>3. ~Turning(c) /\ ~Turning(d)
    BY <1>1, <2>2 DEF Opened, Turning, Sharing
  <2> QED
    BY <2>1, <2>2, <2>3 DEF Pages
<1>2. CASE ~closes
  <2>1. /\ call' = Ended(c, "error") /\ page' = Leave(c, p, human)
        /\ memory' = IF Drops(c, human) THEN Blank ELSE m
    BY <1>2 DEF Throw
  <2>2. ~c.unfenced /\ c.tool \notin Unfencing
    BY <2>1, EndedUnfenced
  <2>3. CASE Turning(c)
    <3>1. c.tool \in Invalidating /\ c.mutated
      BY <2>2, <2>3 DEF Turning, Unfencing, Invalidating
    <3>2. memory' = Blank
      BY <2>1, <3>1 DEF Drops
    <3>3. Fits(page', memory')
      BY <3>2, BlankFits
    <3> QED
      BY <2>1, <2>2, <3>3, EndedPages
  <2>4. CASE ~Turning(c)
    <3>1. Fits(page', memory')
      BY <2>1, <2>4, LeaveFits, BlankFits
    <3> QED
      BY <2>1, <2>2, <3>1, EndedPages
  <2> QED
    BY <2>3, <2>4
<1> QED
  BY <1>1, <1>2

LEMMA UnfencedOrPages ==
    ASSUME Env, linked, ~faults.moved, ~call.unfenced
    PROVE  Pages(call, page, memory)
  BY PagesInv DEF Env
LEMMA MemoryFields ==
    Recorded => LET m == [memory EXCEPT !.last = NoItem] IN
                m.view = memory.view /\ m.last = NoItem
  BY DEF Recorded

(* Only sharing calls and photos return after they failed. *)
LEMMA ReturnMemory ==
    ASSUME NEW c \in CallType, NEW p, NEW result, Return(c, p, result)
    PROVE  /\ c.failing \/ result = "already" => memory' = memory
           /\ ~c.failing /\ result = "ok" /\ c.tool \in Navigating
                => /\ memory'.last = c.to
                   /\ memory'.view = (IF c.tool = "nearby" THEN "search" ELSE "directions")
           /\ ~c.failing /\ result = "ok" /\ c.tool = "select"
                => /\ memory'.view = p.path /\ (p.path = "search" => memory'.last = p.of)
           /\ ~c.failing /\ result = "ok" /\ c.tool = "time"
                => memory' = [memory EXCEPT !.last = NoItem]
           /\ ~c.failing /\ result = "ok" /\ c.tool = "hours"
                => memory' = IF p.hours = "detail" THEN Blank ELSE memory
           /\ c.tool \notin Navigating \cup {"select", "time", "hours"} => memory' = memory
<1> DEFINE goes == IF c.tool = "nearby" THEN "search" ELSE "directions"
<1>1. memory' =
        IF c.failing \/ result = "already" THEN memory
        ELSE CASE c.tool \in Navigating -> [view |-> goes, last |-> c.to]
               [] c.tool = "select" ->
                     [view |-> p.path, last |-> IF p.path = "search" THEN p.of ELSE c.item]
               [] c.tool = "time" -> [memory EXCEPT !.last = NoItem]
               [] c.tool = "hours" /\ p.hours = "detail" -> Blank
               [] OTHER -> memory
  BY DEF Return, Navigating
<1> HIDE DEF goes
<1>2. c.failing \/ result = "already" => memory' = memory
  BY <1>1
<1>3. ~c.failing /\ result = "ok" /\ c.tool \in Navigating
        => memory' = [view |-> goes, last |-> c.to]
  BY <1>1 DEF Navigating
<1>4. ~c.failing /\ result = "ok" /\ c.tool = "select"
        => memory' = [view |-> p.path, last |-> IF p.path = "search" THEN p.of ELSE c.item]
  BY <1>1 DEF Navigating
<1>5. ~c.failing /\ result = "ok" /\ c.tool = "time"
        => memory' = [memory EXCEPT !.last = NoItem]
  BY <1>1 DEF Navigating
<1>6. ~c.failing /\ result = "ok" /\ c.tool = "hours"
        => memory' = IF p.hours = "detail" THEN Blank ELSE memory
  BY <1>1 DEF Navigating
<1>7. c.tool \notin Navigating \cup {"select", "time", "hours"} => memory' = memory
  BY <1>1
<1> QED
  BY <1>2, <1>3, <1>4, <1>5, <1>6, <1>7 DEF goes

(* What the last stage of a tool that turns the page saw. *)
LEMMA TurnersSaw ==
    ASSUME SavingInv, CallInv, NEW s \in Sees(call, page), NEW result \in {"ok", "already"},
           LastLook(s, result), call.tool \in {"time", "hours", "select"}
    PROVE  /\ call.tool = "time" => call.mutated /\ result = "ok"
           /\ call.tool = "hours" /\ result = "ok" =>
                call.mutated /\ s.page = page /\ page.hours # "collapsed"
           /\ call.tool = "hours" /\ result = "already" => ~call.mutated /\ s.reply = "already"
           /\ call.tool = "select" => call.mutated /\ result = "ok" /\ s.page = page
                                      /\ page.path \in {"search", "place"}
<1>1. call.at = "look" /\ call.stage \in StagesOf(call.tool)
  BY Running DEF LastLook
<1>2. call.stage \in OnlyAsserts => s.reply = "ok"
  BY DEF Sees, Saw
<1>3. CASE call.tool = "time"
  <2>1. call.stage \in {"open", "mode", "input", "type"} => Now.parser.done = {}
    BY <1>3 DEF Now, PlanOf, TimePlan, TimeOpenParser, TimeMenuParser, TimeInputParser, Stage,
                Parser, GoOn
  <2>2. call.stage = "post" /\ result = "ok"
    BY <1>1, <1>2, <1>3, <2>1, TimeStages DEF LastLook, StagesOf, OnlyAsserts, Follows
  <2> QED
    BY <1>1, <1>3, <2>2 DEF CallInv
<1>4. CASE call.tool = "hours"
  <2>1. call.stage = "click" => Now.parser.done = {"already"}
    BY <1>4 DEF Now, PlanOf, HoursPlan, HoursActionParser, Stage, Parser
  <2>2. \/ call.stage = "post" /\ s.reply = "ok" /\ result = "ok"
        \/ call.stage = "click" /\ s.reply = "already" /\ result = "already"
    BY <1>1, <1>2, <1>4, <2>1, HoursStages DEF LastLook, StagesOf, OnlyAsserts, Follows
  <2>3. s.page = page /\ page.hours # "collapsed"
    BY <1>4, <2>2 DEF Sees, OnlyAsserts, Sending, Finds, PlaceSees, HoursActionSees,
                      HoursPostSees, ForPlace, Odd, Saw
  <2> QED
    BY <1>1, <1>4, <2>2, <2>3 DEF CallInv
<1>5. CASE call.tool = "select"
  <2>1. call.stage = "post" /\ s.reply = "ok" /\ result = "ok"
    BY <1>1, <1>2, <1>5, SelectStages DEF LastLook, StagesOf, OnlyAsserts, Follows
  <2>2. s.page = page /\ page.path \in {"search", "place"}
    BY <1>5, <2>1 DEF Sees, OnlyAsserts, Sending, Finds, SuggestSees, SuggestionPostSees, Odd, Saw
  <2> QED
    BY <1>1, <1>5, <2>1, <2>2 DEF CallInv
<1> QED
  BY <1>3, <1>4, <1>5

LEMMA NoReturn ==
    ASSUME SavingInv, CallInv, NEW s \in Sees(call, page), NEW result \in {"ok", "already"},
           LastLook(s, result)
    PROVE  /\ call.tool # "photos"
           /\ call.tool \in Navigating => result = "ok"
<1>1. call.at = "look" /\ call.stage \in StagesOf(call.tool)
  BY Running DEF LastLook
<1>2. call.stage \in OnlyAsserts => s.reply = "ok"
  BY DEF Sees, Saw
<1>3. ASSUME call.tool = "photos" PROVE FALSE
  <2>1. /\ call.stage = "start" => Now.next = "open"
        /\ call.stage = "open" =>
             Now.next = "view" /\ Now.parser.go = {"ok"} /\ Now.parser.done = {}
        /\ call.stage = "view" =>
             Now.next = "leave" /\ Now.parser.go = {"ok"} /\ Now.parser.done = {}
    BY <1>3 DEF Now, PlanOf, PhotoPlan, PhotoOpenParser, PhotoSurfaceParser, Stage, Parser, GoOn
  <2>2. call.stage \in {"start", "open", "view"}
    BY <1>1, <1>3 DEF CallInv, StagesOf
  <2> QED
    BY <1>2, <1>3, <2>1, <2>2 DEF LastLook, OnlyAsserts, Follows
<1>4. ASSUME call.tool \in Navigating, result = "already" PROVE FALSE
  <2>1. call.stage \notin OnlyAsserts /\ s.reply \in Now.parser.done
    BY <1>4 DEF LastLook
  <2>2. call.tool = "nearby" /\ call.stage \in {"open", "input", "type", "post"}
    BY <1>1, <1>4, <2>1 DEF Navigating, StagesOf, OnlyAsserts
  <2>3. Now.parser.done = {}
    BY <2>2 DEF Now, PlanOf, NearbyPlan, NearbyOpenParser, NearbyInputParser, NearbyPostParser,
                Stage, Parser, GoOn
  <2> QED
    BY <2>1, <2>3
<1> QED
  BY <1>3, <1>4

LEMMA ReturnPages ==
    ASSUME SavingInv, CallInv, Recorded, Pages(call, page, memory),
           NEW s \in Sees(call, page), NEW result \in {"ok", "already"}, LastLook(s, result)
    PROVE  Pages(call', page', memory')
<1>1. /\ call.at = "look" /\ ~call.failing /\ Return(call, s.page, result) /\ call \in CallType
      /\ s.page \in PageType /\ Harmless(s.page)
  BY Running, SeesFollow DEF LastLook, Follow
<1>2. SUFFICES Fits(page', memory')
  <2>1. call'.at = "idle"
    BY <1>1, ReturnShape
  <2> QED
    BY <2>1 DEF Pages, Turning
<1>3. CASE call.tool \in Navigating
  <2> DEFINE goes == IF call.tool = "nearby" THEN "search" ELSE "directions"
  <2>1. result = "ok"
    BY <1>3, NoReturn
  <2>2. memory'.last = call.to /\ memory'.view = goes
    BY <1>1, <1>3, <2>1, ReturnMemory
  <2>3. page' = Fresh(goes, call.to, Settled(s.page).saved)
    BY <1>1, <1>3 DEF Return, Navigating
  <2> HIDE DEF goes
  <2>4. page'.path = goes /\ page'.of = call.to /\ page'.lag.do \in Benign /\ page'.time = "now"
    BY <2>3, FreshFits
  <2> QED
    BY <2>2, <2>4 DEF Fits, goes
<1>4. CASE call.tool \notin Navigating
  <2>1. page' = Leave(call, s.page, FALSE)
    BY <1>1, <1>4 DEF Return, Navigating
  <2>2. SUFFICES Fits(s.page, memory')
    BY <1>1, <2>1, LeaveFits
  <2>3. CASE call.tool = "time"
    <3>1. call.mutated /\ result = "ok"
      BY <2>3, TurnersSaw
    <3>2. memory.view \notin {"search", "place", "suggestions"}
      BY <1>1, <2>3, <3>1 DEF Pages, Turning
    <3>3. memory' = [memory EXCEPT !.last = NoItem]
      BY <1>1, <2>3, <3>1, ReturnMemory
    <3>4. memory'.view \notin {"search", "place", "suggestions"} /\ memory'.last \notin Trip
      BY <3>2, <3>3, ItemAssumption, MemoryFields
    <3> QED
      BY <3>4 DEF Fits
  <2>4. CASE call.tool = "hours" /\ result = "ok"
    <3>1. call.mutated /\ s.page = page /\ page.hours # "collapsed"
      BY <2>4, TurnersSaw
    <3>2. TurningHours(page, memory)
      BY <1>1, <2>4, <3>1 DEF Pages, Turning
    <3>3. page.path = "place" /\ page.lag.do \in Benign /\ PlaceOnly(memory)
      BY <3>1, <3>2 DEF TurningHours, Benign
    <3>4. memory' = IF page.hours = "detail" THEN Blank ELSE memory
      BY <1>1, <2>4, <3>1, ReturnMemory
    <3>5. Fits(page, memory')
      BY <3>3, <3>4, BlankFits DEF Fits, PlaceOnly
    <3> QED
      BY <3>1, <3>5
  <2>5. CASE call.tool = "select"
    <3>1. call.mutated /\ result = "ok" /\ s.page = page /\ page.path \in {"search", "place"}
      BY <2>5, TurnersSaw
    <3>2. Bare(page)
      BY <1>1, <2>5, <3>1 DEF Pages, Turning, TurningSelect
    <3>3. memory'.view = page.path /\ (page.path = "search" => memory'.last = page.of)
      BY <1>1, <2>5, <3>1, ReturnMemory
    <3>4. page.lag.do \in Benign /\ page.hours # "detail"
      BY <3>2 DEF Bare, Benign
    <3> QED
      BY <3>1, <3>3, <3>4 DEF Fits
  <2>6. CASE call.tool \notin {"time", "select"} /\ ~(call.tool = "hours" /\ result = "ok")
    <3>1. ~Turning(call)
      BY <1>4, <2>6, NoReturn, TurnersSaw DEF Turning, Navigating
    <3>2. memory' = memory
      BY <1>1, <1>4, <2>6, ReturnMemory
    <3>3. Fits(s.page, memory) \/ Turns(call, s)
      BY <1>1, <3>1, SeesFits DEF Pages
    <3>4. ~Turns(call, s)
      BY <2>6, TurnersSaw DEF Turns
    <3> QED
      BY <3>2, <3>3, <3>4
  <2> QED
    BY <2>3, <2>4, <2>5, <2>6
<1> QED
  BY <1>3, <1>4


-----------------------------------------------------------------------------
(* The memory is kept. *)

LEMMA AskedKept ==
    ASSUME SavingInv, AskedInv, StepShape
    PROVE  AskedInv'
<1> DEFINE Claim ==
        /\ call'.tool = "hours"
             /\ (call'.stage = "click" \/ (call'.stage = "start" /\ call'.at = "look"))
             => memory'.view = "place"
        /\ call'.tool = "select" /\ call'.stage = "click" /\ call'.at = "look"
             => memory'.view = "suggestions"
<1> SUFFICES ASSUME call'.at # "idle" PROVE Claim
  BY DEF AskedInv
<1>1. CASE NoClaim
  BY <1>1 DEF NoClaim, Sharing
<1>2. CASE Surroundings
  BY <1>2 DEF Surroundings, Alike, AskedInv
<1>3. CASE Asserted
  <2>1. call.tool = "hours" /\ call.stage = "start" => Now.guard = "place"
    BY DEF Now, PlanOf, HoursPlan, Stage
  <2>2. call.tool = "select" /\ call.stage = "click" => Now.guard = "suggestions"
    BY DEF Now, PlanOf, SelectSuggestionPlan, Stage
  <2>3. Now.guard = "place" => memory.view = "place"
    BY <1>3 DEF Asserted, Assertion
  <2>4. Now.guard = "suggestions" => memory.view = "suggestions"
    BY <1>3 DEF Asserted, Assertion
  <2> QED
    BY <1>3, <2>1, <2>2, <2>3, <2>4 DEF Asserted, AskedInv
<1>4. ASSUME NEW s \in Sees(call, page), LookedAgain(s) PROVE Claim
  BY <1>4 DEF LookedAgain, Alike, AskedInv, OnlyAsserts
<1>5. ASSUME NEW s \in Sees(call, page), WentOn(s) PROVE Claim
  <2>1. /\ call.at = "look" /\ call'.at = "guard" /\ call'.tool = call.tool
        /\ memory' = memory /\ call'.stage = Follows(call, s.reply)
        /\ call.stage \in OnlyAsserts \/ s.reply \in Now.parser.go
    BY <1>5 DEF WentOn
  <2>2. call.stage \in StagesOf(call.tool)
    BY <2>1, Running
  <2>3. call.stage \in OnlyAsserts => s.reply = "ok"
    BY DEF Sees, Saw
  <2>4. CASE call.tool = "hours"
    <3>1. s.reply = "ok"
      BY <2>1, <2>2, <2>3, <2>4, HoursStages DEF StagesOf, OnlyAsserts
    <3>2. call'.stage = Now.next
      BY <2>1, <3>1 DEF Follows
    <3> QED
      BY <2>1, <2>2, <2>4, <3>2, HoursStages DEF AskedInv, StagesOf
  <2>5. CASE call.tool # "hours"
    BY <2>1, <2>5
  <2> HIDE DEF Claim
  <2> QED
    BY <2>4, <2>5
<1> HIDE DEF Claim
<1> QED
  BY <1>1, <1>2, <1>3, <1>4, <1>5 DEF StepShape

LEMMA BlankRecorded == DOMAIN Blank = {"view", "last"}
  BY DEF Blank

LEMMA ThrowRecorded ==
    ASSUME NEW c, NEW p, NEW m, NEW human, Throw(c, p, m, human), DOMAIN m = {"view", "last"}
    PROVE  Recorded'
<1>1. memory' = m \/ memory' = Blank
  BY DEF Throw
<1> QED
  BY <1>1, BlankRecorded DEF Recorded

LEMMA ReturnRecorded ==
    ASSUME Recorded, NEW c, NEW p, NEW result, Return(c, p, result)
    PROVE  Recorded'
<1> DEFINE goes == IF c.tool = "nearby" THEN "search" ELSE "directions"
           navigates == c.tool \in Navigating
           noted == IF p.path = "search" THEN p.of ELSE c.item
<1>1. memory' =
        IF c.failing \/ result = "already" THEN memory
        ELSE CASE navigates -> [view |-> goes, last |-> c.to]
               [] c.tool = "select" -> [view |-> p.path, last |-> noted]
               [] c.tool = "time" -> [memory EXCEPT !.last = NoItem]
               [] c.tool = "hours" /\ p.hours = "detail" -> Blank
               [] OTHER -> memory
  BY DEF Return, Navigating
<1>2. /\ DOMAIN [view |-> goes, last |-> c.to] = {"view", "last"}
      /\ DOMAIN [view |-> p.path, last |-> noted] = {"view", "last"}
      /\ DOMAIN [memory EXCEPT !.last = NoItem] = DOMAIN memory
  OBVIOUS
<1> HIDE DEF goes, noted, navigates
<1>3. memory' \in {memory, Blank, [view |-> goes, last |-> c.to], [view |-> p.path, last |-> noted],
                   [memory EXCEPT !.last = NoItem]}
  BY <1>1
<1> QED
  BY <1>2, <1>3, BlankRecorded DEF Recorded

LEMMA RecordedKept ==
    ASSUME Recorded, Next
    PROVE  Recorded'
<1>1. Recorded' \/ ~(memory' = memory \/ memory' = Blank)
  BY BlankRecorded DEF Recorded
<1>2. CASE \E tool \in Tools : \E item \in Items(tool), to \in Choices(tool) :
              Begin(tool, item, to)
  <2>1. PICK tool, item, to : Begin(tool, item, to)
    BY <1>2
  <2>2. \/ memory' = memory \/ memory' = Blank
        \/ memory' = [view |-> "suggestions", last |-> item]
    BY <2>1 DEF Begin
  <2>3. DOMAIN [view |-> "suggestions", last |-> item] = {"view", "last"}
    OBVIOUS
  <2> QED
    BY <1>1, <2>2, <2>3 DEF Recorded
<1>3. CASE AssertContext
  <2>1. memory' = memory \/ memory' = Blank
        \/ Throw(call, page, memory, FALSE) \/ Throw(call, page, Blank, TRUE)
        \/ Throw(call, page, Blank, FALSE)
    BY <1>3 DEF AssertContext
  <2> QED
    BY <1>1, <2>1, ThrowRecorded, BlankRecorded DEF Recorded
<1>4. CASE Look
  <2>1. PICK s \in Sees(call, page) :
           \/ memory' = memory \/ Throw(call, s.page, memory, FALSE)
           \/ Return(call, s.page, "ok") \/ Return(call, s.page, "already")
    BY <1>4 DEF Look
  <2> QED
    BY <1>1, <2>1, ThrowRecorded, ReturnRecorded DEF Recorded
<1>5. CASE Expire
  <2>1. memory' = memory \/ Throw(call, page, memory, FALSE)
    BY <1>5 DEF Expire
  <2> QED
    BY <1>1, <2>1, ThrowRecorded DEF Recorded
<1>6. CASE Lose
  <2>1. memory' = memory \/ \E c, p : Throw(c, p, memory, FALSE)
    BY <1>6 DEF Lose
  <2> QED
    BY <1>1, <2>1, ThrowRecorded DEF Recorded
<1>7. ASSUME NEW view, NEW last, NEW path, NEW x, Establish(view, last, path, x) PROVE Recorded'
  <2>1. memory' = [view |-> view, last |-> last]
    BY <1>7 DEF Establish
  <2> QED
    BY <2>1 DEF Recorded
<1>8. CASE Contexts
  BY <1>7, <1>8 DEF Contexts
<1>9. CASE DeadlinePasses \/ Settle \/ Challenge \/ Straggle \/ Resolve
           \/ \E path, x : Move(path, x)
  BY <1>1, <1>9 DEF DeadlinePasses, Settle, Challenge, Straggle, Resolve, Move
<1> QED
  BY <1>2, <1>3, <1>4, <1>5, <1>6, <1>8, <1>9 DEF Next, Step

(* Faults are remembered until the next context. *)
LEMMA FaultStays == \A moved : Fault(moved) => (faults.moved => faults'.moved)
<1> SUFFICES ASSUME NEW moved, Fault(moved), faults.moved PROVE faults'.moved
  OBVIOUS
<1>1. faults' = [number |-> faults.number + 1, moved |-> faults.moved \/ moved]
  BY DEF Fault
<1> QED
  BY <1>1, Zenon

LEMMA FaultOnlyCounts == Fault(FALSE) => (faults'.moved => faults.moved)
<1> SUFFICES ASSUME Fault(FALSE), faults'.moved PROVE faults.moved
  OBVIOUS
<1>1. faults' = [number |-> faults.number + 1, moved |-> faults.moved \/ FALSE]
  BY DEF Fault
<1> QED
  BY <1>1, Zenon

LEMMA MovedKept ==
    ASSUME Env, Next
    PROVE  MovedInv'
<1>1. page'.path = "blocked" => page.path = "blocked" \/ faults'.moved
  BY StepKeeps DEF Env, Kept
<1>2. CASE Contexts
  <2>1. ASSUME NEW view, NEW last, NEW path \in {"search", "place", "directions"}, NEW x,
               Establish(view, last, path, x)
        PROVE  page'.path = path /\ ~active'
    BY <2>1, FreshPath DEF Establish
  <2>2. ~active' /\ page'.path \in {"search", "place", "directions"}
    BY <1>2, <2>1 DEF Contexts
  <2> QED
    BY <2>2 DEF MovedInv
<1>3. CASE ~Contexts
  <2>1. CASE AssertContext
    <3>1. faults' = faults /\ (active' = active \/ page.path = "blocked")
      BY <2>1 DEF AssertContext, Assertion
    <3> QED
      BY <1>1, <3>1 DEF Env, MovedInv
  <2>2. CASE /\ faults' = faults \/ Fault(TRUE) \/ Fault(FALSE)
             /\ active' = active \/ ~active'
    BY <1>1, <2>2, FaultStays DEF Env, MovedInv
  <2>3. ASSUME NEW tool, NEW item, NEW to, Begin(tool, item, to)
        PROVE  faults' = faults /\ active' = active
    BY <2>3 DEF Begin
  <2>4. Look \/ Expire \/ DeadlinePasses \/ Settle => faults' = faults /\ active' = active
    BY DEF Look, Expire, DeadlinePasses, Settle
  <2>5. Challenge \/ Lose \/ Straggle \/ (\E path, x : Move(path, x))
        => (Fault(TRUE) \/ Fault(FALSE)) /\ active' = active
    BY DEF Challenge, Lose, Straggle, Move
  <2>6. Resolve => faults' = faults /\ ~active'
    BY DEF Resolve
  <2> QED
    BY <1>3, <2>1, <2>2, <2>3, <2>4, <2>5, <2>6 DEF Next, Step
<1> QED
  BY <1>2, <1>3

(* A call that throws, or that failed before it returns. *)
LEMMA ThrownPages ==
    ASSUME Env, call.at # "idle", linked, ~faults.moved, ~call'.unfenced,
           NEW p \in PageType, Harmless(p), NEW m, NEW human \in BOOLEAN,
           ~Turning(call) /\ Fits(page, memory) => Fits(p, m), human => m = Blank,
           Throw(call, p, m, human)
    PROVE  Pages(call', page', memory')
<1>1. call \in CallType
  BY Running DEF Env
<1>2. ~call.unfenced
  BY <1>1, ThrowUnfenced
<1>3. ~Turning(call) => Fits(p, m)
  BY <1>2, UnfencedOrPages DEF Pages
<1> QED
  BY <1>1, <1>3, ThrowPages

LEMMA FailedPages ==
    ASSUME Env, call.at = "look", call.failing, linked, ~faults.moved, ~call'.unfenced,
           NEW s \in Sees(call, page), NEW result \in {"ok", "already"},
           Return(call, s.page, result)
    PROVE  Pages(call', page', memory')
<1>1. call \in CallType /\ s.page \in PageType /\ Harmless(s.page)
  BY Running, SeesFollow DEF Env, Follow
<1>2. call' = Ended(call, "error")
  BY DEF Return
<1>3. call.tool \in Sharing /\ ~call.unfenced
  BY <1>2, EndedUnfenced DEF Env, CallInv, Unfencing
<1>4. ~Turning(call) /\ ~Turns(call, s)
  BY <1>3 DEF Turning, Turns, Sharing
<1>5. Fits(page, memory)
  BY <1>3, <1>4, UnfencedOrPages DEF Pages
<1>6. Fits(s.page, memory)
  BY <1>4, <1>5, SeesFits DEF Env
<1>7. memory' = memory /\ page' = Leave(call, s.page, FALSE)
  BY <1>1, <1>3 DEF Return, Sharing
<1>8. Fits(page', memory')
  BY <1>1, <1>6, <1>7, LeaveFits
<1> QED
  BY <1>1, <1>2, <1>8, EndedPages

(* The clicks that turn the page are the ones after which the tool goes on. *)
LEMMA TurningParsers ==
    ASSUME call.tool \in {"time", "hours", "select"}, Mutates(call.tool, call.stage)
    PROVE  /\ Now.parser.go = {"ok"} /\ call.stage \notin OnlyAsserts
           /\ "ok" \notin Now.parser.done \cup Now.parser.again
<1>1. \/ call.tool = "time" /\ call.stage = "open"
      \/ call.tool \in {"hours", "select"} /\ call.stage = "click"
  BY DEF Mutates
<1> DEFINE OkGoesOn(parser) == parser.go = {"ok"} /\ "ok" \notin parser.done \cup parser.again
<1>2. call.tool = "time" /\ call.stage = "open" => OkGoesOn(Now.parser)
  BY DEF Now, PlanOf, TimePlan, TimeOpenParser, Stage, Parser
<1>3. call.tool = "hours" /\ call.stage = "click" => OkGoesOn(Now.parser)
  BY DEF Now, PlanOf, HoursPlan, HoursActionParser, Stage, Parser
<1>4. call.tool = "select" /\ call.stage = "click" => OkGoesOn(Now.parser)
  BY DEF Now, PlanOf, SelectSuggestionPlan, SuggestionClickParser, Stage, Parser
<1> QED
  BY <1>1, <1>2, <1>3, <1>4 DEF OnlyAsserts

(* Once hours or a suggestion were clicked, the tool only looks. *)
LEMMA TurnersOnlyLook ==
    ASSUME SavingInv, CallInv, call.at = "look", Turning(call), call.tool \in {"hours", "select"},
           NEW s \in Sees(call, page)
    PROVE  s.page = page
<1>1. call.stage = "post"
  BY DEF Turning, CallInv
<1>2. CASE call.tool = "hours"
  BY <1>1, <1>2 DEF Sees, OnlyAsserts, Sending, Finds, PlaceSees, HoursPostSees, Odd, Saw
<1>3. CASE call.tool = "select"
  BY <1>1, <1>3 DEF Sees, OnlyAsserts, Sending, Finds, SuggestSees, SuggestionPostSees, Odd, Saw
<1> QED
  BY <1>2, <1>3

(* The call stays at the page: what holds of it holds on. *)
LEMMA StayingPages ==
    ASSUME SavingInv, CallInv, call.at = "look", Pages(call, page, memory), NEW s \in Sees(call, page),
           NEW d, d.at = "guard", d.tool = call.tool, d.mutated <=> call.mutated,
           ~Turns(call, s)
    PROVE  Pages(d, s.page, memory)
<1>1. Turning(d) <=> Turning(call)
  BY DEF Turning
<1>2. CASE Turning(call)
  <2>1. call.tool \in {"hours", "select"} => s.page = page
    BY <1>2, TurnersOnlyLook
  <2> QED
    BY <1>1, <1>2, <2>1 DEF Pages
<1>3. CASE ~Turning(call)
  BY <1>1, <1>3, SeesFits DEF Pages
<1> QED
  BY <1>2, <1>3

(* The click that turns the page. *)
LEMMA TurnedPages ==
    ASSUME SavingInv, CallInv, AskedInv, call.at = "look", ~Turning(call), Fits(page, memory),
           NEW s \in Sees(call, page), Turns(call, s),
           NEW d, d.at = "guard", d.tool = call.tool, d.mutated
    PROVE  Pages(d, s.page, memory)
<1>1. page \in PageType /\ Harmless(page)
  BY DEF SavingInv
<1>2. Turning(d) /\ s.reply = "ok" /\ call.stage \notin OnlyAsserts
  BY DEF Turning, Turns
<1>3. s \in Finds(call, page)
  BY <1>2 DEF Sees, Odd, Saw
<1>4. CASE call.tool = "time"
  <2>1. call.stage = "open"
    BY <1>4 DEF Turns, Mutates
  <2>2. page.path = "directions"
    BY <1>2, <1>3, <1>4, <2>1 DEF Finds, TimeSees, TimeOpenSees, Saw
  <2>3. memory.view \notin {"search", "place", "suggestions"}
    BY <2>2 DEF Fits
  <2> QED
    BY <1>2, <1>4, <2>3 DEF Pages
<1>5. CASE call.tool = "hours"
  <2>1. call.stage = "click"
    BY <1>5 DEF Turns, Mutates
  <2>2. memory.view = "place"
    BY <1>5, <2>1 DEF AskedInv
  <2>3. page.path = "place" /\ page.hours # "detail" /\ page.lag.do \in Benign
    BY <2>2 DEF Fits
  <2>4. PICK do \in {"inline", "detail"} : s.page = Sends(page, do, NoItem) /\ page.hours # "inline"
    BY <1>2, <1>3, <1>5, <2>1 DEF Finds, PlaceSees, HoursActionSees, ForPlace, Saw, Click
  <2>5. s.page.path = "place" /\ s.page.hours = page.hours /\ s.page.lag = [do |-> do, to |-> NoItem]
    BY <1>1, <2>3, <2>4, SentFields, BenignSettled
  <2>6. page.hours = "collapsed"
    BY <1>1, <2>3, <2>4 DEF PageType
  <2>7. TurningHours(s.page, memory)
    BY <2>2, <2>5, <2>6 DEF TurningHours, PlaceOnly
  <2> QED
    BY <1>2, <1>5, <2>7 DEF Pages
<1>6. CASE call.tool = "select"
  <2>1. call.stage = "click"
    BY <1>6 DEF Turns, Mutates
  <2>2. memory.view = "suggestions"
    BY <1>6, <2>1 DEF AskedInv
  <2>3. page.path = "home" /\ page.lag.do \in Benign
    BY <2>2 DEF Fits
  <2>4. PICK do \in Leaving, to \in Query \cup Place : s.page = Sends(page, do, to)
    BY <1>2, <1>3, <1>6, <2>1 DEF Finds, SuggestSees, SuggestionClickSees, ForQuery, Saw, Leaving
  <2>5. s.page.path = "home" /\ s.page.lag = [do |-> do, to |-> to]
    BY <1>1, <2>3, <2>4, SentFields, BenignSettled
  <2>6. TurningSelect(s.page)
    BY <2>5 DEF TurningSelect
  <2> QED
    BY <1>2, <1>6, <2>6 DEF Pages
<1> QED
  BY <1>4, <1>5, <1>6 DEF Turns

LEMMA GoesToFields ==
    ASSUME NEW c \in CallType, NEW stage, NEW p
    PROVE  LET d == GoesTo(c, stage, p) IN
           /\ d.at = "guard" /\ d.tool = c.tool /\ d.unfenced = c.unfenced
           /\ d.mutated <=> c.mutated \/ Mutates(c.tool, c.stage)
  BY DEF GoesTo, CallType

LEMMA LookMemory ==
    ASSUME Env, Look
    PROVE  MemoryInv'
<1>1. call.at = "look" /\ linked' = linked /\ faults' = faults
  BY DEF Look
<1>2. call \in CallType /\ SavingInv /\ CallInv /\ AskedInv /\ Recorded
  BY <1>1, Running DEF Env
<1> SUFFICES ASSUME linked, ~faults.moved, ~call'.unfenced
             PROVE  Pages(call', page', memory')
  BY <1>1 DEF MemoryInv, Pages
<1> DEFINE OutcomeOf(s) ==
        IF call.stage \in OnlyAsserts THEN "go" ELSE Outcome(Now.parser, s.reply)
           d == [call EXCEPT !.at = "guard"]
           over(s) == Follows(call, s.reply) = "end"
                      \/ (Follows(call, s.reply) = "last" /\ call.failing)
<1>3. PICK s \in Sees(call, page) :
         \/ Return(call, s.page, "ok") /\ OutcomeOf(s) = "go" /\ over(s)
         \/ /\ OutcomeOf(s) = "go" /\ memory' = memory
            /\ page' = s.page /\ call' = GoesTo(call, Follows(call, s.reply), s.page)
         \/ Return(call, s.page, "already") /\ OutcomeOf(s) = "done"
         \/ OutcomeOf(s) = "again" /\ page' = s.page /\ call' = d /\ memory' = memory
         \/ Throw(call, s.page, memory, FALSE) /\ OutcomeOf(s) # "go"
  BY DEF Look
<1>4. s.page \in PageType /\ Harmless(s.page)
  BY <1>1, <1>2, SeesFollow DEF Follow
<1>5. OutcomeOf(s) = "go" => call.stage \in OnlyAsserts \/ s.reply \in Now.parser.go
  BY DEF Outcome
<1>6. Turns(call, s) => OutcomeOf(s) = "go"
  BY TurningParsers DEF Turns, Outcome
<1>7. OutcomeOf(s) = "done" => call.stage \notin OnlyAsserts /\ s.reply \in Now.parser.done
  BY DEF Outcome
<1> HIDE DEF OutcomeOf
<1>8. CASE call.failing /\ (Return(call, s.page, "ok") \/ Return(call, s.page, "already"))
  BY <1>1, <1>8, FailedPages
<1>9. ASSUME NEW result \in {"ok", "already"}, LastLook(s, result)
      PROVE  Pages(call', page', memory')
  <2>1. ~call.unfenced
    <3>1. call' = Ended(call, result)
      BY <1>9 DEF LastLook, Return
    <3> QED
      BY <3>1, EndedUnfenced
  <2>2. Pages(call, page, memory)
    BY <2>1, UnfencedOrPages
  <2> QED
    BY <1>2, <1>9, <2>2, ReturnPages
<1>10. CASE ~call.failing /\ Return(call, s.page, "ok") /\ OutcomeOf(s) = "go" /\ over(s)
  <2>1. LastLook(s, "ok")
    BY <1>1, <1>5, <1>10 DEF LastLook
  <2> QED
    BY <1>9, <2>1
<1>11. CASE ~call.failing /\ Return(call, s.page, "already") /\ OutcomeOf(s) = "done"
  <2>1. LastLook(s, "already")
    BY <1>1, <1>7, <1>11 DEF LastLook
  <2> QED
    BY <1>9, <2>1
<1>12. CASE /\ OutcomeOf(s) = "go" /\ memory' = memory
            /\ page' = s.page /\ call' = GoesTo(call, Follows(call, s.reply), s.page)
  <2>1. /\ call'.at = "guard" /\ call'.tool = call.tool /\ call'.unfenced = call.unfenced
        /\ call'.mutated <=> call.mutated \/ Mutates(call.tool, call.stage)
    <3> DEFINE next == Follows(call, s.reply)
    <3>1. call' = GoesTo(call, next, s.page)
      BY <1>12
    <3> HIDE DEF next
    <3> QED
      BY <1>2, <3>1, GoesToFields
  <2>2. Pages(call, page, memory)
    BY <2>1, UnfencedOrPages
  <2>3. CASE call.mutated \/ ~Mutates(call.tool, call.stage)
    <3>1. ~Turns(call, s) \/ Turning(call)
      BY <1>1, <2>3 DEF Turns, Turning
    <3>2. call'.mutated <=> call.mutated
      BY <2>1, <2>3
    <3>3. CASE ~Turns(call, s)
      BY <1>1, <1>2, <1>12, <2>1, <2>2, <3>2, <3>3, StayingPages
    <3>4. CASE Turning(call)
      <4>1. call.tool \in {"hours", "select"} => s.page = page
        BY <1>1, <1>2, <3>4, TurnersOnlyLook
      <4>2. Turning(call')
        BY <2>1, <3>2, <3>4 DEF Turning
      <4> QED
        BY <1>12, <2>1, <2>2, <3>4, <4>1, <4>2 DEF Pages
    <3> QED
      BY <3>1, <3>3, <3>4
  <2>4. CASE ~call.mutated /\ Mutates(call.tool, call.stage)
                 /\ call.tool \in {"time", "hours", "select"}
    <3>1. Now.parser.go = {"ok"} /\ call.stage \notin OnlyAsserts
      BY <2>4, TurningParsers
    <3>2. Turns(call, s)
      BY <1>5, <1>12, <2>4, <3>1 DEF Turns
    <3>3. ~Turning(call)
      BY <2>4 DEF Turning
    <3>4. Fits(page, memory)
      BY <2>2, <3>3 DEF Pages
    <3> QED
      BY <1>1, <1>2, <1>12, <2>1, <2>4, <3>2, <3>3, <3>4, TurnedPages
  <2>5. CASE call.tool \notin {"time", "hours", "select"}
    <3>1. Turning(call') <=> Turning(call)
      BY <1>1, <2>1, <2>5 DEF Turning
    <3>2. ~Turning(call) => Fits(s.page, memory)
      BY <1>1, <1>2, <2>2, <2>5, SeesFits DEF Pages, Turns
    <3> QED
      BY <1>12, <2>1, <2>5, <3>1, <3>2 DEF Pages
  <2> QED
    BY <2>3, <2>4, <2>5
<1>13. CASE OutcomeOf(s) = "again" /\ page' = s.page /\ call' = d /\ memory' = memory
  <2>1. d.at = "guard" /\ d.tool = call.tool /\ d.unfenced = call.unfenced /\ d.mutated = call.mutated
    BY <1>2 DEF CallType
  <2> HIDE DEF d
  <2>2. Pages(call, page, memory)
    BY <1>13, <2>1, UnfencedOrPages
  <2> QED
    BY <1>1, <1>2, <1>6, <1>13, <2>1, <2>2, StayingPages
<1>14. CASE Throw(call, s.page, memory, FALSE) /\ OutcomeOf(s) # "go"
  <2>1. ~Turning(call) /\ Fits(page, memory) => Fits(s.page, memory)
    BY <1>1, <1>2, <1>6, <1>14, SeesFits
  <2> QED
    BY <1>1, <1>4, <1>14, <2>1, ThrownPages
<1> QED
  BY <1>3, <1>8, <1>10, <1>11, <1>12, <1>13, <1>14

LEMMA AssertMemory ==
    ASSUME Env, AssertContext
    PROVE  MemoryInv'
<1> DEFINE d == [call EXCEPT !.at = "look", !.from = Origin(call, page)]
<1>1. call.at = "guard" /\ linked' = linked /\ faults' = faults
  BY DEF AssertContext
<1>2. call \in CallType /\ page \in PageType /\ Harmless(page)
  BY <1>1, Running DEF Env, SavingInv
<1>3. \/ call' = d /\ page' = page /\ memory' = memory
      \/ call' = Ended(call, "ok") /\ page' = page /\ memory' = Blank
      \/ Throw(call, page, memory, FALSE)
      \/ Throw(call, page, Blank, FALSE)
      \/ Throw(call, page, Blank, TRUE)
  BY DEF AssertContext
<1> SUFFICES ASSUME linked, ~faults.moved, ~call'.unfenced
             PROVE  Pages(call', page', memory')
  BY <1>1 DEF MemoryInv, Pages
<1>4. CASE call' = d /\ page' = page /\ memory' = memory
  <2>1. d.at = "look" /\ d.tool = call.tool /\ d.mutated = call.mutated
        /\ d.unfenced = call.unfenced
    BY <1>2 DEF CallType
  <2> HIDE DEF d
  <2>2. Pages(call, page, memory)
    BY <1>4, <2>1, UnfencedOrPages
  <2>3. Turning(d) <=> Turning(call)
    BY <1>1, <2>1 DEF Turning
  <2> QED
    BY <1>4, <2>1, <2>2, <2>3 DEF Pages
<1>5. CASE call' = Ended(call, "ok") /\ page' = page /\ memory' = Blank
  BY <1>2, <1>5, EndedPages, BlankFits
<1>6. CASE Throw(call, page, memory, FALSE)
  BY <1>1, <1>2, <1>6, ThrownPages
<1>7. CASE Throw(call, page, Blank, FALSE) \/ Throw(call, page, Blank, TRUE)
  BY <1>1, <1>2, <1>7, ThrownPages, BlankFits
<1> HIDE DEF d
<1> QED
  BY <1>3, <1>4, <1>5, <1>6, <1>7

LEMMA ExpireMemory ==
    ASSUME Env, Expire
    PROVE  MemoryInv'
<1> DEFINE d == [call EXCEPT !.stage = "leave", !.failing = TRUE, !.late = FALSE]
<1>1. call.at = "guard" /\ linked' = linked /\ faults' = faults
  BY DEF Expire
<1>2. call \in CallType /\ page \in PageType /\ Harmless(page)
  BY <1>1, Running DEF Env, SavingInv
<1> SUFFICES ASSUME linked, ~faults.moved, ~call'.unfenced
             PROVE  Pages(call', page', memory')
  BY <1>1 DEF MemoryInv, Pages
<1>3. CASE call' = d /\ call.tool = "photos"
  <2>1. d.at = "guard" /\ d.tool = "photos"
    BY <1>1, <1>2, <1>3 DEF CallType
  <2> HIDE DEF d
  <2> QED
    BY <1>3, <2>1 DEF Pages, Turning
<1>4. CASE Throw(call, page, memory, FALSE)
  BY <1>1, <1>2, <1>4, ThrownPages
<1> QED
  BY <1>3, <1>4 DEF Expire

LEMMA DeadlineMemory ==
    ASSUME Env, DeadlinePasses
    PROVE  MemoryInv'
<1>1. /\ call.at # "idle" /\ call' = [call EXCEPT !.late = TRUE] /\ page' = page
      /\ memory' = memory /\ linked' = linked /\ faults' = faults
  BY DEF DeadlinePasses
<1>2. call \in CallType
  BY <1>1, Running DEF Env
<1>3. call'.at = call.at /\ call'.tool = call.tool /\ call'.mutated = call.mutated
      /\ call'.unfenced = call.unfenced
  BY <1>1, <1>2 DEF CallType
<1>4. Turning(call') <=> Turning(call)
  BY <1>3 DEF Turning
<1> QED
  BY <1>1, <1>3, <1>4 DEF Env, MemoryInv

(* The page gets to the click that turns it. *)
LEMMA HoursTurn ==
    ASSUME NEW p \in PageType, Harmless(p), NEW m, TurningHours(p, m)
    PROVE  TurningHours(Settled(p), m)
<1> DEFINE q == [p EXCEPT !.lag = NoEffect]
<1>1. Settled(p).lag.do = "none"
  BY SettledPage
<1>2. CASE p.lag.do = "none"
  <2>1. Settled(p).path = p.path
    BY <1>2, BenignSettled DEF Benign
  <2> QED
    BY <1>1, <2>1 DEF TurningHours
<1>3. CASE p.lag.do \in {"inline", "detail"}
  <2>1. Settled(p) \in {[q EXCEPT !.hours = "inline"], [q EXCEPT !.hours = "detail"]}
    BY <1>3 DEF Settled, Overlays
  <2>2. q \in PageType => [q EXCEPT !.hours = "inline"].path = q.path
                          /\ [q EXCEPT !.hours = "detail"].path = q.path
    <3> HIDE DEF q
    <3> QED
      BY DEF PageType
  <2>3. NoItem \in Item /\ "none" \in Effects
    BY DEF Item, Effects
  <2>4. NoEffect \in [do : Effects, to : Item]
    BY <2>3 DEF NoEffect
  <2>5. q \in PageType /\ q.path = p.path
    BY <2>4 DEF PageType
  <2> HIDE DEF q
  <2>6. Settled(p).path = p.path
    BY <2>1, <2>2, <2>5
  <2> QED
    BY <1>1, <2>6 DEF TurningHours
<1> QED
  BY <1>2, <1>3 DEF TurningHours

LEMMA SelectTurn ==
    ASSUME NEW p \in PageType, Harmless(p), TurningSelect(p)
    PROVE  TurningSelect(Settled(p))
<1>1. CASE Bare(p)
  <2>1. Settled(p).lag.do = "none" /\ Settled(p).over \in {"none", p.over, p.lag.do}
    BY SettledPage
  <2>2. Settled(p).hours = p.hours
    BY <1>1, BenignSettled DEF Bare, Benign
  <2> QED
    BY <1>1, <2>1, <2>2 DEF TurningSelect, Bare
<1>2. CASE p.lag.do \in Leaving
  <2>1. Settled(p) = Fresh(p.lag.do, p.lag.to, p.saved)
    BY <1>2 DEF Settled, Overlays, Leaving
  <2>2. Bare(Fresh(p.lag.do, p.lag.to, p.saved))
    BY FreshBare
  <2> QED
    BY <2>1, <2>2 DEF TurningSelect
<1> QED
  BY <1>1, <1>2 DEF TurningSelect

LEMMA SettleMemory ==
    ASSUME Env, Settle
    PROVE  MemoryInv'
<1>1. /\ page' = Settled(page) /\ call' = call /\ memory' = memory
      /\ linked' = linked /\ faults' = faults
  BY DEF Settle
<1>2. page \in PageType /\ Harmless(page)
  BY DEF Env, SavingInv
<1> QED
  BY <1>1, <1>2, SettledFits, HoursTurn, SelectTurn DEF Env, MemoryInv

LEMMA BeginMemory ==
    ASSUME Env, NEW tool, NEW item, NEW to, Begin(tool, item, to)
    PROVE  MemoryInv'
<1> DEFINE d == [NoCall EXCEPT !.tool = tool, !.item = item, !.to = to, !.at = "guard",
                               !.unfenced = call.unfenced]
<1>1. call.at = "idle" /\ call' = d /\ faults' = faults
  BY DEF Begin
<1>2. ~d.mutated /\ d.unfenced = call.unfenced
  BY DEF NoCall
<1> HIDE DEF d
<1> SUFFICES ASSUME ~faults.moved, ~call.unfenced
             PROVE  Pages(call', page', memory')
  BY <1>1, <1>2 DEF MemoryInv, Pages
<1>3. Fits(page', memory')
  <2>1. CASE tool = "suggest"
    <3>1. page' = Fresh("home", NoItem, Settled(page).saved)
          /\ memory' = [view |-> "suggestions", last |-> item]
      BY <2>1 DEF Begin
    <3>2. page'.path = "home" /\ page'.lag.do \in Benign /\ memory'.view = "suggestions"
      BY <3>1, FreshFits
    <3> QED
      BY <3>2 DEF Fits
  <2>2. CASE tool # "suggest"
    <3>1. page' = page /\ memory' = IF linked THEN memory ELSE Blank
      BY <2>2 DEF Begin
    <3>2. linked => Fits(page, memory)
      BY <1>1, UnfencedOrPages DEF Pages, Turning
    <3> QED
      BY <3>1, <3>2, BlankFits
  <2> QED
    BY <2>1, <2>2
<1> QED
  BY <1>1, <1>2, <1>3 DEF Pages, Turning

LEMMA EstablishMemory ==
    ASSUME NEW view, NEW last, NEW path, NEW x, Establish(view, last, path, x),
           \/ view = path /\ last = x /\ path \in {"search", "directions"}
           \/ view = "place" /\ path = "place"
           \/ view = "route" /\ path = "directions" /\ last = x
    PROVE  MemoryInv'
<1>1. PICK saved : page' = Fresh(path, x, saved)
  BY DEF Establish
<1>2. memory' = [view |-> view, last |-> last] /\ call' = NoCall
  BY DEF Establish
<1>3. /\ page'.path = path /\ page'.of = x /\ page'.lag.do \in Benign
      /\ page'.hours = "collapsed" /\ page'.time = "now"
  BY <1>1, FreshFits
<1>4. Fits(page', memory')
  BY <1>2, <1>3 DEF Fits
<1>5. ~Turning(call')
  BY <1>2, NoCallShape DEF Turning
<1> QED
  BY <1>4, <1>5 DEF MemoryInv

LEMMA StepMemory ==
    ASSUME Env, Next
    PROVE  MemoryInv'
<1>1. CASE \E tool \in Tools : \E item \in Items(tool), to \in Choices(tool) :
              Begin(tool, item, to)
  <2>1. PICK tool, item, to : Begin(tool, item, to)
    BY <1>1
  <2> QED
    BY <2>1, BeginMemory
<1>2. CASE Step
  BY <1>2, AssertMemory, LookMemory, ExpireMemory DEF Step
<1>3. CASE DeadlinePasses \/ Settle
  BY <1>3, DeadlineMemory, SettleMemory
<1>4. CASE Challenge \/ \E path, x : Move(path, x)
  <2>1. faults'.moved
    BY <1>4, FaultMoves DEF Challenge, Move
  <2> QED
    BY <2>1 DEF MemoryInv
<1>5. CASE Lose
  BY <1>5 DEF Lose, MemoryInv
<1>6. CASE Straggle
  <2>1. /\ page' = page /\ memory' = memory /\ call' = call /\ linked' = linked
        /\ faults'.moved => faults.moved
    BY <1>6, FaultOnlyCounts DEF Straggle
  <2>2. CASE faults'.moved
    BY <2>2 DEF MemoryInv
  <2>3. CASE ~faults'.moved /\ faults.moved
    <3>1. Fault(FALSE) => (faults.moved => faults'.moved)
      BY FaultStays
    <3> QED
      BY <1>6, <2>3, <3>1 DEF Straggle
  <2>4. CASE ~faults.moved
    BY <2>1, <2>4 DEF Env, MemoryInv
  <2> QED
    BY <2>2, <2>3, <2>4
<1>7. CASE Resolve
  <2>1. faults.moved /\ faults' = faults
    BY <1>7 DEF Resolve, Env, MovedInv
  <2> QED
    BY <2>1 DEF MemoryInv
<1>8. CASE Contexts
  <2>1. ASSUME NEW q, Establish("search", q, "search", q) PROVE MemoryInv'
    BY <2>1, EstablishMemory
  <2>2. ASSUME NEW q, NEW x, Establish("place", q, "place", x) PROVE MemoryInv'
    BY <2>2, EstablishMemory
  <2>3. ASSUME NEW t, Establish("directions", t, "directions", t) PROVE MemoryInv'
    BY <2>3, EstablishMemory
  <2>4. ASSUME NEW t, Establish("route", t, "directions", t) PROVE MemoryInv'
    BY <2>4, EstablishMemory
  <2> QED
    BY <1>8, <2>1, <2>2, <2>3, <2>4 DEF Contexts
<1> QED
  BY <1>1, <1>2, <1>3, <1>4, <1>5, <1>6, <1>7, <1>8 DEF Next

LEMMA EnvKept ==
    ASSUME Env, [Next]_vars
    PROVE  Env'
<1>1. CASE Next
  <2>1. SavingInv' /\ StepShape
    BY <1>1, StepKeeps, NextShape DEF Env, Kept
  <2>2. CallInv' /\ AskedInv'
    BY <2>1, CallInvKept, AskedKept DEF Env
  <2>3. Recorded' /\ MovedInv' /\ MemoryInv'
    BY <1>1, RecordedKept, MovedKept, StepMemory DEF Env
  <2> QED
    BY <2>1, <2>2, <2>3 DEF Env
<1>2. CASE UNCHANGED vars
  BY <1>2 DEF vars, Env, SavingInv, CallInv, AskedInv, Recorded, MovedInv, MemoryInv
<1> QED
  BY <1>1, <1>2

LEMMA InitEnv == Init => Env
<1> SUFFICES ASSUME Init PROVE Env
  OBVIOUS
<1>1. SavingInv /\ call.at = "idle" /\ Recorded
  BY InitSaving, NoCallShape, BlankRecorded DEF Init, Recorded
<1>2. CallInv /\ AskedInv
  BY <1>1 DEF CallInv, AskedInv
<1>3. MovedInv
  BY FreshPath DEF Init, MovedInv
<1>4. MemoryInv
  BY <1>1, BlankFits DEF Init, MemoryInv, Turning
<1> QED
  BY <1>1, <1>2, <1>3, <1>4 DEF Env

(* Between calls what is remembered is what the page shows, and will show
   once it gets to its last click: the memory of the query, the place, the
   trip or the route is dropped or replaced by every call that turns the
   page, also when it fails, unless the page moved on its own, the
   connection is lost, or nearby or photos failed.                         *)
THEOREM MemoryIsTrueHolds == Spec => []MemoryIsTrue
<1>1. Env => MemoryIsTrue
  <2> DEFINE p == Settled(page)
  <2> SUFFICES ASSUME Env, call.at = "idle", linked, ~faults.moved, ~call.unfenced
               PROVE  /\ memory.view = "search" => p.path = "search" /\ p.of = memory.last
                      /\ memory.view = "place" => p.path = "place" /\ p.hours # "detail"
                      /\ memory.view \in {"directions", "route"} /\ memory.last \in Trip
                           => p.path = "directions" /\ p.of = memory.last /\ p.time = "now"
    BY DEF MemoryIsTrue
  <2>1. Fits(page, memory) /\ page \in PageType /\ Harmless(page)
    BY DEF Env, MemoryInv, Turning, SavingInv
  <2>2. Fits(p, memory)
    BY <2>1, SettledFits
  <2> QED
    BY <2>2 DEF Fits
<1>2. Init /\ [][Next]_vars => []Env
  BY InitEnv, EnvKept, PTL
<1> QED
  BY <1>1, <1>2, PTL DEF Spec
=============================================================================
