--------------------------- MODULE MapsRuntimeProofs ---------------------------
(***************************************************************************)
(* Proofs about MapsRuntime, for any operations and requests and any       *)
(* number of lost connections, crashes, challenges and moves by hand.      *)
(*                                                                         *)
(* EpochFence holds of every step as it stands.  MemoryMatchesPage and     *)
(* ReplayFenced are about the time before the first timeout, when the task *)
(* of one operation runs alone (Order).  In that time the page may be      *)
(* ahead of the memory only while a task is between its click and its      *)
(* check (Landed, RouteChosen, PlaceChosen, Mid), and whatever ends such a *)
(* task early erases the memory or has lost the connection, which erases   *)
(* it before there is another.                                             *)
(***************************************************************************)
EXTENDS MapsRuntime, TLAPS

MemoryType == [last : Action \cup {NoAction}, view : Views, route : SelectedRoutes]
PageType == [kind : Kinds, of : Action \cup {NoAction},
             route : {0} \cup Route, refined : BOOLEAN]
TaskType == [at : Access \cup Captured \cup Timers \cup {"idle", "done"},
             tool : Tools \cup {"none"}, arg : Action \cup {NoAction},
             seen : Kinds, picked : SelectedRoutes, clicked : BOOLEAN,
             held : Nat, link : {"ask", "connecting", "answered"}]

(* A directions page is of a directions request. *)
PageShape == page \in PageType /\ (page.kind = "directions" => page.of \in Directions)

MemoryShape == memory \in MemoryType /\ epoch \in Nat /\ active \in BOOLEAN

LinkShape ==
    /\ client \in Nat /\ attached \in Nat /\ client <= attached
    /\ sockets \subseteq 1 .. attached
    /\ chrome \in BOOLEAN
    /\ ~ chrome => sockets = {} /\ page = BlankPage

TurnShape ==
    /\ turn \in Operation \cup {NoOperation}
    /\ reset \in {"no", "dropped", "closing"}
    /\ reset # "no" => turn # NoOperation

UsedShape ==
    /\ used \in [timeouts : 0 .. MaxTimeouts, drops : 0 .. MaxDrops,
                 moves : 0 .. MaxMoves, challenges : 0 .. MaxChallenges]
    /\ calm \in BOOLEAN

(* Which tool is where. *)
PlaceOf(t) ==
    /\ t.link = "connecting" => t.at \in Access
    /\ t.at \in {"go", "load"} => t.tool = "navigate" /\ t.arg \in Action
    /\ t.at = "settle" => t.tool = "selectRoute"
    /\ t.at = "poll" => t.tool = "selectPlace"
    /\ t.at \in {"same1", "take", "same2", "mark", "verify"} => t.tool = "recommended"
    /\ t.at = "url2" => t.tool \in {"selectRoute", "recommended"}

TaskShape == task \in [Operation -> TaskType] /\ \A o \in Operation : PlaceOf(task[o])

Shape == MemoryShape /\ PageShape /\ LinkShape /\ TurnShape /\ UsedShape /\ TaskShape

-----------------------------------------------------------------------------
LEMMA ShapeTypeOK == Shape => TypeOK
<1> SUFFICES ASSUME Shape
             PROVE  TypeOK
  OBVIOUS
<1>1. {epoch, client, attached} \subseteq Nat /\ {active, chrome} \subseteq BOOLEAN
  BY DEF Shape, MemoryShape, LinkShape
<1>2. memory \in [last : Action \cup {NoAction}, view : Views, route : SelectedRoutes]
  BY DEF Shape, MemoryShape, MemoryType
<1>3. page \in [kind : Kinds, of : Action \cup {NoAction},
                route : {0} \cup Route, refined : BOOLEAN]
  BY DEF Shape, PageShape, PageType
<1>4. task \in [Operation ->
                    [at : Access \cup Captured \cup Timers \cup {"idle", "done"},
                     tool : Tools \cup {"none"}, arg : Action \cup {NoAction},
                     seen : Kinds, picked : SelectedRoutes, clicked : BOOLEAN,
                     held : Nat, link : {"ask", "connecting", "answered"}]]
  BY DEF Shape, TaskShape, TaskType
<1> QED
  BY <1>1, <1>2, <1>3, <1>4 DEF Shape, LinkShape, TurnShape, UsedShape, TypeOK

LEMMA NamesTyped ==
    /\ NoRoute \in SelectedRoutes /\ NoMemory \in MemoryType
    /\ NoTask \in TaskType /\ PlaceOf(NoTask)
    /\ [NoTask EXCEPT !.at = "done"] \in TaskType /\ PlaceOf([NoTask EXCEPT !.at = "done"])
<1>1. NoRoute \in SelectedRoutes
  BY DEF SelectedRoutes
<1>2. NoMemory \in MemoryType
  BY <1>1 DEF NoMemory, MemoryType, Views
<1>3. NoTask \in TaskType
  BY <1>1 DEF NoTask, TaskType, Kinds
<1>4. [NoTask EXCEPT !.at = "done"] \in TaskType
  BY <1>3 DEF TaskType
<1>5. PlaceOf(NoTask)
  BY DEF PlaceOf, NoTask
<1>6. PlaceOf([NoTask EXCEPT !.at = "done"])
  BY DEF PlaceOf, NoTask
<1> QED
  BY <1>1, <1>2, <1>3, <1>4, <1>5, <1>6

LEMMA PagesTyped ==
    /\ BlankPage \in PageType /\ BlankPage.kind = "blank" /\ BlankPage.refined = FALSE
    /\ OtherPage \in PageType /\ OtherPage.kind = "other" /\ OtherPage.refined = FALSE
    /\ \A a \in Action, k \in Kinds :
          /\ Page(k, a) \in PageType /\ Page(k, a).kind = k /\ Page(k, a).of = a
          /\ Page(k, a).refined = FALSE
  BY DEF BlankPage, OtherPage, Page, PageType, Kinds

LEMMA InitShape == Init => Shape
<1> SUFFICES ASSUME Init
             PROVE  Shape
  OBVIOUS
<1> USE DEF Init
<1>1. MemoryShape
  BY NamesTyped DEF MemoryShape
<1>2. PageShape
  BY PagesTyped DEF PageShape
<1>3. LinkShape
  <2>1. client \in Nat /\ attached \in Nat /\ client <= attached
    OBVIOUS
  <2>2. sockets \subseteq 1 .. attached /\ chrome \in BOOLEAN
    OBVIOUS
  <2>3. ~ chrome => sockets = {} /\ page = BlankPage
    OBVIOUS
  <2> QED
    BY <2>1, <2>2, <2>3 DEF LinkShape
<1>4. TurnShape
  BY DEF TurnShape
<1>5. UsedShape
  <2>1. MaxTimeouts \in Nat /\ MaxDrops \in Nat /\ MaxMoves \in Nat /\ MaxChallenges \in Nat
    BY BoundAssumption
  <2> QED
    BY <2>1 DEF UsedShape
<1>6. TaskShape
  BY NamesTyped DEF TaskShape
<1> QED
  BY <1>1, <1>2, <1>3, <1>4, <1>5, <1>6 DEF Shape

-----------------------------------------------------------------------------
(* The ends of a segment keep types. *)

(* What every end does to the memory, the task and the turn. *)
Kept(o) ==
    /\ memory' \in MemoryType /\ epoch' \in Nat
    /\ task' \in [Operation -> TaskType] /\ \A p \in Operation : PlaceOf(task'[p])
    /\ turn' \in {turn, NoOperation} /\ (reset # "no" => turn' = turn)

LEMMA LeavesKept ==
    ASSUME TaskShape, NEW o \in Operation, Leaves(o), memory' \in MemoryType, epoch' \in Nat
    PROVE  Kept(o)
<1> DEFINE d == [NoTask EXCEPT !.at = "done"]
<1>1. task' = [task EXCEPT ![o] = d]
  BY DEF Leaves
<1>2. d \in TaskType /\ PlaceOf(d)
  BY NamesTyped
<1> HIDE DEF d
<1>3. task' \in [Operation -> TaskType] /\ \A p \in Operation : task'[p] \in {d, task[p]}
  BY <1>1, <1>2 DEF TaskShape
<1>4. \A p \in Operation : PlaceOf(task'[p])
  BY <1>2, <1>3 DEF TaskShape
<1>5. turn' \in {turn, NoOperation} /\ (reset # "no" => turn' = turn)
  BY DEF Leaves
<1> QED
  BY <1>3, <1>4, <1>5 DEF Kept

LEMMA SucceedsKept ==
    ASSUME TaskShape, MemoryShape, NEW o \in Operation, NEW m \in MemoryType, Succeeds(o, m)
    PROVE  Kept(o)
  BY LeavesKept DEF Succeeds, MemoryShape

LEMMA FailsKept ==
    ASSUME TaskShape, NEW o \in Operation, NEW t, NEW m \in MemoryType, NEW e \in Nat,
           NEW human, Fails(o, t, m, e, human)
    PROVE  Kept(o)
<1>1. memory' \in {NoMemory, m} /\ epoch' \in {e, e + 1} /\ Leaves(o)
  BY DEF Fails
<1>2. memory' \in MemoryType /\ epoch' \in Nat
  BY <1>1, NamesTyped
<1> QED
  BY <1>1, <1>2, LeavesKept

LEMMA FailsPlainlyKept ==
    ASSUME TaskShape, MemoryShape, NEW o \in Operation, FailsPlainly(o)
    PROVE  Kept(o)
  BY FailsKept DEF FailsPlainly, MemoryShape

LEMMA InvalidatesKept ==
    ASSUME TaskShape, MemoryShape, NEW o \in Operation, Invalidates(o)
    PROVE  Kept(o)
<1>1. epoch + 1 \in Nat
  BY DEF MemoryShape
<1> QED
  BY <1>1, FailsKept, NamesTyped DEF Invalidates

(* The task at its next await. *)
Next0(t, await) == [t EXCEPT !.at = await, !.link = "ask"]

LEMMA WaitsKept ==
    ASSUME TaskShape, MemoryShape, NEW o \in Operation, NEW t \in TaskType,
           NEW await \in Access \cup Captured \cup Timers,
           PlaceOf(Next0(t, await)), Waits(o, t, await)
    PROVE  Kept(o)
<1>1. task' = [task EXCEPT ![o] = Next0(t, await)]
  BY DEF Waits, Next0
<1>2. Next0(t, await) \in TaskType
  BY DEF Next0, TaskType
<1>3. /\ task' \in [Operation -> TaskType]
      /\ \A p \in Operation : task'[p] \in {Next0(t, await), task[p]}
  BY <1>1, <1>2 DEF TaskShape
<1>4. \A p \in Operation : PlaceOf(task'[p])
  BY <1>3 DEF TaskShape
<1>5. UNCHANGED <<memory, epoch, turn>>
  BY DEF Waits
<1> QED
  BY <1>3, <1>4, <1>5 DEF Kept, MemoryShape

LEMMA GoesKept ==
    ASSUME TaskShape, MemoryShape, NEW o \in Operation, NEW t \in TaskType,
           NEW await \in Access \cup Captured \cup Timers,
           PlaceOf(Next0(t, await)), Goes(o, t, await)
    PROVE  Kept(o)
<1>1. CASE active /\ Fails(o, t, memory, epoch, TRUE)
  BY <1>1, FailsKept DEF MemoryShape
<1>2. CASE ~ active /\ Waits(o, t, await)
  BY <1>2, WaitsKept
<1> QED
  BY <1>1, <1>2 DEF Goes

-----------------------------------------------------------------------------
(* What an access does to the page.                                        *)

LEMMA LandingPages ==
    ASSUME NEW a \in Action, NEW q \in Landing(a)
    PROVE  /\ q \in PageType /\ (q.kind = "directions" => q.of \in Directions)
           /\ q.of = a /\ q.refined = FALSE
<1>1. KindOf(a) \in Kinds /\ (KindOf(a) = "directions" => a \in Directions)
  BY DEF KindOf, Kinds
<1>2. q = Page(KindOf(a), a) \/ q = Page("place", a)
  BY DEF Landing
<1>3. "place" \in Kinds
  BY DEF Kinds
<1> QED
  BY <1>1, <1>2, <1>3, PagesTyped

(* Only at these awaits does the page change, and so. *)
LEMMA EffectsAre ==
    ASSUME NEW o \in Operation, NEW q \in Effects(o)
    PROVE  \/ task[o].at = "go" /\ q \in Landing(task[o].arg)
           \/ /\ task[o].at = "click" /\ task[o].tool = "selectRoute" /\ page.kind = "directions"
              /\ q = OtherPage \/ \E r \in Route : q = [page EXCEPT !.route = r]
           \/ /\ task[o].at = "click" /\ task[o].tool = "selectPlace" /\ page.kind = "search"
              /\ q \in {page, OtherPage, [page EXCEPT !.kind = "place"]}
           \/ /\ task[o].at = "mark" /\ page.kind = "directions" /\ q = [page EXCEPT !.refined = TRUE]
<1>1. CASE task[o].at = "go"
  BY <1>1 DEF Effects
<1>2. CASE task[o].at = "click" /\ task[o].tool = "selectRoute" /\ page.kind = "directions"
  BY <1>2 DEF Effects
<1>3. CASE /\ task[o].at = "click" /\ task[o].tool = "selectPlace" /\ page.kind = "search"
  BY <1>3 DEF Effects
<1>4. CASE task[o].at = "mark" /\ page.kind = "directions" /\ ~ page.refined
  BY <1>4 DEF Effects
<1>5. CASE /\ task[o].at # "go"
           /\ ~ (task[o].at = "click" /\ task[o].tool = "selectRoute" /\ page.kind = "directions")
           /\ ~ (task[o].at = "click" /\ task[o].tool = "selectPlace" /\ page.kind = "search")
           /\ ~ (task[o].at = "mark" /\ page.kind = "directions" /\ ~ page.refined)
  BY <1>5 DEF Effects
<1> QED
  BY <1>1, <1>2, <1>3, <1>4, <1>5

LEMMA EffectsTyped ==
    ASSUME Shape, NEW o \in Operation, page' \in Effects(o)
    PROVE  PageShape'
<1> USE DEF Shape, PageShape
<1>1. CASE task[o].at = "go" /\ page' \in Landing(task[o].arg)
  <2>1. task[o].arg \in Action
    BY <1>1 DEF TaskShape, PlaceOf
  <2> QED
    BY <1>1, <2>1, LandingPages
<1>2. CASE page' = OtherPage
  BY <1>2, PagesTyped
<1>3. ASSUME NEW r \in Route, page' = [page EXCEPT !.route = r]
      PROVE  PageShape'
  BY <1>3 DEF PageType
<1>4. CASE page' = [page EXCEPT !.kind = "place"]
  BY <1>4 DEF PageType, Kinds
<1>5. CASE page' = [page EXCEPT !.refined = TRUE]
  BY <1>5 DEF PageType
<1>6. CASE page' = page
  BY <1>6
<1> QED
  BY <1>1, <1>2, <1>3, <1>4, <1>5, <1>6, EffectsAre

LEMMA RepliedLinked ==
    ASSUME Shape, NEW o \in Operation, NEW await, Replied(o, await)
    PROVE  /\ task[o].at = await
           /\ await \in Access => Live /\ chrome /\ client # 0
           /\ await \in Captured => chrome
<1>1. Live => client # 0 /\ chrome
  BY DEF Live, Shape, LinkShape
<1>2. task[o].held \in sockets => chrome
  BY DEF Shape, LinkShape
<1> QED
  BY <1>1, <1>2 DEF Replied

-----------------------------------------------------------------------------
(* Every segment of a tool keeps types. *)

PageKept == PageShape' /\ (chrome \/ page' = page)

LEMMA SamePage == Shape /\ UNCHANGED page => PageKept
  BY DEF Shape, PageShape, PageKept

LEMMA GoKept ==
    ASSUME Shape, NEW o \in Operation, Go(o)
    PROVE  Kept(o) /\ PageKept
<1>1. Replied(o, "go") /\ page' \in Effects(o) /\ Waits(o, task[o], "load")
  BY DEF Go
<1>2. chrome /\ task[o].at = "go"
  BY <1>1, RepliedLinked DEF Access
<1>3. task[o] \in TaskType /\ PlaceOf(task[o])
  BY DEF Shape, TaskShape
<1>4. PlaceOf(Next0(task[o], "load"))
  BY <1>2, <1>3 DEF PlaceOf, Next0, TaskType
<1>5. Kept(o)
  BY <1>1, <1>3, <1>4, WaitsKept DEF Shape, Timers
<1> QED
  BY <1>1, <1>2, <1>5, EffectsTyped DEF PageKept

LEMMA LoadedKept ==
    ASSUME Shape, NEW o \in Operation, Loaded(o)
    PROVE  Kept(o) /\ PageKept
<1>1. Goes(o, task[o], "url1") /\ UNCHANGED page
  BY DEF Loaded
<1>2. task[o] \in TaskType
  BY DEF Shape, TaskShape
<1>3. PlaceOf(Next0(task[o], "url1"))
  BY <1>2 DEF PlaceOf, Next0, TaskType
<1> QED
  BY <1>1, <1>2, <1>3, GoesKept, SamePage DEF Shape, Access

LEMMA ReadUrlKept ==
    ASSUME Shape, NEW o \in Operation, NEW await, NEW next \in {"inline1", "inline2", "inline3"},
           ReadUrl(o, await, next)
    PROVE  Kept(o) /\ PageKept
<1>1. UNCHANGED page
  BY DEF ReadUrl
<1>2. CASE Invalidates(o)
  BY <1>1, <1>2, InvalidatesKept, SamePage DEF Shape
<1>3. CASE Goes(o, [task[o] EXCEPT !.seen = page.kind], next)
  <2> DEFINE t == [task[o] EXCEPT !.seen = page.kind]
  <2>1. page.kind \in Kinds
    BY DEF Shape, PageShape, PageType
  <2>2. task[o] \in TaskType
    BY DEF Shape, TaskShape
  <2>3. t \in TaskType
    BY <2>1, <2>2 DEF TaskType
  <2> HIDE DEF t
  <2>4. PlaceOf(Next0(t, next))
    BY <2>3 DEF PlaceOf, Next0, TaskType
  <2>5. next \in Access
    BY DEF Access
  <2>6. Goes(o, t, next)
    BY <1>3 DEF t
  <2>7. Kept(o)
    BY <2>3, <2>4, <2>5, <2>6, GoesKept DEF Shape
  <2> QED
    BY <1>1, <2>7, SamePage
<1> QED
  BY <1>2, <1>3 DEF ReadUrl

LEMMA TaskTyped ==
    ASSUME Shape, NEW o \in Operation
    PROVE  task[o] \in TaskType /\ PlaceOf(task[o]) /\ TaskShape /\ MemoryShape
  BY DEF Shape, TaskShape

LEMMA FreshKept ==
    ASSUME Shape, NEW o \in Operation, NEW next \in {"same1", "same2"},
           task[o].tool = "recommended", Fresh(o, next)
    PROVE  Kept(o)
<1>1. PlaceOf(Next0(task[o], next)) /\ next \in Access
  BY TaskTyped DEF PlaceOf, Next0, TaskType, Access
<1> QED
  BY <1>1, TaskTyped, GoesKept, InvalidatesKept, FailsPlainlyKept DEF Fresh

LEMMA Checked1Kept ==
    ASSUME Shape, NEW o \in Operation, Checked1(o)
    PROVE  Kept(o) /\ PageKept
<1>1. UNCHANGED page
  BY DEF Checked1
<1>2. CASE task[o].tool = "navigate" /\ Navigated(o)
  <2> DEFINE m == [last |-> task[o].arg, view |-> KindOf(task[o].arg), route |-> NoRoute]
  <2>1. task[o].arg \in Action \cup {NoAction}
    BY TaskTyped DEF TaskType
  <2>2. m \in MemoryType
    BY <2>1, NamesTyped DEF MemoryType, KindOf, Views
  <2>3. Succeeds(o, m)
    BY <1>2 DEF Navigated
  <2> HIDE DEF m
  <2> QED
    BY <2>2, <2>3, <1>1, TaskTyped, SucceedsKept, SamePage
<1>3. CASE Leaves(o) /\ UNCHANGED <<memory, epoch>>
  BY <1>1, <1>3, TaskTyped, LeavesKept, SamePage DEF MemoryShape
<1>4. CASE Invalidates(o)
  BY <1>1, <1>4, TaskTyped, InvalidatesKept, SamePage
<1>5. CASE Goes(o, task[o], "click")
  <2>1. PlaceOf(Next0(task[o], "click")) /\ "click" \in Access
    BY TaskTyped DEF PlaceOf, Next0, TaskType, Access
  <2> QED
    BY <1>1, <1>5, <2>1, TaskTyped, GoesKept, SamePage
<1>6. CASE task[o].tool = "recommended" /\ Fresh(o, "same1")
  BY <1>1, <1>6, FreshKept, SamePage
<1> QED
  BY <1>2, <1>3, <1>4, <1>5, <1>6 DEF Checked1

LEMMA Checked2Kept ==
    ASSUME Shape, NEW o \in Operation, Checked2(o)
    PROVE  Kept(o) /\ PageKept
<1>1. UNCHANGED page
  BY DEF Checked2
<1>2. CASE Succeeds(o, [memory EXCEPT !.view = "place", !.route = NoRoute])
  <2>1. [memory EXCEPT !.view = "place", !.route = NoRoute] \in MemoryType
    BY TaskTyped, NamesTyped DEF MemoryShape, MemoryType, Views
  <2> QED
    BY <1>1, <1>2, <2>1, TaskTyped, SucceedsKept, SamePage
<1>3. CASE Succeeds(o, [memory EXCEPT !.view = "route", !.route = task[o].picked])
  <2>1. task[o].picked \in SelectedRoutes
    BY TaskTyped DEF TaskType
  <2>2. [memory EXCEPT !.view = "route", !.route = task[o].picked] \in MemoryType
    BY <2>1, TaskTyped DEF MemoryShape, MemoryType, Views
  <2> QED
    BY <1>1, <1>3, <2>2, TaskTyped, SucceedsKept, SamePage
<1>4. CASE Invalidates(o)
  BY <1>1, <1>4, TaskTyped, InvalidatesKept, SamePage
<1>5. CASE task[o].tool = "recommended" /\ Fresh(o, "same2")
  BY <1>1, <1>5, FreshKept, SamePage
<1> QED
  BY <1>2, <1>3, <1>4, <1>5 DEF Checked2

LEMMA Checked3Kept ==
    ASSUME Shape, NEW o \in Operation, Checked3(o)
    PROVE  Kept(o) /\ PageKept
<1>1. UNCHANGED page
  BY DEF Checked3
<1>2. CASE Invalidates(o) \/ FailsPlainly(o)
  BY <1>1, <1>2, TaskTyped, InvalidatesKept, FailsPlainlyKept, SamePage
<1>3. CASE task[o].tool = "recommended" /\ Waits(o, task[o], "verify")
  <2>1. PlaceOf(Next0(task[o], "verify")) /\ "verify" \in Captured
    BY <1>3, TaskTyped DEF PlaceOf, Next0, TaskType, Captured
  <2> QED
    BY <1>1, <1>3, <2>1, TaskTyped, WaitsKept, SamePage
<1> QED
  BY <1>2, <1>3 DEF Checked3

(* A task that goes on, with its fields or with others. *)
LEMMA GoesOnKept ==
    ASSUME Shape, NEW o \in Operation,
           NEW await \in {"url1", "url2", "url3", "inline2", "poll", "take"},
           await = "url2" => task[o].tool \in {"selectRoute", "recommended"},
           await = "poll" => task[o].tool = "selectPlace",
           await = "take" => task[o].tool = "recommended",
           Goes(o, task[o], await)
    PROVE  Kept(o)
<1>1. PlaceOf(Next0(task[o], await)) /\ await \in Access
  BY TaskTyped DEF PlaceOf, Next0, TaskType, Access
<1> QED
  BY <1>1, TaskTyped, GoesKept

LEMMA ClickKept ==
    ASSUME Shape, NEW o \in Operation, Click(o)
    PROVE  Kept(o) /\ PageKept
<1>1. Replied(o, "click")
  BY DEF Click
<1>2. CASE FailsPlainly(o) /\ UNCHANGED page
  BY <1>2, TaskTyped, FailsPlainlyKept, SamePage
<1>3. ASSUME page' \in Effects(o)
      PROVE  PageKept
  BY <1>1, <1>3, RepliedLinked, EffectsTyped DEF PageKept, Access
<1>4. CASE page' \in Effects(o) /\ task[o].tool = "selectPlace" /\ Goes(o, task[o], "poll")
  BY <1>3, <1>4, GoesOnKept
<1>5. CASE /\ page' \in Effects(o)
           /\ task[o].tool = "selectRoute" /\ page'.kind = "directions"
           /\ Waits(o, [task[o] EXCEPT !.picked = [of |-> page.of, route |-> page'.route]],
                    "settle")
  <2> DEFINE pick == [of |-> page.of, route |-> page'.route]
             t == [task[o] EXCEPT !.picked = pick]
  <2>1. task[o].at = "click"
    BY <1>1, RepliedLinked
  <2>2. page' # OtherPage
    BY <1>5, PagesTyped
  <2>3. PICK r \in Route : page' = [page EXCEPT !.route = r] /\ page.kind = "directions"
    BY <1>5, <2>1, <2>2, EffectsAre
  <2>4. page.of \in Directions /\ page'.route = r
    BY <2>3 DEF Shape, PageShape, PageType
  <2>5. pick \in SelectedRoutes
    BY <2>4 DEF SelectedRoutes
  <2> HIDE DEF pick
  <2>6. t \in TaskType /\ t.tool = "selectRoute"
    BY <1>5, <2>5, TaskTyped DEF TaskType
  <2>7. Waits(o, t, "settle")
    BY <1>5 DEF pick
  <2> HIDE DEF t
  <2>8. PlaceOf(Next0(t, "settle"))
    BY <2>6 DEF PlaceOf, Next0, TaskType, Access
  <2>9. Kept(o)
    BY <2>6, <2>7, <2>8, TaskTyped, WaitsKept DEF Timers
  <2> QED
    BY <1>3, <1>5, <2>9
<1>6. CASE page' \in Effects(o) /\ task[o].tool = "selectRoute" /\ Waits(o, task[o], "settle")
  <2>1. PlaceOf(Next0(task[o], "settle"))
    BY <1>6, TaskTyped DEF PlaceOf, Next0, TaskType, Access
  <2>2. Kept(o)
    BY <1>6, <2>1, TaskTyped, WaitsKept DEF Timers
  <2> QED
    BY <1>3, <1>6, <2>2
<1> QED
  BY <1>2, <1>4, <1>5, <1>6 DEF Click

LEMMA SettledKept ==
    ASSUME Shape, NEW o \in Operation, Settled(o)
    PROVE  Kept(o) /\ PageKept
<1>1. task[o].tool = "selectRoute"
  BY TaskTyped DEF Settled, Replied, PlaceOf
<1> QED
  BY <1>1, GoesOnKept, SamePage DEF Settled

LEMMA PollKept ==
    ASSUME Shape, NEW o \in Operation, Poll(o)
    PROVE  Kept(o) /\ PageKept
<1>1. Invalidates(o) \/ Goes(o, task[o], "inline2") \/ Goes(o, task[o], "url3")
  BY DEF Poll
<1> QED
  BY <1>1, TaskTyped, GoesOnKept, InvalidatesKept, SamePage DEF Poll

LEMMA SameKept ==
    ASSUME Shape, NEW o \in Operation, Same(o)
    PROVE  Kept(o) /\ PageKept
<1>1. UNCHANGED page
  BY DEF Same
<1>2. task[o].tool = "recommended"
  BY TaskTyped DEF Same, Replied, PlaceOf
<1>3. CASE FailsPlainly(o)
  BY <1>1, <1>3, TaskTyped, FailsPlainlyKept, SamePage
<1>4. CASE Goes(o, task[o], "take")
  BY <1>1, <1>2, <1>4, GoesOnKept, SamePage
<1>5. CASE Waits(o, task[o], "mark")
  <2>1. PlaceOf(Next0(task[o], "mark")) /\ "mark" \in Captured
    BY <1>2, TaskTyped DEF PlaceOf, Next0, TaskType, Access, Captured
  <2> QED
    BY <1>1, <1>5, <2>1, TaskTyped, WaitsKept, SamePage
<1> QED
  BY <1>3, <1>4, <1>5 DEF Same

LEMMA TakeKept ==
    ASSUME Shape, NEW o \in Operation, Take(o)
    PROVE  Kept(o) /\ PageKept
<1> DEFINE t == [task[o] EXCEPT !.held = client]
<1>1. task[o].tool = "recommended"
  BY TaskTyped DEF Take, Replied, PlaceOf
<1>2. client \in Nat
  BY DEF Shape, LinkShape
<1>3. t \in TaskType /\ t.tool = "recommended"
  BY <1>1, <1>2, TaskTyped DEF TaskType
<1>4. Goes(o, t, "url2")
  BY DEF Take
<1> HIDE DEF t
<1>5. PlaceOf(Next0(t, "url2")) /\ "url2" \in Access
  BY <1>3 DEF PlaceOf, Next0, TaskType, Access
<1> QED
  BY <1>3, <1>4, <1>5, TaskTyped, GoesKept, SamePage DEF Take

LEMMA MarkKept ==
    ASSUME Shape, NEW o \in Operation, Mark(o)
    PROVE  Kept(o) /\ PageKept
<1>1. Replied(o, "mark")
  BY DEF Mark
<1>2. task[o].tool = "recommended"
  BY <1>1, TaskTyped DEF Replied, PlaceOf
<1>3. CASE page' \in Effects(o) /\ Goes(o, [task[o] EXCEPT !.clicked = TRUE], "url3")
  <2> DEFINE t == [task[o] EXCEPT !.clicked = TRUE]
  <2>1. t \in TaskType
    BY TaskTyped DEF TaskType
  <2>2. Goes(o, t, "url3")
    BY <1>3
  <2> HIDE DEF t
  <2>3. PlaceOf(Next0(t, "url3")) /\ "url3" \in Access
    BY <2>1 DEF PlaceOf, Next0, TaskType, Access
  <2>4. Kept(o)
    BY <2>1, <2>2, <2>3, TaskTyped, GoesKept
  <2>5. PageKept
    BY <1>1, <1>3, RepliedLinked, EffectsTyped DEF PageKept, Captured
  <2> QED
    BY <2>4, <2>5
<1>4. CASE UNCHANGED page /\ (Goes(o, task[o], "url3") \/ Goes(o, task[o], "url2"))
  BY <1>2, <1>4, GoesOnKept, SamePage
<1>5. CASE UNCHANGED page /\ FailsPlainly(o)
  BY <1>5, TaskTyped, FailsPlainlyKept, SamePage
<1> QED
  BY <1>3, <1>4, <1>5 DEF Mark

LEMMA VerifyKept ==
    ASSUME Shape, NEW o \in Operation, Verify(o)
    PROVE  Kept(o) /\ PageKept
<1>1. UNCHANGED page
  BY DEF Verify
<1>2. CASE Succeeds(o, [memory EXCEPT !.last = NoAction, !.route = NoRoute])
  <2>1. [memory EXCEPT !.last = NoAction, !.route = NoRoute] \in MemoryType
    BY TaskTyped, NamesTyped DEF MemoryShape, MemoryType
  <2> QED
    BY <1>1, <1>2, <2>1, TaskTyped, SucceedsKept, SamePage
<1>3. CASE FailsPlainly(o)
  BY <1>1, <1>3, TaskTyped, FailsPlainlyKept, SamePage
<1>4. CASE Goes(o, task[o], "url3")
  BY <1>1, <1>4, GoesOnKept, SamePage
<1> QED
  BY <1>2, <1>3, <1>4 DEF Verify

LEMMA ToolKept ==
    ASSUME Shape, NEW o \in Operation, Tool(o)
    PROVE  Kept(o) /\ PageKept
<1>1. CASE ReadUrl(o, "url1", "inline1") \/ ReadUrl(o, "url2", "inline2")
           \/ ReadUrl(o, "url3", "inline3")
  BY <1>1, ReadUrlKept
<1>2. CASE Go(o) \/ Loaded(o) \/ Click(o) \/ Settled(o) \/ Poll(o) \/ Same(o) \/ Take(o)
  BY <1>2, GoKept, LoadedKept, ClickKept, SettledKept, PollKept, SameKept, TakeKept
<1>3. CASE Checked1(o) \/ Checked2(o) \/ Checked3(o) \/ Mark(o) \/ Verify(o)
  BY <1>3, Checked1Kept, Checked2Kept, Checked3Kept, MarkKept, VerifyKept
<1> QED
  BY <1>1, <1>2, <1>3 DEF Tool

-----------------------------------------------------------------------------
(* The steps. *)

(* A step of operation o that leaves the connection, but for sockets closed. *)
LEMMA KeptShape ==
    ASSUME Shape, NEW o \in Operation, Kept(o), PageKept, active' \in BOOLEAN,
           UNCHANGED <<client, attached, chrome, reset>>, sockets' \subseteq sockets,
           UsedShape'
    PROVE  Shape'
<1>1. MemoryShape' /\ TaskShape'
  BY DEF Kept, MemoryShape, TaskShape
<1>2. PageShape'
  BY DEF PageKept
<1>3. LinkShape'
  <2>1. ~ chrome' => sockets' = {} /\ page' = BlankPage
    BY DEF Shape, LinkShape, PageKept
  <2> QED
    BY <2>1 DEF Shape, LinkShape
<1>4. TurnShape'
  BY DEF Kept, Shape, TurnShape
<1> QED
  BY <1>1, <1>2, <1>3, <1>4 DEF Shape

LEMMA UsedCounts ==
    ASSUME UsedShape
    PROVE  /\ used.drops < MaxDrops =>
                [used EXCEPT !.drops = @ + 1] \in
                   [timeouts : 0 .. MaxTimeouts, drops : 0 .. MaxDrops,
                    moves : 0 .. MaxMoves, challenges : 0 .. MaxChallenges]
           /\ used.moves < MaxMoves =>
                [used EXCEPT !.moves = @ + 1] \in
                   [timeouts : 0 .. MaxTimeouts, drops : 0 .. MaxDrops,
                    moves : 0 .. MaxMoves, challenges : 0 .. MaxChallenges]
           /\ used.challenges < MaxChallenges =>
                [used EXCEPT !.challenges = @ + 1] \in
                   [timeouts : 0 .. MaxTimeouts, drops : 0 .. MaxDrops,
                    moves : 0 .. MaxMoves, challenges : 0 .. MaxChallenges]
           /\ used.timeouts < MaxTimeouts =>
                [used EXCEPT !.timeouts = @ + 1] \in
                   [timeouts : 0 .. MaxTimeouts, drops : 0 .. MaxDrops,
                    moves : 0 .. MaxMoves, challenges : 0 .. MaxChallenges]
<1>1. MaxTimeouts \in Nat /\ MaxDrops \in Nat /\ MaxMoves \in Nat /\ MaxChallenges \in Nat
  BY BoundAssumption
<1>2. /\ used.timeouts \in 0 .. MaxTimeouts /\ used.drops \in 0 .. MaxDrops
      /\ used.moves \in 0 .. MaxMoves /\ used.challenges \in 0 .. MaxChallenges
  BY DEF UsedShape
<1> QED
  BY <1>1, <1>2 DEF UsedShape

LEMMA StartShape ==
    ASSUME Shape, NEW o \in Operation, Start(o)
    PROVE  Shape'
<1> PICK k \in Tools, a \in Action \cup {NoAction} :
      /\ a \in ArgumentsOf(k)
      /\ \/ active /\ task' = [task EXCEPT ![o].at = "done"] /\ UNCHANGED turn
         \/ /\ ~ active /\ turn' = o
            /\ task' = [task EXCEPT ![o] =
                           [[NoTask EXCEPT !.tool = k, !.arg = a]
                               EXCEPT !.at = IF k = "navigate" THEN "go" ELSE "url1"]]
  BY DEF Start
<1>1. UNCHANGED <<memoryVars, browserVars, reset, historyVars>> /\ turn = NoOperation
      /\ task[o].at = "idle"
  BY DEF Start
<1>2. task \in [Operation -> TaskType] /\ \A p \in Operation : PlaceOf(task[p])
  BY DEF Shape, TaskShape
<1>3. TaskShape' /\ TurnShape'
  <2>1. CASE active /\ task' = [task EXCEPT ![o].at = "done"] /\ UNCHANGED turn
    <3> DEFINE d == [task[o] EXCEPT !.at = "done"]
    <3>1. d \in TaskType
      BY <1>2 DEF TaskType
    <3>2. PlaceOf(d)
      BY <1>1, <1>2 DEF PlaceOf, TaskType, Access
    <3>3. task' = [task EXCEPT ![o] = d]
      BY <2>1
    <3> HIDE DEF d
    <3>4. task' \in [Operation -> TaskType] /\ \A p \in Operation : task'[p] \in {d, task[p]}
      BY <1>2, <3>1, <3>3
    <3>5. TaskShape'
      BY <1>2, <3>2, <3>4 DEF TaskShape
    <3> QED
      BY <1>1, <2>1, <3>5 DEF Shape, TurnShape
  <2>2. CASE /\ ~ active /\ turn' = o
             /\ task' = [task EXCEPT ![o] =
                           [[NoTask EXCEPT !.tool = k, !.arg = a]
                               EXCEPT !.at = IF k = "navigate" THEN "go" ELSE "url1"]]
    <3> DEFINE d == [[NoTask EXCEPT !.tool = k, !.arg = a]
                               EXCEPT !.at = IF k = "navigate" THEN "go" ELSE "url1"]
    <3> DEFINE b == [NoTask EXCEPT !.tool = k, !.arg = a]
               w == IF k = "navigate" THEN "go" ELSE "url1"
    <3>a. b \in TaskType /\ b.tool = k /\ b.arg = a /\ b.link = "ask"
      BY NamesTyped DEF NoTask, TaskType
    <3>b. w \in Access
      BY DEF Access
    <3> HIDE DEF b, w
    <3>c. [b EXCEPT !.at = w] \in TaskType /\ [b EXCEPT !.at = w].at = w
          /\ [b EXCEPT !.at = w].tool = k /\ [b EXCEPT !.at = w].arg = a
          /\ [b EXCEPT !.at = w].link = "ask"
      BY <3>a, <3>b DEF TaskType
    <3>1. d \in TaskType /\ d.tool = k /\ d.arg = a /\ d.link = "ask" /\ d.at = w
      BY <3>c DEF b, w
    <3>2. k = "navigate" => a \in Action
      BY DEF ArgumentsOf
    <3>3. task' = [task EXCEPT ![o] = d]
      BY <2>2
    <3> HIDE DEF d
    <3>4. PlaceOf(d)
      BY <3>1, <3>2 DEF PlaceOf, w
    <3>5. task' \in [Operation -> TaskType] /\ \A p \in Operation : task'[p] \in {d, task[p]}
      BY <1>2, <3>1, <3>3
    <3>6. TaskShape'
      BY <1>2, <3>4, <3>5 DEF TaskShape
    <3>7. reset = "no"
      BY <1>1 DEF Shape, TurnShape
    <3> QED
      BY <1>1, <2>2, <3>6, <3>7 DEF TurnShape
  <2> QED
    BY <2>1, <2>2
<1>4. MemoryShape' /\ PageShape' /\ LinkShape' /\ UsedShape'
  BY <1>1 DEF Shape, MemoryShape, PageShape, LinkShape, UsedShape, memoryVars, browserVars,
             historyVars
<1> QED
  BY <1>3, <1>4 DEF Shape

LEMMA ToolShape ==
    ASSUME Shape, NEW o \in Operation, TaskStep(o, Tool(o))
    PROVE  Shape'
<1>1. Tool(o) /\ UNCHANGED <<active, client, attached, sockets, chrome, reset, historyVars>>
  BY DEF TaskStep
<1>2. UsedShape' /\ active' \in BOOLEAN
  BY <1>1 DEF Shape, UsedShape, MemoryShape, historyVars
<1> QED
  BY <1>1, <1>2, ToolKept, KeptShape

LEMMA ChallengeShape ==
    ASSUME Shape, NEW o \in Operation, Challenge(o)
    PROVE  Shape'
<1>1. PICK await \in {"url1", "inline1", "url2", "inline2", "url3", "inline3", "poll"} :
         Replied(o, await)
  BY DEF Challenge
<1>2. chrome
  BY <1>1, RepliedLinked DEF Access
<1>3. /\ active' = TRUE /\ page' = OtherPage
      /\ UNCHANGED <<client, attached, sockets, chrome, reset, calm>>
  BY DEF Challenge
<1>4. PageKept
  BY <1>2, <1>3, PagesTyped DEF PageKept, PageShape
<1>5. UsedShape'
  BY <1>3, UsedCounts DEF Challenge, UsedShape, Shape
<1>6. Kept(o)
  <2> DEFINE e == IF active THEN epoch ELSE epoch + 1
  <2>1. e \in Nat
    BY DEF Shape, MemoryShape
  <2>2. Fails(o, task[o], NoMemory, e, TRUE)
    BY DEF Challenge
  <2> HIDE DEF e
  <2> QED
    BY <2>1, <2>2, TaskTyped, NamesTyped, FailsKept
<1> QED
  BY <1>3, <1>4, <1>5, <1>6, KeptShape

LEMMA ReplyLostShape ==
    ASSUME Shape, NEW o \in Operation, ReplyLost(o)
    PROVE  Shape'
<1>1. PICK await \in {"go", "click", "mark"} : Replied(o, await)
  BY DEF ReplyLost
<1>2. chrome
  BY <1>1, RepliedLinked DEF Access, Captured
<1>3. /\ page' \in Effects(o) /\ sockets' = sockets \ {client} /\ FailsPlainly(o)
      /\ UNCHANGED <<active, client, attached, chrome, reset, calm>>
  BY DEF ReplyLost
<1>4. PageKept
  BY <1>2, <1>3, EffectsTyped DEF PageKept
<1>5. UsedShape' /\ active' \in BOOLEAN
  BY <1>3, UsedCounts DEF ReplyLost, UsedShape, Shape, MemoryShape
<1>6. Kept(o)
  BY <1>3, TaskTyped, FailsPlainlyKept
<1> QED
  BY <1>3, <1>4, <1>5, <1>6, KeptShape

LEMMA FailureShape ==
    ASSUME Shape, NEW o \in Operation,
           AttachFails(o) \/ AccessFails(o) \/ EvaluationFails(o)
    PROVE  Shape'
<1>1. FailsPlainly(o) \/ Invalidates(o)
  BY DEF AttachFails, AccessFails, EvaluationFails
<1>2. Kept(o)
  BY <1>1, TaskTyped, FailsPlainlyKept, InvalidatesKept
<1>3. UNCHANGED <<active, browserVars, reset, used>> /\ calm' \in {calm, FALSE}
  BY DEF AttachFails, AccessFails, EvaluationFails, historyVars
<1>4. UsedShape' /\ active' \in BOOLEAN
  BY <1>3 DEF Shape, UsedShape, MemoryShape
<1>5. PageKept
  BY <1>3, SamePage DEF browserVars
<1> QED
  BY <1>2, <1>3, <1>4, <1>5, KeptShape DEF browserVars

LEMMA ReconnectShape ==
    ASSUME Shape, NEW o \in Operation, Reconnect(o)
    PROVE  Shape'
<1> DEFINE d == [task[o] EXCEPT !.link = "connecting"]
<1>1. task[o].at \in Access /\ task' = [task EXCEPT ![o] = d] /\ client' = 0
      /\ UNCHANGED <<active, attached, sockets, chrome, page, queueVars, historyVars>>
  BY DEF Reconnect
<1>2. d \in TaskType
  BY TaskTyped DEF TaskType
<1>3. PlaceOf(d)
  BY <1>1, TaskTyped DEF PlaceOf, TaskType
<1> HIDE DEF d
<1>4. task \in [Operation -> TaskType] /\ \A p \in Operation : PlaceOf(task[p])
  BY TaskTyped DEF TaskShape
<1>5. task' \in [Operation -> TaskType] /\ \A p \in Operation : task'[p] \in {d, task[p]}
  BY <1>1, <1>2, <1>4
<1>6. TaskShape'
  BY <1>3, <1>4, <1>5 DEF TaskShape
<1>7. MemoryShape'
  BY <1>1, NamesTyped DEF Shape, MemoryShape, Reconnect
<1>8. LinkShape'
  BY <1>1 DEF Shape, LinkShape
<1>9. PageShape' /\ TurnShape' /\ UsedShape'
  BY <1>1 DEF Shape, PageShape, TurnShape, UsedShape, queueVars, historyVars
<1> QED
  BY <1>6, <1>7, <1>8, <1>9 DEF Shape

LEMMA AttachShape ==
    ASSUME Shape, NEW o \in Operation, Attach(o)
    PROVE  Shape'
<1> DEFINE d == [task[o] EXCEPT !.link = "answered"]
<1>1. task' = [task EXCEPT ![o] = d] /\ attached' = attached + 1 /\ client' = attached'
      /\ sockets' = sockets \cup {attached'} /\ chrome' = TRUE
      /\ UNCHANGED <<epoch, active, page, queueVars, historyVars>>
  BY DEF Attach
<1>2. d \in TaskType
  BY TaskTyped DEF TaskType
<1>3. PlaceOf(d)
  BY TaskTyped DEF PlaceOf, TaskType
<1> HIDE DEF d
<1>4. task \in [Operation -> TaskType] /\ \A p \in Operation : PlaceOf(task[p])
  BY TaskTyped DEF TaskShape
<1>5. task' \in [Operation -> TaskType] /\ \A p \in Operation : task'[p] \in {d, task[p]}
  BY <1>1, <1>2, <1>4
<1>6. TaskShape'
  BY <1>3, <1>4, <1>5 DEF TaskShape
<1>7. MemoryShape'
  <2>1. memory' \in {memory, [memory EXCEPT !.view = "blank"]}
    BY DEF Attach
  <2>2. [memory EXCEPT !.view = "blank"] \in MemoryType
    BY TaskTyped DEF MemoryShape, MemoryType, Views
  <2> QED
    BY <1>1, <2>1, <2>2, TaskTyped DEF MemoryShape
<1>8. LinkShape'
  <2>1. attached \in Nat /\ client \in Nat /\ sockets \subseteq 1 .. attached
    BY DEF Shape, LinkShape
  <2>2. attached' \in Nat /\ client' \in Nat /\ client' <= attached'
    BY <1>1, <2>1
  <2>3. attached' \in 1 .. attached' /\ 1 .. attached \subseteq 1 .. attached'
    BY <1>1, <2>1
  <2>4. sockets' \subseteq 1 .. attached'
    BY <1>1, <2>1, <2>3
  <2> QED
    BY <1>1, <2>2, <2>4 DEF LinkShape
<1>9. PageShape' /\ TurnShape' /\ UsedShape'
  BY <1>1 DEF Shape, PageShape, TurnShape, UsedShape, queueVars, historyVars
<1> QED
  BY <1>6, <1>7, <1>8, <1>9 DEF Shape

LEMMA ResetShape ==
    ASSUME Shape, (\E o \in Operation : Timeout(o)) \/ ResetForgets \/ ResetEnds
    PROVE  Shape'
<1>1. ASSUME NEW o \in Operation, Timeout(o)
      PROVE  Shape'
  <2>1. turn = o /\ reset' = "dropped" /\ sockets' = sockets \ {client} /\ client' = 0
        /\ calm' = FALSE
        /\ UNCHANGED <<memoryVars, attached, chrome, page, task, turn>>
    BY <1>1 DEF Timeout, Detach
  <2>2. UsedShape'
    BY <1>1, <2>1, UsedCounts DEF Timeout, UsedShape, Shape
  <2>3. LinkShape'
    BY <2>1 DEF Shape, LinkShape
  <2>4. TurnShape'
    BY <2>1, NamesAssumption DEF Shape, TurnShape
  <2>5. MemoryShape' /\ PageShape' /\ TaskShape'
    BY <2>1 DEF Shape, MemoryShape, PageShape, TaskShape, memoryVars
  <2> QED
    BY <2>2, <2>3, <2>4, <2>5 DEF Shape
<1>2. CASE ResetForgets
  <2>1. MemoryShape'
    <3>1. memory' = NoMemory /\ epoch' = epoch + 1 /\ active' = FALSE
      BY <1>2 DEF ResetForgets
    <3>2. epoch + 1 \in Nat
      BY DEF Shape, MemoryShape
    <3> QED
      BY <3>1, <3>2, NamesTyped DEF MemoryShape
  <2>2. TurnShape'
    BY <1>2 DEF ResetForgets, Shape, TurnShape
  <2>3. PageShape' /\ LinkShape' /\ TaskShape' /\ UsedShape'
    BY <1>2 DEF ResetForgets, Shape, PageShape, LinkShape, TaskShape, UsedShape, browserVars,
                historyVars
  <2> QED
    BY <2>1, <2>2, <2>3 DEF Shape
<1>3. CASE ResetEnds
  <2>1. PageShape'
    BY <1>3, PagesTyped DEF ResetEnds, ChromeStops, PageShape
  <2>2. LinkShape'
    BY <1>3 DEF ResetEnds, ChromeStops, Shape, LinkShape
  <2>3. TurnShape'
    BY <1>3 DEF ResetEnds, TurnShape
  <2>4. MemoryShape' /\ TaskShape' /\ UsedShape'
    BY <1>3 DEF ResetEnds, Shape, MemoryShape, TaskShape, UsedShape, memoryVars, historyVars
  <2> QED
    BY <2>1, <2>2, <2>3, <2>4 DEF Shape
<1> QED
  BY <1>1, <1>2, <1>3

LEMMA HumanShape ==
    ASSUME Shape, HumanTakes \/ HumanEnds
    PROVE  Shape'
<1>1. CASE HumanTakes
  <2>1. PageShape'
    BY <1>1, PagesTyped DEF HumanTakes, ChromeStops, PageShape
  <2>2. LinkShape'
    <3>1. client' = 0 /\ sockets' = {} /\ chrome' = FALSE /\ page' = BlankPage
          /\ attached' = attached
      BY <1>1 DEF HumanTakes, ChromeStops
    <3>2. attached \in Nat /\ 0 <= attached
      BY DEF Shape, LinkShape
    <3> QED
      BY <3>1, <3>2 DEF LinkShape
  <2>3. MemoryShape'
    BY <1>1, NamesTyped DEF HumanTakes, Shape, MemoryShape
  <2>4. TurnShape' /\ TaskShape' /\ UsedShape'
    BY <1>1 DEF HumanTakes, Shape, TurnShape, TaskShape, UsedShape, queueVars, historyVars
  <2> QED
    BY <2>1, <2>2, <2>3, <2>4 DEF Shape
<1>2. CASE HumanEnds
  <2>1. MemoryShape'
    <3>1. memory' = memory /\ epoch' = epoch + 1 /\ active' = FALSE
      BY <1>2 DEF HumanEnds
    <3>2. epoch + 1 \in Nat /\ memory \in MemoryType
      BY DEF Shape, MemoryShape
    <3> QED
      BY <3>1, <3>2 DEF MemoryShape
  <2>2. PageShape' /\ LinkShape' /\ TurnShape' /\ TaskShape' /\ UsedShape'
    BY <1>2 DEF HumanEnds, Shape, PageShape, LinkShape, TurnShape, TaskShape, UsedShape,
                browserVars, queueVars, historyVars
  <2> QED
    BY <2>1, <2>2 DEF Shape
<1> QED
  BY <1>1, <1>2

LEMMA WorldShape ==
    ASSUME Shape, Move \/ Drop
    PROVE  Shape'
<1>1. CASE Move
  <2>1. PageShape'
    <3>1. ASSUME NEW a \in Action, page' = Page(KindOf(a), a)
          PROVE  PageShape'
      <4>1. KindOf(a) \in Kinds /\ (KindOf(a) = "directions" => a \in Directions)
        BY DEF KindOf, Kinds
      <4> QED
        BY <3>1, <4>1, PagesTyped DEF PageShape
    <3>2. CASE page' = OtherPage
      BY <3>2, PagesTyped DEF PageShape
    <3> QED
      BY <1>1, <3>1, <3>2 DEF Move
  <2>2. UsedShape'
    BY <1>1, UsedCounts DEF Move, UsedShape, Shape
  <2>3. LinkShape'
    BY <1>1 DEF Move, Shape, LinkShape
  <2>4. MemoryShape' /\ TurnShape' /\ TaskShape'
    BY <1>1 DEF Move, Shape, MemoryShape, TurnShape, TaskShape, memoryVars, queueVars
  <2> QED
    BY <2>1, <2>2, <2>3, <2>4 DEF Shape
<1>2. CASE Drop
  <2>1. UsedShape'
    BY <1>2, UsedCounts DEF Drop, UsedShape, Shape
  <2>2. LinkShape' /\ PageShape'
    <3>1. CASE sockets' = sockets \ {client} /\ UNCHANGED <<chrome, page, calm>>
      BY <1>2, <3>1 DEF Drop, Shape, LinkShape, PageShape
    <3>2. CASE sockets' = {} /\ ChromeStops
      BY <1>2, <3>2, PagesTyped DEF Drop, ChromeStops, Shape, LinkShape, PageShape
    <3> QED
      BY <1>2, <3>1, <3>2 DEF Drop
  <2>3. MemoryShape' /\ TurnShape' /\ TaskShape'
    BY <1>2 DEF Drop, Shape, MemoryShape, TurnShape, TaskShape, memoryVars, queueVars
  <2> QED
    BY <2>1, <2>2, <2>3 DEF Shape
<1> QED
  BY <1>1, <1>2

LEMMA StutterShape == Shape /\ UNCHANGED vars => Shape'
  BY DEF Shape, vars, memoryVars, browserVars, queueVars, historyVars, MemoryShape,
         PageShape, LinkShape, TurnShape, UsedShape, TaskShape

LEMMA NextShape == Shape /\ [Next]_vars => Shape'
<1> SUFFICES ASSUME Shape, [Next]_vars
             PROVE  Shape'
  OBVIOUS
<1>1. ASSUME NEW o \in Operation,
             Start(o) \/ TaskStep(o, Tool(o)) \/ Challenge(o) \/ ReplyLost(o)
      PROVE  Shape'
  BY <1>1, StartShape, ToolShape, ChallengeShape, ReplyLostShape
<1>2. ASSUME NEW o \in Operation,
             Reconnect(o) \/ Attach(o) \/ AttachFails(o) \/ AccessFails(o) \/ EvaluationFails(o)
      PROVE  Shape'
  BY <1>2, ReconnectShape, AttachShape, FailureShape
<1>3. ASSUME NEW o \in Operation, Timeout(o)
      PROVE  Shape'
  BY <1>3, ResetShape
<1>4. CASE ResetForgets \/ ResetEnds \/ HumanTakes \/ HumanEnds \/ Move \/ Drop
  BY <1>4, ResetShape, HumanShape, WorldShape
<1>5. CASE UNCHANGED vars
  BY <1>5, StutterShape
<1> QED
  BY <1>1, <1>2, <1>3, <1>4, <1>5 DEF Next

LEMMA ShapeHolds == Spec => []Shape
<1>1. Init => Shape
  BY InitShape
<1>2. Shape /\ [Next]_vars => Shape'
  BY NextShape
<1> QED
  BY <1>1, <1>2, PTL DEF Spec

(* What the runtime remembers, the page, the tasks and the connection keep their
   shape: a client that was attached, no socket and no page without Chrome, and
   a reset only for an operation that has the turn. *)
THEOREM TypeCorrect == Spec => []TypeOK
  BY ShapeHolds, ShapeTypeOK, PTL

-----------------------------------------------------------------------------
(* The epoch. *)

(* What a step does to the selected route and the replayable request. *)
Fenced ==
    ~ active /\ (memory'.last # memory.last \/ memory'.route # memory.route) => epoch' > epoch

LEMMA FailsFenced ==
    ASSUME Shape, NEW o \in Operation, NEW t,
           NEW m, NEW e \in Nat, NEW human, Fails(o, t, m, e, human),
           (m = memory /\ e = epoch) \/ e = epoch + 1
    PROVE  Fenced
<1>1. epoch \in Nat
  BY DEF Shape, MemoryShape
<1>2. \/ memory' = m /\ epoch' = e
      \/ epoch' = e + 1
  BY DEF Fails
<1> QED
  BY <1>1, <1>2 DEF Fenced

LEMMA EndsFenced ==
    ASSUME Shape, NEW o \in Operation
    PROVE  /\ FailsPlainly(o) => Fenced
           /\ Invalidates(o) => Fenced
           /\ \A t, w : Waits(o, t, w) => Fenced
           /\ \A t, w : Goes(o, t, w) => Fenced
           /\ \A m : Succeeds(o, m) => Fenced
           /\ UNCHANGED <<memory, epoch>> => Fenced
<1>1. epoch \in Nat /\ epoch + 1 \in Nat
  BY DEF Shape, MemoryShape
<1>2. FailsPlainly(o) => Fenced
  BY <1>1, FailsFenced DEF FailsPlainly
<1>3. Invalidates(o) => Fenced
  BY <1>1, FailsFenced DEF Invalidates
<1>4. \A t, w : Waits(o, t, w) => Fenced
  BY DEF Waits, Fenced
<1>5. \A t, w : Goes(o, t, w) => Fenced
  BY <1>4 DEF Goes, Fenced
<1>6. \A m : Succeeds(o, m) => Fenced
  BY <1>1 DEF Succeeds, Fenced
<1>7. UNCHANGED <<memory, epoch>> => Fenced
  BY DEF Fenced
<1> QED
  BY <1>2, <1>3, <1>4, <1>5, <1>6, <1>7

LEMMA ToolFenced ==
    ASSUME Shape, NEW o \in Operation, Tool(o)
    PROVE  Fenced
<1>1. CASE \E w, n : ReadUrl(o, w, n)
  BY <1>1, EndsFenced DEF ReadUrl
<1>2. CASE Go(o) \/ Loaded(o) \/ Settled(o) \/ Poll(o) \/ Same(o) \/ Take(o)
  BY <1>2, EndsFenced DEF Go, Loaded, Settled, Poll, Same, Take
<1>3. CASE Click(o)
  BY <1>3, EndsFenced DEF Click
<1>4. ASSUME NEW n, Fresh(o, n)
      PROVE  Fenced
  BY <1>4, EndsFenced DEF Fresh
<1>5. CASE Checked1(o)
  BY <1>4, <1>5, EndsFenced DEF Checked1, Navigated
<1>6. CASE Checked2(o) \/ Checked3(o)
  BY <1>4, <1>6, EndsFenced DEF Checked2, Checked3
<1>7. CASE Mark(o) \/ Verify(o)
  BY <1>7, EndsFenced DEF Mark, Verify
<1> QED
  BY <1>1, <1>2, <1>3, <1>5, <1>6, <1>7 DEF Tool

LEMMA NextFenced == Shape /\ [Next]_vars => Fenced
<1> SUFFICES ASSUME Shape, [Next]_vars
             PROVE  Fenced
  OBVIOUS
<1>1. epoch \in Nat
  BY DEF Shape, MemoryShape
<1>2. ASSUME NEW o \in Operation, Start(o) \/ Timeout(o)
      PROVE  Fenced
  BY <1>2 DEF Start, Timeout, memoryVars, Fenced
<1>3. ASSUME NEW o \in Operation, TaskStep(o, Tool(o))
      PROVE  Fenced
  BY <1>3, ToolFenced DEF TaskStep
<1>4. ASSUME NEW o \in Operation, Challenge(o)
      PROVE  Fenced
  <2>1. CASE active
    BY <2>1 DEF Fenced
  <2>2. CASE ~ active
    <3>1. Fails(o, task[o], NoMemory, epoch + 1, TRUE)
      BY <1>4, <2>2 DEF Challenge
    <3>2. epoch + 1 \in Nat
      BY <1>1
    <3> QED
      BY <3>1, <3>2, FailsFenced
  <2> QED
    BY <2>1, <2>2
<1>5. ASSUME NEW o \in Operation,
             ReplyLost(o) \/ AttachFails(o) \/ AccessFails(o) \/ EvaluationFails(o)
      PROVE  Fenced
  BY <1>5, EndsFenced DEF ReplyLost, AttachFails, AccessFails, EvaluationFails
<1>6. ASSUME NEW o \in Operation, Reconnect(o)
      PROVE  Fenced
  BY <1>1, <1>6 DEF Reconnect, Fenced
<1>7. ASSUME NEW o \in Operation, Attach(o)
      PROVE  Fenced
  <2>1. memory' \in {memory, [memory EXCEPT !.view = "blank"]}
    BY <1>7 DEF Attach
  <2>2. memory'.last = memory.last /\ memory'.route = memory.route
    BY <2>1, TaskTyped DEF Shape, MemoryShape, MemoryType
  <2> QED
    BY <2>2 DEF Fenced
<1>8. CASE ResetForgets \/ HumanTakes \/ HumanEnds
  BY <1>1, <1>8 DEF ResetForgets, HumanTakes, HumanEnds, Fenced
<1>9. CASE ResetEnds \/ Move \/ Drop \/ UNCHANGED vars
  BY <1>9 DEF ResetEnds, Move, Drop, vars, memoryVars, Fenced
<1> QED
  BY <1>2, <1>3, <1>4, <1>5, <1>6, <1>7, <1>8, <1>9 DEF Next

(* While the agent has control, a route or a replayable request is only ever
   replaced together with the epoch, whatever tasks that were given up do. *)
THEOREM EpochFenceHolds == Spec => EpochFence
<1>1. Shape /\ [Next]_vars =>
        [~ active /\ (memory'.last # memory.last \/ memory'.route # memory.route) =>
            epoch' > epoch]_vars
  BY NextFenced DEF Fenced
<1> QED
  BY <1>1, ShapeHolds, PTL DEF Spec, EpochFence

-----------------------------------------------------------------------------
(* Before the first timeout. *)

Running(o) == task[o].at \notin {"idle", "done"}
Blank == memory.last = NoAction /\ memory.route = NoRoute

(* One task runs, and none while an intervention is active; without a client
   there is nothing to remember. *)
Order ==
    /\ reset = "no"
    /\ \A o \in Operation : Running(o) => turn = o
    /\ \A o \in Operation : task[o].link = "connecting" => client = 0
    /\ active => turn = NoOperation /\ Blank
    /\ client = 0 => Blank

(* The page is loaded and not remembered yet, the task t has clicked and not
   verified it yet, or it has chosen what it does not remember yet. *)
Landed(t) == t.at = "load" \/ (t.tool = "navigate" /\ t.at \in {"url1", "inline1"})
Mid(t) == t.clicked /\ t.at \in {"url3", "inline3", "verify"}
RouteChosen(t) == t.tool = "selectRoute" /\ t.at \in {"settle", "url2", "inline2"}
PlaceChosen(t) == t.tool = "selectPlace" /\ t.at \in {"poll", "inline2", "url3", "inline3"}
Between(t) == Landed(t) \/ RouteChosen(t) \/ PlaceChosen(t)

Unreplayable ==
    /\ \A o \in Operation : Landed(task[o]) => page.refined = FALSE
    /\ page.refined =>
          memory.last = NoAction \/ ~ Live \/ \E o \in Operation : Mid(task[o])

LastMatches == memory.last # NoAction => page.of = memory.last
RouteMatches ==
    memory.route # NoRoute =>
        page.of = memory.route.of /\ page.route = memory.route.route

(* What the page is while it is ahead of the memory. *)
Ahead(o) ==
    /\ Landed(task[o]) => page.of = task[o].arg
    /\ RouteChosen(task[o]) =>
          /\ task[o].at = "inline2" => task[o].seen = page.kind
          /\ page.kind = "directions" =>
                /\ page.of = task[o].picked.of /\ page.route = task[o].picked.route
                /\ Live => LastMatches
    /\ PlaceChosen(task[o]) =>
          /\ task[o].at = "inline2" => page.kind = "place"
          /\ page = OtherPage \/ (Live => LastMatches)

Matching ==
    /\ \A o \in Operation : Ahead(o)
    /\ Live /\ (\A o \in Operation : ~ Between(task[o])) => LastMatches /\ RouteMatches

Remembered == Order /\ Unreplayable /\ (calm => Matching)

RuntimeInv ==
    /\ Shape
    /\ used.timeouts = 0 => Remembered
    /\ calm => used.timeouts = 0

-----------------------------------------------------------------------------
(* The task that runs, and how its segments end. *)

Done == [NoTask EXCEPT !.at = "done"]
Left(o) == task' = [task EXCEPT ![o] = Done] /\ turn' = NoOperation
Moved(o, t) == task' = [task EXCEPT ![o] = t] /\ UNCHANGED <<turn, memory>>

LEMMA Alone ==
    ASSUME Shape, Order, NEW o \in Operation, Running(o)
    PROVE  /\ turn = o /\ active = FALSE
           /\ \A p \in Operation : p # o => ~ Running(p)
  BY NamesAssumption DEF Order, Shape, MemoryShape

LEMMA RestingTasks ==
    ASSUME NEW t, t.at \in {"idle", "done"}
    PROVE  ~ Between(t) /\ ~ Mid(t)
  BY DEF Between, Landed, RouteChosen, PlaceChosen, Mid

LEMMA OthersRest ==
    ASSUME Shape, Order, NEW o \in Operation, Running(o)
    PROVE  \A p \in Operation : p # o => ~ Between(task[p]) /\ ~ Mid(task[p])
<1> SUFFICES ASSUME NEW p \in Operation, p # o
             PROVE  ~ Between(task[p]) /\ ~ Mid(task[p])
  OBVIOUS
<1>1. ~ Running(p)
  BY Alone
<1>2. task[p].at \in {"idle", "done"}
  BY <1>1 DEF Running
<1> QED
  BY <1>2, RestingTasks

LEMMA DoneRests == Done.at = "done" /\ Done.link = "ask" /\ ~ Between(Done) /\ ~ Mid(Done)
<1>1. Done.at = "done" /\ Done.link = "ask"
  BY DEF Done, NoTask
<1> QED
  BY <1>1, RestingTasks

LEMMA EndsAlone ==
    ASSUME Shape, Order, NEW o \in Operation, Running(o)
    PROVE  /\ FailsPlainly(o) =>
                /\ Left(o) /\ (memory' = memory \/ Blank')
                /\ task[o].clicked => memory'.last = NoAction
           /\ Invalidates(o) => Left(o) /\ Blank'
           /\ \A m : Succeeds(o, m) => Left(o) /\ memory' = m
           /\ \A t, w : Waits(o, t, w) \/ Goes(o, t, w) => Moved(o, Next0(t, w))
<1>1. turn = o /\ active = FALSE /\ reset = "no"
  BY Alone DEF Order
<1>2. Leaves(o) => Left(o)
  BY <1>1 DEF Leaves, Left, Done
<1>3. ASSUME memory' = NoMemory
      PROVE  Blank'
  BY <1>3 DEF NoMemory, Blank
<1>4. FailsPlainly(o) =>
                /\ Left(o) /\ (memory' = memory \/ Blank')
                /\ task[o].clicked => memory'.last = NoAction
  BY <1>1, <1>2, <1>3 DEF FailsPlainly, Fails, NoMemory
<1>5. Invalidates(o) => Left(o) /\ Blank'
  BY <1>2, <1>3 DEF Invalidates, Fails
<1>6. \A m : Succeeds(o, m) => Left(o) /\ memory' = m
  BY <1>2 DEF Succeeds
<1>7. \A t, w : Waits(o, t, w) => Moved(o, Next0(t, w))
  BY DEF Waits, Moved, Next0
<1>8. \A t, w : Goes(o, t, w) => Moved(o, Next0(t, w))
  BY <1>1, <1>7 DEF Goes
<1> QED
  BY <1>4, <1>5, <1>6, <1>7, <1>8

(* What the running task leaves, and where the others are. *)
LEMMA LeftTasks ==
    ASSUME Shape, Order, NEW o \in Operation, Running(o), Left(o)
    PROVE  \A p \in Operation :
              task'[p].at \in {"idle", "done"} /\ (task'[p].link = "connecting" => client = 0)
<1> SUFFICES ASSUME NEW p \in Operation
             PROVE  task'[p].at \in {"idle", "done"} /\ (task'[p].link = "connecting" => client = 0)
  OBVIOUS
<1>1. task' = [task EXCEPT ![o] = Done] /\ task \in [Operation -> TaskType]
  BY TaskTyped DEF Left, TaskShape
<1>2. CASE p = o
  BY <1>1, <1>2, DoneRests
<1>3. CASE p # o
  <2>1. task'[p] = task[p]
    BY <1>1, <1>3
  <2>2. ~ Running(p)
    BY <1>3, Alone
  <2> QED
    BY <2>1, <2>2 DEF Running, Order
<1> QED
  BY <1>2, <1>3

LEMMA MovedTasks ==
    ASSUME Shape, Order, NEW o \in Operation, Running(o), NEW t, Moved(o, t)
    PROVE  /\ task'[o] = t
           /\ \A p \in Operation : p # o => task'[p] = task[p] /\ task[p].at \in {"idle", "done"}
<1>1. task' = [task EXCEPT ![o] = t] /\ task \in [Operation -> TaskType]
  BY TaskTyped DEF Moved, TaskShape
<1>2. \A p \in Operation : p # o => task[p].at \in {"idle", "done"}
  BY Alone DEF Running
<1> QED
  BY <1>1, <1>2

(* The running task leaves; the challenge makes an intervention active. *)
LEMMA LeftRemembered ==
    ASSUME Shape, Remembered, NEW o \in Operation, Running(o), Left(o),
           UNCHANGED <<client, reset>>, calm' \in {calm, FALSE},
           active' => Blank',
           client # 0 \/ Blank' \/ memory' = memory,
           page'.refined =>
              \/ memory'.last = NoAction \/ ~ Live'
              \/ page.refined /\ memory'.last = memory.last /\ Live /\ ~ Mid(task[o]),
           calm' /\ Live' => LastMatches' /\ RouteMatches'
    PROVE  Remembered'
<1> USE DEF Remembered
<1>1. \A p \in Operation :
         task'[p].at \in {"idle", "done"} /\ (task'[p].link = "connecting" => client = 0)
  BY LeftTasks
<1>2. \A p \in Operation : ~ Between(task'[p]) /\ ~ Mid(task'[p])
  BY <1>1, RestingTasks
<1>3. Order'
  <2>1. memory' = memory => (Blank <=> Blank')
    BY DEF Blank
  <2>2. client' = 0 => Blank'
    BY <2>1 DEF Order
  <2>3. turn' = NoOperation
    BY DEF Left
  <2> QED
    BY <1>1, <2>2, <2>3 DEF Order, Running
<1>4. Unreplayable'
  <2>1. \A p \in Operation : p # o => ~ Mid(task[p])
    BY OthersRest
  <2>2. page'.refined => memory'.last = NoAction \/ ~ Live'
    BY <2>1 DEF Unreplayable
  <2> QED
    BY <1>2, <2>2 DEF Unreplayable, Between
<1>5. calm' => Matching'
  BY <1>2 DEF Matching, Ahead, Between
<1> QED
  BY <1>3, <1>4, <1>5

LEMMA LeftBlank ==
    ASSUME Shape, Remembered, NEW o \in Operation, Running(o), Left(o),
           UNCHANGED <<client, reset>>, calm' \in {calm, FALSE}, Blank'
    PROVE  Remembered'
<1>1. memory'.last = NoAction /\ LastMatches' /\ RouteMatches'
  BY DEF Blank, LastMatches, RouteMatches
<1> QED
  BY <1>1, LeftRemembered

(* The task fails: the page is not ahead of the memory, or the connection is
   gone. *)
LEMMA FailsRemembered ==
    ASSUME Shape, Remembered, NEW o \in Operation, Running(o), FailsPlainly(o),
           UNCHANGED <<client, sockets, reset, active, page>>, calm' \in {calm, FALSE},
           ~ Between(task[o]) \/ ~ Live \/ ~ calm'
    PROVE  Remembered'
<1> USE DEF Remembered
<1>1. Left(o) /\ (memory' = memory \/ Blank') /\ (task[o].clicked => memory'.last = NoAction)
  BY EndsAlone
<1>2. CASE Blank'
  BY <1>1, <1>2, LeftBlank
<1>3. CASE memory' = memory
  <2>1. ~ active'
    BY Alone
  <2>2. page'.refined =>
              \/ memory'.last = NoAction \/ ~ Live'
              \/ page.refined /\ memory'.last = memory.last /\ Live /\ ~ Mid(task[o])
    BY <1>1, <1>3 DEF Live, Mid
  <2>3. ASSUME calm', Live'
        PROVE  LastMatches' /\ RouteMatches'
    <3>1. Live /\ calm
      BY <2>3 DEF Live
    <3>2. \A p \in Operation : p # o => ~ Between(task[p])
      BY OthersRest
    <3>3. \A p \in Operation : ~ Between(task[p])
      BY <2>3, <3>1, <3>2
    <3>4. LastMatches /\ RouteMatches
      BY <3>1, <3>3 DEF Matching
    <3> QED
      BY <1>3, <3>4 DEF LastMatches, RouteMatches
  <2> QED
    BY <1>1, <1>3, <2>1, <2>2, <2>3, LeftRemembered
<1> QED
  BY <1>1, <1>2, <1>3

(* The running task goes on. *)
LEMMA MovedRemembered ==
    ASSUME Shape, Remembered, NEW o \in Operation, Running(o),
           NEW t, t.link = "ask", t.at \notin {"idle", "done"}, Moved(o, t),
           UNCHANGED <<client, sockets, reset, active, calm>>,
           Landed(t) => page'.refined = FALSE,
           page'.refined => Mid(t) \/ (page.refined /\ (Mid(task[o]) => Mid(t))),
           calm => Ahead(o)',
           calm /\ Live' /\ ~ Between(t) => LastMatches' /\ RouteMatches'
    PROVE  Remembered'
<1> USE DEF Remembered
<1>1. task'[o] = t
      /\ \A p \in Operation : p # o => task'[p] = task[p] /\ task[p].at \in {"idle", "done"}
  BY MovedTasks
<1>2. \A p \in Operation : p # o => ~ Between(task'[p]) /\ ~ Mid(task'[p]) /\ ~ Mid(task[p])
  BY <1>1, RestingTasks
<1>3. UNCHANGED <<turn, memory>>
  BY DEF Moved
<1>4. Order'
  <2>1. turn = o /\ active = FALSE
    BY Alone
  <2>2. \A p \in Operation : Running(p)' => turn' = p
    BY <1>1, <1>3, <2>1 DEF Running
  <2>3. \A p \in Operation : task'[p].link = "connecting" => client' = 0
    BY <1>1 DEF Order
  <2>4. client' = 0 => Blank'
    BY <1>3 DEF Order, Blank
  <2> QED
    BY <2>1, <2>2, <2>3, <2>4 DEF Order
<1>5. Unreplayable'
  <2>1. \A p \in Operation : Landed(task'[p]) => page'.refined = FALSE
    BY <1>1, <1>2 DEF Between
  <2>2. ASSUME page'.refined
        PROVE  memory'.last = NoAction \/ ~ Live' \/ \E p \in Operation : Mid(task'[p])
    <3>1. CASE Mid(t)
      BY <1>1, <3>1
    <3>2. CASE page.refined /\ ~ Mid(task[o])
      <4>1. memory.last = NoAction \/ ~ Live
        BY <1>2, <3>2 DEF Unreplayable
      <4> QED
        BY <1>3, <4>1 DEF Live
    <3> QED
      BY <2>2, <3>1, <3>2
  <2> QED
    BY <2>1, <2>2 DEF Unreplayable
<1>6. calm' => Matching'
  <2>1. \A p \in Operation : p # o => Ahead(p)'
    BY <1>2 DEF Ahead, Between
  <2> QED
    BY <1>1, <2>1 DEF Matching
<1> QED
  BY <1>4, <1>5, <1>6

(* ... to its next await, with the page as it is. *)
LEMMA MovedSame ==
    ASSUME Shape, Remembered, NEW o \in Operation, Running(o),
           NEW u \in TaskType, u.tool = task[o].tool, u.arg = task[o].arg,
           u.picked = task[o].picked,
           NEW w \in Access \cup Captured \cup Timers, Moved(o, Next0(u, w)),
           UNCHANGED <<client, sockets, reset, active, calm, page>>,
           Landed(Next0(u, w)) <=> Landed(task[o]),
           RouteChosen(Next0(u, w)) <=> RouteChosen(task[o]),
           PlaceChosen(Next0(u, w)) <=> PlaceChosen(task[o]),
           Mid(task[o]) => Mid(Next0(u, w)),
           RouteChosen(task[o]) /\ w = "inline2" => u.seen = page.kind,
           PlaceChosen(task[o]) /\ w = "inline2" => page.kind = "place"
    PROVE  Remembered'
<1> DEFINE t == Next0(u, w)
<1> USE DEF Remembered
<1>1. t.link = "ask" /\ t.at = w /\ t.arg = u.arg /\ t.picked = u.picked /\ t.seen = u.seen
  BY DEF Next0, TaskType
<1>2. t.at \notin {"idle", "done"}
  BY <1>1 DEF Access, Captured, Timers
<1>3. task'[o] = t /\ memory' = memory
  BY MovedTasks DEF Moved
<1> HIDE DEF t
<1>4. Between(t) <=> Between(task[o])
  BY DEF Between, t
<1>5. Landed(t) => page'.refined = FALSE
  BY DEF t, Unreplayable
<1>6. page'.refined => Mid(t) \/ (page.refined /\ (Mid(task[o]) => Mid(t)))
  BY DEF t
<1>7. (Live <=> Live') /\ (LastMatches <=> LastMatches') /\ (RouteMatches <=> RouteMatches')
  BY <1>3 DEF Live, LastMatches, RouteMatches
<1>8. calm => Ahead(o)'
  <2> SUFFICES ASSUME calm
               PROVE  Ahead(o)'
    OBVIOUS
  <2>1. Ahead(o)
    BY DEF Matching
  <2>2. Landed(task'[o]) => page'.of = task'[o].arg
    BY <1>1, <1>3, <2>1 DEF Ahead, t
  <2>3. RouteChosen(task'[o]) =>
          /\ task'[o].at = "inline2" => task'[o].seen = page'.kind
          /\ page'.kind = "directions" =>
                /\ page'.of = task'[o].picked.of /\ page'.route = task'[o].picked.route
                /\ Live' => LastMatches'
    BY <1>1, <1>3, <1>7, <2>1 DEF Ahead, t
  <2>4. PlaceChosen(task'[o]) =>
          /\ task'[o].at = "inline2" => page'.kind = "place"
          /\ page' = OtherPage \/ (Live' => LastMatches')
    BY <1>1, <1>3, <1>7, <2>1 DEF Ahead, t
  <2> QED
    BY <2>2, <2>3, <2>4, PagesTyped DEF Ahead, OtherPage, Page
<1>9. calm /\ Live' /\ ~ Between(t) => LastMatches' /\ RouteMatches'
  <2>1. \A p \in Operation : p # o => ~ Between(task[p])
    BY OthersRest
  <2> QED
    BY <1>4, <1>7, <2>1 DEF Matching
<1>10. Moved(o, t)
  BY DEF t
<1> QED
  BY <1>1, <1>2, <1>5, <1>6, <1>8, <1>9, <1>10, MovedRemembered

-----------------------------------------------------------------------------
(* Every segment of the running task. *)

ToolFrame ==
    UNCHANGED <<active, client, attached, sockets, chrome, reset, historyVars>>

LEMMA RepliedRuns ==
    ASSUME NEW o \in Operation, NEW w \in Access \cup Captured \cup Timers, Replied(o, w)
    PROVE  Running(o) /\ task[o].at = w
  BY DEF Replied, Running, Access, Captured, Timers

LEMMA FrameParts ==
    ASSUME ToolFrame
    PROVE  UNCHANGED <<client, sockets, reset, active, calm>> /\ (Live <=> Live')
  BY DEF ToolFrame, historyVars, Live

(* Its own fields and those it changes on the way. *)
LEMMA OnSame ==
    ASSUME Shape, Remembered, ToolFrame, UNCHANGED page, NEW o \in Operation, Running(o),
           NEW u \in TaskType, u.tool = task[o].tool, u.arg = task[o].arg,
           u.picked = task[o].picked,
           NEW w \in Access \cup Captured \cup Timers,
           Waits(o, u, w) \/ Goes(o, u, w),
           Landed(Next0(u, w)) <=> Landed(task[o]),
           RouteChosen(Next0(u, w)) <=> RouteChosen(task[o]),
           PlaceChosen(Next0(u, w)) <=> PlaceChosen(task[o]),
           Mid(task[o]) => Mid(Next0(u, w)),
           RouteChosen(task[o]) /\ w = "inline2" => u.seen = page.kind,
           PlaceChosen(task[o]) /\ w = "inline2" => page.kind = "place"
    PROVE  Remembered'
<1>1. Moved(o, Next0(u, w))
  BY EndsAlone DEF Remembered
<1> QED
  BY <1>1, FrameParts, MovedSame

LEMMA NextFields ==
    ASSUME NEW u \in TaskType, NEW w
    PROVE  LET t == Next0(u, w) IN
           /\ t.at = w /\ t.tool = u.tool /\ t.clicked = u.clicked /\ t.link = "ask"
           /\ t.arg = u.arg /\ t.picked = u.picked /\ t.seen = u.seen
  BY DEF Next0, TaskType

LEMMA OnInvalid ==
    ASSUME Shape, Remembered, ToolFrame, NEW o \in Operation, Running(o), Invalidates(o)
    PROVE  Remembered'
<1>1. Left(o) /\ Blank'
  BY EndsAlone DEF Remembered
<1> QED
  BY <1>1, FrameParts, LeftBlank

LEMMA OnFailure ==
    ASSUME Shape, Remembered, ToolFrame, UNCHANGED page, NEW o \in Operation, Running(o),
           FailsPlainly(o), ~ Between(task[o])
    PROVE  Remembered'
  BY FrameParts, FailsRemembered

(* The task succeeds; what it writes is true. *)
LEMMA OnSuccess ==
    ASSUME Shape, Remembered, ToolFrame, UNCHANGED page, NEW o \in Operation, Running(o),
           Left(o), client # 0 \/ Blank' \/ memory' = memory,
           page.refined /\ Live => memory'.last = NoAction \/
                                   (memory'.last = memory.last /\ ~ Mid(task[o])),
           calm /\ Live => LastMatches' /\ RouteMatches'
    PROVE  Remembered'
<1>1. UNCHANGED <<client, sockets, reset, active, calm>> /\ (Live <=> Live')
  BY FrameParts
<1>2. active' = FALSE
  BY <1>1, Alone DEF Remembered
<1>3. page'.refined =>
              \/ memory'.last = NoAction \/ ~ Live'
              \/ page.refined /\ memory'.last = memory.last /\ Live /\ ~ Mid(task[o])
  BY <1>1
<1>4. calm' /\ Live' => LastMatches' /\ RouteMatches'
  BY <1>1
<1> QED
  BY <1>1, <1>2, <1>3, <1>4, LeftRemembered

(* A page that is not ahead of the memory. *)
LEMMA NotAhead ==
    ASSUME Shape, Remembered, NEW o \in Operation, Running(o), ~ Between(task[o]), calm, Live
    PROVE  LastMatches /\ RouteMatches
<1>1. \A p \in Operation : ~ Between(task[p])
  BY OthersRest DEF Remembered
<1> QED
  BY <1>1 DEF Remembered, Matching

LEMMA GoRemembered ==
    ASSUME Shape, Remembered, ToolFrame, NEW o \in Operation, Go(o)
    PROVE  Remembered'
<1> DEFINE t == Next0(task[o], "load")
<1>1. Replied(o, "go") /\ page' \in Effects(o) /\ Waits(o, task[o], "load")
  BY DEF Go
<1>2. Running(o) /\ task[o].at = "go"
  BY <1>1, RepliedRuns DEF Access
<1>3. task[o] \in TaskType /\ task[o].arg \in Action
  BY <1>2, TaskTyped DEF PlaceOf
<1>4. page' \in Landing(task[o].arg)
  BY <1>1, <1>2, EffectsAre
<1>5. page'.refined = FALSE /\ page'.of = task[o].arg
  BY <1>3, <1>4, LandingPages
<1>6. t.at = "load" /\ t.arg = task[o].arg /\ t.link = "ask" /\ Moved(o, t)
      /\ t.tool = task[o].tool
  BY <1>1, <1>2, <1>3, NextFields, EndsAlone DEF Remembered
<1> HIDE DEF t
<1>7. task'[o] = t
  BY <1>2, <1>6, MovedTasks DEF Remembered
<1>8. Landed(t) /\ ~ RouteChosen(t) /\ ~ PlaceChosen(t)
  BY <1>6 DEF Landed, RouteChosen, PlaceChosen
<1>9. Ahead(o)'
  BY <1>5, <1>6, <1>7, <1>8 DEF Ahead
<1>10. t.at \notin {"idle", "done"} /\ Between(t)
  BY <1>6, <1>8 DEF Between
<1> QED
  BY <1>2, <1>5, <1>6, <1>9, <1>10, FrameParts, MovedRemembered

LEMMA LoadedRemembered ==
    ASSUME Shape, Remembered, ToolFrame, NEW o \in Operation, Loaded(o)
    PROVE  Remembered'
<1>1. Running(o) /\ task[o].at = "load" /\ UNCHANGED page /\ Goes(o, task[o], "url1")
  BY RepliedRuns DEF Loaded, Timers
<1>2. task[o] \in TaskType /\ task[o].tool = "navigate"
  BY <1>1, TaskTyped DEF PlaceOf
<1> DEFINE t == Next0(task[o], "url1")
<1>3. t.at = "url1" /\ t.tool = "navigate"
  BY <1>2, NextFields
<1> HIDE DEF t
<1>4. Landed(t) /\ Landed(task[o]) /\ ~ RouteChosen(t) /\ ~ RouteChosen(task[o])
      /\ ~ PlaceChosen(t) /\ ~ PlaceChosen(task[o]) /\ ~ Mid(task[o])
  BY <1>1, <1>2, <1>3 DEF Landed, RouteChosen, PlaceChosen, Mid
<1> QED
  BY <1>1, <1>2, <1>4, OnSame DEF t, Access

LEMMA ReadUrlRemembered ==
    ASSUME Shape, Remembered, ToolFrame, NEW o \in Operation,
           NEW await \in {"url1", "url2", "url3"}, NEW next,
           <<await, next>> \in {<<"url1", "inline1">>, <<"url2", "inline2">>, <<"url3", "inline3">>},
           ReadUrl(o, await, next)
    PROVE  Remembered'
<1>1. Running(o) /\ task[o].at = await /\ UNCHANGED page
  BY RepliedRuns DEF ReadUrl, Access
<1>2. CASE Invalidates(o)
  BY <1>1, <1>2, OnInvalid
<1>3. CASE Goes(o, [task[o] EXCEPT !.seen = page.kind], next)
  <2> DEFINE u == [task[o] EXCEPT !.seen = page.kind]
             t == Next0(u, next)
  <2>1. page.kind \in Kinds
    BY DEF Shape, PageShape, PageType
  <2>2. u \in TaskType /\ u.tool = task[o].tool /\ u.arg = task[o].arg /\ u.picked = task[o].picked
        /\ u.seen = page.kind /\ u.clicked = task[o].clicked
    BY <2>1, TaskTyped DEF TaskType
  <2>3. Goes(o, u, next)
    BY <1>3
  <2> HIDE DEF u
  <2>4. t.at = next /\ t.tool = task[o].tool /\ t.clicked = task[o].clicked
    BY <2>2, NextFields
  <2> HIDE DEF t
  <2>5. task[o].at = "url2" => task[o].tool \in {"selectRoute", "recommended"}
    BY TaskTyped DEF PlaceOf
  <2>6. Landed(t) <=> Landed(task[o])
    BY <1>1, <2>4 DEF Landed
  <2>7. RouteChosen(t) <=> RouteChosen(task[o])
    BY <1>1, <2>4 DEF RouteChosen
  <2>8. PlaceChosen(t) <=> PlaceChosen(task[o])
    BY <1>1, <2>4, <2>5 DEF PlaceChosen
  <2>9. Mid(task[o]) => Mid(t)
    BY <1>1, <2>4 DEF Mid
  <2>10. PlaceChosen(task[o]) => next # "inline2"
    BY <1>1 DEF PlaceChosen
  <2>11. next \in Access
    BY DEF Access
  <2> QED
    BY <1>1, <2>2, <2>3, <2>6, <2>7, <2>8, <2>9, <2>10, <2>11, OnSame DEF t
<1> QED
  BY <1>2, <1>3 DEF ReadUrl

(* A task that is nowhere between goes on to where it is not between. *)
LEMMA OnPlain ==
    ASSUME Shape, Remembered, ToolFrame, UNCHANGED page, NEW o \in Operation, Running(o),
           ~ Between(task[o]), NEW w \in Access \cup Captured \cup Timers,
           Mid(task[o]) => w \in {"url3", "inline3", "verify"},
           w \notin {"load", "poll", "settle", "url1", "inline1", "inline2"},
           w = "url2" => task[o].tool # "selectRoute",
           w \in {"url3", "inline3"} => task[o].tool # "selectPlace",
           Waits(o, task[o], w) \/ Goes(o, task[o], w)
    PROVE  Remembered'
<1> DEFINE t == Next0(task[o], w)
<1>1. t.at = w /\ t.tool = task[o].tool /\ t.clicked = task[o].clicked
  BY TaskTyped, NextFields
<1> HIDE DEF t
<1>2. ~ Landed(t) /\ ~ RouteChosen(t) /\ ~ PlaceChosen(t)
  BY <1>1 DEF Landed, RouteChosen, PlaceChosen
<1>3. ~ Landed(task[o]) /\ ~ RouteChosen(task[o]) /\ ~ PlaceChosen(task[o])
  BY DEF Between
<1>4. Mid(task[o]) => Mid(t)
  BY <1>1 DEF Mid
<1> QED
  BY <1>2, <1>3, <1>4, TaskTyped, OnSame DEF t

LEMMA FreshRemembered ==
    ASSUME Shape, Remembered, ToolFrame, UNCHANGED page, NEW o \in Operation, Running(o),
           task[o].at \in {"inline1", "inline2"}, task[o].tool = "recommended",
           NEW next \in {"same1", "same2"}, Fresh(o, next)
    PROVE  Remembered'
<1>1. ~ Between(task[o]) /\ ~ Mid(task[o])
  BY DEF Between, Landed, RouteChosen, PlaceChosen, Mid
<1>2. CASE Invalidates(o)
  BY <1>2, OnInvalid
<1>3. CASE FailsPlainly(o)
  BY <1>1, <1>3, OnFailure
<1>4. CASE Goes(o, task[o], next)
  BY <1>1, <1>4, OnPlain DEF Access
<1> QED
  BY <1>2, <1>3, <1>4 DEF Fresh

LEMMA Checked1Remembered ==
    ASSUME Shape, Remembered, ToolFrame, NEW o \in Operation, Checked1(o)
    PROVE  Remembered'
<1>1. UNCHANGED page /\ Replied(o, "inline1")
  BY DEF Checked1
<1>2. Running(o) /\ task[o].at = "inline1" /\ client # 0
  BY <1>1, RepliedRuns, RepliedLinked DEF Access
<1>3. task[o].tool # "navigate" => ~ Between(task[o])
  BY <1>2 DEF Between, Landed, RouteChosen, PlaceChosen
<1>4. CASE task[o].tool = "navigate" /\ Navigated(o)
  <2>1. /\ Left(o)
        /\ memory' = [last |-> task[o].arg, view |-> KindOf(task[o].arg), route |-> NoRoute]
    BY <1>2, <1>4, EndsAlone DEF Navigated, Remembered
  <2>2. memory'.last = task[o].arg /\ memory'.route = NoRoute
    BY <2>1
  <2>3. Landed(task[o])
    BY <1>2, <1>4 DEF Landed
  <2>4. page.refined = FALSE
    BY <2>3 DEF Remembered, Unreplayable
  <2>5. calm => page.of = task[o].arg
    BY <2>3 DEF Remembered, Matching, Ahead
  <2>6. calm => LastMatches' /\ RouteMatches'
    BY <1>1, <2>2, <2>5 DEF LastMatches, RouteMatches
  <2> QED
    BY <1>1, <1>2, <2>1, <2>4, <2>6, OnSuccess
<1>5. CASE task[o].tool = "read" /\ Leaves(o) /\ UNCHANGED <<memory, epoch>>
  <2>1. Left(o)
    BY <1>2, <1>5, Alone DEF Remembered, Order, Leaves, Left, Done
  <2>2. ~ Mid(task[o])
    BY <1>2 DEF Mid
  <2>3. calm /\ Live => LastMatches' /\ RouteMatches'
    BY <1>1, <1>2, <1>3, <1>5, NotAhead DEF LastMatches, RouteMatches
  <2> QED
    BY <1>1, <1>2, <1>5, <2>1, <2>2, <2>3, OnSuccess
<1>6. CASE Invalidates(o)
  BY <1>2, <1>6, OnInvalid
<1>7. CASE task[o].tool \in {"selectPlace", "selectRoute"} /\ Goes(o, task[o], "click")
  <2>1. ~ Mid(task[o])
    BY <1>2 DEF Mid
  <2> QED
    BY <1>1, <1>2, <1>3, <1>7, <2>1, OnPlain DEF Access
<1>8. CASE task[o].tool = "recommended" /\ Fresh(o, "same1")
  BY <1>1, <1>2, <1>8, FreshRemembered
<1> QED
  BY <1>4, <1>5, <1>6, <1>7, <1>8 DEF Checked1

LEMMA Checked2Remembered ==
    ASSUME Shape, Remembered, ToolFrame, NEW o \in Operation, Checked2(o)
    PROVE  Remembered'
<1>1. UNCHANGED page /\ Replied(o, "inline2")
  BY DEF Checked2
<1>2. Running(o) /\ task[o].at = "inline2" /\ client # 0
  BY <1>1, RepliedRuns, RepliedLinked DEF Access
<1>3. ~ Mid(task[o]) /\ memory \in MemoryType
  BY <1>2, TaskTyped DEF Mid, MemoryShape
<1>4. CASE /\ task[o].tool = "selectPlace"
           /\ Succeeds(o, [memory EXCEPT !.view = "place", !.route = NoRoute])
  <2>1. Left(o) /\ memory' = [memory EXCEPT !.view = "place", !.route = NoRoute]
    BY <1>2, <1>4, EndsAlone DEF Remembered
  <2>2. memory'.last = memory.last /\ memory'.route = NoRoute
    BY <1>3, <2>1 DEF MemoryType
  <2>3. PlaceChosen(task[o])
    BY <1>2, <1>4 DEF PlaceChosen
  <2>4. calm /\ Live => LastMatches
    BY <1>2, <2>3, PagesTyped DEF Remembered, Matching, Ahead
  <2>5. calm /\ Live => LastMatches' /\ RouteMatches'
    BY <1>1, <2>2, <2>4 DEF LastMatches, RouteMatches
  <2>6. page.refined /\ Live => memory'.last = NoAction \/
                                   (memory'.last = memory.last /\ ~ Mid(task[o]))
    BY <1>3, <2>2
  <2> QED
    BY <1>1, <1>2, <2>1, <2>5, <2>6, OnSuccess
<1>5. CASE /\ task[o].tool = "selectRoute" /\ task[o].seen = "directions"
           /\ Succeeds(o, [memory EXCEPT !.view = "route", !.route = task[o].picked])
  <2>1. Left(o) /\ memory' = [memory EXCEPT !.view = "route", !.route = task[o].picked]
    BY <1>2, <1>5, EndsAlone DEF Remembered
  <2>2. memory'.last = memory.last /\ memory'.route = task[o].picked
    BY <1>3, <2>1 DEF MemoryType
  <2>3. RouteChosen(task[o])
    BY <1>2, <1>5 DEF RouteChosen
  <2>4. calm /\ Live =>
          /\ LastMatches
          /\ page.of = task[o].picked.of /\ page.route = task[o].picked.route
    BY <1>2, <1>5, <2>3 DEF Remembered, Matching, Ahead
  <2>5. calm /\ Live => LastMatches' /\ RouteMatches'
    BY <1>1, <2>2, <2>4 DEF LastMatches, RouteMatches
  <2>6. page.refined /\ Live => memory'.last = NoAction \/
                                   (memory'.last = memory.last /\ ~ Mid(task[o]))
    BY <1>3, <2>2
  <2> QED
    BY <1>1, <1>2, <2>1, <2>5, <2>6, OnSuccess
<1>6. CASE Invalidates(o)
  BY <1>2, <1>6, OnInvalid
<1>7. CASE task[o].tool = "recommended" /\ Fresh(o, "same2")
  BY <1>1, <1>2, <1>7, FreshRemembered
<1> QED
  BY <1>4, <1>5, <1>6, <1>7 DEF Checked2

LEMMA Checked3Remembered ==
    ASSUME Shape, Remembered, ToolFrame, NEW o \in Operation, Checked3(o)
    PROVE  Remembered'
<1>1. UNCHANGED page /\ Replied(o, "inline3")
  BY DEF Checked3
<1>2. Running(o) /\ task[o].at = "inline3"
  BY <1>1, RepliedRuns DEF Access
<1>3. task[o].tool = "recommended" => ~ Between(task[o])
  BY <1>2 DEF Between, Landed, RouteChosen, PlaceChosen
<1>4. CASE Invalidates(o)
  BY <1>2, <1>4, OnInvalid
<1>5. CASE task[o].tool = "recommended" /\ FailsPlainly(o)
  BY <1>1, <1>2, <1>3, <1>5, OnFailure
<1>6. CASE task[o].tool = "recommended" /\ Waits(o, task[o], "verify")
  BY <1>1, <1>2, <1>3, <1>6, OnPlain DEF Captured
<1> QED
  BY <1>4, <1>5, <1>6 DEF Checked3

(* A click that leaves the request of the page, or the page. *)
LEMMA ClickRemembered ==
    ASSUME Shape, Remembered, ToolFrame, NEW o \in Operation, Click(o)
    PROVE  Remembered'
<1>1. Replied(o, "click")
  BY DEF Click
<1>2. Running(o) /\ task[o].at = "click"
  BY <1>1, RepliedRuns DEF Access
<1>3. ~ Between(task[o]) /\ ~ Mid(task[o])
  BY <1>2 DEF Between, Landed, RouteChosen, PlaceChosen, Mid
<1>4. task[o] \in TaskType /\ page \in PageType
  BY TaskTyped DEF Shape, PageShape
<1>5. ASSUME NEW t, Moved(o, t), t.link = "ask", t.at \notin {"idle", "done"}, ~ Landed(t),
             page' = OtherPage \/ (page'.of = page.of /\ page'.refined = page.refined),
             RouteChosen(t) =>
                t.at # "inline2" /\ (page'.kind = "directions" =>
                   page'.of = t.picked.of /\ page'.route = t.picked.route),
             PlaceChosen(t) => t.at # "inline2",
             RouteChosen(t) \/ PlaceChosen(t)
      PROVE  Remembered'
  <2>1. task'[o] = t /\ memory' = memory
    BY <1>2, <1>5, MovedTasks DEF Remembered, Moved
  <2>2. page'.refined => page.refined
    BY <1>5, PagesTyped
  <2>3. calm /\ Live => LastMatches
    BY <1>2, <1>3, NotAhead
  <2>4. calm /\ Live' /\ page' # OtherPage => LastMatches'
    BY <1>5, <2>1, <2>3, FrameParts DEF LastMatches
  <2>5. OtherPage.kind # "directions"
    BY PagesTyped
  <2>6. calm => Ahead(o)'
    BY <1>5, <2>1, <2>4, <2>5 DEF Ahead
  <2>7. Between(t)
    BY <1>5 DEF Between
  <2> QED
    BY <1>2, <1>3, <1>5, <2>2, <2>6, <2>7, FrameParts, MovedRemembered
<1>6. CASE FailsPlainly(o) /\ UNCHANGED page
  BY <1>2, <1>3, <1>6, OnFailure
<1>7. CASE page' \in Effects(o) /\ task[o].tool = "selectPlace" /\ Goes(o, task[o], "poll")
  <2> DEFINE t == Next0(task[o], "poll")
  <2>1. Moved(o, t) /\ t.at = "poll" /\ t.tool = "selectPlace" /\ t.link = "ask"
    BY <1>2, <1>4, <1>7, NextFields, EndsAlone DEF Remembered
  <2> HIDE DEF t
  <2>2. page' \in {page, OtherPage, [page EXCEPT !.kind = "place"]}
    BY <1>2, <1>7, EffectsAre
  <2>3. page' = OtherPage \/ (page'.of = page.of /\ page'.refined = page.refined)
    BY <1>4, <2>2 DEF PageType
  <2>4. PlaceChosen(t) /\ ~ RouteChosen(t) /\ ~ Landed(t)
    BY <2>1 DEF PlaceChosen, RouteChosen, Landed
  <2> QED
    BY <1>5, <2>1, <2>3, <2>4
<1>8. ASSUME page' \in Effects(o), task[o].tool = "selectRoute"
      PROVE  /\ page' = OtherPage \/ (page'.of = page.of /\ page'.refined = page.refined)
  <2>1. page' = OtherPage \/ \E r \in Route : page' = [page EXCEPT !.route = r]
    BY <1>2, <1>8, EffectsAre
  <2> QED
    BY <1>4, <2>1 DEF PageType
<1>9. CASE /\ page' \in Effects(o)
           /\ task[o].tool = "selectRoute" /\ page'.kind = "directions"
           /\ Waits(o, [task[o] EXCEPT !.picked = [of |-> page.of, route |-> page'.route]],
                    "settle")
  <2> DEFINE pick == [of |-> page.of, route |-> page'.route]
             u == [task[o] EXCEPT !.picked = pick]
             t == Next0(u, "settle")
  <2>1. Moved(o, t)
    BY <1>2, <1>9, EndsAlone DEF Remembered
  <2>2. pick.of = page.of /\ pick.route = page'.route
    OBVIOUS
  <2> HIDE DEF pick
  <2>3. t.at = "settle" /\ t.tool = "selectRoute" /\ t.link = "ask" /\ t.picked = pick
    BY <1>4, <1>9 DEF Next0, TaskType
  <2> HIDE DEF t
  <2>4. ~ PlaceChosen(t) /\ RouteChosen(t) /\ ~ Landed(t)
    BY <2>3 DEF PlaceChosen, RouteChosen, Landed
  <2>5. page' # OtherPage
    BY <1>9, PagesTyped
  <2>6. page'.of = page.of /\ page'.refined = page.refined
    BY <1>8, <1>9, <2>5
  <2> QED
    BY <1>5, <2>1, <2>2, <2>3, <2>4, <2>6
<1>10. CASE /\ page' \in Effects(o) /\ task[o].tool = "selectRoute" /\ page'.kind # "directions"
            /\ Waits(o, task[o], "settle")
  <2> DEFINE t == Next0(task[o], "settle")
  <2>1. Moved(o, t) /\ t.at = "settle" /\ t.tool = "selectRoute" /\ t.link = "ask"
    BY <1>2, <1>4, <1>10, NextFields, EndsAlone DEF Remembered
  <2> HIDE DEF t
  <2>2. ~ PlaceChosen(t) /\ RouteChosen(t) /\ ~ Landed(t)
    BY <2>1 DEF PlaceChosen, RouteChosen, Landed
  <2> QED
    BY <1>5, <1>8, <1>10, <2>1, <2>2
<1> QED
  BY <1>6, <1>7, <1>9, <1>10 DEF Click

LEMMA SettledRemembered ==
    ASSUME Shape, Remembered, ToolFrame, NEW o \in Operation, Settled(o)
    PROVE  Remembered'
<1>1. Running(o) /\ task[o].at = "settle" /\ UNCHANGED page /\ Goes(o, task[o], "url2")
  BY RepliedRuns DEF Settled, Timers
<1>2. task[o] \in TaskType /\ task[o].tool = "selectRoute"
  BY <1>1, TaskTyped DEF PlaceOf
<1> DEFINE t == Next0(task[o], "url2")
<1>3. t.at = "url2" /\ t.tool = "selectRoute"
  BY <1>2, NextFields
<1> HIDE DEF t
<1>4. ~ Landed(t) /\ ~ Landed(task[o]) /\ RouteChosen(t) /\ RouteChosen(task[o])
      /\ ~ PlaceChosen(t) /\ ~ PlaceChosen(task[o]) /\ ~ Mid(task[o])
  BY <1>1, <1>2, <1>3 DEF Landed, RouteChosen, PlaceChosen, Mid
<1> QED
  BY <1>1, <1>2, <1>4, OnSame DEF t, Access

LEMMA PollRemembered ==
    ASSUME Shape, Remembered, ToolFrame, NEW o \in Operation, Poll(o)
    PROVE  Remembered'
<1>1. Running(o) /\ task[o].at = "poll" /\ UNCHANGED page
  BY RepliedRuns DEF Poll, Access
<1>2. task[o] \in TaskType /\ task[o].tool = "selectPlace"
  BY <1>1, TaskTyped DEF PlaceOf
<1>3. CASE Invalidates(o)
  BY <1>1, <1>3, OnInvalid
<1>4. ASSUME NEW w \in {"inline2", "url3"}, Goes(o, task[o], w),
             w = "inline2" => page.kind = "place"
      PROVE  Remembered'
  <2> DEFINE t == Next0(task[o], w)
  <2>1. t.at = w /\ t.tool = "selectPlace"
    BY <1>2, NextFields
  <2> HIDE DEF t
  <2>2. ~ Landed(t) /\ ~ Landed(task[o]) /\ PlaceChosen(t) /\ PlaceChosen(task[o])
        /\ ~ RouteChosen(t) /\ ~ RouteChosen(task[o]) /\ ~ Mid(task[o])
    BY <1>1, <1>2, <2>1 DEF Landed, RouteChosen, PlaceChosen, Mid
  <2>3. w \in Access
    BY DEF Access
  <2> QED
    BY <1>1, <1>2, <1>4, <2>2, <2>3, OnSame DEF t
<1> QED
  BY <1>3, <1>4 DEF Poll

LEMMA SameRemembered ==
    ASSUME Shape, Remembered, ToolFrame, NEW o \in Operation, Same(o)
    PROVE  Remembered'
<1>1. Running(o) /\ task[o].at \in {"same1", "same2"} /\ UNCHANGED page
  BY RepliedRuns DEF Same, Access
<1>2. ~ Between(task[o]) /\ ~ Mid(task[o])
  BY <1>1 DEF Between, Landed, RouteChosen, PlaceChosen, Mid
<1>3. CASE FailsPlainly(o)
  BY <1>1, <1>2, <1>3, OnFailure
<1>4. CASE Goes(o, task[o], "take")
  BY <1>1, <1>2, <1>4, OnPlain DEF Access
<1>5. CASE Waits(o, task[o], "mark")
  BY <1>1, <1>2, <1>5, OnPlain DEF Captured
<1> QED
  BY <1>3, <1>4, <1>5 DEF Same

LEMMA TakeRemembered ==
    ASSUME Shape, Remembered, ToolFrame, NEW o \in Operation, Take(o)
    PROVE  Remembered'
<1> DEFINE u == [task[o] EXCEPT !.held = client]
           t == Next0(u, "url2")
<1>1. Running(o) /\ task[o].at = "take" /\ UNCHANGED page /\ Goes(o, u, "url2")
  BY RepliedRuns DEF Take, Access
<1>2. task[o].tool = "recommended" /\ client \in Nat
  BY <1>1, TaskTyped DEF PlaceOf, Shape, LinkShape
<1>3. u \in TaskType /\ u.tool = task[o].tool /\ u.arg = task[o].arg /\ u.picked = task[o].picked
  BY <1>2, TaskTyped DEF TaskType
<1> HIDE DEF u
<1>4. t.at = "url2" /\ t.tool = "recommended"
  BY <1>2, <1>3, NextFields
<1> HIDE DEF t
<1>5. ~ Landed(t) /\ ~ Landed(task[o]) /\ ~ RouteChosen(t) /\ ~ RouteChosen(task[o])
      /\ ~ PlaceChosen(t) /\ ~ PlaceChosen(task[o]) /\ ~ Mid(task[o])
  BY <1>1, <1>2, <1>4 DEF Landed, RouteChosen, PlaceChosen, Mid
<1> QED
  BY <1>1, <1>3, <1>5, OnSame DEF t, Access

LEMMA MarkRemembered ==
    ASSUME Shape, Remembered, ToolFrame, NEW o \in Operation, Mark(o)
    PROVE  Remembered'
<1>1. Running(o) /\ task[o].at = "mark"
  BY RepliedRuns DEF Mark, Captured
<1>2. task[o] \in TaskType /\ task[o].tool = "recommended" /\ page \in PageType
  BY <1>1, TaskTyped DEF PlaceOf, Shape, PageShape
<1>3. ~ Between(task[o]) /\ ~ Mid(task[o])
  BY <1>1 DEF Between, Landed, RouteChosen, PlaceChosen, Mid
<1>4. CASE page' \in Effects(o) /\ Goes(o, [task[o] EXCEPT !.clicked = TRUE], "url3")
  <2> DEFINE u == [task[o] EXCEPT !.clicked = TRUE]
             t == Next0(u, "url3")
  <2>1. page' = [page EXCEPT !.refined = TRUE]
    BY <1>1, <1>4, EffectsAre
  <2>2. page'.of = page.of /\ page'.route = page.route
    BY <1>2, <2>1 DEF PageType
  <2>3. Moved(o, t)
    BY <1>1, <1>4, EndsAlone DEF Remembered
  <2>4. t.at = "url3" /\ t.tool = "recommended" /\ t.link = "ask" /\ t.clicked
    BY <1>2 DEF Next0, TaskType
  <2> HIDE DEF t
  <2>5. Mid(t) /\ ~ Landed(t) /\ ~ RouteChosen(t) /\ ~ PlaceChosen(t)
    BY <2>4 DEF Mid, Landed, RouteChosen, PlaceChosen
  <2>6. task'[o] = t /\ memory' = memory
    BY <1>1, <2>3, MovedTasks DEF Remembered, Moved
  <2>7. Ahead(o)'
    BY <2>5, <2>6 DEF Ahead
  <2>8. calm /\ Live => LastMatches /\ RouteMatches
    BY <1>1, <1>3, NotAhead
  <2>9. calm /\ Live' => LastMatches' /\ RouteMatches'
    BY <2>2, <2>6, <2>8, FrameParts DEF LastMatches, RouteMatches
  <2> QED
    BY <1>1, <2>3, <2>4, <2>5, <2>7, <2>9, FrameParts, MovedRemembered
<1>5. CASE UNCHANGED page /\ (Goes(o, task[o], "url3") \/ Goes(o, task[o], "url2"))
  BY <1>1, <1>2, <1>3, <1>5, OnPlain DEF Access
<1>6. CASE UNCHANGED page /\ FailsPlainly(o)
  BY <1>1, <1>3, <1>6, OnFailure
<1> QED
  BY <1>4, <1>5, <1>6 DEF Mark

LEMMA VerifyRemembered ==
    ASSUME Shape, Remembered, ToolFrame, NEW o \in Operation, Verify(o)
    PROVE  Remembered'
<1>1. Running(o) /\ task[o].at = "verify" /\ UNCHANGED page
  BY RepliedRuns DEF Verify, Captured
<1>2. task[o].tool = "recommended" /\ memory \in MemoryType
  BY <1>1, TaskTyped DEF PlaceOf, MemoryShape
<1>3. ~ Between(task[o])
  BY <1>1, <1>2 DEF Between, Landed, RouteChosen, PlaceChosen
<1>4. CASE Succeeds(o, [memory EXCEPT !.last = NoAction, !.route = NoRoute])
  <2>1. Left(o) /\ memory' = [memory EXCEPT !.last = NoAction, !.route = NoRoute]
    BY <1>1, <1>4, EndsAlone DEF Remembered
  <2>2. Blank'
    BY <1>2, <2>1 DEF Blank, MemoryType
  <2> QED
    BY <1>1, <2>1, <2>2, FrameParts, LeftBlank
<1>5. CASE FailsPlainly(o)
  BY <1>1, <1>3, <1>5, OnFailure
<1>6. CASE Goes(o, task[o], "url3")
  BY <1>1, <1>2, <1>3, <1>6, OnPlain DEF Access
<1> QED
  BY <1>4, <1>5, <1>6 DEF Verify

LEMMA ToolRemembered ==
    ASSUME Shape, Remembered, NEW o \in Operation, TaskStep(o, Tool(o))
    PROVE  Remembered'
<1>1. ToolFrame /\ Tool(o)
  BY DEF TaskStep, ToolFrame
<1>2. CASE ReadUrl(o, "url1", "inline1") \/ ReadUrl(o, "url2", "inline2")
           \/ ReadUrl(o, "url3", "inline3")
  BY <1>1, <1>2, ReadUrlRemembered
<1>3. CASE Go(o) \/ Loaded(o) \/ Click(o) \/ Settled(o)
  BY <1>1, <1>3, GoRemembered, LoadedRemembered, ClickRemembered, SettledRemembered
<1>4. CASE Poll(o) \/ Same(o) \/ Take(o)
  BY <1>1, <1>4, PollRemembered, SameRemembered, TakeRemembered
<1>5. CASE Checked1(o) \/ Checked2(o) \/ Checked3(o)
  BY <1>1, <1>5, Checked1Remembered, Checked2Remembered, Checked3Remembered
<1>6. CASE Mark(o) \/ Verify(o)
  BY <1>1, <1>6, MarkRemembered, VerifyRemembered
<1> QED
  BY <1>1, <1>2, <1>3, <1>4, <1>5, <1>6 DEF Tool

-----------------------------------------------------------------------------
(* The other steps, before the first timeout. *)

LEMMA StartRemembered ==
    ASSUME Shape, Remembered, NEW o \in Operation, Start(o)
    PROVE  Remembered'
<1> USE DEF Remembered
<1>1. UNCHANGED <<memoryVars, browserVars, reset, historyVars>> /\ turn = NoOperation
      /\ task[o].at = "idle"
  BY DEF Start
<1>2. task \in [Operation -> TaskType]
  BY TaskTyped DEF TaskShape
<1>3. \A p \in Operation : ~ Running(p)
  BY <1>1, NamesAssumption DEF Order
<1>4. \A p \in Operation : task[p].at \in {"idle", "done"}
  BY <1>3 DEF Running
<1>5. task[o].link # "connecting"
  BY <1>1, TaskTyped DEF PlaceOf, Access
<1>6. PICK d : /\ task' = [task EXCEPT ![o] = d] /\ d.link # "connecting"
               /\ \/ d.at = "done" /\ turn' = NoOperation
                  \/ turn' = o /\ ~ active /\ d.at = "go"
                  \/ turn' = o /\ ~ active /\ d.at = "url1" /\ d.tool # "navigate"
  <2>1. CASE active /\ task' = [task EXCEPT ![o].at = "done"] /\ UNCHANGED turn
    <3> DEFINE d == [task[o] EXCEPT !.at = "done"]
    <3>1. d.at = "done" /\ d.link # "connecting"
      BY <1>2, <1>5 DEF TaskType
    <3>2. task' = [task EXCEPT ![o] = d]
      BY <2>1
    <3> HIDE DEF d
    <3> QED
      BY <1>1, <2>1, <3>1, <3>2
  <2>2. ASSUME NEW k \in Tools, NEW a \in Action \cup {NoAction}, ~ active, turn' = o,
               task' = [task EXCEPT ![o] =
                           [[NoTask EXCEPT !.tool = k, !.arg = a]
                               EXCEPT !.at = IF k = "navigate" THEN "go" ELSE "url1"]]
        PROVE  \E d : /\ task' = [task EXCEPT ![o] = d] /\ d.link # "connecting"
                      /\ \/ d.at = "done" /\ turn' = NoOperation
                         \/ turn' = o /\ ~ active /\ d.at = "go"
                         \/ turn' = o /\ ~ active /\ d.at = "url1" /\ d.tool # "navigate"
    <3> DEFINE b == [NoTask EXCEPT !.tool = k, !.arg = a]
               w == IF k = "navigate" THEN "go" ELSE "url1"
               d == [b EXCEPT !.at = w]
    <3>1. b.tool = k /\ b.link = "ask" /\ b \in TaskType
      BY NamesTyped DEF NoTask, TaskType
    <3> HIDE DEF b
    <3>2. d.tool = k /\ d.link = "ask" /\ d.at = w
      BY <3>1 DEF TaskType
    <3>3. task' = [task EXCEPT ![o] = d]
      BY <2>2 DEF b
    <3> HIDE DEF d
    <3> QED
      BY <2>2, <3>2, <3>3
  <2> QED
    BY <2>1, <2>2 DEF Start
<1>7. task'[o] = d /\ \A p \in Operation : p # o => task'[p] = task[p]
  BY <1>2, <1>6
<1>8. UNCHANGED <<memory, active, client, sockets, page, reset, used, calm>>
  BY <1>1 DEF memoryVars, browserVars, historyVars
<1>9. ~ Between(d)
  BY <1>6 DEF Between, Landed, RouteChosen, PlaceChosen
<1>10. \A p \in Operation : ~ Between(task'[p])
  BY <1>4, <1>7, <1>9, RestingTasks
<1>11. \A p \in Operation : ~ Between(task[p]) /\ ~ Mid(task[p])
  BY <1>4, RestingTasks
<1>12. (Live <=> Live') /\ (LastMatches <=> LastMatches') /\ (RouteMatches <=> RouteMatches')
       /\ (Blank <=> Blank')
  BY <1>8 DEF Live, LastMatches, RouteMatches, Blank
<1>13. Order'
  <2>1. \A p \in Operation : Running(p)' => turn' = p
    BY <1>4, <1>6, <1>7 DEF Running
  <2>2. \A p \in Operation : task'[p].link = "connecting" => client' = 0
    BY <1>6, <1>7, <1>8 DEF Order
  <2>3. active' => turn' = NoOperation
    BY <1>6, <1>8
  <2> QED
    BY <1>8, <1>12, <2>1, <2>2, <2>3 DEF Order
<1>14. Unreplayable'
  BY <1>8, <1>10, <1>11, <1>12 DEF Unreplayable, Between
<1>15. calm' => Matching'
  BY <1>8, <1>10, <1>11, <1>12 DEF Matching, Ahead, Between
<1> QED
  BY <1>13, <1>14, <1>15

LEMMA ChallengeRemembered ==
    ASSUME Shape, Remembered, NEW o \in Operation, Challenge(o)
    PROVE  Remembered'
<1>1. PICK await \in {"url1", "inline1", "url2", "inline2", "url3", "inline3", "poll"} :
         Replied(o, await)
  BY DEF Challenge
<1>2. await \in Access
  BY DEF Access
<1>3. Running(o)
  BY <1>1, <1>2, RepliedRuns
<1>4. UNCHANGED <<client, reset, calm>>
  BY DEF Challenge
<1>5. memory' = NoMemory /\ Leaves(o)
  BY DEF Challenge, Fails
<1>6. Left(o) /\ Blank'
  BY <1>3, <1>5, Alone DEF Remembered, Order, Leaves, Left, Done, NoMemory, Blank
<1> QED
  BY <1>3, <1>4, <1>6, LeftBlank

LEMMA ReplyLostRemembered ==
    ASSUME Shape, Remembered, NEW o \in Operation, ReplyLost(o)
    PROVE  Remembered'
<1>1. PICK await \in {"go", "click", "mark"} : Replied(o, await)
  BY DEF ReplyLost
<1>2. await \in Access \cup Captured
  BY DEF Access, Captured
<1>3. Running(o)
  BY <1>1, <1>2, RepliedRuns
<1>4. /\ sockets' = sockets \ {client} /\ FailsPlainly(o)
      /\ UNCHANGED <<active, client, attached, chrome, reset, calm>>
  BY DEF ReplyLost
<1>5. Left(o) /\ (memory' = memory \/ Blank')
  BY <1>3, <1>4, EndsAlone DEF Remembered
<1>6. ~ Live' /\ ~ active'
  BY <1>3, <1>4, Alone DEF Live, Remembered
<1> QED
  BY <1>3, <1>4, <1>5, <1>6, LeftRemembered

LEMMA FailureRemembered ==
    ASSUME Shape, Remembered, NEW o \in Operation,
           AttachFails(o) \/ AccessFails(o) \/ EvaluationFails(o)
    PROVE  Remembered'
<1>1. UNCHANGED <<client, sockets, reset, active, page>> /\ calm' \in {calm, FALSE}
  BY DEF AttachFails, AccessFails, EvaluationFails, browserVars, historyVars
<1>2. CASE AttachFails(o)
  <2>1. task[o].at \in Access
    BY <1>2, TaskTyped DEF AttachFails, PlaceOf
  <2>2. Running(o)
    BY <2>1 DEF Running, Access
  <2>3. client = 0
    BY <1>2 DEF AttachFails, Remembered, Order
  <2>4. ~ Live
    BY <2>3 DEF Live, Shape, LinkShape
  <2>5. CASE FailsPlainly(o)
    BY <1>1, <2>2, <2>4, <2>5, FailsRemembered
  <2>6. CASE Invalidates(o)
    <3>1. Left(o) /\ Blank'
      BY <2>2, <2>6, EndsAlone DEF Remembered
    <3> QED
      BY <1>1, <2>2, <3>1, LeftBlank
  <2> QED
    BY <1>2, <2>5, <2>6 DEF AttachFails
<1>3. CASE AccessFails(o)
  <2>1. FailsPlainly(o)
    BY <1>3 DEF AccessFails
  <2>2. CASE task[o].at \in Access /\ ~ Live
    <3>1. Running(o)
      BY <2>2 DEF Running, Access
    <3> QED
      BY <1>1, <2>1, <2>2, <3>1, FailsRemembered
  <2>3. CASE task[o].at \in Captured
    <3>1. Running(o)
      BY <2>3 DEF Running, Captured
    <3>2. task[o].tool = "recommended"
      BY <2>3, TaskTyped DEF Captured, PlaceOf
    <3>3. ~ Between(task[o])
      BY <2>3, <3>2 DEF Captured, Between, Landed, RouteChosen, PlaceChosen
    <3> QED
      BY <1>1, <2>1, <3>1, <3>3, FailsRemembered
  <2> QED
    BY <1>3, <2>2, <2>3 DEF AccessFails
<1>4. CASE EvaluationFails(o)
  <2>1. PICK await \in {"url1", "inline1", "url2", "inline2", "url3", "inline3",
                        "poll", "same1", "same2", "verify"} : Replied(o, await)
    BY <1>4 DEF EvaluationFails
  <2>2. await \in Access \cup Captured
    BY DEF Access, Captured
  <2>3. Running(o)
    BY <2>1, <2>2, RepliedRuns
  <2>4. FailsPlainly(o) /\ ~ calm'
    BY <1>4 DEF EvaluationFails
  <2> QED
    BY <1>1, <2>3, <2>4, FailsRemembered
<1> QED
  BY <1>2, <1>3, <1>4

(* The running task connects again. *)
LEMMA ReconnectRemembered ==
    ASSUME Shape, Remembered, NEW o \in Operation, Reconnect(o)
    PROVE  Remembered'
<1> USE DEF Remembered
<1> DEFINE d == [task[o] EXCEPT !.link = "connecting"]
<1>1. task[o].at \in Access /\ task' = [task EXCEPT ![o] = d] /\ client' = 0
      /\ UNCHANGED <<active, attached, sockets, chrome, page, queueVars, historyVars>>
  BY DEF Reconnect
<1>2. d.at = task[o].at /\ d.tool = task[o].tool /\ d.clicked = task[o].clicked
      /\ d.arg = task[o].arg /\ d.picked = task[o].picked /\ d.seen = task[o].seen
  BY TaskTyped DEF TaskType
<1> HIDE DEF d
<1>3. task'[o] = d /\ \A p \in Operation : p # o => task'[p] = task[p]
  BY <1>1, TaskTyped DEF TaskShape
<1>4. Running(o)
  BY <1>1 DEF Running, Access
<1>5. Blank'
  <2>1. CASE client # 0
    BY <2>1 DEF Reconnect, NoMemory, Blank
  <2>2. CASE client = 0
    BY <2>2 DEF Reconnect, Order, Blank
  <2> QED
    BY <2>1, <2>2
<1>6. ~ Live'
  BY <1>1 DEF Live, Shape, LinkShape
<1>7. \A p \in Operation : Running(p)' => turn' = p
  BY <1>1, <1>2, <1>3 DEF Order, Running, queueVars
<1>8. Order'
  BY <1>1, <1>4, <1>5, <1>7, Alone DEF Order, queueVars
<1>9. \A p \in Operation : p # o => ~ Between(task'[p])
  BY <1>3, <1>4, OthersRest
<1>10. Landed(d) <=> Landed(task[o])
  BY <1>2 DEF Landed
<1>11. Unreplayable'
  BY <1>1, <1>3, <1>6, <1>9, <1>10 DEF Unreplayable, Between
<1>12. calm' => Matching'
  <2> SUFFICES ASSUME calm'
               PROVE  Matching'
    OBVIOUS
  <2>1. Ahead(o)
    BY <1>1 DEF Matching, historyVars
  <2>2. Ahead(o)'
    BY <1>1, <1>2, <1>3, <1>6, <2>1, PagesTyped
    DEF Ahead, Landed, RouteChosen, PlaceChosen, OtherPage, Page
  <2>3. \A p \in Operation : p # o => Ahead(p)'
    BY <1>9 DEF Ahead, Between
  <2> QED
    BY <1>6, <2>2, <2>3 DEF Matching
<1> QED
  BY <1>8, <1>11, <1>12

(* ... and has a client again: there is nothing to remember then. *)
LEMMA AttachRemembered ==
    ASSUME Shape, Remembered, NEW o \in Operation, Attach(o)
    PROVE  Remembered'
<1> USE DEF Remembered
<1> DEFINE d == [task[o] EXCEPT !.link = "answered"]
<1>1. task' = [task EXCEPT ![o] = d] /\ attached' = attached + 1 /\ client' = attached'
      /\ sockets' = sockets \cup {attached'} /\ chrome' = TRUE
      /\ UNCHANGED <<epoch, active, page, queueVars, historyVars>>
  BY DEF Attach
<1>2. d.at = task[o].at /\ d.tool = task[o].tool /\ d.clicked = task[o].clicked
      /\ d.arg = task[o].arg /\ d.picked = task[o].picked /\ d.seen = task[o].seen
      /\ d.link = "answered"
  BY TaskTyped DEF TaskType
<1> HIDE DEF d
<1>3. task'[o] = d /\ \A p \in Operation : p # o => task'[p] = task[p]
  BY <1>1, TaskTyped DEF TaskShape
<1>4. task[o].at \in Access /\ client = 0
  BY TaskTyped DEF Attach, PlaceOf, Order
<1>5. Running(o)
  BY <1>4 DEF Running, Access
<1>6. Blank'
  <2>1. Blank
    BY <1>4 DEF Order
  <2>2. memory' \in {memory, [memory EXCEPT !.view = "blank"]}
    BY DEF Attach
  <2>3. memory'.last = memory.last /\ memory'.route = memory.route
    BY <2>2, TaskTyped DEF MemoryShape, MemoryType
  <2> QED
    BY <2>1, <2>3 DEF Blank
<1>7. LastMatches' /\ RouteMatches' /\ memory'.last = NoAction
  BY <1>6 DEF Blank, LastMatches, RouteMatches
<1>8. \A p \in Operation : Running(p)' => turn' = p
  BY <1>1, <1>2, <1>3 DEF Order, Running, queueVars
<1>9. \A p \in Operation : p # o => task[p].link # "connecting"
  <2> SUFFICES ASSUME NEW p \in Operation, p # o
               PROVE  task[p].link # "connecting"
    OBVIOUS
  <2>1. ~ Running(p)
    BY <1>5, Alone
  <2> QED
    BY <2>1, TaskTyped DEF Running, PlaceOf, Access
<1>10. Order'
  BY <1>1, <1>2, <1>3, <1>5, <1>6, <1>8, <1>9, Alone DEF Order, queueVars
<1>11. \A p \in Operation : p # o => ~ Between(task'[p])
  BY <1>3, <1>5, OthersRest
<1>12. Landed(d) <=> Landed(task[o])
  BY <1>2 DEF Landed
<1>13. Unreplayable'
  BY <1>1, <1>3, <1>7, <1>11, <1>12 DEF Unreplayable, Between
<1>14. calm' => Matching'
  <2> SUFFICES ASSUME calm'
               PROVE  Matching'
    OBVIOUS
  <2>1. Ahead(o)
    BY <1>1 DEF Matching, historyVars
  <2>2. Ahead(o)'
    BY <1>1, <1>2, <1>3, <1>7, <2>1, PagesTyped
    DEF Ahead, Landed, RouteChosen, PlaceChosen, OtherPage, Page
  <2>3. \A p \in Operation : p # o => Ahead(p)'
    BY <1>11 DEF Ahead, Between
  <2> QED
    BY <1>7, <2>2, <2>3 DEF Matching
<1> QED
  BY <1>10, <1>13, <1>14

(* A step of nobody's task that forgets everything, or loses the connection. *)
LEMMA HumanTakesRemembered ==
    ASSUME Shape, Remembered, HumanTakes
    PROVE  Remembered'
<1> USE DEF Remembered
<1>1. turn = NoOperation /\ client' = 0 /\ memory' = NoMemory /\ page' = BlankPage
      /\ UNCHANGED <<active, task, turn, reset, calm>>
  BY DEF HumanTakes, ChromeStops, queueVars, historyVars
<1>2. \A p \in Operation : task[p].at \in {"idle", "done"}
  BY <1>1, NamesAssumption DEF Order, Running
<1>3. \A p \in Operation : ~ Between(task'[p]) /\ ~ Running(p)'
  BY <1>1, <1>2, RestingTasks DEF Running
<1>4. Blank' /\ LastMatches' /\ RouteMatches' /\ memory'.last = NoAction
  BY <1>1 DEF NoMemory, Blank, LastMatches, RouteMatches
<1>5. Order'
  BY <1>1, <1>3, <1>4 DEF Order
<1>6. Unreplayable'
  BY <1>3, <1>4 DEF Unreplayable, Between
<1>7. Matching'
  BY <1>3, <1>4 DEF Matching, Ahead, Between
<1> QED
  BY <1>5, <1>6, <1>7

LEMMA HumanEndsRemembered ==
    ASSUME Shape, Remembered, HumanEnds
    PROVE  Remembered'
<1> USE DEF Remembered
<1>1. active' = FALSE
      /\ UNCHANGED <<memory, client, sockets, page, task, turn, reset, calm>>
  BY DEF HumanEnds, browserVars, queueVars, historyVars
<1>2. Order'
  BY <1>1 DEF Order, Running, Blank
<1>3. Unreplayable'
  BY <1>1 DEF Unreplayable, Live
<1>4. calm' => Matching'
  BY <1>1 DEF Matching, Ahead, Live, LastMatches, RouteMatches, OtherPage, Page
<1> QED
  BY <1>2, <1>3, <1>4

LEMMA WorldRemembered ==
    ASSUME Shape, Remembered, Move \/ Drop
    PROVE  Remembered'
<1> USE DEF Remembered
<1>1. UNCHANGED <<memory, active, client, task, turn, reset>>
  BY DEF Move, Drop, memoryVars, queueVars
<1>2. Order'
  BY <1>1 DEF Order, Running, Blank
<1>3. CASE Move
  <2>1. page' = OtherPage \/ \E a \in Action : page' = Page(KindOf(a), a)
    BY <1>3 DEF Move
  <2>2. page'.refined = FALSE
    BY <2>1 DEF OtherPage, Page
  <2>3. calm' = FALSE
    BY <1>3 DEF Move
  <2> QED
    BY <1>2, <2>2, <2>3 DEF Unreplayable
<1>4. CASE Drop
  <2>1. ~ Live'
    BY <1>1, <1>4 DEF Drop, Live
  <2>2. CASE UNCHANGED <<page, calm>>
    <3>1. Unreplayable'
      BY <1>1, <2>1, <2>2 DEF Unreplayable
    <3>2. calm' => Matching'
      BY <1>1, <2>1, <2>2 DEF Matching, Ahead, OtherPage, Page
    <3> QED
      BY <1>2, <3>1, <3>2
  <2>3. CASE page' = BlankPage /\ calm' = FALSE
    BY <1>2, <2>3, PagesTyped DEF Unreplayable
  <2> QED
    BY <1>4, <2>2, <2>3 DEF Drop, ChromeStops
<1> QED
  BY <1>3, <1>4

LEMMA InitRemembered == Init => Remembered
<1> SUFFICES ASSUME Init
             PROVE  Remembered
  OBVIOUS
<1>1. \A o \in Operation : task[o].at = "idle" /\ task[o].link = "ask"
  BY DEF Init, NoTask
<1>2. \A o \in Operation : ~ Between(task[o]) /\ ~ Running(o)
  BY <1>1, RestingTasks DEF Running
<1>3. Blank /\ LastMatches /\ RouteMatches
  BY DEF Init, NoMemory, Blank, LastMatches, RouteMatches
<1>4. Order
  BY <1>1, <1>2, <1>3 DEF Order, Init
<1>5. Unreplayable
  BY <1>2, <1>3 DEF Unreplayable, Between, Blank
<1>6. Matching
  BY <1>2, <1>3 DEF Matching, Ahead, Between
<1> QED
  BY <1>4, <1>5, <1>6 DEF Remembered

LEMMA NextRemembered ==
    ASSUME Shape, used.timeouts = 0 => Remembered, [Next]_vars, used'.timeouts = 0
    PROVE  Remembered'
<1>1. used.timeouts = 0 /\ ~ \E o \in Operation : Timeout(o)
  <2>1. used.timeouts \in Nat /\ used.timeouts \in 0 .. MaxTimeouts
    BY DEF Shape, UsedShape
  <2>2. ASSUME NEW o \in Operation, Timeout(o)
        PROVE  FALSE
    BY <2>1, <2>2 DEF Timeout, Shape, UsedShape
  <2>3. ASSUME NEW f \in {"drops", "moves", "challenges"},
               used' = [used EXCEPT ![f] = @ + 1]
        PROVE  used.timeouts = 0
    BY <2>3 DEF Shape, UsedShape
  <2>4. UNCHANGED used => used.timeouts = 0
    OBVIOUS
  <2>5. ASSUME NEW o \in Operation,
               Start(o) \/ TaskStep(o, Tool(o)) \/ Challenge(o) \/ ReplyLost(o)
               \/ Reconnect(o) \/ Attach(o) \/ AttachFails(o) \/ AccessFails(o)
               \/ EvaluationFails(o)
        PROVE  used.timeouts = 0
    BY <2>3, <2>4, <2>5
    DEF Start, TaskStep, Challenge, ReplyLost, Reconnect, Attach, AttachFails, AccessFails,
        EvaluationFails, historyVars
  <2>6. ASSUME ResetForgets \/ ResetEnds \/ HumanTakes \/ HumanEnds
        PROVE  used.timeouts = 0
    <3>1. UNCHANGED used
      BY <2>6 DEF ResetForgets, ResetEnds, HumanTakes, HumanEnds, historyVars
    <3> QED
      BY <2>4, <3>1
  <2>7. ASSUME Move \/ Drop
        PROVE  used.timeouts = 0
    <3>1. used' = [used EXCEPT !["moves"] = @ + 1] \/ used' = [used EXCEPT !["drops"] = @ + 1]
      BY <2>7 DEF Move, Drop
    <3> QED
      BY <2>3, <3>1
  <2>8. ASSUME UNCHANGED vars
        PROVE  used.timeouts = 0
    <3>1. UNCHANGED used
      BY <2>8 DEF vars, historyVars
    <3> QED
      BY <2>4, <3>1
  <2> QED
    BY <2>2, <2>5, <2>6, <2>7, <2>8 DEF Next
<1>2. Remembered
  BY <1>1
<1>3. ASSUME NEW o \in Operation,
             Start(o) \/ TaskStep(o, Tool(o)) \/ Challenge(o) \/ ReplyLost(o)
      PROVE  Remembered'
  BY <1>2, <1>3, StartRemembered, ToolRemembered, ChallengeRemembered, ReplyLostRemembered
<1>4. ASSUME NEW o \in Operation,
             Reconnect(o) \/ Attach(o) \/ AttachFails(o) \/ AccessFails(o) \/ EvaluationFails(o)
      PROVE  Remembered'
  BY <1>2, <1>4, ReconnectRemembered, AttachRemembered, FailureRemembered
<1>5. CASE ResetForgets \/ ResetEnds
  BY <1>2, <1>5 DEF ResetForgets, ResetEnds, Remembered, Order
<1>6. CASE HumanTakes \/ HumanEnds \/ Move \/ Drop
  BY <1>2, <1>6, HumanTakesRemembered, HumanEndsRemembered, WorldRemembered
<1>7. CASE UNCHANGED vars
  <2>1. UNCHANGED <<memory, active, client, sockets, page, task, turn, reset, calm>>
    BY <1>7 DEF vars, memoryVars, browserVars, queueVars, historyVars
  <2>2. Order' /\ Unreplayable'
    BY <1>2, <2>1 DEF Remembered, Order, Running, Blank, Unreplayable, Live
  <2>3. calm' => Matching'
    BY <1>2, <2>1 DEF Remembered, Matching, Ahead, Live, LastMatches, RouteMatches, OtherPage,
                      Page
  <2> QED
    BY <2>2, <2>3 DEF Remembered
<1> QED
  BY <1>1, <1>3, <1>4, <1>5, <1>6, <1>7 DEF Next

(* A timeout ends the calm. *)
LEMMA NextCalm ==
    ASSUME Shape, calm => used.timeouts = 0, [Next]_vars
    PROVE  calm' => used'.timeouts = 0
<1>1. ASSUME NEW f \in {"drops", "moves", "challenges"},
             used' = [used EXCEPT ![f] = @ + 1]
      PROVE  used'.timeouts = used.timeouts
  BY <1>1 DEF Shape, UsedShape
<1>2. ASSUME NEW o \in Operation, Timeout(o)
      PROVE  calm' = FALSE
  BY <1>2 DEF Timeout
<1>3. ASSUME NEW o \in Operation,
             Start(o) \/ TaskStep(o, Tool(o)) \/ Challenge(o) \/ ReplyLost(o)
             \/ Reconnect(o) \/ Attach(o) \/ AttachFails(o) \/ AccessFails(o)
             \/ EvaluationFails(o)
      PROVE  used'.timeouts = used.timeouts /\ calm' \in {calm, FALSE}
  BY <1>1, <1>3
  DEF Start, TaskStep, Challenge, ReplyLost, Reconnect, Attach, AttachFails, AccessFails,
      EvaluationFails, historyVars
<1>4. ASSUME ResetForgets \/ ResetEnds \/ HumanTakes \/ HumanEnds \/ Move \/ Drop
      PROVE  used'.timeouts = used.timeouts /\ calm' \in {calm, FALSE}
  BY <1>1, <1>4 DEF ResetForgets, ResetEnds, HumanTakes, HumanEnds, Move, Drop, historyVars
<1>5. CASE UNCHANGED vars
  BY <1>5 DEF vars, historyVars
<1> QED
  BY <1>2, <1>3, <1>4, <1>5 DEF Next

LEMMA Invariance == Spec => []RuntimeInv
<1>1. Init => RuntimeInv
  BY InitShape, InitRemembered DEF RuntimeInv, Init
<1>2. RuntimeInv /\ [Next]_vars => RuntimeInv'
  BY NextShape, NextRemembered, NextCalm DEF RuntimeInv
<1> QED
  BY <1>1, <1>2, PTL DEF Spec

-----------------------------------------------------------------------------
(* Between operations, and while nothing broke that calm leaves out, the request and
   the route that the runtime remembers are those the page shows, for any
   number of connections lost, replies lost and challenges. *)
THEOREM MemoryMatchesPageHolds == Spec => []MemoryMatchesPage
<1>1. RuntimeInv => MemoryMatchesPage
  <2> SUFFICES ASSUME RuntimeInv, Quiet, calm
               PROVE  LastMatches /\ RouteMatches
    BY DEF MemoryMatchesPage, LastMatches, RouteMatches
  <2>1. Remembered /\ Matching
    BY DEF RuntimeInv, Remembered
  <2>2. \A o \in Operation : ~ Running(o)
    BY <2>1, NamesAssumption DEF Quiet, Remembered, Order
  <2>3. \A o \in Operation : ~ Between(task[o])
    BY <2>2, RestingTasks DEF Running
  <2> QED
    BY <2>1, <2>3 DEF Matching, Quiet
<1> QED
  BY <1>1, Invariance, PTL

(* Until an operation is given up, a page whose UI was changed by a click is
   never remembered with a request that could be replayed, also after crashes,
   failed reads and moves by hand. *)
THEOREM ReplayFencedHolds == Spec => []ReplayFenced
<1>1. RuntimeInv => ReplayFenced
  <2> SUFFICES ASSUME RuntimeInv, Quiet, used.timeouts = 0, page.refined
               PROVE  memory.last = NoAction
    BY DEF ReplayFenced
  <2>1. Remembered
    BY DEF RuntimeInv
  <2>2. \A o \in Operation : ~ Running(o)
    BY <2>1, NamesAssumption DEF Quiet, Remembered, Order
  <2>3. \A o \in Operation : ~ Mid(task[o])
    BY <2>2, RestingTasks DEF Running
  <2> QED
    BY <2>1, <2>3 DEF Remembered, Unreplayable, Quiet
<1> QED
  BY <1>1, Invariance, PTL
=============================================================================
