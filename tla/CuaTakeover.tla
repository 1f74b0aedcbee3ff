---------------------------- MODULE CuaTakeover ----------------------------
(***************************************************************************)
(* One credential-safe takeover through the Cua driver:                    *)
(* src/browser/cua-human-takeover-adapter.ts on cua-mcp-client.ts.         *)
(*                                                                         *)
(* The client starts the driver when a tool is called, keeps one request   *)
(* per operation pending, and closes the driver when it has to start       *)
(* another.  The Human's page asks for frames and sends input side by side *)
(* with each other and with the end of the takeover, the driver may crash, *)
(* hang or ignore SIGTERM, and the windows of Chrome change.               *)
(*                                                                         *)
(* Where in its window an input goes, and what is typed, is left out.      *)
(***************************************************************************)
EXTENDS Integers, FiniteSets

CONSTANTS
    MaxOps,      \* bound: frames and inputs the page asks for
    Begin, End,  \* adapter.begin() and adapter.end()
    Window,      \* windows Chrome may show
    None,
    MaxTries,    \* attempts of begin() to find the window; 20 in the code
    MaxCrashes,  \* bound: drivers that go down of themselves
    MaxChanges   \* bound: changes of what is visible

Op == 1 .. MaxOps   \* in the order the page asks for them

ASSUME NamesAssumption == Begin # End /\ {Begin, End} \cap Op = {} /\ None \notin Window
ASSUME BoundAssumption ==
    MaxOps \in Nat /\ MaxTries \in Nat \ {0} /\ MaxCrashes \in Nat /\ MaxChanges \in Nat

VARIABLES
    takeover,     \* "none", "beginning", "active", "over"
    lastFrame,    \* the window of the frame delivered last
    child,        \* the driver the client talks to; drivers are numbered
    initialized,
    running,      \* drivers that run
    told,         \* those of them that were sent SIGTERM or SIGKILL
    signalled,    \* drivers in use that a signal ended: their exitCode stays null
    spawned,      \* how many drivers there were
    ops,          \* the operations
    visible,      \* windows of Chrome on the screen
    crashes, changes,
    greeted,      \* history: drivers that answered initialize
    sole,         \* history: windows seen alone since the operation was asked for
    overlapped    \* history: the client was closed while it was being started

client == <<child, initialized, running, told, signalled, spawned, ops, greeted, overlapped>>
vars == <<takeover, lastFrame, client, visible, crashes, changes, sole>>

Process == Op \cup {Begin, End}
Tool == [begin   |-> <<"list_windows", "bring_to_front", "list_windows">>,
         capture |-> <<"list_windows", "get_window_state">>,
         input   |-> <<"list_windows", "act">>,
         end     |-> <<>>]

(* frame: the window of the frame the input was made on; window: the one
   found for this operation; driver: the one asked, or the one being closed. *)
Idle == [kind |-> "end", at |-> "idle", step |-> 1, tries |-> 1, frame |-> None, window |-> None,
         driver |-> 0]
Started(kind, frame) == [Idle EXCEPT !.kind = kind, !.at = "call", !.frame = frame]

ToolOf(op) == Tool[op.kind][op.step]
Pending(k) == ops[k].at \in {"initialize", "answer"}

(* A mutant: the request is forgotten, and nobody is told. *)
SlipFailed(op) == [op EXCEPT !.at = "forgotten"]

(* What an operation does when its request fails: begin() closes the client. *)
Failed(op) == [op EXCEPT !.at = IF op.kind = "begin" THEN "catch" ELSE "done", !.driver = 0]

-----------------------------------------------------------------------------
(* The client.  These operators say what becomes of it in a step of
   operation k, whose record has become op. *)
ClientSame == UNCHANGED <<child, initialized, running, told, signalled, spawned, greeted, overlapped>>

(* exitCode === null: the driver runs, or a signal ended it. *)
LooksAlive(c) == c \in running \cup signalled

(* failPending() *)
PendingFailed == [q \in Process |-> IF Pending(q) THEN Failed(ops[q]) ELSE ops[q]]

Spawned(op) == [op EXCEPT !.at = "initialize", !.driver = spawned + 1]

Spawn == /\ child' = spawned + 1 /\ spawned' = spawned + 1 /\ running' = running \cup {spawned + 1}

(* close(): every pending request fails, SIGTERM is sent to a driver that
   runs, and the caller waits for it; then, goes on or is done. *)
Close(k, op) ==
    /\ initialized' = FALSE
    /\ overlapped' = (overlapped \/ \E q \in Process \ {k} : ops[q].at \in {"closing", "initialize"})
    /\ UNCHANGED <<signalled, greeted>>
    /\ IF LooksAlive(child)
       THEN /\ ops' = [PendingFailed EXCEPT ![k] = [op EXCEPT !.at = "closing", !.driver = child]]
            /\ told' = told \cup ({child} \cap running) /\ child' = 0
            /\ UNCHANGED <<running, spawned>>
       ELSE /\ UNCHANGED told
            /\ IF op.kind = "end"
               THEN ops' = [PendingFailed EXCEPT ![k] = [op EXCEPT !.at = "done"]] /\ child' = 0
                    /\ UNCHANGED <<running, spawned>>
               ELSE ops' = [PendingFailed EXCEPT ![k] = Spawned(op)] /\ Spawn

(* callTool(): start(), which may close and spawn, then the request. *)
Usable == initialized /\ LooksAlive(child)

(* A mutant: a driver that was not initialized is used, not replaced. *)
SlipCall(k, op) ==
    IF LooksAlive(child)
    THEN ops' = [ops EXCEPT ![k] = [op EXCEPT !.at = "answer", !.driver = child]] /\ ClientSame
    ELSE Close(k, op)

Call(k, op) ==
    IF Usable
    THEN ops' = [ops EXCEPT ![k] = [op EXCEPT !.at = "answer", !.driver = child]] /\ ClientSame
    ELSE Close(k, op)

(* The wait in close() is over: the driver is gone, or 800 ms passed and
   SIGKILL is sent. *)
Wake(k) ==
    /\ ops[k].at = "closing"
    /\ IF ops[k].kind = "end"
       THEN /\ ops' = [ops EXCEPT ![k].at = "done", ![k].driver = 0]
            /\ UNCHANGED <<child, running, spawned>>
       ELSE ops' = [ops EXCEPT ![k] = Spawned(@)] /\ Spawn
    /\ UNCHANGED <<takeover, lastFrame, initialized, told, signalled, greeted, overlapped, visible,
                   crashes, changes, sole>>

(* The answer to initialize; the tool is called on the driver there is now. *)
Initialized(k) ==
    /\ ops[k].at = "initialize" /\ ops[k].driver \in running
    /\ initialized' = TRUE
    /\ greeted' = greeted \cup {ops[k].driver}
    /\ ops' = [ops EXCEPT ![k] = IF LooksAlive(child) THEN [@ EXCEPT !.at = "answer", !.driver = child]
                                 ELSE Failed(@)]
    /\ UNCHANGED <<takeover, lastFrame, child, running, told, signalled, spawned, overlapped, visible,
                   crashes, changes, sole>>

(* A request times out, cannot be written or is answered with an error. *)
GiveUp(k) ==
    /\ Pending(k)
    /\ ops' = [ops EXCEPT ![k] = Failed(@)]
    /\ ClientSame
    /\ UNCHANGED <<takeover, lastFrame, visible, crashes, changes, sole>>

(* A driver exits, by itself or by a signal.  Its handler fails whatever is
   pending, its own or not.  One in use that a signal ended is not replaced:
   what is written to it fails. *)
Exit(c, signal) ==
    /\ c \in running /\ (signal => c = child)
    /\ signalled' = IF signal THEN signalled \cup {c} ELSE signalled
    /\ IF c \in told THEN UNCHANGED crashes ELSE crashes < MaxCrashes /\ crashes' = crashes + 1
    /\ running' = running \ {c} /\ told' = told \ {c}
    /\ ops' = PendingFailed
    /\ UNCHANGED <<takeover, lastFrame, child, initialized, spawned, greeted, overlapped, visible,
                   changes, sole>>

-----------------------------------------------------------------------------
(* The adapter.  The page gets its locator when begin() has succeeded. *)
BeginTakeover ==
    /\ takeover = "none"
    /\ takeover' = "beginning"
    /\ Call(Begin, Started("begin", None))
    /\ UNCHANGED <<lastFrame, visible, crashes, changes, sole>>

(* What was seen alone so far, of an operation that starts. *)
SeenNow(k) == sole' = [sole EXCEPT ![k] = IF Cardinality(visible) = 1 THEN visible ELSE {}]

Asked(k) == takeover = "active" /\ ops[k].at = "idle" /\ \A j \in 1 .. k - 1 : ops[j].at # "idle"

CaptureFrame(k) ==
    /\ Asked(k)
    /\ Call(k, Started("capture", None)) /\ SeenNow(k)
    /\ UNCHANGED <<takeover, lastFrame, visible, crashes, changes>>

(* tap, scroll, text and key *)
Input(k) ==
    /\ Asked(k) /\ lastFrame # None
    /\ Call(k, Started("input", lastFrame)) /\ SeenNow(k)
    /\ UNCHANGED <<takeover, lastFrame, visible, crashes, changes>>

EndTakeover ==
    /\ takeover = "active"
    /\ takeover' = "over"
    /\ Close(End, Started("end", None))
    /\ UNCHANGED <<lastFrame, visible, crashes, changes, sole>>

(* begin() has failed. *)
Catch ==
    /\ ops[Begin].at = "catch"
    /\ takeover' = "over"
    /\ Close(Begin, Started("end", None))
    /\ UNCHANGED <<lastFrame, visible, crashes, changes, sole>>

-----------------------------------------------------------------------------
(* Answers of the driver. *)
Answered(k, tool) ==
    /\ ops[k].at = "answer" /\ ops[k].driver \in running /\ ToolOf(ops[k]) = tool
    /\ UNCHANGED <<visible, crashes, changes, sole>>

Finishes(k, op) == ops' = [ops EXCEPT ![k] = op] /\ ClientSame
NextStep(op) == [op EXCEPT !.step = @ + 1]

(* A mutant: the input goes to the window that is there. *)
SlipSameWindow(op, w) == TRUE

(* The window found must be the one of the frame, and for begin() the one
   brought to the front. *)
SameWindow(op, w) == op.window \in {None, w} /\ op.frame \in {None, w}

OneWindow(k) ==
    /\ Answered(k, "list_windows")
    /\ \E w \in visible :
          /\ visible = {w}
          /\ IF ~SameWindow(ops[k], w)
             THEN /\ Finishes(k, Failed(ops[k]))
                  /\ lastFrame' = IF ops[k].kind = "input" THEN None ELSE lastFrame
                  /\ UNCHANGED takeover
             ELSE IF ops[k].step = 3
             THEN Finishes(k, [ops[k] EXCEPT !.at = "done"]) /\ takeover' = "active" /\ UNCHANGED lastFrame
             ELSE Call(k, NextStep([ops[k] EXCEPT !.window = w])) /\ UNCHANGED <<takeover, lastFrame>>

(* begin() looks again, as long as there is no window at all. *)
NoWindowYet(k) ==
    /\ Answered(k, "list_windows")
    /\ visible = {} /\ ops[k].kind = "begin" /\ ops[k].tries < MaxTries
    /\ Call(k, [ops[k] EXCEPT !.tries = @ + 1])
    /\ UNCHANGED <<takeover, lastFrame>>

NotOneWindow(k) ==
    /\ Answered(k, "list_windows")
    /\ \/ Cardinality(visible) > 1
       \/ visible = {} /\ (ops[k].kind # "begin" \/ ops[k].tries = MaxTries)
    /\ Finishes(k, Failed(ops[k]))
    /\ lastFrame' = None
    /\ UNCHANGED takeover

BroughtToFront(k) ==
    /\ Answered(k, "bring_to_front")
    /\ Call(k, [NextStep(ops[k]) EXCEPT !.tries = 1])
    /\ UNCHANGED <<takeover, lastFrame>>

FrameTaken(k) ==
    /\ Answered(k, "get_window_state")
    /\ Finishes(k, [ops[k] EXCEPT !.at = "done"])
    /\ lastFrame' = ops[k].window
    /\ UNCHANGED takeover

Acted(k) ==
    /\ Answered(k, "act")
    /\ Finishes(k, [ops[k] EXCEPT !.at = "done"])
    /\ UNCHANGED <<takeover, lastFrame>>

(* Windows open, close, and move to other spaces of the desktop. *)
ChangeWindows(w) ==
    /\ changes < MaxChanges
    /\ changes' = changes + 1
    /\ visible' = w
    /\ sole' = [k \in Process |-> IF Cardinality(w) = 1 THEN sole[k] \cup w ELSE sole[k]]
    /\ UNCHANGED <<takeover, lastFrame, client, crashes>>

Init ==
    /\ takeover = "none" /\ lastFrame = None
    /\ child = 0 /\ initialized = FALSE /\ running = {} /\ told = {} /\ signalled = {}
    /\ spawned = 0
    /\ ops = [k \in Process |-> Idle]
    /\ visible \in SUBSET Window
    /\ crashes = 0 /\ changes = 0
    /\ greeted = {} /\ sole = [k \in Process |-> {}] /\ overlapped = FALSE

Step(k) ==
    \/ Wake(k) \/ Initialized(k) \/ GiveUp(k)
    \/ OneWindow(k) \/ NoWindowYet(k) \/ NotOneWindow(k)
    \/ BroughtToFront(k) \/ FrameTaken(k) \/ Acted(k)

Next ==
    \/ BeginTakeover \/ EndTakeover \/ Catch
    \/ \E k \in Op : CaptureFrame(k) \/ Input(k)
    \/ \E k \in Process : Step(k)
    \/ \E c \in running, signal \in BOOLEAN : Exit(c, signal)
    \/ \E w \in SUBSET Window : ChangeWindows(w)

(* Timers fire and begin() handles its failure; that a driver answers, or
   heeds SIGTERM, is not assumed. *)
Fairness == WF_vars(Catch) /\ \A k \in Process : WF_vars(Wake(k)) /\ WF_vars(GiveUp(k))

Spec == Init /\ [][Next]_vars /\ Fairness

-----------------------------------------------------------------------------
TypeOK ==
    /\ takeover \in {"none", "beginning", "active", "over"}
    /\ lastFrame \in Window \cup {None} /\ visible \subseteq Window
    /\ child \in 0 .. spawned /\ initialized \in BOOLEAN /\ spawned \in Nat
    /\ running \subseteq 1 .. spawned /\ told \subseteq running /\ signalled \subseteq 1 .. spawned
    /\ greeted \subseteq 1 .. spawned
    /\ ops \in [Process -> [kind : {"begin", "capture", "input", "end"},
                            at : {"idle", "call", "initialize", "answer", "closing", "catch", "done"},
                            step : 1 .. 3, tries : 1 .. MaxTries,
                            frame : Window \cup {None}, window : Window \cup {None},
                            driver : 0 .. spawned]]
    /\ crashes \in 0 .. MaxCrashes /\ changes \in 0 .. MaxChanges
    /\ sole \in [Process -> SUBSET Window] /\ overlapped \in BOOLEAN

(* As long as the client is not closed while it is being started, every
   driver that runs is the one in use or was told to stop, whatever crashed,
   hung or timed out before, and tools are called on a driver only after its
   initialize was answered.  (Operations that find the driver gone at one time,
   or the end of the takeover while one of them waits in close(), are enough
   for a driver that nobody will stop.) *)
DriversAccounted ==
    ~overlapped => /\ running \subseteq {child} \cup told
                   /\ \A k \in Process : ops[k].at = "answer" => ops[k].driver \in greeted

(* An input is carried out in the window of the frame that the Human had when
   it was made, and that window was the only one visible at some moment since:
   not in one that took its place, although frames, inputs and changes of the
   windows go on in between. *)
InputWhereSeen ==
    \A k \in Op :
        ops[k].kind = "input" /\ ops[k].at = "answer" /\ ToolOf(ops[k]) = "act"
            => ops[k].window = ops[k].frame /\ ops[k].window \in sole[k]

(* Every operation is answered, although drivers hang, ignore SIGTERM, go down
   and fail each other's requests. *)
OperationsEnd == \A k \in Process : ops[k].at # "idle" ~> ops[k].at = "done"

=============================================================================
