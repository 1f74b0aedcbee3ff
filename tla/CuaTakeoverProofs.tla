--------------------------- MODULE CuaTakeoverProofs ---------------------------
(***************************************************************************)
(* Proofs about CuaTakeover, for any number of operations, windows and     *)
(* attempts, and any number of crashes and changes of the windows.         *)
(*                                                                         *)
(* InputWhereSeen needs to know where an input came from: each one was     *)
(* made on a window (Made), a window that is alone now was alone since the *)
(* operation was asked for (Seen), and an input that found its window      *)
(* found that one.  DriversAccounted needs to know how far the client is:  *)
(* as long as starts and closes do not overlap, one operation at most is   *)
(* starting or closing, and the driver it waits for is the client's.       *)
(***************************************************************************)
EXTENDS CuaTakeover, FiniteSetTheorems, TLAPS

Kinds == {"begin", "capture", "input", "end"}
Stages == {"idle", "call", "initialize", "answer", "closing", "catch", "done"}
OpType == [kind : Kinds, at : Stages, step : Nat, tries : Nat, frame : Window \cup {None},
           window : Window \cup {None}, driver : Nat]

Types ==
    /\ lastFrame \in Window \cup {None} /\ visible \subseteq Window
    /\ child \in Nat /\ spawned \in Nat
    /\ initialized \in BOOLEAN /\ overlapped \in BOOLEAN
    /\ ops \in [Process -> OpType]
    /\ sole \in [Process -> SUBSET Window]

(* An operation that has seen these windows alone. *)
OpMade(op, seen) == op.kind = "input" =>
    /\ op.frame \in Window /\ op.step \in {1, 2}
    /\ op.step = 2 => op.window = op.frame /\ op.window \in seen

Made == \A k \in Op : OpMade(ops[k], sole[k])

Seen == \A k \in Op :
    ops[k].at # "idle" /\ Cardinality(visible) = 1 => visible \subseteq sole[k]

InputInv == Types /\ Made /\ Seen

-----------------------------------------------------------------------------
LEMMA OpInProcess == Op \subseteq Process /\ Begin \in Process /\ End \in Process
  BY DEF Process

LEMMA IdleOp == Idle \in OpType /\ Idle.kind = "end" /\ Idle.at = "idle"
  BY DEF Idle, OpType, Kinds, Stages

LEMMA StartedOp ==
    ASSUME NEW kind \in Kinds, NEW frame \in Window \cup {None}
    PROVE  /\ Started(kind, frame) \in OpType
           /\ Started(kind, frame).kind = kind /\ Started(kind, frame).at = "call"
           /\ Started(kind, frame).step = 1 /\ Started(kind, frame).frame = frame
  BY DEF Started, Idle, OpType, Stages

LEMMA InitInput == Init => InputInv
<1> SUFFICES ASSUME Init
             PROVE  Types /\ Made /\ Seen
  BY DEF InputInv
<1>1. Types
  <2>1. ops = [k \in Process |-> Idle] /\ sole = [k \in Process |-> {}]
    BY DEF Init
  <2>2. ops \in [Process -> OpType] /\ sole \in [Process -> SUBSET Window]
    BY <2>1, IdleOp
  <2> QED
    BY <2>2 DEF Init, Types
<1>2. \A k \in Op : ops[k] = Idle
  BY OpInProcess DEF Init
<1> QED
  BY <1>1, <1>2, IdleOp DEF Made, OpMade, Seen

(* Everything of an operation but where it waits, and for which driver. *)
Alike(new, old) ==
    /\ new \in OpType
    /\ new.kind = old.kind /\ new.step = old.step /\ new.frame = old.frame
    /\ new.window = old.window
    /\ old.at = "idle" => new.at = "idle"

LEMMA MovedAlike ==
    ASSUME NEW op \in OpType, op.at # "idle", NEW at \in Stages, NEW d \in Nat
    PROVE  Alike([op EXCEPT !.at = at, !.driver = d], op) /\ Alike([op EXCEPT !.at = at], op)
<1> DEFINE new == [op EXCEPT !.at = at, !.driver = d]
           other == [op EXCEPT !.at = at]
<1>1. new \in OpType /\ other \in OpType
  BY DEF OpType
<1>2. /\ new.kind = op.kind /\ new.step = op.step /\ new.frame = op.frame /\ new.window = op.window
      /\ other.kind = op.kind /\ other.step = op.step /\ other.frame = op.frame
      /\ other.window = op.window
  BY DEF OpType
<1> QED
  BY <1>1, <1>2 DEF Alike

LEMMA FailedAlike ==
    ASSUME NEW op \in OpType, op.at # "idle"
    PROVE  Alike(Failed(op), op)
<1> DEFINE at == IF op.kind = "begin" THEN "catch" ELSE "done"
<1>1. at \in Stages
  BY DEF Stages
<1>2. Failed(op) = [op EXCEPT !.at = at, !.driver = 0]
  BY DEF Failed
<1> HIDE DEF at
<1>3. Alike([op EXCEPT !.at = at, !.driver = 0], op)
  BY <1>1, MovedAlike
<1> QED
  BY <1>2, <1>3

LEMMA SpawnedAlike ==
    ASSUME Types, NEW op \in OpType, op.at # "idle"
    PROVE  Alike(Spawned(op), op)
<1>1. "initialize" \in Stages /\ spawned + 1 \in Nat
  BY DEF Stages, Types
<1> QED
  BY <1>1, MovedAlike DEF Spawned

LEMMA PendingFailedAlike ==
    ASSUME Types
    PROVE  /\ PendingFailed \in [Process -> OpType]
           /\ \A q \in Process : Alike(PendingFailed[q], ops[q])
<1>1. \A q \in Process : ops[q] \in OpType
  BY DEF Types
<1>2. \A q \in Process : PendingFailed[q] \in {ops[q], Failed(ops[q])}
  BY DEF PendingFailed
<1>0. \A q \in Process : ops[q].at = "idle" => PendingFailed[q] = ops[q]
  BY DEF PendingFailed, Pending
<1>3. \A q \in Process : Alike(ops[q], ops[q])
  BY <1>1 DEF Alike
<1>4. \A q \in Process : PendingFailed[q] \in OpType /\ Alike(PendingFailed[q], ops[q])
  BY <1>0, <1>1, <1>2, <1>3, FailedAlike DEF Alike
<1>5. PendingFailed = [q \in Process |-> PendingFailed[q]]
  BY DEF PendingFailed
<1> QED
  BY <1>4, <1>5

(* A step of the client for operation k, whose record has become op: the
   operations stay what they are, and so do the other variables' types. *)
Serves(k, op) ==
    /\ ops' \in [Process -> OpType]
    /\ Alike(ops'[k], op)
    /\ \A q \in Process : q # k => Alike(ops'[q], ops[q])
    /\ child' \in Nat /\ spawned' \in Nat
    /\ initialized' \in BOOLEAN /\ overlapped' \in BOOLEAN

LEMMA CloseServes ==
    ASSUME Types, NEW k \in Process, NEW op \in OpType, op.at # "idle", Close(k, op)
    PROVE  Serves(k, op)
<1>1. PICK new \in OpType :
         Alike(new, op) /\ ops' = [PendingFailed EXCEPT ![k] = new]
  <2>1. Alike([op EXCEPT !.at = "closing", !.driver = child], op)
    BY MovedAlike DEF Types, Stages
  <2>2. Alike([op EXCEPT !.at = "done"], op)
    BY MovedAlike DEF Types, Stages
  <2> QED
    BY <2>1, <2>2, SpawnedAlike DEF Close, Alike
<1>2. child' \in Nat /\ spawned' \in Nat
  BY DEF Types, Close, Spawn
<1>3. initialized' \in BOOLEAN /\ overlapped' \in BOOLEAN
  BY DEF Types, Close
<1> QED
  BY <1>1, <1>2, <1>3, PendingFailedAlike DEF Serves

LEMMA CallServes ==
    ASSUME Types, NEW k \in Process, NEW op \in OpType, op.at # "idle", Call(k, op)
    PROVE  Serves(k, op)
<1>1. CASE Usable
  <2>1. Alike([op EXCEPT !.at = "answer", !.driver = child], op)
    BY MovedAlike DEF Types, Stages
  <2>2. ops' = [ops EXCEPT ![k] = [op EXCEPT !.at = "answer", !.driver = child]] /\ ClientSame
    BY <1>1 DEF Call
  <2> HIDE DEF Usable
  <2> QED
    BY <2>1, <2>2 DEF Serves, Types, ClientSame, Alike
<1>2. CASE ~Usable
  BY <1>2, CloseServes DEF Call
<1> QED
  BY <1>1, <1>2

LEMMA FinishServes ==
    ASSUME Types, NEW k \in Process, NEW op, NEW new, Finishes(k, new), Alike(new, op)
    PROVE  Serves(k, op)
  BY DEF Types, Finishes, ClientSame, Serves, Alike

-----------------------------------------------------------------------------
(* What keeps the invariant: operation k goes on as op. *)
LEMMA StepKeeps ==
    ASSUME InputInv, NEW k \in Process, NEW op, Serves(k, op),
           visible' = visible, lastFrame' \in Window \cup {None},
           sole' \in [Process -> SUBSET Window],
           \A q \in Process : q # k => sole'[q] = sole[q],
           k \in Op => /\ OpMade(op, sole'[k])
                       /\ Cardinality(visible) = 1 => visible \subseteq sole'[k]
    PROVE  InputInv'
<1>1. Types'
  BY DEF InputInv, Types, Serves
<1>2. ASSUME NEW q \in Op
      PROVE  OpMade(ops'[q], sole'[q])
  <2>1. CASE q = k
    BY <2>1 DEF Serves, Alike, OpMade
  <2>2. CASE q # k
    <3>1. Alike(ops'[q], ops[q]) /\ sole'[q] = sole[q] /\ OpMade(ops[q], sole[q])
      BY <2>2, OpInProcess DEF InputInv, Made, Serves
    <3> QED
      BY <3>1 DEF Alike, OpMade
  <2> QED
    BY <2>1, <2>2
<1>3. ASSUME NEW q \in Op, ops'[q].at # "idle", Cardinality(visible) = 1
      PROVE  visible \subseteq sole'[q]
  <2>1. CASE q = k
    BY <1>3, <2>1
  <2>2. CASE q # k
    <3>1. ops[q].at # "idle" /\ sole'[q] = sole[q]
      BY <1>3, <2>2, OpInProcess DEF Serves, Alike
    <3> QED
      BY <1>3, <3>1 DEF InputInv, Seen
  <2> QED
    BY <2>1, <2>2
<1> QED
  BY <1>1, <1>2, <1>3 DEF InputInv, Made, Seen

(* The same for an operation that is under way already. *)
LEMMA GoesOnKeeps ==
    ASSUME InputInv, NEW k \in Process, NEW op, Serves(k, op), ops[k].at # "idle",
           visible' = visible, sole' = sole, lastFrame' \in Window \cup {None},
           k \in Op => OpMade(op, sole[k])
    PROVE  InputInv'
<1>1. k \in Op /\ Cardinality(visible) = 1 => visible \subseteq sole[k]
  BY DEF InputInv, Seen
<1>2. sole' \in [Process -> SUBSET Window]
  BY DEF InputInv, Types
<1> QED
  BY <1>1, <1>2, StepKeeps

(* And for one that stays what it is, but for where it waits. *)
LEMMA SameKeeps ==
    ASSUME InputInv, NEW k \in Process, NEW op, Serves(k, op), ops[k].at # "idle",
           visible' = visible, sole' = sole, lastFrame' \in Window \cup {None}, Alike(op, ops[k])
    PROVE  InputInv'
<1>1. k \in Op => OpMade(op, sole[k])
  BY DEF InputInv, Made, OpMade, Alike
<1> QED
  BY <1>1, GoesOnKeeps

LEMMA SeenNowSees ==
    ASSUME Types, NEW k \in Process, SeenNow(k)
    PROVE  /\ sole' \in [Process -> SUBSET Window]
           /\ \A q \in Process : q # k => sole'[q] = sole[q]
           /\ Cardinality(visible) = 1 => visible \subseteq sole'[k]
  BY DEF Types, SeenNow

LEMMA StartKeeps ==
    ASSUME InputInv, NEW k \in Op, NEW kind \in {"capture", "input"},
           NEW frame \in Window \cup {None}, Call(k, Started(kind, frame)), SeenNow(k),
           visible' = visible, lastFrame' = lastFrame, kind = "input" => frame \in Window
    PROVE  InputInv'
<1>1. k \in Process /\ kind \in Kinds
  BY OpInProcess DEF Kinds
<1>2. Serves(k, Started(kind, frame))
  BY <1>1, StartedOp, CallServes DEF InputInv
<1>3. OpMade(Started(kind, frame), sole'[k])
  BY <1>1, StartedOp DEF OpMade
<1>4. /\ sole' \in [Process -> SUBSET Window]
      /\ \A q \in Process : q # k => sole'[q] = sole[q]
      /\ Cardinality(visible) = 1 => visible \subseteq sole'[k]
  BY <1>1, SeenNowSees DEF InputInv
<1>5. lastFrame' \in Window \cup {None}
  BY DEF InputInv, Types
<1> QED
  BY <1>1, <1>2, <1>3, <1>4, <1>5, StepKeeps

LEMMA AdapterKeeps ==
    ASSUME InputInv, BeginTakeover \/ EndTakeover \/ Catch
    PROVE  InputInv'
<1> DEFINE begun == Started("begin", None)
           ended == Started("end", None)
<1>1. begun \in OpType /\ begun.at # "idle" /\ ended \in OpType /\ ended.at # "idle"
  BY StartedOp DEF Kinds
<1>2. Begin \in Process /\ End \in Process /\ Begin \notin Op /\ End \notin Op
  BY OpInProcess, NamesAssumption
<1>3. /\ visible' = visible /\ sole' = sole /\ lastFrame' = lastFrame
      /\ \/ Call(Begin, begun) \/ Close(End, ended) \/ Close(Begin, ended)
  BY DEF BeginTakeover, EndTakeover, Catch
<1>4. Serves(Begin, begun) \/ Serves(End, ended) \/ Serves(Begin, ended)
  BY <1>1, <1>2, <1>3, CallServes, CloseServes DEF InputInv
<1>5. sole' \in [Process -> SUBSET Window] /\ lastFrame' \in Window \cup {None}
  BY <1>3 DEF InputInv, Types
<1> HIDE DEF begun, ended
<1> QED
  BY <1>2, <1>3, <1>4, <1>5, StepKeeps

LEMMA ClientKeeps ==
    ASSUME InputInv, NEW k \in Process, Wake(k) \/ Initialized(k) \/ GiveUp(k)
    PROVE  InputInv'
<1>1. Types /\ ops[k] \in OpType /\ ops[k].at # "idle"
  BY DEF InputInv, Types, Wake, Initialized, GiveUp, Pending
<1>2. PICK new \in OpType : Alike(new, ops[k]) /\ ops' = [ops EXCEPT ![k] = new]
  <2>1. CASE Wake(k)
    <3>1. Alike([ops[k] EXCEPT !.at = "done", !.driver = 0], ops[k])
      BY <1>1, MovedAlike DEF Stages
    <3>2. Alike(Spawned(ops[k]), ops[k])
      BY <1>1, SpawnedAlike
    <3>3. \/ ops' = [ops EXCEPT ![k] = [ops[k] EXCEPT !.at = "done", !.driver = 0]]
          \/ ops' = [ops EXCEPT ![k] = Spawned(ops[k])]
      BY <2>1 DEF Wake, Types, InputInv
    <3> QED
      BY <3>1, <3>2, <3>3 DEF Alike
  <2>2. CASE Initialized(k)
    <3>1. Alike([ops[k] EXCEPT !.at = "answer", !.driver = child], ops[k])
      BY <1>1, MovedAlike DEF Stages, Types
    <3>2. Alike(Failed(ops[k]), ops[k])
      BY <1>1, FailedAlike
    <3>3. \/ ops' = [ops EXCEPT ![k] = [ops[k] EXCEPT !.at = "answer", !.driver = child]]
          \/ ops' = [ops EXCEPT ![k] = Failed(ops[k])]
      BY <2>2 DEF Initialized
    <3> QED
      BY <3>1, <3>2, <3>3 DEF Alike
  <2>3. CASE GiveUp(k)
    BY <1>1, <2>3, FailedAlike DEF GiveUp, Alike
  <2> QED
    BY <2>1, <2>2, <2>3
<1>3. /\ child' \in Nat /\ spawned' \in Nat /\ initialized' \in BOOLEAN /\ overlapped' \in BOOLEAN
      /\ visible' = visible /\ sole' = sole /\ lastFrame' = lastFrame
  <2>1. CASE Wake(k)
    BY <1>1, <2>1 DEF Types, Wake, Spawn
  <2>2. CASE Initialized(k)
    BY <1>1, <2>2 DEF Types, Initialized
  <2>3. CASE GiveUp(k)
    BY <1>1, <2>3 DEF Types, GiveUp, ClientSame
  <2> QED
    BY <2>1, <2>2, <2>3
<1>4. Serves(k, new)
  BY <1>1, <1>2, <1>3 DEF Serves, Types, Alike
<1>5. lastFrame' \in Window \cup {None}
  BY <1>1, <1>3 DEF Types
<1> QED
  BY <1>1, <1>2, <1>3, <1>4, <1>5, SameKeeps

LEMMA ExitKeeps ==
    ASSUME InputInv, NEW c \in running, NEW signal \in BOOLEAN, Exit(c, signal)
    PROVE  InputInv'
<1>1. Types /\ ops' = PendingFailed /\ visible' = visible /\ sole' = sole /\ lastFrame' = lastFrame
      /\ child' = child /\ spawned' = spawned /\ initialized' = initialized
      /\ overlapped' = overlapped
  BY DEF InputInv, Exit
<1>2. \A k \in Process : Alike(ops'[k], ops[k])
  BY <1>1, PendingFailedAlike
<1>3. Serves(Begin, ops[Begin])
  BY <1>1, <1>2, PendingFailedAlike, OpInProcess DEF Serves, Types
<1>4. Begin \in Process /\ Begin \notin Op
  BY OpInProcess, NamesAssumption
<1>5. sole' \in [Process -> SUBSET Window] /\ lastFrame' \in Window \cup {None}
  BY <1>1 DEF Types
<1> QED
  BY <1>1, <1>3, <1>4, <1>5, StepKeeps

LEMMA ChangeKeeps ==
    ASSUME InputInv, NEW w \in SUBSET Window, ChangeWindows(w)
    PROVE  InputInv'
<1>1. /\ ops' = ops /\ lastFrame' = lastFrame /\ child' = child /\ initialized' = initialized
      /\ spawned' = spawned /\ overlapped' = overlapped /\ visible' = w
  BY DEF ChangeWindows, client
<1>2. sole' = [k \in Process |-> IF Cardinality(w) = 1 THEN sole[k] \cup w ELSE sole[k]]
  BY DEF ChangeWindows
<1>3. \A k \in Process : sole[k] \subseteq sole'[k] /\ sole'[k] \in SUBSET Window
      /\ (Cardinality(w) = 1 => w \subseteq sole'[k])
  BY <1>2 DEF InputInv, Types
<1>4. Types'
  BY <1>1, <1>2, <1>3 DEF InputInv, Types
<1>5. Made'
  BY <1>1, <1>3, OpInProcess DEF InputInv, Made, OpMade
<1>6. Seen'
  BY <1>1, <1>3, OpInProcess DEF Seen
<1> QED
  BY <1>4, <1>5, <1>6 DEF InputInv
-----------------------------------------------------------------------------
(* The answers.  An input is asked where its window is, then acts. *)
LEMMA InputTools ==
    ASSUME NEW op, op.kind = "input", op.step \in {1, 2}
    PROVE  /\ ToolOf(op) = "list_windows" <=> op.step = 1
           /\ ToolOf(op) = "act" <=> op.step = 2
           /\ ToolOf(op) # "bring_to_front"
  BY DEF ToolOf, Tool

LEMMA NextStepOp ==
    ASSUME NEW op \in OpType, NEW w \in Window \cup {None}
    PROVE  /\ NextStep([op EXCEPT !.window = w]) \in OpType
           /\ NextStep([op EXCEPT !.window = w]).kind = op.kind
           /\ NextStep([op EXCEPT !.window = w]).at = op.at
           /\ NextStep([op EXCEPT !.window = w]).step = op.step + 1
           /\ NextStep([op EXCEPT !.window = w]).frame = op.frame
           /\ NextStep([op EXCEPT !.window = w]).window = w
<1> DEFINE at == [op EXCEPT !.window = w]
<1>1. /\ at \in OpType /\ at.kind = op.kind /\ at.at = op.at /\ at.step = op.step
      /\ at.frame = op.frame /\ at.window = w
  BY DEF OpType
<1> HIDE DEF at
<1>2. /\ NextStep(at).kind = at.kind /\ NextStep(at).at = at.at /\ NextStep(at).step = at.step + 1
      /\ NextStep(at).frame = at.frame /\ NextStep(at).window = at.window
  BY <1>1 DEF NextStep, OpType
<1>3. NextStep(at) \in OpType
  BY <1>1 DEF NextStep, OpType
<1> QED
  BY <1>1, <1>2, <1>3 DEF at

LEMMA FoundMade ==
    ASSUME InputInv, NEW k \in Op, NEW w \in Window, visible = {w}, ops[k].at = "answer",
           ToolOf(ops[k]) = "list_windows", SameWindow(ops[k], w)
    PROVE  OpMade(NextStep([ops[k] EXCEPT !.window = w]), sole[k])
<1> DEFINE new == NextStep([ops[k] EXCEPT !.window = w])
<1>1. ops[k] \in OpType /\ OpMade(ops[k], sole[k])
  BY OpInProcess DEF InputInv, Types, Made
<1>2. /\ new.kind = ops[k].kind /\ new.step = ops[k].step + 1 /\ new.frame = ops[k].frame
      /\ new.window = w
  BY <1>1, NextStepOp
<1>3. w \in sole[k]
  BY FS_Singleton DEF InputInv, Seen
<1> HIDE DEF new
<1>4. ASSUME new.kind = "input"
      PROVE  /\ new.frame \in Window /\ new.step \in {1, 2}
             /\ new.step = 2 => new.window = new.frame /\ new.window \in sole[k]
  <2>1. ops[k].kind = "input" /\ ops[k].frame \in Window /\ ops[k].step \in {1, 2}
    BY <1>1, <1>2, <1>4 DEF OpMade
  <2>2. ops[k].step = 1
    BY <2>1, InputTools
  <2>3. ops[k].frame = w
    BY <2>1, NamesAssumption DEF SameWindow
  <2> QED
    BY <1>2, <1>3, <2>1, <2>2, <2>3
<1>5. OpMade(new, sole[k])
  BY <1>4 DEF OpMade
<1> QED
  BY <1>5 DEF new

LEMMA WindowKeeps ==
    ASSUME InputInv, NEW k \in Process, OneWindow(k)
    PROVE  InputInv'
<1>1. Types /\ ops[k] \in OpType /\ ops[k].at = "answer" /\ ops[k].at # "idle"
      /\ visible' = visible /\ sole' = sole /\ ToolOf(ops[k]) = "list_windows"
  BY DEF InputInv, Types, OneWindow, Answered
<1>2. PICK w \in visible :
        /\ visible = {w}
        /\ \/ Finishes(k, Failed(ops[k])) /\ lastFrame' \in {None, lastFrame}
           \/ Finishes(k, [ops[k] EXCEPT !.at = "done"]) /\ lastFrame' = lastFrame
           \/ /\ SameWindow(ops[k], w) /\ lastFrame' = lastFrame
              /\ Call(k, NextStep([ops[k] EXCEPT !.window = w]))
  BY Zenon DEF OneWindow
<1>3. w \in Window /\ lastFrame' \in Window \cup {None}
  BY <1>1, <1>2 DEF Types
<1>4. CASE Finishes(k, Failed(ops[k]))
  <2>1. Alike(Failed(ops[k]), ops[k])
    BY <1>1, FailedAlike
  <2>2. Serves(k, Failed(ops[k]))
    BY <1>1, <1>4, <2>1, FinishServes DEF Alike
  <2> QED
    BY <1>1, <1>3, <2>1, <2>2, SameKeeps
<1>5. CASE Finishes(k, [ops[k] EXCEPT !.at = "done"])
  <2>1. Alike([ops[k] EXCEPT !.at = "done"], ops[k])
    BY <1>1, MovedAlike DEF Stages
  <2>2. Serves(k, ops[k])
    BY <1>1, <1>5, <2>1, FinishServes
  <2>3. Alike(ops[k], ops[k])
    BY <1>1 DEF Alike
  <2> QED
    BY <1>1, <1>3, <2>2, <2>3, SameKeeps
<1>6. CASE SameWindow(ops[k], w) /\ Call(k, NextStep([ops[k] EXCEPT !.window = w]))
  <2> DEFINE new == NextStep([ops[k] EXCEPT !.window = w])
  <2>1. new \in OpType /\ new.at # "idle"
    BY <1>1, <1>3, NextStepOp
  <2>2. Serves(k, new)
    BY <1>1, <1>6, <2>1, CallServes
  <2>3. k \in Op => OpMade(new, sole[k])
    BY <1>1, <1>2, <1>3, <1>6, FoundMade
  <2> HIDE DEF new
  <2> QED
    BY <1>1, <1>3, <2>2, <2>3, GoesOnKeeps
<1> QED
  BY <1>2, <1>4, <1>5, <1>6

LEMMA FinishKeeps ==
    ASSUME InputInv, NEW k \in Process, NotOneWindow(k) \/ FrameTaken(k) \/ Acted(k)
    PROVE  InputInv'
<1>1. /\ Types /\ ops[k] \in OpType /\ ops[k].at # "idle"
      /\ visible' = visible /\ sole' = sole /\ lastFrame' \in Window \cup {None}
  BY DEF InputInv, Types, OpType, NotOneWindow, FrameTaken, Acted, Answered
<1>2. PICK new \in OpType : Alike(new, ops[k]) /\ Finishes(k, new)
  <2>1. Alike(Failed(ops[k]), ops[k])
    BY <1>1, FailedAlike
  <2>2. Alike([ops[k] EXCEPT !.at = "done"], ops[k])
    BY <1>1, MovedAlike DEF Stages
  <2>3. Finishes(k, Failed(ops[k])) \/ Finishes(k, [ops[k] EXCEPT !.at = "done"])
    BY DEF NotOneWindow, FrameTaken, Acted
  <2> QED
    BY <2>1, <2>2, <2>3 DEF Alike
<1>3. Serves(k, new)
  BY <1>1, <1>2, FinishServes DEF Alike
<1> QED
  BY <1>1, <1>2, <1>3, SameKeeps

(* begin() looks for a window again, or has brought it to the front. *)
LEMMA BeginKeeps ==
    ASSUME InputInv, NEW k \in Process, NoWindowYet(k) \/ BroughtToFront(k)
    PROVE  InputInv'
<1>1. /\ Types /\ ops[k] \in OpType /\ ops[k].at # "idle"
      /\ visible' = visible /\ sole' = sole /\ lastFrame' \in Window \cup {None}
  BY DEF InputInv, Types, NoWindowYet, BroughtToFront, Answered
<1>2. k \in Op => ops[k].kind # "input"
  <2>1. CASE NoWindowYet(k)
    BY <2>1 DEF NoWindowYet
  <2>2. CASE BroughtToFront(k)
    BY <2>2, InputTools DEF BroughtToFront, Answered, InputInv, Made, OpMade
  <2> QED
    BY <2>1, <2>2
<1>3. PICK new \in OpType : new.kind = ops[k].kind /\ new.at # "idle" /\ Call(k, new)
  <2>1. CASE NoWindowYet(k)
    <3> DEFINE new == [ops[k] EXCEPT !.tries = @ + 1]
    <3>1. new \in OpType /\ new.kind = ops[k].kind /\ new.at = ops[k].at
      BY <1>1 DEF OpType
    <3>2. Call(k, new)
      BY <2>1 DEF NoWindowYet
    <3> HIDE DEF new
    <3> QED
      BY <1>1, <3>1, <3>2
  <2>2. CASE BroughtToFront(k)
    <3> DEFINE new == [NextStep(ops[k]) EXCEPT !.tries = 1]
    <3>1. /\ NextStep(ops[k]) \in OpType /\ NextStep(ops[k]).kind = ops[k].kind
          /\ NextStep(ops[k]).at = ops[k].at
      BY <1>1 DEF OpType, NextStep
    <3>3. new \in OpType /\ new.kind = NextStep(ops[k]).kind /\ new.at = NextStep(ops[k]).at
      BY <3>1 DEF OpType
    <3>2. Call(k, new)
      BY <2>2 DEF BroughtToFront
    <3> HIDE DEF new
    <3> QED
      BY <1>1, <3>1, <3>2, <3>3
  <2> QED
    BY <2>1, <2>2
<1>4. Serves(k, new)
  BY <1>1, <1>3, CallServes
<1>5. k \in Op => OpMade(new, sole[k])
  BY <1>2, <1>3 DEF OpMade
<1> QED
  BY <1>1, <1>4, <1>5, GoesOnKeeps

LEMMA NextInput == InputInv /\ [Next]_vars => InputInv'
<1> SUFFICES ASSUME InputInv, [Next]_vars
             PROVE  InputInv'
  OBVIOUS
<1>1. CASE BeginTakeover \/ EndTakeover \/ Catch
  BY <1>1, AdapterKeeps
<1>2. ASSUME NEW k \in Op, CaptureFrame(k)
      PROVE  InputInv'
  BY <1>2, StartKeeps DEF CaptureFrame
<1>3. ASSUME NEW k \in Op, Input(k)
      PROVE  InputInv'
  <2>1. lastFrame \in Window
    BY <1>3 DEF Input, InputInv, Types
  <2> QED
    BY <1>3, <2>1, StartKeeps DEF Input
<1>4. ASSUME NEW k \in Process, Step(k)
      PROVE  InputInv'
  BY <1>4, ClientKeeps, WindowKeeps, FinishKeeps, BeginKeeps DEF Step
<1>5. ASSUME NEW c \in running, NEW signal \in BOOLEAN, Exit(c, signal)
      PROVE  InputInv'
  BY <1>5, ExitKeeps
<1>6. ASSUME NEW w \in SUBSET Window, ChangeWindows(w)
      PROVE  InputInv'
  BY <1>6, ChangeKeeps
<1>7. CASE UNCHANGED vars
  BY <1>7 DEF vars, client, InputInv, Types, Made, OpMade, Seen
<1> QED
  BY <1>1, <1>2, <1>3, <1>4, <1>5, <1>6, <1>7 DEF Next

LEMMA InputInvHolds == Spec => []InputInv
<1>1. Init => InputInv
  BY InitInput
<1>2. InputInv /\ [Next]_vars => InputInv'
  BY NextInput
<1> QED
  BY <1>1, <1>2, PTL DEF Spec

(* An input is carried out in the window of the frame it was made on, and in
   no window that was not once the only one since: whatever the driver does,
   whatever windows come and go, and however many operations run side by
   side.  The adapter asks for the window again before it acts, and compares
   (cua-human-takeover-adapter.ts). *)
THEOREM InputWhereSeenHolds == Spec => []InputWhereSeen
<1>1. InputInv => InputWhereSeen
  <2> SUFFICES ASSUME InputInv, NEW k \in Op, ops[k].kind = "input", ToolOf(ops[k]) = "act"
               PROVE  ops[k].window = ops[k].frame /\ ops[k].window \in sole[k]
    BY DEF InputWhereSeen
  <2> QED
    BY InputTools DEF InputInv, Made, OpMade
<1> QED
  BY <1>1, InputInvHolds, PTL
-----------------------------------------------------------------------------
(* How far the client is.  An operation that waits in close() finds no driver
   in use, one that waits for initialize has its driver in use, there is one
   such operation, and what the other requests went to was greeted. *)
Starting(op) == op.at \in {"closing", "initialize"}
Quiet(op) == op.at \notin {"closing", "initialize", "answer"}

Fits(op) ==
    /\ Starting(op) => ~initialized
    /\ op.at = "initialize" => op.driver = child
    /\ op.at = "closing" => child = 0
    /\ op.at = "answer" => op.driver \in greeted

Orderly ==
    /\ running \subseteq {child} \cup told
    /\ initialized => child \in greeted
    /\ \A k, q \in Process : Starting(ops[k]) /\ Starting(ops[q]) => k = q
    /\ \A k \in Process : Fits(ops[k])

OrderInv == Types /\ 0 \notin running /\ (~overlapped => Orderly)

LEMMA Records ==
    ASSUME NEW op \in OpType
    PROVE  /\ Quiet(Failed(op)) /\ Quiet([op EXCEPT !.at = "done"])
           /\ Quiet([op EXCEPT !.at = "done", !.driver = 0])
           /\ Spawned(op).at = "initialize" /\ Spawned(op).driver = spawned + 1
           /\ [op EXCEPT !.at = "closing", !.driver = child].at = "closing"
           /\ [op EXCEPT !.at = "answer", !.driver = child].at = "answer"
           /\ [op EXCEPT !.at = "answer", !.driver = child].driver = child
<1>1. Quiet(Failed(op))
  BY DEF Quiet, Failed, OpType
<1>2. Quiet([op EXCEPT !.at = "done"]) /\ Quiet([op EXCEPT !.at = "done", !.driver = 0])
  BY DEF Quiet, OpType
<1>3. Spawned(op).at = "initialize" /\ Spawned(op).driver = spawned + 1
  BY DEF Spawned, OpType
<1> QED
  BY <1>1, <1>2, <1>3 DEF OpType

LEMMA FailedQuiet ==
    ASSUME Types, NEW q \in Process
    PROVE  /\ PendingFailed[q] = ops[q] \/ Quiet(PendingFailed[q])
           /\ ~Starting(ops[q]) => Quiet(PendingFailed[q])
<1>1. ops[q] \in OpType
  BY DEF Types
<1>2. PendingFailed[q] = IF Pending(q) THEN Failed(ops[q]) ELSE ops[q]
  BY DEF PendingFailed
<1> QED
  BY <1>1, <1>2, Records DEF Pending, Quiet, Starting

(* A step that leaves the client and all operations but k alone. *)
LEMMA QuietStep ==
    ASSUME Types, Orderly, NEW k \in Process, NEW op, ops' = [ops EXCEPT ![k] = op], ClientSame,
           Quiet(op) \/ (op.at = "answer" /\ op.driver \in greeted)
    PROVE  Orderly'
<1>1. \A q \in Process : ops'[q] = IF q = k THEN op ELSE ops[q]
  BY DEF Types
<1>2. /\ child' = child /\ initialized' = initialized /\ running' = running /\ told' = told
      /\ greeted' = greeted
  BY DEF ClientSame
<1>3. ~Starting(op) /\ Fits(op)
  BY DEF Quiet, Starting, Fits
<1>4. \A q \in Process : Fits(ops[q])'
  BY <1>1, <1>2, <1>3 DEF Orderly, Fits, Starting
<1> QED
  BY <1>1, <1>2, <1>3, <1>4 DEF Orderly, Starting

LEMMA CloseOrderly ==
    ASSUME OrderInv, NEW k \in Process, NEW op \in OpType, Close(k, op), ~overlapped'
    PROVE  Orderly'
<1>1. Types /\ Orderly /\ 0 \notin running /\ \A q \in Process \ {k} : ~Starting(ops[q])
  BY DEF OrderInv, Close, Starting
<1>2. \A q \in Process \ {k} : Quiet(PendingFailed[q])
  BY <1>1, FailedQuiet
<1>3. PICK new : ops' = [PendingFailed EXCEPT ![k] = new]
         /\ \/ new.at = "closing" /\ child' = 0 /\ running' = running
               /\ told' = told \cup ({child} \cap running)
            \/ Quiet(new) /\ running' = running /\ told' = told /\ child \notin running
            \/ /\ new.at = "initialize" /\ new.driver = spawned + 1 /\ child' = spawned + 1
               /\ running' = running \cup {spawned + 1} /\ told' = told /\ child \notin running
  <2>1. CASE LooksAlive(child)
    BY <2>1, Records DEF Close
  <2>2. CASE ~LooksAlive(child) /\ op.kind = "end"
    BY <2>2, Records DEF Close, LooksAlive
  <2>3. CASE ~LooksAlive(child) /\ op.kind # "end"
    BY <2>3, Records DEF Close, LooksAlive, Spawn
  <2> QED
    BY <2>1, <2>2, <2>3
<1>4. ops'[k] = new /\ \A q \in Process \ {k} : ops'[q] = PendingFailed[q]
  BY <1>3 DEF PendingFailed
<1>5. initialized' = FALSE
  BY DEF Close
<1>6. running' \subseteq {child'} \cup told'
  BY <1>1, <1>3 DEF Orderly
<1>7. Fits(new)' /\ \A q \in Process \ {k} : Quiet(ops'[q])
  BY <1>2, <1>3, <1>4, <1>5 DEF Fits, Quiet, Starting
<1>8. \A q \in Process : Fits(ops[q])'
  BY <1>4, <1>7 DEF Fits, Quiet, Starting
<1>9. \A p, q \in Process : Starting(ops'[p]) /\ Starting(ops'[q]) => p = q
  BY <1>7 DEF Quiet, Starting
<1> QED
  BY <1>5, <1>6, <1>8, <1>9 DEF Orderly, Starting

LEMMA CallOrderly ==
    ASSUME OrderInv, NEW k \in Process, NEW op \in OpType, Call(k, op), ~overlapped'
    PROVE  Orderly'
<1>1. CASE Usable
  <2> DEFINE new == [op EXCEPT !.at = "answer", !.driver = child]
  <2>1. ops' = [ops EXCEPT ![k] = new] /\ ClientSame
    BY <1>1 DEF Call
  <2>2. ~overlapped /\ Types /\ Orderly
    BY <2>1 DEF ClientSame, OrderInv
  <2>3. new.at = "answer" /\ new.driver = child /\ child \in greeted
    BY <1>1, <2>2, Records DEF Usable, Orderly
  <2> HIDE DEF new
  <2> QED
    BY <2>1, <2>2, <2>3, QuietStep
<1>2. CASE ~Usable
  BY <1>2, CloseOrderly DEF Call
<1> QED
  BY <1>1, <1>2

LEMMA WakeOrderly ==
    ASSUME Types, 0 \notin running, Orderly, NEW k \in Process, Wake(k)
    PROVE  Orderly'
<1>1. /\ ops[k] \in OpType /\ child = 0 /\ ~initialized /\ initialized' = initialized
      /\ greeted' = greeted /\ told' = told /\ running \subseteq told
      /\ \A q \in Process \ {k} : ~Starting(ops[q])
  BY DEF Types, Orderly, Fits, Starting, Wake
<1>2. PICK new : ops' = [ops EXCEPT ![k] = new]
         /\ \/ Quiet(new) /\ child' = child /\ running' = running
            \/ /\ new.at = "initialize" /\ new.driver = spawned + 1 /\ child' = spawned + 1
               /\ running' = running \cup {spawned + 1}
  <2>1. CASE ops[k].kind = "end"
    <3>1. ops' = [ops EXCEPT ![k] = [ops[k] EXCEPT !.at = "done", !.driver = 0]]
      BY <2>1 DEF Wake, Types
    <3> QED
      BY <1>1, <2>1, <3>1, Records DEF Wake
  <2>2. CASE ops[k].kind # "end"
    <3>1. ops' = [ops EXCEPT ![k] = Spawned(ops[k])]
      BY <2>2 DEF Wake, Types
    <3> QED
      BY <1>1, <2>2, <3>1, Records DEF Wake, Spawn
  <2> QED
    BY <2>1, <2>2
<1>3. \A q \in Process : ops'[q] = IF q = k THEN new ELSE ops[q]
  BY <1>2 DEF Types
<1>4. \A q \in Process : Fits(ops[q])'
  BY <1>1, <1>2, <1>3 DEF Fits, Orderly, Quiet, Starting
<1>5. \A p, q \in Process : Starting(ops'[p]) /\ Starting(ops'[q]) => p = q
  BY <1>1, <1>3
<1>6. running' \subseteq {child'} \cup told'
  BY <1>1, <1>2
<1> QED
  BY <1>1, <1>4, <1>5, <1>6 DEF Orderly, Starting

LEMMA InitializedOrderly ==
    ASSUME Types, Orderly, NEW k \in Process, Initialized(k)
    PROVE  Orderly'
<1>1. /\ ops[k] \in OpType /\ ops[k].driver = child /\ child \in running
      /\ \A q \in Process \ {k} : ~Starting(ops[q])
  BY DEF Types, Orderly, Fits, Starting, Initialized
<1>2. /\ child' = child /\ running' = running /\ told' = told /\ initialized' = TRUE
      /\ greeted' = greeted \cup {child}
  BY <1>1 DEF Initialized
<1> DEFINE new == [ops[k] EXCEPT !.at = "answer", !.driver = child]
<1>3. ops' = [ops EXCEPT ![k] = new]
  BY <1>1 DEF Initialized, LooksAlive
<1>4. new.at = "answer" /\ new.driver = child
  BY <1>1, Records
<1> HIDE DEF new
<1>5. \A q \in Process : ops'[q] = IF q = k THEN new ELSE ops[q]
  BY <1>3 DEF Types
<1>6. \A q \in Process : ~Starting(ops'[q])
  BY <1>1, <1>4, <1>5 DEF Starting
<1>7. \A q \in Process : Fits(ops[q])'
  BY <1>2, <1>4, <1>5, <1>6 DEF Fits, Orderly, Starting
<1> QED
  BY <1>2, <1>6, <1>7 DEF Orderly, Starting

LEMMA ExitOrderly ==
    ASSUME Types, Orderly, NEW c \in running, NEW signal \in BOOLEAN, Exit(c, signal)
    PROVE  Orderly'
<1>1. /\ ops' = PendingFailed /\ child' = child /\ initialized' = initialized /\ greeted' = greeted
      /\ running' = running \ {c} /\ told' = told \ {c}
  BY DEF Exit
<1>2. \A q \in Process : ops'[q] = ops[q] \/ Quiet(ops'[q])
  BY <1>1, FailedQuiet
<1>3. \A q \in Process : Fits(ops[q])'
  BY <1>1, <1>2 DEF Fits, Orderly, Quiet, Starting
<1>4. \A p, q \in Process : Starting(ops'[p]) /\ Starting(ops'[q]) => p = q
  BY <1>2 DEF Orderly, Quiet, Starting
<1> QED
  BY <1>1, <1>3, <1>4 DEF Orderly, Starting
(* A step of the client for an operation, as a whole. *)
LEMMA ServedOrder ==
    ASSUME OrderInv, NEW k \in Process, NEW op \in OpType, Call(k, op) \/ Close(k, op)
    PROVE  0 \notin running' /\ (~overlapped' => Orderly')
<1>1. running' = running \/ running' = running \cup {spawned + 1}
  BY DEF Call, Close, ClientSame, Spawn
<1>2. 0 \notin running'
  BY <1>1 DEF OrderInv, Types
<1> QED
  BY <1>2, CallOrderly, CloseOrderly

LEMMA FinishedOrder ==
    ASSUME OrderInv, NEW k \in Process, NEW op, Finishes(k, op), Quiet(op)
    PROVE  0 \notin running' /\ (~overlapped' => Orderly')
<1>1. running' = running /\ overlapped' = overlapped
  BY DEF Finishes, ClientSame
<1>2. ~overlapped => Orderly'
  BY QuietStep DEF Finishes, OrderInv
<1> QED
  BY <1>1, <1>2 DEF OrderInv

LEMMA AnswerOrder ==
    ASSUME OrderInv, NEW k \in Process,
           \/ OneWindow(k) \/ NoWindowYet(k) \/ NotOneWindow(k)
           \/ BroughtToFront(k) \/ FrameTaken(k) \/ Acted(k)
    PROVE  0 \notin running' /\ (~overlapped' => Orderly')
<1>1. Types /\ ops[k] \in OpType
  BY DEF OrderInv, Types
<1>2. CASE Finishes(k, Failed(ops[k])) \/ Finishes(k, [ops[k] EXCEPT !.at = "done"])
  BY <1>1, <1>2, Records, FinishedOrder
<1>3. CASE OneWindow(k)
  <2>1. PICK w \in visible :
          \/ Finishes(k, Failed(ops[k])) \/ Finishes(k, [ops[k] EXCEPT !.at = "done"])
          \/ Call(k, NextStep([ops[k] EXCEPT !.window = w]))
    BY <1>3, Zenon DEF OneWindow
  <2>2. NextStep([ops[k] EXCEPT !.window = w]) \in OpType
    BY <1>1, NextStepOp DEF Types
  <2> QED
    BY <1>2, <2>1, <2>2, ServedOrder
<1>4. CASE NoWindowYet(k)
  <2> DEFINE new == [ops[k] EXCEPT !.tries = @ + 1]
  <2>1. new \in OpType
    BY <1>1 DEF OpType
  <2>2. Call(k, new)
    BY <1>4 DEF NoWindowYet
  <2> HIDE DEF new
  <2> QED
    BY <2>1, <2>2, ServedOrder
<1>5. CASE BroughtToFront(k)
  <2> DEFINE new == [NextStep(ops[k]) EXCEPT !.tries = 1]
  <2>1. NextStep(ops[k]) \in OpType
    BY <1>1 DEF OpType, NextStep
  <2>2. new \in OpType
    BY <2>1 DEF OpType
  <2>3. Call(k, new)
    BY <1>5 DEF BroughtToFront
  <2> HIDE DEF new
  <2> QED
    BY <2>2, <2>3, ServedOrder
<1>6. CASE NotOneWindow(k) \/ FrameTaken(k) \/ Acted(k)
  BY <1>2, <1>6 DEF NotOneWindow, FrameTaken, Acted
<1> QED
  BY <1>3, <1>4, <1>5, <1>6

LEMMA ClientOrder ==
    ASSUME OrderInv, NEW k \in Process, Wake(k) \/ Initialized(k) \/ GiveUp(k)
    PROVE  0 \notin running' /\ (~overlapped' => Orderly')
<1>1. Types /\ ops[k] \in OpType /\ 0 \notin running
  BY DEF OrderInv, Types
<1>2. CASE Wake(k)
  <2>1. overlapped' = overlapped /\ running' \subseteq running \cup {spawned + 1}
    BY <1>2 DEF Wake, Spawn
  <2> QED
    BY <1>1, <1>2, <2>1, WakeOrderly DEF OrderInv, Types
<1>3. CASE Initialized(k)
  <2>1. overlapped' = overlapped /\ running' = running
    BY <1>3 DEF Initialized
  <2> QED
    BY <1>1, <1>3, <2>1, InitializedOrderly DEF OrderInv
<1>4. CASE GiveUp(k)
  BY <1>1, <1>4, Records, FinishedOrder DEF GiveUp, Finishes
<1> QED
  BY <1>2, <1>3, <1>4

LEMMA AdapterOrder ==
    ASSUME OrderInv,
           \/ BeginTakeover \/ EndTakeover \/ Catch
           \/ \E k \in Op : CaptureFrame(k) \/ Input(k)
    PROVE  0 \notin running' /\ (~overlapped' => Orderly')
<1>1. PICK k \in Process, op \in OpType : Call(k, op) \/ Close(k, op)
  <2>1. CASE BeginTakeover \/ EndTakeover \/ Catch
    <3>1. Started("begin", None) \in OpType /\ Started("end", None) \in OpType
      BY StartedOp DEF Kinds
    <3> QED
      BY <2>1, <3>1, OpInProcess DEF BeginTakeover, EndTakeover, Catch
  <2>2. ASSUME NEW k \in Op, CaptureFrame(k) \/ Input(k)
        PROVE  \E q \in Process, op \in OpType : Call(q, op) \/ Close(q, op)
    <3>1. Started("capture", None) \in OpType /\ Started("input", lastFrame) \in OpType
      BY StartedOp DEF Kinds, OrderInv, Types
    <3> QED
      BY <2>2, <3>1, OpInProcess DEF CaptureFrame, Input
  <2> QED
    BY <2>1, <2>2
<1> QED
  BY <1>1, ServedOrder

LEMMA NextOrder == Types' /\ OrderInv /\ [Next]_vars => OrderInv'
<1> SUFFICES ASSUME Types', OrderInv, [Next]_vars
             PROVE  0 \notin running' /\ (~overlapped' => Orderly')
  BY DEF OrderInv
<1>1. CASE BeginTakeover \/ EndTakeover \/ Catch \/ \E k \in Op : CaptureFrame(k) \/ Input(k)
  BY <1>1, AdapterOrder
<1>2. ASSUME NEW k \in Process, Step(k)
      PROVE  0 \notin running' /\ (~overlapped' => Orderly')
  BY <1>2, ClientOrder, AnswerOrder DEF Step
<1>3. ASSUME NEW c \in running, NEW signal \in BOOLEAN, Exit(c, signal)
      PROVE  0 \notin running' /\ (~overlapped' => Orderly')
  <2>1. overlapped' = overlapped /\ running' = running \ {c}
    BY <1>3 DEF Exit
  <2> QED
    BY <1>3, <2>1, ExitOrderly DEF OrderInv
<1>4. CASE (\E w \in SUBSET Window : ChangeWindows(w)) \/ UNCHANGED vars
  BY <1>4 DEF ChangeWindows, client, vars, OrderInv, Orderly, Fits
<1> QED
  BY <1>1, <1>2, <1>3, <1>4 DEF Next

LEMMA InitOrder == Init => OrderInv
<1> SUFFICES ASSUME Init
             PROVE  OrderInv
  OBVIOUS
<1>1. Types
  BY InitInput DEF InputInv
<1>2. \A k \in Process : ops[k].at = "idle"
  BY IdleOp DEF Init
<1> QED
  BY <1>1, <1>2 DEF OrderInv, Orderly, Fits, Starting, Init

(* No driver is forgotten, and none is asked anything before it was greeted,
   as long as the client is not closed while it is being started: each one
   that runs is the client's or was told to stop, whatever crashed, hung or
   timed out before (start() and close() in cua-mcp-client.ts). *)
THEOREM DriversAccountedHolds == Spec => []DriversAccounted
<1>1. Init => OrderInv
  BY InitOrder
<1>2. InputInv => Types
  BY DEF InputInv
<1>3. Types' /\ OrderInv /\ [Next]_vars => OrderInv'
  BY NextOrder
<1>4. OrderInv => DriversAccounted
  BY DEF OrderInv, Orderly, Fits, DriversAccounted
<1> QED
  BY <1>1, <1>2, <1>3, <1>4, InputInvHolds, PTL DEF Spec

=============================================================================
