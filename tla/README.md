# A verification project for maps-browser-mcp

`maps-browser-mcp` is an MCP server that drives one dedicated Chrome on Google Maps.
Several clients call it at the same time, a page may ask for a Human at any moment,
a CDP call may never answer, and one tool sends something to a phone. This directory
models the parts where those facts meet, model-checks them with TLC and proves what matters
most with TLAPS. Paths such as `server.ts:690` are below
`src/src/` of the repository, `docs/...` and `reference/...` below `src/`.

## 1. Inventory

| Component | State | Operations | Interacts with | What makes it correct |
|---|---|---|---|---|
| Operation queue (`operation-queue.ts`) | promise `tail`, counter `pending`, one timer and one `settled` flag per operation | `run`, the timer, `drain` | every tool handler; the watchdog calls `MapsBrowserRuntime.close()` | one turn at a time, in order, bounded, no lost place, no second result, no wedge |
| Human handoff (`server.ts:262-856`) | `handoffOwners`, requestStates in clients' hands | tool call, continuation, cancellation, prompt | queue, runtime, lifecycle bridge, Human surface | one authority at a time; an intervention has one owner, only the owner acts on it; a call is replayed at most once, after verification |
| Lifecycle bridge (`browser/handoff-lifecycle-bridge.ts`) | one receipt | authority released, match, ensure, clear | transport callback, continuation | a receipt serves exactly the generation it was made for |
| Maps runtime (`browser/runtime.ts`) | CDP client and its owner, endpoint, `lastAction`, `selectedRoute`, `viewState`, execution authority | `getClient`, `navigate`, candidates, verification, suspension, `close` | Chrome, queue, handoff | no CDP while a Human has control; semantic state never outlives the page it describes |
| Credential-safe surface (`browser/credential-takeover-human-provider.ts`, `system-browser-credential-session.ts`) | provider session, normal Chrome, profile locks | begin, revoke, expiry | handoff, takeover transports | the two Chromes never share the profile; the normal one is closed before automation verifies |
| Chrome process (`browser/chrome-process.ts`) | child, port, DevToolsActivePort | start, close | runtime | only the Chrome it started is used |
| Action approval and route send (`action-approval.ts`, `browser/route-send.ts`, `server.ts:858-1021`) | approval records, resource epoch | first call, approval, cancellation, send | queue, runtime | one approval, at most one notification, on the approved page |
| Semantic operations (`browser/place-*.ts`, `search-*.ts`, `route-*.ts`, `transit-time.ts`, ...) | the page | read, verify, act once, check | runtime | act only on what was verified; report success only on a postcondition |
| Policy engine (`policy/policy-engine.ts`) | sliding windows | consume an action or a read | every handler | never more than the limit in any window |
| Cua client and adapter (`browser/cua-*.ts`) | child process, pending requests | start, call, close | Human transport | an answer goes to its own request; no request hangs |
| Screencast (`takeover-runtime/`) | latest frame, waiter | frame, navigate, abort | Human takeover view | no lost wake-up; nothing of a foreign page is shown |
| OAuth gateway, proxy, snapshots (`reference/oauth-gateway/`) | codes, tokens, persisted state, profile generations | authorize, token, refresh, save, restore | HTTP clients, storage | one use per code; a restart restores a consistent state |

What is hard here: the watchdog decides an operation's result but cannot stop its
task, so *zombies* write to state that belongs to later operations; a handler reads
state, awaits a browser, and uses what it read; clients may submit a requestState
again; the Human and the transport act whenever they like; and closing a Chrome can
fail. `PROJECT.json` lists each of these at its line under "hazards".

## 2. Modules

| Module | What it models |
|---|---|
| `SerialQueue` | abstract: a bounded queue that serves one request at a time in order of admission |
| `OperationQueue` | the promise chain, the watchdog, zombies, `drain` |
| `OperationQueueProofs` | the inductive invariant, the safety theorems, the refinement |
| `ExecutionHandoff` | external: the `mcp-execution-handoff` authority states, as the repository and its tests use them |
| `HandoffServer` | the server's handoff: handlers, queue with watchdog, runtime authority, bridge, Human surface, the two Chromes |
| `RouteSend` | approvals, the two calls of the send tool, the queue between them, the page and what is remembered of it, the connection |
| `MapsRuntime` | what the runtime remembers about the page, the page, the CDP connection, one tool of each shape |
| `MapsPage` | the Maps page, the assertions of the tools, what the runtime remembers: operators |
| `SearchTools`, `PlaceTools`, `DirectionsTools` | the plans and page expressions of the sixteen semantic tools: operators |
| `SemanticTools` | the machine that runs these plans on a page that lags, moves, is challenged or loses its connection |
| `CuaTakeover` | the Cua driver's process and client, and the Human adapter on top of it |
| `ProfileSnapshot` | the profile archives in a bucket, containers that restore and checkpoint them |
| `OAuthGateway` | authorization codes, rotating refresh tokens, client assertions, the `/mcp` admission |
| `MC...` | symmetry sets and the tools for TLC |
| `...Proofs` | the theorems about a module, see section 4 |

### OperationQueue
A step is one callback of the event loop. `Accept` records in `prev` the operation
whose settlement is awaited (the `tail` of that moment); `Start` is `tail.then`;
`Timeout` and `ResetDone` are the timer and the end of `onTimeout`; `Finish` is the end
of the task, at any time, with or without effect; `Release` is the reactions of the
settled result. `ticket`, `accepted` and `horizon` are history: nothing of the code
reads them, the properties and the refinement mapping do.

### HandoffServer
An action is what a handler does between two awaits. `pc` says what a request's handler
awaits, `body` what the task of its queued operation awaits; they come apart when the
watchdog gives the task up. `line` and `turn` are the queue, at the level
`OperationQueue` shows it to work: the turn is free, running, or the browser is being
reset (`resetting`: the client is closed; `closing`: the intervention is cancelled and
Chrome stops). `chrome`, `normal` and `linked` are what happens to the profile: the
automation Chrome, the Human's normal Chrome, and the tasks that hold the live CDP
client; stopping Chrome ends the connections made to it. Promise jobs run before events
(`JobPending`).

`HumanInput` is `humanInputRequired` up to its await, `Recover` the catch block of a
continuation, `EndTask` the `finally` block of `executeToolTask` and what the handler
does next. They are operators of the values computed so far in the same segment,
because in the code they are synchronous calls.

### RouteSend
`records` is the Map of `ActionApprovalManager`, `notified` what the phone got,
`withdrawn` what users were told. `page` is whose route is selected on the page and
`dialog` whether it shows the devices; `memory` is what the runtime remembers as selected,
together with its request; `epoch` the resource epoch. The code checks the memory and
acts on the page, so the two are kept apart. `client` is the CDP client and `linked` the
tasks that have it. `Lose` may break the connection between any two awaits, and every call of
`getClient()` (`Reaching`) may be the one that notices: `Reconnect` lets the client go,
advances the epoch and forgets the route, `Attach` goes on with the same page.

`body` names the await of a task. Opening the dialog and reading it is one of them
(`OpensDialog`), although it polls: every round asserts the same memory again.
`Verify` and `Consume` are what follows the check of the epoch; `ClickEnds`,
`CloseDialog` and `TaskFails` are the ends of a task with their catch and finally
blocks. Tasks that were given up do all of this too, as far as they still have a
client; a preflight whose devices were read while the watchdog resets the browser still
makes an approval (`targets`). `astray` is history, see "Observed". The HMAC receipt is
left out: it covers fields that never change. So are navigations by hand and
interventions inside these calls: what they do to the memory is in `MapsRuntime` and
`SemanticTools`.

### MapsRuntime
`memory` is `lastAction`, `viewState` and `selectedRoute`; `page` what Chrome shows: the
kind of its path, the request it was opened for, the route that was clicked and whether
a click changed the UI in a way the request does not say (`refined`). `task[o].at` names
the await a tool is in. An access to the page goes through `getClient()` and
`ensureConnected()`: `Reconnect` when the client is gone or does not answer, then
`Attach` or `AttachFails`, then the access itself; the probe and the access that follows
it are one await here, and so are the two assignments of `client` and `clientOwner`.
`held` is the client a tool keeps in a variable over several awaits. An access reconnects
at most once. `Effects` says what an access may do to the page; `ReplyLost` does it and
loses the reply. Of the tools there is one of each shape: navigation, two selections, a
UI-only mutation with a fresh-request check, a polled action and a polled postcondition
(`recommended-mode.ts`), and a read. An intervention is only `active`; how it goes on is
in `HandoffServer`.

### MapsPage, SearchTools, PlaceTools, DirectionsTools, SemanticTools
The files of `browser/` that act on a page have one shape: assert what the URL and the
runtime's memory say, run an expression in the page, parse its reply, and go on, ask again
or throw, all of it before a deadline. A *plan* lists the stages of one tool. A stage has
its assertion (`guard`), how the loop around it looks at the deadline (`poll`: not at all,
before or after the expression runs), the parser, and the stage after it. `...Sees` are
the expressions: the pages each may leave, with the reply it gives. `...Parser` are the
parsers: the replies after which the tool goes on, reports that nothing is left to do, or
asks again; any other reply throws, as in the code.

A page is a record: its path, what it is of, the menu or dialog that is open, and one click
that the page has not got to (`lag`), because a reply only says that `click()` was
called. `SemanticTools` takes the stages one at a time: `AssertContext` and `Look` are
the two awaits of a stage, `Expire` the deadline of its loop, `Throw` and `Return` the
catch and finally blocks and the end of the tool. What a tool does there differs: most
mark a mutation and drop the memory when they fail after a click (`Invalidating`), the
share tools close their dialog and keep it (`Sharing`), nearby and photos never
invalidate. The surroundings are actions of their own: `Settle`, `Move`, `Challenge`,
`Lose`, `Straggle` (a task that was given up marks its mutation), `Resolve`. `Establish`
sets up the page a tool is called on; how it gets there is `MapsRuntime`.

### CuaTakeover
`Call` is `callTool()`: it starts a driver if there is none that is initialized and
looks alive, and `Close` is `close()`, which a start goes through first. `Wake` is the end of
its wait of 800 ms or the exit it waits for; both go on in the same way, so an
ignored SIGTERM is a `Wake` before the `Exit`. `Exit` is the exit event, whose handler
belongs to no particular driver and fails whatever is pending. A driver that a signal
ended keeps `exitCode === null` and looks alive (`signalled`). The adapter is a sequence
of tool names per operation (`Tool`); `SameWindow` is the comparison with the frame and
with the window brought to the front. A frame is captured and delivered in one step, so `InputWhereSeen`
is about the frame captured last before an input arrives, which is what the adapter compares
with; whether the Human's screen still showed the one before is not in the model.

### ProfileSnapshot
Every request to the bucket is a step: it succeeds, it fails, or its reply is lost. A
killed process leaves the request it had under way in `sent`, to be carried out later or
never (`Land`). `pointer.gen` is the bucket's generation of `current.json`, the
precondition of its replacement. `Restore` is the entrypoint's start, `Checkpoint` the
steps of `checkpoint`, for the core after a sign-in or for the entrypoint at SIGTERM.

### OAuthGateway
Every Firestore transaction is one step, and the token endpoint makes two: the
assertion is consumed, then the grant is. `sent` is history: how often a client sent a
refresh token. Secrets are names, so what is guessed or forged is outside; what the model
has are repetition, lost replies, expiry, concurrency and restarts with another account.

Definitions called `Slip...` are plausible mistakes in the definition after them. No
specification uses them; they exist to show that a property notices.

## 3. Runs

The runs take from seconds to three minutes. CHECK_DEADLOCK is off everywhere because each
system really stops: every call has been made and answered, and a task may hang for ever.

| Run | Bounds | Question |
|---|---|---|
| `queue` | 3 operations, capacity 2, 1 drain; no task is assumed to end | all safety properties, the refinement to `SerialQueue`, and does the queue go on? |
| `handoff` | 5 calls, 2 owners, 2 interventions, capacity 2; no timeout, no repeated requestState, no expiry, closing works | authority, ownership, prompts |
| `handoff_hostile` | 3 calls, 5 timeouts, repeated requestStates, expiry, closing may fail | what survives all of that, and is every call answered? |
| `handoff_timeout` | 2 calls, 1 timeout | violated: Agent authority beside the Human's browser |
| `handoff_resubmit` | 3 calls, repeated requestState | violated: an active intervention loses its owner |
| `route_send` | 5 calls (the fifth only meets a full queue), 2 callers, capacity 2, 1 timeout or 1 lost connection, ttl 1, 1 tick | approvals under repetition, cancellation, expiry, zombies and reconnections; is the approved page the one that is acted on? |
| `route_send_reconnect` | 3 calls, 1 caller, 1 lost connection, no timeout | violated: an approval is used in another epoch |
| `runtime` | 4 tools, 1 search and 2 directions requests, 1 lost connection or crash, 1 challenge, 1 navigation by hand, reads fail; after 1 timeout, 3 tools on directions only and no navigation by hand | does the memory match the page, can a changed page be paired with a replayable request, do request and route change only with the epoch? |
| `semantic` | all 16 tools, any number of calls; 1 query, 1 place, 1 transit trip and pages of none of them; 1 fault per context; zoom 0 to 2 | does a tool report only what the page shows, does the memory match the page after it, is a saved place never taken off a list, does every call end? |
| `cua` | 3 frames or inputs besides begin and end, 2 windows, 2 tries, 1 crash, 1 change of the windows | are drivers accounted for when starts and closes do not overlap, do inputs go to the window they were made on, is every operation answered? |
| `snapshot` | 2 containers that may overlap, 2 archives kept of 3 made, 1 sign-in, 1 failed request or foreign rewrite, 1 late request, any number of crashes | does the pointer move in a line, can what it names be restored, is a reported checkpoint ever lost? |
| `oauth` | 1 client, 2 accounts, 1 code, 2 families, 3 tokens, 3 assertions, 2 calls, 1 request, 1 expiry, 1 restart | one line of tokens per consent, no revocation without a repetition, nothing admitted after one |

Why the bounds are enough. In the queue, an operation depends on its
predecessor and on the counter; with three operations one can wait, or be refused, while
one holds the turn and one is a zombie. The proofs cover every number; the run has to
show what they cannot, liveness. In the handoff, the shortest interesting stories need a
call that raises an intervention, a continuation, a repeated continuation and a call of
another owner: four requests, five with a re-prompt. Two interventions let a stale one
meet a live one. Five timeouts are more than three calls can run into, so the bound
never stops the watchdog in `handoff_hostile`. In `route_send` the story is select,
preflight, approve, and one repetition, cancellation or route selection that overtakes
the approval in the queue: four calls; a fifth finds two others in the queue and is refused.
Its constraint `OneTrouble` keeps timeouts and lost connections in separate behaviours:
they meet only in the proofs, which bound neither. In `MapsRuntime` a wrong memory needs
a navigation, a selection, a disturbed mutation or navigation and a look at the result:
four tools; two directions requests tell "the request before" from "this request", and
one search that may land on a place gives the other views. A zombie story needs the tool
that is given up and one that navigates after it; `OneStory` leaves a third and only
directions after a timeout: only `EpochFence` still speaks then, and it speaks
about changes and not about which value is right. In `semantic` calls are unbounded in
number, one after another from any state the last one left; "the item of the call" and "none" are enough to tell right from wrong, and a tool
names one item only. In `cua` three operations let a frame, an input on it
and a second one that overlaps with either meet a crash and the end of the takeover. In
`snapshot` three archives make one stale; two containers overlap or follow each other.
In `oauth` three tokens are a line of two rotations and two calls race for each. Symmetry is
used only in runs without temporal properties of progress.

### Fairness
`queue` assumes that callbacks that are due run and that a reset ends
(`ChromeProcess.close` bounds its waits by 1.5 and 1 seconds); it assumes nothing about
tasks. `handoff_hostile` assumes the same and that starting or closing the Human surface
ends, successfully or not (`system-browser-credential-session.ts` polls against a
deadline). No fairness on page accesses, clients or the Human there. `semantic` assumes that an
access to the page is answered or fails (a lost connection rejects it) and that
deadlines pass; the watchdog, for accesses that never answer, is `queue`'s subject.
`cua` assumes that the timers of requests and of `close()` fire and that `begin()` handles
its failure, and nothing about the driver: it may hang or ignore SIGTERM.

### What the violations show
* **`handoff_timeout`** `docs/architecture.md:36` promises that serialization prevents
  concurrent calls from racing the single page; after a timeout it does not. The
  consequence for authority: A's task hangs and is given up; B's
  call meets a sign-in page, B's Human gets the normal browser; A's task ends, and its
  `finally` block takes B's intervention for one it raised itself, cannot bind it to A
  and cancels it. Agent authority is back while B's Human types a password.
* **`handoff_resubmit`** A requestState that arrives again while its first submission is
  verified is stale by epoch; the stale branch deletes the owner of an intervention
  that is alive. If the Human is needed again, nobody can be asked: calls are refused
  until a restart.
* **`route_send_reconnect`** `docs/manual-e2e.md:148` asks that readiness, route and epoch
  are revalidated immediately before the click; `docs/architecture.md:50` and
  `docs/execution-handoff.md:82` fence approvals by the epoch. The epoch is compared at
  `route-send.ts:303`, and `getClient()` at 304 may then find the connection lost, advance the
  epoch and forget the route. Device and dialog are looked for on the new connection,
  but `consume()` at 310 compares the approval with the epoch its requestState has, and the click
  follows. What saves the user here is that the page of a Chrome that stayed up is
  still the approved one: that is `UsedOnApprovedPage`, and it holds.

### Observed, without a run of its own
* `UsedOnApprovedPage` needs `~astray`. A selection that has clicked and whose look at the page
  is rejected over a connection that is fine (`runtime.ts:674`) leaves the memory, and the epoch,
  of the route before. An approval for that route is then used on a page that shows the
  other one, because the send asks the page for its dialog and the memory for its route.
* A preflight the watchdog gives up may have its devices before the reset ends; its handler
  then finds `targets` set, makes an approval and prompts (`server.ts:901-933`). The
  epoch it is made for is the one after the reset.
* `ensureConnected()` and the watchdog's `close()` await `client.close()` before they
  invalidate (`runtime.ts:692`, `runtime.ts:834-835`). `Reconnect` and `Timeout` of
  `RouteSend` and `Reconnect` of `MapsRuntime` make it one step. Until the first timeout only one task
  runs, so none can attach in between; after it, only properties are claimed that do
  not depend on when the memory is dropped, as long as the epoch advances with it.
* `docs/architecture.md:50` says semantic state is invalidated rather than inherited when
  the watchdog resets the browser. A zombie of `clickRouteResult()` that wakes after
  the next operation opened directions remembers its route there (`runtime.ts:684`). The
  epoch advances (`EpochFence`), so no approval is misled, but reads name that route.
* Chrome goes down between the two checks of `navigate()` (`runtime.ts:552`): the second
  reconnects, to a blank tab, and the request is remembered until the next access notices.
* Nearby and photos click and keep the memory when they fail afterwards; `MemoryIsTrue`
  excludes them and holds for the other fourteen. The first expression of route sharing
  and of transit time checks no identity of the page; the guard before it does.
* Without `~overlapped`, `CurrentRestorable` is violated: a container's pruning lists and
  deletes an archive another one has uploaded and not yet named. The gateway's README asks for
  one container at a time.
* A pointer this release cannot read is never replaced, so every later checkpoint fails,
  though `profile-snapshot.mjs:341` logs that it goes on without a rollback
  pointer. `previous` is the archive that was current, damaged or not. A transient
  failure to download the newest archive restores the one before it, and when snapshots are
  not required a start without any goes on empty.
* An assertion's record counts until its `exp`, so a call verified just before and
  consumed just after may use it twice. A client that lost the reply to a refresh and
  repeats it loses its family: that is rotation as specified, and `SessionKept` says
  it is the only way.
* Two operations that start the driver at a time, or the end of the takeover while one waits
  in `close()`, leave a driver nobody stops. `DriversAccounted` excludes that
  (`overlapped`): that no driver is forgotten is shown only for starts and closes that
  do not run side by side. After SIGKILL, the late exit of the old driver fails requests of
  the new one. A driver that was killed by a signal looks alive and is never
  replaced. `begin()`'s catch clears `active` whoever set it. A click that timed out may
  still happen.

### Environment of the MapsRuntime run
`MemoryMatchesPage` speaks of behaviours that are `calm` so far: Chrome did not go down,
no read failed over a live connection, nothing timed out and nobody navigated by hand.
Each part is necessary. When `Page.navigate` is done and the read after it is
rejected, the code leaves the memory of the request before; nothing documents what it
should do, so this is a hazard in `PROJECT.json` and not a finding. `ReplayFenced` speaks
of all of that until the first timeout: after one, a zombie can click later.

### Environment of the handoff run
Nothing times out in `handoff` and no requestState is repeated; `handoff_timeout` and
`handoff_resubmit` show what each of them breaks. `AuthorityExclusive` also needs
surfaces that do not expire while the client answers (`SurfaceExpires`). During the revocation of an expired surface the package may or may
not report it; in both cases a cancellation or continuation that arrives in between
ends with the intervention cancelled before the normal Chrome has closed. The
repository does not contain the package, so this is recorded here and not as a finding.

## 4. Proofs

The theorems hold for every value of the constants that the modules' ASSUMEs allow: any
number of operations, requests, tokens, containers and so on. Each proof module has one
inductive invariant, in named parts; a lemma per handler says what the step does to each part
of the state, and a few lemmas say that such changes preserve the invariant.

**`OperationQueueProofs`** With or without a watchdog: `TypeOK`, `OneHolder`,
`PendingExact`, `StartOrder`, `DrainComplete`, `SettledOnce`, and that `Spec` implies
`ImplementsSerialQueue`. `OneHolder` is not inductive: it does not say why the next
operation's predecessor is the only one that can be running. The invariant adds: the
accepted operations form a *chain*, each one's `prev` being the operation with the ticket
before its own and `tail` the last; the operations that are *done* are a prefix of it;
an operation that has had its turn is the first behind that prefix; and the counter
equals the cardinality of the live operations, which is finite. A drain waits for the
operation whose ticket is its horizon. The refinement maps phases to stages (`StageOf`);
the guards on capacity and order follow from `PendingExact` and the chain.

**`HandoffServerProofs`** Three layers, each for as many circumstances as it survives.
`HandoffInv` always holds and
gives `TypeOK`, `LineExact`, `OwnerNeverRebound` and `ReplayOnce`. Its core is what a
request may rely on after an await: the handoff state only moves on (`Later`), so an
intervention somebody was asked to take is never open for an owner again (`Past`);
whoever waits for a surface or verifies, and every requestState, speaks of such an
intervention (`Fine`, `Prompts`), whose owner is theirs or nobody. Beside it, `Profile`:
the two Chromes never run at a time, and a CDP client is one of a running Chrome.

Until an operation times out, `InTurn` holds too: only the holder of the turn works
(`TurnOnly`), and a step outside the turn neither raises an
intervention nor gives one to the Human (`Outside`, `Lowers`). That gives
`HumanAlone` with nothing else assumed: requestStates may be repeated, surfaces may expire
and a normal Chrome may refuse to close.

The rest needs `QuietInv`, which holds until the first timeout if no requestState is submitted
twice and no surface expires (`Quiet`, a condition on the constants). It gives
`OwnerPresent`, `OnlyOwnerActs` and `PromptCurrent`, and, where the normal Chrome closes, `AuthorityExclusive`.
None of these is inductive, because each depends on which await which handler is in. `QuietInv`
says it: the surface is of the active intervention and its generation, or of the one the
Human has just completed (`SurfaceCurrent`); each await of a handler fixes the status of
its intervention and of the surface (`Waits`); at most one handler opens the surface,
one closes it, one verifies (`OneWaits`); and a requestState not yet submitted finds its surface
open (`Unspent`).

Each of these theorems comes in two forms: up to the first timeout (`...UntilTimeout`), and
for `MaxTimeouts = 0`, where it is the property of the run. The conditions are needed: on
small instances TLC violates all five properties after a timeout, all but `HumanAlone`
with a repeated requestState, `AuthorityExclusive` with an expiring surface or a normal
Chrome that does not close, and the other three with an expiring surface.
`handoff_timeout` and `handoff_resubmit` leave these conditions, one by a timeout and one by a
repeated requestState.

**`RouteSendProofs`** All five properties of `route_send`. Records never come back once
they are used or revoked (`Over`, `Once`), what users were told stays true (`Told`), and
there are at most as many approvals as requests (`Counted`, the one place where the set of
requests has to be finite). `UsedOnApprovedPage` speaks about behaviours before the first
timeout and without a selection that went astray, with any number of lost connections. There only the
task that has the turn acts (`Alone`); a client in use is live, and a lost one was lost by
`Lose` (`Connected`); and what the runtime remembers is what the page shows, unless the client
is lost or a selection is about to look at its click (`MemoryOnPage`). So a send that has seen
its route in the memory has it on the page, or a page that is gone with its dialog, where
no device is found (`RequestOnPage`), however often it reconnects. The epoch stays the approved one
as long as nothing was lost (`InEpoch`).

**`OAuthGatewayProofs`** `TypeOK`, `OneSuccessor`, `SessionKept`, `RevokedStaysOut`. A
consent is consumed by at most one family (`Consents`); the tokens of a family are a line in
which only the last is unused (`Lines`), every token and family has the consent it came
from (`Grounded`), a token is used only if it was sent (`Counted`), and a request that
was let in was let in by a family that was alive when it began (`Watched`). It assumes that
codes and tokens have different names and that `None` is no name (`NamesAssumption`).

**`ProfileSnapshotProofs`** `TypeOK` and the three properties of `snapshot`, with any number
of containers, failures, crashes and requests the bucket carries out late. `PointerLinear` and
`TypeOK` need no assumption on overlaps: the generation advances with every replacement
(`Sound`), a request under way names a pointer it has read (`Holds`), and that pointer is the
current one or an older one (`Behind`). `CurrentRestorable` and `NothingRolledBack` speak,
as their definitions say, of one container at a time, and both follow from `AloneInv`. An
archive is *wanted* if the pointer names it, a checkpoint under way is going to, or a save of a
dead container still may, because the pointer still has the generation it expects. What is to be
deleted, by a container or by a late request, is not wanted (`Harmless`). That would not
be inductive without the rest: once a container has saved, its save is the pointer and no late
save can still succeed (`Saved` in `Proper`), and a late save names an archive that is in
the bucket and not older than the pointer's (`ProperRequest`), so a list of stale
archives computed from a listing stays harmless however late it is carried out. For the restore,
every archive from the pointed one on holds the last reported checkpoint (`Recent`). So does
the newest one that a listing finds, since the pointed one is among them (`NamedStored`).

**`CuaTakeoverProofs`** `InputWhereSeen` and `DriversAccounted`. For inputs, what an
operation knows at each of its stages about the windows (`Made`, `Seen`); for drivers,
as long as nothing closes the client while it is being started, that one operation
starts or closes, its driver is the client's, and it has been greeted before it is used
(`Orderly`).

**`MapsRuntimeProofs`** All four properties of `runtime`. `EpochFence`
is a property of every step, whichever task takes it, and needs only the shape of the
state. `MemoryMatchesPage` and `ReplayFenced` rest on order: before the first timeout one
task runs at a time (`Order`), so what it read is still so when it uses it. The page may be
ahead of the memory only between a task's click or landing and the check that follows
(`Landed`, `RouteChosen`, `PlaceChosen`); whatever ends that task early has dropped the
memory or lost the connection. `ReplayFenced` speaks until the first timeout and
`MemoryMatchesPage` names its circumstances (`calm`); `EpochFence` holds with any number of timeouts and tasks given up.

**`SemanticToolsProofs`** The four safety properties of `semantic`, with any number of
moves, challenges, lost connections and marks of other tasks in one context, where the run
has one. None is inductive, because a click takes effect long after it was sent.
`SavedStaysSaved`: a page with a save before it is of a place that is not saved
(`Harmless`), and a call about to press read the row as not saved, which it still is
(`Unsaved`). `SuccessIsReal` and `ShareLeavesNoTrace`: for most tools the last expression
reads what is reported; for the time, the hours and the dialog the stages before have made
sure of it (`TimeInv`, `HoursInv`, `ShareInv`). `MemoryIsTrue`: the page shows what is
remembered and has no click before it that changes that (`Fits`), unless a call is turning
it (`Turning`); then `Pages` says what the page and the memory may be until the call ends,
and both ways it may end restore `Fits`.

Only model-checked: liveness (`QueueProgress`, `EveryCallAnswered`, `CallsEnd`,
`OperationsEnd`; fairness and ENABLED are out of the prover's reach).


## 5. Not modelled

`PROJECT.json` "components" says for every part what is missing and why. Left out of the
modelled parts: the content of pages, prompts and results; `consumeMatchingRecovery`
and the durable checkpoint (off by default); the two explicit sign-in tools; the
`external_surface` reason, which uses the takeover broker's web page instead of a normal
Chrome; a prompt answered without a decision in `RouteSend`, which asks
again and changes nothing; what is typed and where in a window an input goes, in
`CuaTakeover`; the rate limiter, the cache of client metadata, the operator's
login and the proxy's header filter, in the gateway.

Not modelled at all: the policy engine's sliding windows (sequential, no awaits, and
covered by tests at their limits), the screencast (frames are dropped in favour of the latest
one), entry points, configuration and HTTP checks (pure functions of a request), the
takeover transports of the external package, the embedded map app (no state of the
server's), and the recognizers of visible state, whose content is text.
