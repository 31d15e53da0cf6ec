# A TLA+ model of OpenXR Operator

OpenXR Operator lets an AI agent watch and change a running Godot XR
application while a person approves every change. The system is two processes
and a person: the *game process* with the addon (GDScript,
`addon/openxr_operator/`), the *operator process* (Python,
`operator/src/openxr_operator/`), and a browser. Each hands work to the next
over a channel that can be late or gone, and each holds state across a wait.
This directory states what must be true of that whatever the order of events,
checks it with TLC on small instances, and proves all of it but the liveness
with TLAPS for all instances.

Paths below are relative to the repository; `module.py:n` means
`operator/src/openxr_operator/module.py`, line n, `server.gd:n` the addon's.

## Inventory

| Component | State it keeps | Operations | Interacts with |
|---|---|---|---|
| Command server, `server.gd` | `_peers` with their auth flags, deferred close, clocks and rate window; `_queue`, `_draining` | accept, poll, authenticate, dispatch, drain, deadlines, shutdown | drivers over WebSocket; handlers it calls and awaits |
| Capture handler, `capture.gd` | `_frame_id`, the files written | tier, bounded wait for a presented frame, readback, file | called from the server's queue; the compositor |
| Injection handler, `inject.gd` | none; moves nodes of the scene, sets Input actions | move, press, release, each with its assertion | `XRServer`, the running scene |
| Editor bridge and probe, `editor_bridge.gd`, `debug_capture.gd` | `_ack_seq`, the last ack | rescan with a bounded wait; scan and ack | each other, over the debugger channel |
| Driver, `godot_driver.py` | `_ws`, `_seq`, `_proc`, `_frames` | connect, close, `_request`, one method per command, verification of a frame | the server; called by the agent loop and the flow runner |
| Agent loop, `agent.py`, `schema.py`, `fsguard.py` | position in `run_task` | observe, ask the model, validate, contain, ask the person, execute, record | driver, model backend, gate, audit log, bundle |
| Approval gate and UI runtime, `approval.py`, `ui/runtime.py` | `_state`, `_pending`, the cards' `approved` and `event` | `start_task`, `_decide`, `decide` | worker threads; web threads of any number of tabs |
| Audit log, `auditlog.py` | the file; `_seq`, `_prev` | append, reopen, verify, `head_hash` | agent loop |
| Flow runner, `flow.py`, `runner.py`, `settle.py`, `cli.py` | the recursion of the interpreter, `_steps` | parse, dispatch, sub-flows, repeats, assertions, waits, bundle, exit code | driver, selectors, run bundle |
| Selectors, `selectors.py` and `_serialize_node` | none | flatten, match, resolve | the tree the server cuts; the flow runner |
| Run bundle, `artifacts.py` | files | frames, trees, steps, manifest, JUnit | runner, agent loop |
| Model backends, `backends/`, `model.py` | the configuration, a request | resolve with its gates, health, act | a model server; the agent loop |
| Web routes, `ui/app.py` | none | HTTP | the UI runtime |

What makes each correct:

* **Server.** Nothing of a connection happens before its one auth; a close
  request is final; replies keep the order of the requests although handlers
  suspend; no request is lost; the queue cannot get stuck; silent connections
  go.
* **Handlers.** An accepted frame was drawn for its own request, and at the tier
  it is reported at (which the code does not keep, see below); no ack serves two
  rescans; an injection that says it worked did, and one that was refused changed
  nothing; each handler returns.
* **Driver.** A request returns its own answer or raises; after a timeout
  nothing on that connection succeeds by accident; every wait ends.
* **Agent and gate.** No effect without an answer of the person that says so,
  logged before the effect, even if the engine acts after the driver gave up;
  every step leaves exactly one record of how it ended, one that fits; only the
  person can keep a task waiting.
* **Audit log.** An honest log verifies over restarts and holds what was
  acknowledged; tampering shows, and cut ends show against a pinned head.
* **Flow runner.** A sub-flow cannot grant itself what its caller has not; after
  a failure at any depth no further mutation is made; the exit code is true; SETTLED
  means it stood still; what a flow is told of a node is so; every run ends.
* **Selectors.** The node found is the one meant, and the only one.
* **Model backends.** A pinned model answers, whatever is pulled meanwhile; no
  request goes anywhere before the gate has passed, and none leaves the machine as
  long as the gate and the HTTP client read the host alike.

The hard behaviours are: handlers that suspend in the middle of dispatch;
requests given up and carried out later; connections that close while nobody
listens; web threads racing a worker; exceptions of a kind nobody catches;
crashes between the steps of an append; an ack without an id; a world (scene,
XR session, model server) that changes between a check and its use.
`PROJECT.json` lists them line by line under `hazards`.

## Modules

```
               Selectors          MCWireServer, MCDriverChannel, ... : the instances of TLC
                   |
                   v extends
WireServer     FlowRunner         EngineHandlers          ModelBackend
    |  promises    |                  ^                        | outcomes of act
    |              v                  | one at a time, in order v
    +----> DriverChannel -------------+                   AgentRuntime <-- records -- AuditChain
                |          connection: up / desync / closed     |
                +-----------------------------------------------^
                |                                               |
           implements RpcContract                 implements ApprovalContract

Proofs: WireServerProofs, DriverChannelProofs, EngineHandlersProofs, ModelBackendProofs,
        AuditChainProofs, AgentRuntimeProofs, SelectorProofs <-- FlowRunnerProofs
```

The modules are composed by contract. The server's properties (in-order
execution, one reply each, none to a dead peer) are what `DriverChannel` and
`EngineHandlers` assume of the server. What `DriverChannel` shows (fail-stop,
late effects, silent death of an idle connection) is the connection
`AgentRuntime` and `FlowRunner` have. What `ModelBackend` lets a call of `act`
raise is what a model call of `AgentRuntime` may end in. The product of all of
them is out of TLC's reach.

**WireServer** is the game process's main thread. Its `pc` says whether control
is with the engine, in the packet loop of `_poll_peer`, or in `_drain_queue`
after a suspended handler returned; the world outside moves only while it is
with the engine. `PollPeer`, `Packet` and `Deadlines` are the three parts of
`_poll_peer`; `OnPacket` is `_on_packet` with all its exits; `Dispatch` is
`_enqueue_dispatch`, which executes at once when no drain is running; `Execute`
is one queue item up to its handler's first await, `Resume` and `DrainQueue` the
rest. A frame is its kind and the number the client gave it. Clocks are ages
that stop one above the limit they are compared with.

**EngineHandlers** is what happens inside that one suspended handler, and what
the driver makes of the answer. `CaptureStart`, `Present` / `ProcessFrame` and
`CaptureEnd` are `handle_capture` before, in and after its await, `RescanStart`
and `RescanEnd` `handle_editor_rescan`, `Inject` the whole of `handle_inject`,
which has no await and refuses what has no tracker, no action or an unknown op.
A picture keeps the tier it was drawn at beside the one the handler reports.
`move_scaled` is any rotation that lands and is not read back as it was given,
whether its length or its sign is changed. `EditorScans` and `AckArrives` are the two directions of the
debugger channel. `VerifyFrame` is `_verify_frame`: a digest is the picture
itself, a file a path made of the label and the counter, and a picture names the
request it was drawn for. `WorldChanges` starts and stops XR, changes the scene,
closes the editor; `GameRestarts` and `DriverRestarts` lose what is in memory and
keep the files.

**DriverChannel** is `connect`, `_request` and `close` with the engine's end
reduced to requests it takes one by one, a handler that may take any time, and
replies. `Send` is the first half of `_request`, `Recv`, `Timeout`,
`RecvClosed` its ends. `RequestOnDead` and `ConnectHangup` are the paths on
which `send` raises `ConnectionClosed`, which is no `DriverError`.
**RpcContract** is what callers may rely on.

**AuditChain** is one log file. `append` is three steps (`Build`, `Write`,
`Link`) because it can fail or die between them; a write that does not finish
leaves nothing or half a line, and what is written behind half a line becomes
part of it. A hash is the record with the hash before it: SHA-256 is taken as
one-to-one.

**AgentRuntime** is the operator process that serves the browser: web threads
(`StartCheck`, `StartRun`, `Decide`), one worker per task whose `pc` follows
`_step` from call to call, and the connection they share. A proposal is
`<<task, step>>`. `late` holds requests the driver gave up on and the engine has
not carried out yet. **ApprovalContract** is the promise to the person: asked,
answered, resolved by one of the answers given, effective at most once and only
if granted.

**ModelBackend** is the model behind such a call: `Gate` is `resolve` up to the
health check, with the order in which it refuses, `Health` and `Act` one HTTP
request each, `Answered` and `Fails` its end. The host is one string with two
readers: the gate splits it, the HTTP client takes it whole, and the model has
every pair of results (`reads`, `goes`). A model is a digest; a request for
a pinned model carries the first 12 digits (`Prefix`). `ServerChanges` is the
operator of the model server, who stops it, pulls another model under a tag or
removes one, at any time.

**FlowRunner** is one run of the command line: the parse gate, the interpreter
as a stack of frames (the Python recursion), settle and wait_until, the three
ways a command can end (done, caught, escaped), manifest, JUnit file, exit code.
A command whose arguments are missing or of the wrong type, or whose pattern is
none, passes the parser and trips where they are used (`Trips`); `launch` may not
find its program; a picture may not be readable (`BadPicture`); a step may be in
the list and not in the file (`Unrecorded`).
A picture is a point on a scale on which neighbours differ less than settle's
threshold, so that closeness is not transitive, as in the code. A command with a
selector reads the tree of the scene there is at that moment, which may be
another one at each look; `Tree` is the request with the resolution of the
selector on its answer, and `found` is what the command goes on with. The engine
shows trees (`ScenesAssumption`): the children of a node are numbered without a
gap.

**Selectors** has the tree as the server serializes it, cut at a depth and a
number of children, `flatten`, `_matches` and `resolve_selector`, and beside them
what a selector means on the scene itself (`Meant`, `IsMeant`), defined without a
traversal. `SelectorsMeetReference` compares the two in every state of the flow
run in which a tree has been sent, for the selector as the command asks it: that
of `wait_until` allows absence (`Patient`).

## Runs

`MC*.tla` hold the instances, the `.cfg` files the constants. State counts are
the distinct states of one run.

| Run | Instance | Shows |
|---|---|---|
| `server` (52 k states) | 2 clients, 1 slot, rate limit 2, one client with up to 3 frames of every kind that matters, with fairness | `TypeOK` with the slot limit, `NothingBeforeAuth`, `CloseIsFinal`, `QueueDrains`, `SilentPeerLeaves` |
| `server_dispatch` (2.7 M) | 2 clients, 3 frames each, handlers that suspend | `RepliesInOrder`, `EveryRequestAccountedFor` |
| `driver` (17 k) | 6 requests, 2 connections, with fairness for the driver only | `OnlyOwnReplyUnderWay`, `NoCommandBeforeAuth`, `FailStop`, `RequestEnds`, `ImplementsRpc` |
| `audit` (26 k) | 4 appends, 2 restarts, 1 tampering | `HonestLogVerifies`, `TamperingShows`, `PinnedHeadShowsTruncation`, `AcknowledgedIsOnDisk` |
| `agent` (266 k) | 2 tasks, some actions granted and one not; two workers race over one step each, or one takes 3 steps alone; with fairness for the workers only | `TypeOK`, `EffectsNeedLoggedApproval`, `EffectsRecorded`, `EveryStepAccountedFor`, `ImplementsContract`, `WaitsOnlyForThePerson` |
| `flow` (693 k) | every main flow of up to 2 commands with every sub-flow of up to 2 from the lists in `MCFlowRunner`, well-formed or not, recursion limit 3; every tree of up to 4 nodes, and a scene that is another one at each look; trees cut at depth 2 and at 2 children | `SubflowsCannotWiden`, `ExitTellsTheTruth`, `SettledStoodStill`, `SelectorsMeetReference`, `SeesWhatIsThere`, `NothingAfterFailure`, `RunEnds` |
| `engine` (519 k) | 2 drivers, one of which declares a tier; 3 requests, 2 restarts, 1 change of the world; captures, rescans (with an injection between them) and injections each in behaviours of their own | `TypeOK`, `AcceptedFrameIsOfItsRequest`, `EveryAckServesOnce`, `InjectionIsNeverSilent`, `HandlersReturn` |
| `backend` (52 k) | every configuration of a model and a host, 3 digests two of which begin alike, 2 tags, 2 calls | `PinnedModelAnswers`, `NothingBeforeTheGate` |

Why the bounds are enough. Two clients are needed for the queue to hold another
peer's command and for the slot limit to be contended; three frames let one be
in a handler, one in the queue and one malformed, or one be an auth and two be
what the rate limit counts. Two connections and four requests after an auth let
a late reply meet a later request and a new connection. Four appends over two
restarts let a cut be followed by new appends that reach the pinned length
again. Two tasks are the race of `start_task`; a third adds only a third copy. The
race ends where the first worker would begin a second step, and `RaceOrSteps` cuts
it there as part of the next-state relation; a behaviour that stops at the cut is
not a fair one, so that `WaitsOnlyForThePerson` is shown for the worker that is
alone, and for racing ones that end in their first step.
In flows, depth three is the main flow, a repeat or sub-flow in it, and one more
before the limit; a repeat inside a repeat is left out (`LibrariesAssumption`),
since a repeat of a sub-flow that comes back has the same shape. Four nodes make
the smallest trees that are cut at either limit, and those in which a node to be
found lies below one that is not, or after one. Three captures and a restart of
both sides make two of them write the same file name; three rescans make an ack
one behind and then another. Three digests are a pinned one, one that begins
alike, and another. Age bounds in `WireServer` lose nothing: above the limit all
ages behave alike.

Deadlock is checked wherever the system cannot stop. It is off in the runs whose
model may stop: the driver, the log, the flow, the engine and the model (their
bounds run out or the run is over), the tasks (all over), the server (the node
has left the tree).

### Where the code does not do what its documents say

Four runs expect a violation; each is a sentence of the repository that the
code does not keep.

* `approved_not_executed`: README.md:35 says that an approved action executes and
  its result is recorded. While the worker waits for the person, the driver sends
  nothing; after 120 s the server closes the idle connection (`server.gd:156`),
  `send` raises (`godot_driver.py:177`), and the UI connects only once.
* `rejection_flipped`: README.md:35 says that a rejection is logged and the agent
  moves on. `decide` acknowledges every answer until the worker has taken the
  card down, and a later one overwrites it (`ui/runtime.py:76-83`).
* `bundle_lost`: `runner.py:7` says that a failing step stops the run and the
  bundle still lands. Only three kinds of exception are caught
  (`runner.py:96`); `FlowRejected` from a sub-flow, `ActionRejected` from the
  driver's gate, `ConnectionClosed` from `send` and `RecursionError` are not.
  Neither are `KeyError` and its like for arguments the parser does not look at
  (`runner.py:117-124`), `re.error` for a pattern (`selectors.py:53`), PIL's
  `UnidentifiedImageError` (`settle.py:77,87`), `OSError` of `launch`
  (`godot_driver.py:229`) or of a file of the bundle (`artifacts.py:54-57`).
* `stale_tier`: `capture.gd:14-18` says that the reply carries the tier actually
  used, and that a report can never claim a fidelity the run did not have. The
  tier is read before the wait for the frame (`capture.gd:65`) and reported after
  it: if XR stops in between, a frame drawn at t3 is reported as t2, and a driver
  that declares t2 accepts it (`godot_driver.py:254`).

Seen while modelling, without a run of their own. The models contain the
behaviour unless it is said to be data.

*Concurrency and order*

* Two tasks can run at once: the check for a running task and the assignment are
  not under one lock (`ui/runtime.py:43-50`). Both workers are in `agent`;
  that the audit log they share has no lock is not.
* The answer to a malformed frame is sent at once and overtakes the replies of
  commands that are queued (`server.gd:189`). `RepliesInOrder` speaks of commands.
* After one ack that came late, every following rescan is answered by the ack of
  the one before it (`editor_bridge.gd:87-100`): `EveryAckServesOnce` says what is
  still so.
* `assert_property` reads the value in a second request (`runner.py:162-171`), and
  the agent's frame and tree are two requests (`agent.py:106-108`): a picture and
  a tree may be of different moments.

*Failures*

* `verify`'s docstring (`auditlog.py:80`) promises False for truncation, while the
  module's docstring (lines 6-9) rightly excludes a cut end, which is what
  `PinnedHeadShowsTruncation` is for.
* "Nothing has executed" (`flow.py:66`) is not so for a rejected sub-flow; an
  uncaught exception has the shell's exit code 1, which also means "a step
  failed"; settle outcomes of nested commands are not recorded.
* Both adapters' `act` raises `TypeError` or `AttributeError` for some replies with
  status 200 (`local_ollama.py:139`), which the agent's one retry does not catch,
  although `test_adapters.py:120` speaks of named model errors. `cli._run_ui`
  catches only `DriverError` and `ModelUnreachable`: a refusal by the gate of a
  backend ends in a traceback (`cli.py:119`).
* A rotation that is no unit quaternion, or one that is read back with its sign
  flipped, lands and is then reported as failed (`inject.gd:80-90`): `move_scaled`.
* `assert_property` and `assign_script` pass validation and approval and then have
  no execution path (`agent.py:212`).

*Selectors and waits*

* A tree cut at its depth says nothing of the children it leaves out, and
  `resolve_selector` does not look at what says a list was cut, so that a match
  can be returned that is not the only one (`flow-schema.md:15` says it is an
  error): `SelectorsMeetReference` asks uniqueness only of trees sent whole.
* In `child_of` and `contains` the nested structural and screen-space keys, and
  unknown ones anywhere, are not looked at (`selectors.py:51-70`).
* `wait_until` raises at once for an ambiguous match or an index that does not
  exist yet (`runner.py:180`).
* Settle compares a picture only with the one before (`settle.py:89`): one that
  drifts slowly settles.

*Model backends*

* A pinned request carries 12 hex digits of the digest, so that is how much of the
  pin `PinnedModelAnswers` can promise. Some spellings of a local host (`[::1]`, a
  trailing slash) are refused by the gate.
* The gate splits the host at `://` and `:` (`backends/__init__.py:83-88`), the
  adapters give the whole of it to `httpx` (`local_ollama.py:53,77,128`,
  `local_llamacpp.py:34`), which also honours the proxy variables of the
  environment. README.md:7 says that no data leaves the machine unless it is
  configured to; that is so as long as the two read the string alike (`ReadAlike`),
  which the code does not ensure.
  The model has the strings they read differently, and `NothingBeforeTheGate`
  promises nothing about where a request goes for them.

## Fairness

* *Server.* `_process` polls every peer every frame, the engine resumes
  suspended coroutines (each handler bounds its own wait: `HandlersReturn`),
  time passes: strong fairness, as each is disabled while the thread is inside a
  loop; weak fairness for the loops.
* *Handlers.* The main loop iterates, so that a handler that can go on does, and
  its clock advances: weak fairness of `Handlers`. Nothing is asked of the
  compositor, the editor or the drivers.
* *Driver.* Only its own code is fair: the deadline bounds each wait. Nothing is
  assumed of the engine.
* *Agent.* Worker threads run. Nothing is assumed of the person.
* *Flow runner.* The one thread runs and the clock of a wait advances.
* *Audit log, model backend.* No liveness is stated.

## Proofs

Every theorem is for all values of the constants that satisfy the assumptions of
its module. `PROJECT.json` lists them; what follows is the argument of each.
Every invariant and every action property a run checks is one of them, and so
are both refinements.

**Agent runtime, approval** (`AgentRuntimeProofs`; from `GrantedAssumption`,
`BoundAssumption`):

1. `TypeCorrect`: `Spec => []TypeOK`. Besides types this says that the cards on
   show are exactly those a worker waits for, which the rest needs.
2. `ApprovalInvariant`: `Spec => []ApprovalInv`. `EffectsNeedLoggedApproval` is
   not inductive: from a state in which a worker is about to execute an action
   that was never approved, a step breaks it. `ApprovalInv` adds that each
   answer on a card is one acknowledged to the person (`AnswersHold`), that a
   decision exists only for steps that have reached the gate, so that a new step
   starts undecided (`VerdictFresh`), and that a worker at `execute` has a
   logged approval (`ExecuteApproved`).
3. `EffectsApproved`: `Spec => []EffectsNeedLoggedApproval`.
4. `GateImplementsContract`: `Spec => ImplementsContract`, with the refinement
   mapping `CardState`: every step is a step of `ApprovalContract` or a stutter.
5. `EffectsAreRecorded`, `StepsAreAccountedFor`: `EffectsRecorded` and
   `EveryStepAccountedFor` become inductive with two facts: an outcome comes only
   at the end of a worker (`OutcomeEnds`), so that nothing it does later is about
   the step it ended in, and a request the driver gave up has ended its worker in
   error (`LateFailed`), so that a late effect is excused. `StepsAreAccountedFor`
   says that a completed step has exactly one record of how it ended, one that fits
   its outcome, where a first invalid output is none, and that a step which ended
   without the person never put a card before them. That there is no second record
   needs that nothing is recorded as ended of the step a worker is at before its
   end.

The lemmas go action by action; what several actions do to the same variables
(`Ends`, `NextStep`, `Log`) is proved once.

**Driver** (`DriverChannelProofs`; from `BoundsAssumption`): `Inv` is inductive
(`InductiveInvariant`), and with it

1. `TypeCorrect`: `Spec => []TypeOK`;
2. `OnlyOwnReplies`, `AuthFirst`: `OnlyOwnReplyUnderWay`, `NoCommandBeforeAuth`;
3. `NoSuccessAfterFailure`: `Spec => FailStop`;
4. `ChannelImplementsRpc`: `Spec => ImplementsRpc`, a request's abstract outcome
   read off its id and result (`Outcome`).

None of these but the first is inductive alone. That a mismatch never turns into
a later success needs `Behind`: after a failure an older frame is ahead of the
awaited reply, whether it is already readable, at its handler or first on the way
to the engine; and this needs `Outstanding` (the request that fails is somewhere
on an open connection) and `InOrder` (ids reach the engine in order, each is
carried out once). `OnlyOwnReplyUnderWay` needs `Own`: what is on its way to the
engine, or at a handler, of a connection without a failure is that one request
too. All ends of a request go through one lemma, `FinishInv`.

**Server** (`WireServerProofs`; from `KindsAssumption`, `LimitsAssumption`,
`NoneAssumption`): the invariant `Inv` (`InvHolds`) follows a request on its way
from the inbox to the handler or the queue and to the outbox. On that way
numbers of one connection ascend, everyone on it has authenticated, and the
frame read next by a connection that has not had its attempt is the first it
sent (`FirstUnread`). From it:

1. `NothingBeforeAuthHolds`, `RepliesInOrderHolds` and, step by step,
   `CloseIsFinalHolds`;
2. `TypeCorrect`. The slot limit is about a cardinality: one more connection
   comes in only while there are fewer than the limit (`SlotsInv`). What of the
   rate window is kept after `Pruned` is a window again (`PrunedWindow`);
3. `NoRequestLost`: `Spec => []EveryRequestAccountedFor`. Ascending numbers would
   allow a gap, so that the inbox has to be known exactly: it holds the numbers
   that follow the last one read (`Exact`). What was read is then said, held in
   the queue or at the handler (`Somewhere`), and each exit of `_on_packet`,
   `Resume` and `DrainQueue` moves a request from one of these to another, or
   sentences its connection.

**Handlers** (`EngineHandlersProofs`; from `DeclaredAssumption`, `MixAssumption`,
`BoundsAssumption`):

1. `AcceptedFrameHolds` follows a picture from the screen to the driver. A capture
   that has seen its frame has one drawn after it began (`LocalInv`); its reply
   says just that (`Faithful`); and a file that another request wrote under the same
   name does not have the digest of the reply.
2. `AcksServeOnce`: `Spec => []EveryAckServesOnce`. An ack has no id, so that all
   there is to go by is order. The numbers of queued requests are above those of
   all that have begun (`CallInv`); the acks outstanding, at the editor or on
   their way back, ascend and are above every ack used (`Due`); each is the
   running rescan's own or has a rescan given up before it (`Excused`). An ack
   that has moved `ack_seq` while a rescan runs is one no rescan has used
   (`AckInHand`).
3. `InjectionNeverSilent`: `Spec => InjectionIsNeverSilent`, an action property:
   the only step that answers an injection is the one that carries it out or
   refuses it, and each refusal leaves pose and action as they were, whatever it is
   for.
4. `TypeCorrect`: `Spec => []TypeOK`. That the counters stay within their bounds
   needs a count: frames saved, acks counted and requests under way are together
   no more than the requests sent (`FrameCount`, `AckCount`, `DriverInv`).

**Selectors** (`SelectorProofs`; from `TreeAssumption`):
`ResolutionMeetsReference` says of every tree and every selector that
`MeetsReference` holds. Document order (`Before`) is a strict total order, so that
a selector means at most one node (`MeantIsUnique`). `Flatten` lists what is under
a node, each once and in that order (`FlattenIsListing`): a node comes before what
is under it, and what is under one child before what is under the next. The
candidates are what is kept of that list (`CandidatesAre`); they are the nodes
meant, if the tree was sent whole, and meant in any case (`CandidatesAreMeant`);
the one at an index has as many before it (`Places`). What is cut off at a depth
or a number of children is a tree again (`WhatIsSent`).

`Flatten` and the fold behind `FlattenSeq` are recursive functions. The induction
theorems of the library take the property as an operator, which the provers here
cannot instantiate; the proofs take the set of the arguments at which the claim
fails instead and refute its least member (`LeastOne`, from the well-foundedness
of the natural numbers; `UpToAll`). That `Flatten` is defined at all is shown the
same way, level by level from the deepest one sent (`WalkGoesUp`).

**Flow runner** (`FlowRunnerProofs`, on top of the selectors; from all the
assumptions of the module):

1. `SubflowsNeverWiden`. A frame gets on the stack only if the file it comes from
   was accepted, and its commands stay those of that file, so that every command
   the interpreter comes to is granted by the header it stands under, bodies of
   repeats included (`StackInv`); the driver's gate adds the header of the
   top-level flow.
2. `FailureIsFinal` needs that nothing has failed as long as the interpreter runs.
3. `ExitIsTrue`: `Spec => []ExitTellsTheTruth`. The bottom frame is the top-level
   flow, in its one round, and stands one past the recorded steps, none of which
   has failed (`AtTop`, `StepsInv`); what the bundle holds is read off the phase
   (`ExitInv`). So a run that gets to its end has recorded every command.
4. `SettledHolds`: `Spec => []SettledStoodStill`. The last `stable` of the pictures
   kept are each close to the one before, whatever was moved out of the window
   (`PictureInv`).
5. `SelectorsHold`, `SeesTruth`: `Spec => []SelectorsMeetReference` and
   `Spec => SeesWhatIsThere`. While a scene is at hand, the command that asked for
   its tree is still at hand and `found` is what its selector is resolved to on it
   (`SceneInv`); `ResolutionMeetsReference` says what that means, and
   `MeantIsUnique` that a node which is not shown is not another one that is.
6. `TypeCorrect`: `Spec => []TypeOK`, from all of these together (`RunInv`).

**Model backends** (`ModelBackendProofs`; from `PrefixAssumption`,
`ConfigsAssumption`, `NotThereAssumption`, `CallsAssumption`): a backend that got
past the gate stays one whose configuration the gate lets pass (`PassedGate`), and
the request under way is the one its configuration asks for (`RequestOK`), so that
no pull between two steps changes which digests may answer it. From it: `PinHolds`,
and `GateFirst`: a host is contacted only by a backend past the gate, so that what
the gate refuses is never contacted, and only this machine is if both readers of
the host agree.

**Audit log** (`AuditChainProofs`; from `BoundsAssumption`):

1. `HonestLogAlwaysVerifies`, `AcknowledgedStays`: memory and file have the same
   head and length, or differ by the one record `append` is working on (`Agree`),
   as long as the log is honest; the file is then a chain, and what was
   acknowledged keeps its place.
2. `TamperingAlwaysShows`: `Spec => []TamperingShows`. An edited, deleted or
   exchanged line leaves a line that does not fit the one before it (`Misfit`);
   later lines are added behind, or spoil the last one further, so that a misfit
   stays.
3. `PinnedHeadHolds`: `Spec => []PinnedHeadShowsTruncation`. `Agree` is of no use
   here: after a cut, or a write that was lost, memory and file do differ. What
   does the work is that a hash contains the body it seals (`Sealed`), and that no
   body is written twice (`Distinct`), not even one that was cut off, since bodies
   are made one after the other (`Older`): the pinned hash is found only where it
   was pinned (`PinnedOnce`).
4. `TypeCorrect`: `Spec => []TypeOK`, from what `Tamper` can do to the lines
   (`TamperTypes`).

Only model-checked, since the prover has no ENABLED: the liveness properties
`QueueDrains`, `SilentPeerLeaves`, `RequestEnds`, `WaitsOnlyForThePerson`, `RunEnds`
and `HandlersReturn`. No module of the project has a RECURSIVE operator.

## Not modelled

* What commands do to the scene: `set_property`, `get_property` and
  `restart_scene` are requests with an effect.
* In `WireServer`, script errors of the engine on arguments of the wrong type
  (`server.gd:213,326`) and sends that fail. What the rate limit and the window
  length are is a constant: a wrong value would not be noticed.
* `NothingAfterFailure` sees mutations only, and of equal ones the first: a capture
  or a tree requested after a failure, or the same press again, is not seen by it.
* The token file, and the length of a handshake in `WireServer`, which has no
  limit of its own: `SilentPeerLeaves` speaks of open connections only.
* Redaction, YAML and `${VAR}`, the prompt, the tables of excluded model names,
  the content of the manifest and the JUnit file: data.
* `fsguard.py`: a verdict on a path and a write that succeeds or fails. Its
  algebra of paths (resolving, links, prefixes) is string work over a file system
  and keeps no state.
* The web routes: stateless wrappers around `start_task`, `decide` and `status`,
  which `AgentRuntime` has with any number of callers.
* Process handling: `launch` is its outcome; a second one forgets the process of
  the first (`godot_driver.py:229`).
* Cutting off the end of the log *and* forging the pinned head, or rewriting the
  chain from some line on, is what no chain shows and is left out of `Tamper`. A
  second `connect` over an open connection is left out: no caller does it.
* The OpenXR API layer is a directory without code; gdUnit4 is third-party.

## Plan

Done: the modules and theorems above. What would come next, in this order:

1. `PathGuard`: `safe_target` against a reference definition, over small paths and
   links.
2. `ServerDriver`: one driver and one server with frames between them, showing
   that the engine's end in `DriverChannel` is what `WireServer` gives.
3. Two appenders in `AuditChain`, once two tasks at a time are meant to be allowed
   or are excluded in `start_task`.
