# TLA+ verification of asyncapi-client

asyncapi-client turns an AsyncAPI document and the choice of an operation into a
*plan*, and runs the plan as a *session* with a broker or a server. The main line is
Rust (`rust/`), with a TypeScript facade over its WebAssembly build (`packages/client`);
the Go module (`go/`) and the independent TypeScript packages (`typescript*/`) are complete
engines of their own, which the Rust line is to replace and which ship meanwhile.

This directory holds TLA+ models of the parts of it that run concurrently or keep
state, the TLC configurations that check them on small instances, and TLAPS proofs of
what matters most for every value of the constants. Paths below are relative to the
root of the repository.

* [Inventory](#inventory): the system's parts, modelled or not
* [Modules](#modules): which module models what, and how it corresponds to the code
* [Runs](#runs): what each run asks, its bounds, and its answer
* [Fairness](#fairness)
* [Proofs](#proofs)
* [Findings](#findings)
* [Observations](#observations): where the models stay clear of a weakness of the code
* [Not modelled](#not-modelled)

## Inventory

`PROJECT.json` names the sources of every component and says whether it is modelled.

### Rust: the session side

**session/budget** (`rust/session/src/budget.rs`). State: two counters, messages and
bytes, under one mutex, shared by everything in a session that buffers a body.
Operations: `reserve`, which charges both counters or neither, and the drop of the
`Lease` it returned. Used by `Sender::send` and by `Context::deliver` concurrently.
Correct when: the counters account exactly for the leases that exist, and no sequence
of reservations and drops exceeds a limit or makes the unsigned subtraction wrap.

**native session** (`rust/native/src/lib.rs`). State: a bounded command queue, a bounded
event queue, two `watch` channels (shutdown and terminal status), a oneshot response per
command, the driver's task handle. Operations: `Sender::send`, `Session::next`,
`Session::close`, the drop of a `Session`; inside, `SendCommand::complete`,
`Context::deliver` and a guard that publishes a status when the task is abandoned. Callers,
the owner and the task run concurrently; a caller may be cancelled, a deadline may pass,
the task may be aborted or panic. Correct when: what `send` returns is true of what was
submitted; capacity neither leaks nor returns late; observations are returned in order and
before the end; `close` reports the driver's own result; nobody waits for ever.

**native MQTT driver** (`rust/native/src/mqtt.rs`) with the **vendored event loop**
(`rust/vendor/rumqttc-v4-next`). State: the one pending command with its packet identifier,
the client's publish and control channels, `MqttState` (outgoing publishes, releases,
incoming QoS 2 identifiers, the frontier of completed identifiers, queued events), the
write buffer. Operations: the branches of `run`'s `select!`, and each step of
`EventLoop::poll` (admitting requests, flushing, reading a batch, draining before a
disconnect). It talks to a broker that delays, repeats, answers wrongly, or dies. Correct
when: a receipt is evidence of the broker's own answer to that very publish; a disconnect
does not overtake a publish; a QoS 2 message is delivered once; identifiers are reused only
when free; a close drains or fails, and ends.

**native WebSocket driver** (`rust/native/src/websocket.rs`). State: the pending command's
fate is its flush. Operations: take a command, write and flush it, read a frame (text,
binary, ping, close), close handshake. Correct when: the same promises to the session as
MQTT, and a close frame of the peer ends the session gracefully.

**session/plan, authentication, error** (`rust/session/src`). Pure: `SessionPlan::new`
validates a plan, `send_plan`, `websocket_route` and `mqtt_route` route arrivals, and
credentials are placed. Correct when: an accepted plan routes every arrival to at most one
receiver and no send leaves through a plan that is not one.

**host session** (`rust/host/src/lib.rs`, `wait.rs`). A session without tasks: the host
calls in with what its transport did, and outgoing bytes are callbacks into the host. State:
the commands, the observations, waiters, the terminal status, whether a callback is on the
stack. Hard: callbacks that call back in, disposal during a callback, several waiters on
one state. The **wasm bridge** (`rust/wasm-bridge`) forwards calls to it. Its receiving half is
modelled with the facade that drives it, below.

### Rust: the client side

**document, source, yaml, expression**, **preparation, effective, codec**,
**authentication**, **serializable** (`rust/client/src`). From a document and its
resources to a plan: a graph of resources completed by the caller, references and traits
resolved with bounds, a decision among servers, security alternatives and channel
bindings. Pure functions, with the incremental completion of resources as their only state.
Correct when: completion does not depend on the order resources arrive in, the bounds stop
every cycle, and the decision is the one the document prescribes.

### Go

**execution** (`go/execution.go`). State: channels of inputs and of events, the half-close
flag and channel, the terminal outcome under `sync.Once`, a context. Operations: `Send`,
`FinishInput`, `Cancel`, `Wait` for the caller; `ReadInput`, `EmitOutput`, `CloseOutput`,
`FireError` for the binding; `finishAfterRun` behind it. Correct when: inputs sent before
the half-close are read before its end, the first outcome stays, a consumer drains before
it sees the end, a cancelled execution ends although nobody receives.

**WebSocket pool** (`go/ws_pool.go`). State: a map of connections with reference counts,
listeners, a read limit and an idle timer each; a dial in progress that others wait for.
Operations: `acquire`, `release`, `subscribe`, `sendType`, the read loop, `finish`,
`evictIdle`, `evict`, `closeAll`. Hard: the timer against a new acquirer, a connection that
ends before it is in the map, `closeAll` during a dial.

**invocation** (`go/invoke.go`, `engine.go`, `client.go`, `driver.go`). The lanes that run a
binding: HTTP, server-sent events, WebSocket subscribe and publish over the pool with
bounded buffers per subscription (`wsSubscription`). **MQTT and Kafka drivers**
(`go/mqtt`, `go/kafka`): one publish or one consumer loop each over external libraries.
**documents** (`go/target.go` and others): pure functions.

### TypeScript

One thread: whatever lies between two `await`s is atomic, and everything else interleaves.

**facade** (`packages/client/src/index.ts`) over the **host session** (`rust/host`). State: the
queue of frames, one flag for the single waiting reader, the status, the cancellation tokens of
the reads, the handle. Operations: `next`, the cursor of `incoming()` with `next` and `return`,
abort signals, `close`, disposal. A read is polled in a task of its own and settles in a later
one, and socket events, aborts and disposal fall between. Correct when: each frame reaches one
reader once, the reader slot is neither kept by a read that is gone nor freed under one that
waits, the end is told after the last frame, and everyone who waits is told.

**invocation** (`typescript/src/internal/invocation.ts`). State: two bounded buffers with lists
of parked producers and pulls, the terminal state, an abort signal. Operations: `write`,
`closeInput`, `cancel`, `single` and the iterators for the caller; `inputs`, `emitOutput`,
`closeOutput`, `fireError` for the binding; an external signal with a timeout. Correct when:
each direction is a bounded channel, nobody stays parked on a side that ended, one outcome is
final, and what `single` says is true of what was emitted.

**WebSocket pool** (`ws-pool.ts`). State: a map of entries and one of dials in progress, per
entry a reference count, an idle timer and a socket. Operations: `acquire` (reuse, join a dial,
dial), abort of an acquire, `release`, the timer, `closeAll`, the listeners of the socket.
Correct when: counts equal holders, one key is dialled once at a time, nobody is handed a dead
socket or loses it to a timer, every acquire settles.

**engine** (`engine.ts`, `invoke.ts`) and the **drivers** (`typescript-mqtt`,
`typescript-kafka`). `runBinding` refuses an operation or gives it to a lane: a unary HTTP
exchange, WebSocket publish, subscribe and three forms of reply exchange, or a driver. State of
a lane: its loop over inputs, its buffer of frames, its pump of outputs, its references to
shared connections. Correct when: an operation that cannot run never dials, a success was
published, outputs are drained before the end, shared connections survive until the last user,
and a lane whose invocation ended lets go. Before a lane: the requirements of security and
configuration, the challenge and its answer by the host or its store. Correct when: a request
carries the credentials of one whole alternative and goes only where the document and the
answers send it, and what was answered is not asked again.

**documents** (`internal/deref.ts`, `traits.ts`, `util.ts`, `target.ts`, `internal/context.ts`,
`content.ts`, `edition.ts`). Mostly pure; the resolution of references rewrites a graph in
place while it awaits fetches, and the cache of the engine is shared by concurrent loads.
Correct when: the rewritten graph says what the document said, it is finished, no load of a
refused document fetches or leaves anything behind, and traits never override what is declared.

### Around them

`qualification`, conformance corpora and scripts test the packages against each other and
hold no logic of the system.

## Modules

| Module | Models | Composition |
|---|---|---|
| `Budget` | the admission quota | |
| `NativeSession` | a native session around an abstract driver | `EXTENDS Budget`; implements `BudgetSpec` |
| `MqttSession` | that session with `mqtt.rs`, the vendored event loop and a broker | `EXTENDS NativeSession`; implements its `Spec` |
| `WebSocketSession` | that session with `websocket.rs` and a socket | `EXTENDS NativeSession`; implements its `Spec` |
| `Execution` | one Go execution | |
| `Channel` | what either direction of an invocation promises | abstract |
| `Invocation` | one invocation of the TypeScript engine | instantiates `Channel` twice and implements both |
| `WsPool` | the pool of WebSocket connections | |
| `Lane` | the dispatcher, and what lanes share | |
| `WsLane`, `HttpLane`, `KafkaLane`, `MqttLane` | the lanes | each `EXTENDS Lane` |
| `Lanes` | the lanes, the caller and the peers together | `EXTENDS` the four |
| `Context` | credentials, challenges and the stored context, as operators | |
| `Security` | the requirements and credentials of a request | `EXTENDS Context` |
| `Target` | the choice of server, variables and address | `EXTENDS Context` |
| `Preparation` | one conversation of calls, challenges and answers | `EXTENDS Security, Target` |
| `Deref` | the resolution of references | |
| `Loading` | concurrent loads and the cache | |
| `Traits` | the merge of an operation's traits, as recursive operators | `EXTENDS Loading` |
| `Facade` | receiving through the facade and the host session | |
| `NativeSessionProofs` (with the quota), `MqttSessionProofs`, `WebSocketSessionProofs`, `ExecutionProofs`, `InvocationProofs`, `FacadeProofs`, `WsPoolProofs` | the theorems and their proofs | each `EXTENDS` its module and the proofs below it |
| `EngineProofs` | the theorems about the engine: loads, references, preparation and lanes | `EXTENDS Lanes, Preparation, Loading, Deref` |
| `MCNativeSession`, `MCMqttSession`, `MCWebSocketSession`, `MCExecution`, `MCDeref`, `MCLoading`, `MCPreparation` | the instances TLC checks; the other modules are instantiated by their `.cfg` alone | |

`PROJECT.json` maps every definition to the lines it stands for. An operator whose comment
begins with *Mutant of* is a wrong variant of the definition below it: substituted for that
definition it makes TLC report the property it belongs to, which shows that the property
depends on that line of the code.

### Budget

`live` is the set of leases that exist and `usage` the guarded pair. `BudgetReserve` is
`Budget::reserve` with `Admits` as its test, `LeaseDrop` the `Drop` of a `Lease`. The lock
makes each one step. `LimitsValid` is `Limits::validate`, which `Budget::new` runs first.
`BudgetSpec` is the abstract specification of what a session does with its quota; TLC checks the
quota as part of the session, with bodies that the session really reserves.

### NativeSession

A caller's `call[c]` is where its `send_inner` is; `response[c]` its oneshot channel;
`commands`, `events` the two queues; `task`, `result`, `aborting` the driver's task;
`owner` what the owner of the `Session` is doing; `terminal` and `shutdown` the watches. A
step is what one of them does between two points where another can observe or change
something it uses. So `SendCommand::complete` is two steps (drop the lease, then respond),
`Context::deliver` is two (reserve, then enqueue), closing after a timeout is three, and the
task's way out is several: the driver's locals are dropped (`Unwind`: pending command,
queued commands, undelivered arrival), then the guard runs, then the status is published.
The `Drop for Session` reads and then replaces the status, as the code does, so the status a
driver publishes in between is overwritten in the model, too.

The driver is abstract. A running one may submit the head of the queue, complete what it
submitted, deliver an arrival, stop with any result, be aborted, or panic at any `await`.

History variables (`submitted`, `arrived`, `received`, `ended`) record what the properties
compare and no guard reads them, except that an arrival arrives once and that `next`
returns its end once.

### MqttSession

It adds `run`'s locals (`closing`, `packetId`, `pubrecSeen`), the client's channels
(`publishing`, `disconnecting`), the event loop (`phase`, `queue`, `written`), the fields of
`MqttState` that matter (`lastPkid`, `lastPuback`, `pubAck`, `outPub`, `outRel`,
`incomingPub`) and the broker (`inbound`, `exchange`, `outbound`, `acked`, `repeats`). Each
action is a driver action of `NativeSession` conjoined with what it does to these
variables, or changes only these variables. `run` and `EventLoop::poll` are one task: while
`poll` waits, in its `select!` or for a flush (`phase` is `waiting` or `flushing`), `run` looks
at the deadline, the shutdown and the commands too (`Attentive`); while it computes on a
batch (`reading`) it does not. A read batch ends at any packet, since the number of bytes
that arrive together is the network's choice.

The broker is external, modelled by what the code must expect of it: it answers what it
received in any order and as late as it likes, repeats a PUBREC, repeats a QoS 2 PUBLISH before
its release, acknowledges an identifier that is not in use or with the wrong packet, falls
silent, or drops the connection. One thing it does not do: it does not acknowledge twice an
identifier that the client has used again in the meantime. MQTT allows no client to tell that
from the answer to the new publish.

Lines 342-348 of `mqtt.rs` (an incoming Disconnect) are not reached in this version: the
state refuses that packet before it becomes an event, and the model has that refusal.

### WebSocketSession

It adds where `run` is (`place`), its local `closing`, and of the socket the frames that are
buffered and written (`outbox`, `flushed`). `place` is `select` in the `select!`, `sending` in
the inner loop that writes a command's frame while it keeps reading, and `control`, `reply` or
`closeFrame` during a flush for which `run` waits alone; `handshaken` is between the
completion of a command and the graceful end, when the peer closed meanwhile. Each action is
again a driver action of `NativeSession` conjoined with what it does to these variables, or
changes only these. `commands.recv()` returns `None` once the owner and every sender are gone.

The socket is external: it buffers the frames it is given, writes them in any order and as late as
it likes, or never; it answers a ping unless a close frame was sent, and queues an answer to
the peer's close frame unless ours was the first. A `send` or `flush` that succeeds wrote all that
was buffered. The flush of our answer to a close frame may also say that the connection is
closed: `run` returns the same receipt then (`websocket.rs:82-85`), whether the answer was
written or not (`ReplyEnds`). The peer may send data and control
frames, close, stop reading, or vanish, at any time. A frame whose contents are refused (no
UTF-8, no route, no room) ends the session in the same way as a read that fails.

### Execution

`at[g]` is where each goroutine of the run is, in `ReadInput` (`polling` after it copied
`inputClosed`, `waiting` in the second select), in the select of `EmitOutput`, in `finish`, or
`busy` with its transport. A critical section of the mutex is one step, a `select` one step
that takes any ready case, each `close` one. `finish` under `doneOnce` is four: the fields,
`close(events)`, `close(done)`, the context. `Helpers` are the goroutines that a run starts
besides itself, which read inputs and fire errors; it is empty for every lane but the WebSocket
reply exchange (`go/invoke.go:1737`). `Callbacks` are goroutines of a client library that emit
for a run which waits (`dispatch` of `go/mqtt/driver.go`, called by paho): such a goroutine is
`idle`, or it has taken the subscriber for a message (`Dispatch`) and emits to it, although the
run may be over by then. A select with a send on a closed channel panics (`EmitPanics`).
`SetHeader`, `SetTrailer` and the metadata are left out.

### Invocation and Channel

`write[n]` and `emit[n]` are where the n-th call of `write` and of `emitOutput` is; `inputBuf`,
`outputQueue` the buffers with their lists of parked producers; `inputWaiting`,
`outputWaiters` the pulls that wait; `state`, `terminalError`, `inputSideClosed`, `aborted`,
`header`, `trailer` the fields of the same meaning; `external` the caller's signal. A settled
promise resumes its owner in a later job, but that job decides nothing another could still
change, so settling and resuming are one step. The exception is the validation hook: `write`
tests the invocation, awaits the hook, and enqueues (`Validated`), and the input may have been
closed in between. `consumer` is the one who reads outputs: an iterator, one that leaves, or
`single`. `Channel` says that values leave in order, once, and that a reader learns the end after
the values that precede it. Outputs implement it without exception; inputs with `Aborts`, since
a failed invocation stops its binding at once and may fail after the input was closed.

### WsPool

Sockets are numbered in the order they are dialled. `conns` and `creating` are the two maps,
`ready` a socket's `readyState`, `timers` and `idleTimer` what `setTimeout` has pending and
whether the entry knows of it. An action is one task with the microtasks it starts. The creator
of a dial that gave up leaves a continuation (`abandoned`), which runs before or after those who
joined were counted. A socket that errs or closes evicts whatever its key maps to by then
(`Evicted`), as the listener does.

### Lane and the lanes

`facts` is what the document, the configuration and the call say, as far as a lane branches on
it: which operation, whether its address needs an input, and which objections the checks will find.
`main`, `feed` and `pump` are where the runner, its loop over inputs and its pump of outputs are.
The handle of `Invocation` is reduced to what a binding sees of it. The references to pooled
sockets and to the shared MQTT connection are counts, and `MqttLane` has siblings that use the
same connection. The transports and the client libraries are external: they connect, deliver,
refuse, end or fail whenever they like.

A subscriber over MQTT is `listed` before its subscription is sent, and stays so until the run has left
(`typescript-mqtt/src/index.ts:272-299`). A delivery that fails only rejects a promise (`failed`),
which the run looks at once the broker has answered the subscription; until then, and until it left,
`handleMessage` (82-88) gives it what arrives. So the outputs of such a subscription may have a gap, after
which they go on, and it then fails. `DrainBeforeTerminal` says of a lane with a failed delivery
that its outputs are in order and none is repeated, of every other that they are a prefix of what
arrived, and that neither kind of loss ends well.

### Context, Security, Target and Preparation

A context is a partial function from paths to values, a credential's value only its shape. A
template is a sequence of tokens, of which some are expressions; a supplied value may spell an
expression of its own, or be a pattern that `String.replaceAll` interprets in its second argument
(`Pattern`: two dollar signs, or one followed by an ampersand, a backquote or a quote). `Interpreted` is
what comes out of it (`target.ts:535`). A value that has a pattern inside it, among other text, is left out.
The address is encoded before it is placed, and an encoded value has no dollar sign. `Preparation` has one step per decision of a call, in the order of
the code (inspection, server, driver, credentials, address, dispatch), each of which may refuse the
call or challenge it, and the host's turn in between: it answers from its store
(`storeContextResolver`) or itself, and calls again. `Expanded` replaces the expressions of a
template one after the other, each in what the last replacement left, as `substituteServerVariables` does;
a value is placed where the code places it, and the check of destinations (`CheckedCredential`)
reads the credential that the code reads there, which is not always the one it places.

### Deref and Loading

`Deref` is a function that recurses over a graph it rewrites while it awaits fetches; its
recursion is a stack, so that what it finds half-rewritten can be seen. `was` and `base` are
histories: a node's members as authored, and what a copy was copied from. Whether a member is data,
which the walk leaves alone, is asked as the users of `dereference` do (`literalAwareTraversal`,
`util.ts:503-514`): a keyword of `Literals` is data except in a map of schemas, which is a node met under a
key of `Containers`. That key (`ownerKey`) is the one under which the node was *first* met, since every
later visit finds it in the memo, and a target is walked under the key of its reference. So
`MeaningIsKept` asks that what was taken for data of an authored node is left alone, by the
decision the code made; that the decision is not always the one `util.ts` describes is a
[finding](#findings). A schema member that is named like a container (`properties.properties`) is
taken for one, and its `default` then for a name, in the model as in the code. The preparation of a target before it is followed
(`prepareRefTarget`) and the new index after it are left out. Its property is about
documents whose pointers do not pass through a reference before their last member
(`PointersAreDirect`): whether another pointer finds anything depends on what was replaced
before it was followed, see [Observations](#observations). `Loading` has calls
that load from one location or embedded content, at the points where they await; a document is
what its loading depends on. `MergePatch` and the traits are recursive operators, and in a module of
their own (`Traits`) so that `Loading` can be proved about.

### Facade

A call of `next` is `called` (its future not yet polled), `waiting` (polled, holds the slot),
`settled` (has an outcome and its promise has not run). Tasks of the bridge and socket events are
separate steps; a socket event comes when no task is left to run, as the event loop has it.
`Arrives` is what a poll comes to: a frame before the end, then the status, a cancellation, or
nothing. Frames are numbered in the order of arrival.

## Runs

All bounds are in the `.cfg` files. "States" are distinct states.

| Run | Question | Instance | Properties |
|---|---|---|---|
| `native` | Is a session right in every interleaving of callers, task and owner, and does it end? | two scenes: two senders; one sender and two arrivals. Bodies of 2, 1, 2, 0 bytes, a quota of two messages and three bytes; 209 thousand states | `LeasesAreExact`, `OutcomeHonest`, `EndsAreTrue`, `SendReturns`, `CloseReturns`, `GoneReleases` |
| `mqtt` | Are receipts evidence, is a close complete and a message delivered once when the broker misbehaves? | four scenes: two QoS 2 or two QoS 1 publishes with one identifier, a QoS 0 publish and arrival, two QoS 2 arrivals of one identifier; 395 thousand states | `ReceiptsAreEvidence`, `CloseIsComplete`, `ForwardedOnce` |
| `mqtt_close_live` | Does a close end with a broker that owes nothing? | one QoS 1 send and arrival; 106 thousand states | `CloseDrains` |
| `websocket` | Are receipts flushed, and does a graceful end follow the peer's close frame and leave no command unanswered? Can a queue be full for an admitted body? | two sends, two arrivals, one control frame, a quota of one message; 619 thousand states | `ReceiptIsFlushed`, `HandshakeComplete`, `SlotFollowsLease` |
| `execution` | Is an execution right, with one goroutine or two or a callback, and does a cancelled one finish? | three scenes: two sends; one send and a helper; a callback and no send. Two outputs, channels of one; 339 thousand states | `InputsPrecedeEOF`, `EndsInOrder`, `EndsOnceForAll` |
| `execution_exchange` | May a second goroutine fire an error while the run emits? | one helper | `ParkedEmitReturns` is violated, see [Findings](#findings) |
| `invocation` | Is nobody stranded, is the outcome one, and is each direction a channel? | three writes into a buffer of one, three emits into one of two; 632 thousand states | `NobodyStranded`, `TerminalAgrees`, `SingleIsTruthful`, `OutputsImplementChannel`, `InputsImplementChannel` |
| `ws_pool` | Do counts, dials and sockets stay consistent, and does every acquire settle? | two callers, one key, three dials; 74 thousand states | `CountsAgree`, `OneDialAtATime`, `HoldersKeepSockets`, `AcquireSettles` |
| `lanes` | Is what a lane reports earned, are connections shared rightly, does a lane let go? | ten cells, two inputs, two frames, a buffer of one, one sibling; 236 thousand states | `OutcomesAreEarned`, `ConnectionsShared`, `EndedLanesFinish` |
| `preparation` | Does a request carry and reach what it should, is a resolved graph faithful and finished, is a loaded document whole? | three parts, see below; 565 thousand states | `DispatchIsCovered`, `ChallengesAreHonest`, `DestinationIsSupplied`, `GraphIsFaithful`, `Finishes`, `FetchesAreAdmitted`, `PreparedIsWhole`, `LastWordCounts` |
| `facade` | Is every frame given once, the slot released, the end true, and does everyone hear? | two cursors and a direct reader, two frames, a queue of two; 224 thousand states | `FramesAccounted`, `SlotIsReleased`, `EndIsTrue`, `NobodyWaitsForEver` |
| `deref_circular` | Does the resolution of circular references end, as its comment says? | every graph of the small documents; 718 thousand states at the bound | `NoInfiniteRecursion` is violated, see [Findings](#findings) |

Some properties are conjunctions, of which each part has its own definition and comment:
`LeasesAreExact` is `LeaseFollowsBody`, `Accounted` and `WithinLimits`; `EndsAreTrue` is
`EndAfterDrain` and `CloseReceiptIsTheDrivers`; `ReceiptsAreEvidence` is `ReceiptIsEvidence` and
`LayersAgree`; `CloseIsComplete` is `CloseAnswersSubmitted` and `FrontierCloses`; `EndsInOrder` is
`AloneEmitReturns` and `DrainBeforeTerminal`; `EndsOnceForAll` is `OutcomeIsFinal`, `CancelEnds`
and `SendersReturn`; `HoldersKeepSockets` is `HandedOpen` and `TimersSpareHolders`;
`OutcomesAreEarned` is `ImpossibleNeverDials`, `SuccessIsEarned` and `DrainBeforeTerminal`;
`ChallengesAreHonest` is `InspectionIsHonest` and `AnsweredOnce`; `DestinationIsSupplied` is
`ServerGoverns`, `HostIsWhatWasSupplied` and `AddressIsWhatWasSupplied`; `GraphIsFaithful` is
`MeaningIsKept` and `SurvivorsAreCircular`; `SlotIsReleased` is `SlotHasOneWaiter` and
`ReturnReleases`; `NobodyWaitsForEver` is `ReturnResolves` and `ReadersAreTold`.

The native modules and `Execution` check deadlock: a system that ended (all callers answered, the
owner gone, the task finished; or the run returned) stutters by an explicit `Terminating` step.
Elsewhere the system really stops: an invocation that ended, a pool that nobody uses, a call that
was sent. There the liveness properties say what must not be left.

**Scenes.** `native`, `mqtt` and `execution` follow a few scenes in one run: the constraint
`OneScene` explores a state only while the callers and arrivals that came are those of one
scene. A constraint would be unsound for liveness if it cut a fair behaviour short. It does
not: no fairness makes anybody call, send or start a helper or a message come, so a behaviour of a scene in which
nobody else comes is a fair behaviour of the whole, and the runs look at exactly these.
`DriverServes` (nothing is explored after a driver failed) is used in the two runs without
liveness, because the failed driver's task takes no further step of the protocol and what a
session does after a failure is what `native` checks. Symmetry is used in the same two runs
only, whose specifications have no fairness.

**Why the bounds are enough.** The hazards are pairwise: a caller against the task, the task
against the owner, one command behind another, one body against the room another takes. Two
senders, or one and two arrivals, with a quota of two give each pair, with a queue that is empty,
partly filled and full. A publish has at most three stages at the broker and only one is
pending at a time, so two sends show a command, its successor, and the late answer to the first
during the second. One identifier shows every wrap. In `Execution` and `Invocation` a value
beyond the capacity is the first one that blocks, and one more is the first behind it; the
output buffer of two has a state that is neither empty nor full. `WsPool` needs three dials: one that
was abandoned or replaced, the one that replaced it, and one more after both. In `Lanes` one frame fills the buffer and the
second overflows it; the lanes do not interact but through the pools, so one lane at a time is
explored, beside a sibling on the MQTT connection. `Facade` needs two cursors and a direct
reader for a refused call beside a returned one, and two frames to see one out of order.

**The parts of `preparation`** share no state, and a behaviour is of one of them.
`MCPreparation` has two families of documents: one varies the security of server and
operation (bearer, basic, OAuth2, API keys of which two write one field, one that nothing
answers) with eight contexts and three stores; the other servers, variables, enumerations,
channels, parameters and replies without security, with values that spell expressions of their own or of another variable,
or that are patterns of a replacement string. One list
holds a scheme of a broker.
Credentials are well shaped, and an unnamed scheme is paired only with lists that leave it in no
doubt, see [Observations](#observations). `MCDeref` has two
documents: an entry with an object, which holds a reference, and beside it a reference or a map of
schemas; one of them has a member that is named as a keyword and looks like a reference, which is data of the
object and a schema of the map; and a second resource whose two members may be references too. They point at
either root, at a member, at one another, past one another and at nothing, and those of the entry
may have siblings. The passing run takes the graphs in which no reference with siblings leads into a
chain of references without an end (`MCSettling`), since those are the ones of the finding `deref_circular`. `MCLoading` has two calls that race
for one location whose document changes, and operations with up to two traits of depth two.

## Fairness

`NativeSession!Fairness`: the runtime polls every task that is ready, and timers fire. So a
caller that can go on does, an expired deadline is seen, an abort is taken where the task
awaits, teardown proceeds, the owner's `close` times out. The driver takes a queued command
while the session is open, since `run`'s `select!` has that branch enabled and it is fair
(`tokio::select!` picks at random). The *peer* owes nothing: completing a command, arrivals
and stopping are not fair, and cancellation and dropping are never required.

`MqttFairness`: the event loop's next step is taken, or its connection is lost while flushing,
as the network timeout of the options guarantees; `BeginClose`, deadlines and the second
halves of the driver's steps are fair. The broker is not, in any action.

`Execution!Fairness`: goroutines are scheduled, and a run whose context has ended returns,
because its dials, requests and reads are given that context. That last is strong fairness,
for the run alternates between its transport and calls of the execution. The caller and the
consumer of events owe nothing.

In the TypeScript modules a promise that can settle does. `WsPool`: a dial opens or fails (the
socket has a timeout of its own) and a timer that runs fires; callers and peers owe nothing.
`Lanes`: the engine's own code runs on, through the hooks that it awaits, and a fetch whose signal
was aborted is rejected. Peers and callers owe nothing, nor do the clients of Kafka and MQTT, whose
`send`, `subscribe`, `stop` or `disconnect` a driver awaits and which may hang
(`typescript-kafka/src/index.ts:205-217,256,280-281`). So `EndedLanesFinish` speaks of the HTTP and WebSocket
cells only; nothing is claimed of when a driver's lane lets go.
`MCPreparation`: a walk takes its next step, which includes that a fetch is answered or fails.
`Facade`: a call's task is run, its promise settles, a close is polled and ends; the peer and the
application owe nothing. `Invocation` has no liveness property: that a waiter is in the list that
will settle it, and that no list outlives its side, is the invariant `NobodyStranded`.

## Proofs

TLAPS checks these for every value of the constants: any number of callers and arrivals,
any sizes, any admitted limits, any QoS and packet identifiers, any capacities, cursors and frames.

| Theorem | Says |
|---|---|
| `BudgetTypeCorrect`, `LeasesAccounted`, `QuotaHolds` | `BudgetSpec => []BudgetTypeOK`, `[]Accounted`, `[]WithinLimits` |
| `BudgetRefined` | `Spec => BudgetSpec`: a session uses its quota only by `reserve` and by drops |
| `NativeSessionProofs!TypeCorrect` | `Spec => []TypeOK` for the session |
| `CommandsPlaced`, `OutcomesHonest` | `Spec => []CommandPlacement`, `[]OutcomeHonest` |
| `LeasesFollowBodies`, `LeasesExact`, `CapacityPrecedesResponse` | `Spec => []LeaseFollowsBody`, `[]LeasesAreExact`, `[]CapacityBeforeResponse` |
| `SlotsFollowLeases` | `Spec => []SlotFollowsLease`: no queue is ever full for an admitted body |
| `EndsTrue` | `Spec => []EndsAreTrue` |
| `MqttImplementsSession` | `MqttSpec => Spec`: whatever the broker does |
| `MqttOutcomes` | `OutcomeHonest` and `CapacityBeforeResponse` of the MQTT session |
| `ForwardsOnce` | `MqttSpec => []ForwardedOnce`, for any QoS, identifiers and repetitions |
| `ReceiptsEvident`, `CloseComplete` | `MqttSpec => []ReceiptsAreEvidence`, `[]CloseIsComplete` |
| `WebSocketImplementsSession` | `WebSocketSpec => Spec`: whatever the peer and the network do |
| `WebSocketOutcomes` | `OutcomeHonest` and `LeaseFollowsBody` of the WebSocket session |
| `ReceiptsFlushed`, `HandshakesComplete` | `WebSocketSpec => []ReceiptIsFlushed`, `[]HandshakeComplete` |
| `ExecutionProofs!TypeCorrect` | `Spec => []TypeOK` of an execution: neither channel exceeds its capacity |
| `NoInputLost` | `Spec => []InputsPrecedeEOF`, for any number of goroutines that read |
| `FirstOutcomeStays` | `Spec => OutcomeIsFinal` |
| `EndsComeInOrder` | `Spec => []EndsInOrder` |
| `InvocationProofs!TypeCorrect` | `Spec => []TypeOK`: neither buffer exceeds its capacity |
| `EndsAgree`, `NoneStranded` | `Spec => []TerminalAgrees`, `[]NobodyStranded` |
| `OutputsRefined`, `InputsRefined` | `Spec => Outputs!Spec`, `Spec => Inputs!Spec`: either direction implements `Channel` |
| `SingleVerdicts` | `Spec => []SingleIsTruthful` |
| `FacadeProofs!TypeCorrect` | `Spec => []FacadeTypeOK` |
| `SlotReleased`, `EndsAreTrueForReaders` | `Spec => []SlotIsReleased`, `[]EndIsTrue`, for any number of readers |
| `FramesOnce` | `Spec => []FramesAccounted`, for any number of frames |
| `WsPoolProofs!TypeCorrect` | `Spec => []TypeOK`: no count of references or timers falls below zero |
| `CountsExact`, `DialsShared` | `Spec => []CountsAgree`, `[]OneDialAtATime`, for any number of callers and keys |
| `HoldersSafe` | `Spec => HoldersKeepSockets` |
| `LaneOutcomes` | `LanesSpec => []OutcomesAreEarned`, for any number of inputs and frames, failed deliveries included |
| `LanesShare` | `LanesSpec => []ConnectionsShared`, for any number of siblings |
| `AdmittedFetches`, `WholePrepared` | `LoadingSpec => []FetchesAreAdmitted`, `[]PreparedIsWhole` |
| `GraphFaithful` | `DerefSpec => []GraphIsFaithful`, for any documents, references and members |
| `HonestInspection` | `PreparationSpec => []InspectionIsHonest` |
| `SuppliedDestination` | `PreparationSpec => []DestinationIsSupplied` |
| `CoveredDispatch` | `PreparationSpec => []DispatchIsCovered`, for any set of documents, contexts and answers |

Assumptions: those named in the modules and no others. `LimitsValid` is what
`Limits::validate` returned to `Budget::new`; `SizeIsLength`, `BodiesAreLeased`,
`CallsAreNotArrivals` say that a body has a length and belongs to one call or one arrival;
`UserIsFinite` and `KeyIsNotEmpty` let the pool's callers be counted and its records have a key;
those of `MqttSession` give types. `PreparationAssumption` says that the lists and templates of a
document are sequences; `MembersAreNames` and `DocumentsAreGraphs` that a document is a graph whose
references name its members, and that literals and containers are among those; `TargetAssumption` says
that what a brace or a dollar sign becomes when it is encoded is no expression. TLC evaluates them in the runs.

**The quota.** `Accounted` (usage equals what the live leases account for) is not inductive
alone: a drop must find the counters at least as large as the lease it returns.
`BudgetInv` adds that `live` is finite and that each live lease passed the admission test.
The bytes of the live leases are the cardinality of the disjoint union of one
`Size[l]`-element set per lease (`HeldBytes`), so the argument uses the library's theorems on
cardinalities and no induction over sums.

**The session.** `BudgetRefined` is a step simulation with the identity as mapping, so the
quota's theorems hold of every session, and `TypeCorrect` gets the counters' types from
there: that no drop underflows is a fact about leases and not about the session's own
variables. `OutcomeHonest` is not inductive: that a certain error is true needs to know that the
command cannot be submitted later, so that it is nowhere a driver could find it. Hence
`OutcomeInv` has `CommandPlacement`: a command is in exactly one of the queue, pending,
completing, answered. `LeaseFollowsBody` needs the same for arrivals (`ArrivalPlacement`).
The proof that a step preserves an invariant has one case per action, and lemmas for
actions that have the same effect on what the invariant mentions (`OutcomeRecv`, `LeaseRecv`
for everything that takes the head of the queue, and so on).

**MQTT.** Every step of the MQTT session is a step of the abstract one or leaves its variables
alone (`StepRefinesSession`), so what is proved of a session with an arbitrary driver holds of
this one. This is what makes the abstract driver's freedom worth it: a property of
`NativeSession` covers every driver that is shown to implement it.

What ties the session to its broker is proved of the refinement itself. `ForwardedOnce` is not
inductive: a message may be repeated by the broker before its release and the identifier is used
again after it. `ForwardInv` says that an identifier belongs to one exchange at a time, that a
PUBREL comes once and behind every repetition of its PUBLISH, that an unflushed answer is the
answer to the exchange that has its identifier, and that what was forwarded is in `incomingPub` for
as long as it may come again.
`ReceiptsEvident` needs the whole of the outgoing exchange, since a receipt is given to the *one
pending* command and not to an identifier. `EvidenceInv` has one publish on its way, which is in
the channel, with the broker or answered (`EventsMatch`); the order of its packets at the broker
(`ExchangeFollows`, `WrittenFollows`); the queued events of its answers, the final one once and last
(`AckEvents`); and `Doomed`, the batch whose rest no longer counts because a packet of it was
refused. `CloseComplete` follows from `DisconnectIsLast`: the client asks for its DISCONNECT when no
publish is in its channel, and its event is the last one.

**WebSocket.** The simulation is proved in the same way. `HandshakeComplete` is not inductive:
`SocketInv` says where each submitted command is (pending, completing, answered, or dropped by
an end that is not graceful) and how far its frame is, and what each place of `run` implies
(a reply or a handshaken end has seen the peer's close frame, and in the latter nothing is
buffered; a close that we began has its frame written once its flush is over). It does not say
that our answer to the peer's close was written, which the code does not know either. That nothing else is pending when a frame is written comes from `OutcomeInv`, which
the simulation transfers.

**Execution.** `InputsPrecedeEOF` needs to know where an accepted input is (`InputInv`: read, or
in the channel), and that a goroutine which copied `inputClosed` as true did so after the
half-close: the second look at the channel then finds what was sent before. `EndsInOrder` follows from
the place of the one goroutine that may finish (`RunInv`): while it emits, nobody has closed the
channel of events, and that channel is closed before the execution is done. It says so only while no
helper was started, which `execution_exchange` shows to be needed, and only of emits of the run:
`MCExecutionCallback.cfg` shows that the emit of a callback has no such protection.

**The end of a session.** `EndsAreTrue` rests on `DrainInv`: until the owner is gone, what arrived
is what it took and what is queued; the driver drops the event sender only after its loop, and
publishes its result after that. So once `next` may tell of the end nothing can be queued any more, and
a status `Closed` can only be the driver's, since every other writer of the status says `Failed`.

**Slots.** `SlotFollowsLease` is a counting argument: each queued body has a lease of its own and
so has the one that is to be queued, so the queue is shorter than the number of leases, which
the quota bounds by the length of the queue. It needs that no body is queued twice
(`CommandPlacement`, `ArrivalPlacement`), hence that a queue is as long as its range has members.

**Invocation.** The invariant has three parts. `TerminalInv` ties the state, the error, the input
side and the abort signal. `InputInv` and `OutputInv` say of either buffer that its waiters are
the calls in the phase `parked`, each once, that producers wait only on a full buffer and pulls only on
an empty one. The refinements map `sent` to the values taken followed by those queued, so that an
enqueue is a send, a direct handover is a send and a receive in one step, and the admission of a
parked producer after a read likewise; `OutputsStep` and `InputsStep` have one case per action.
The inputs that a failed invocation drops are why that side is a channel that `Aborts`.
`SingleVerdicts` needs what the pull of `single` may still be handed (`Pulling`).

**Facade.** `SlotIsReleased` is inductive together with the types: the slot changes with the call
of one reader only, and every way out of waiting (a frame, the end, a signal, a return,
disposal) clears it in the step that takes the reader out. `EndsAreTrueForReaders` needs `EndInv`: the
session is disposed of once, by its owner or by the close that took its handle, and a close that
drops frames leaves no reader that could still be told an end. `FramesAccounted` counts occurrences,
and counting is a recursion. `FrameInv` says the same without it: neither sequence repeats a frame,
no two settled reads hold one, and the four places where a frame can be do not overlap. A read that
has not settled holds none, so that a cancellation loses none.

**Pool.** `PoolInv` says where each socket can be found: a dial in flight is the one its key is
listed with, so that a second caller joins it, and a pooled socket is one that opened, under its
own key. A caller that waits, waits for such a dial, so that the end of a dial reaches all who wait
and nobody holds its socket before. `CountsAgree` is then a fact about sets that gain or lose one
caller. That a cleared timer was running (`KnownTimersLive`) holds only of pooled entries:
`closeAll` clears a timer and leaves the entry believing in it, which is harmless because it is pooled
no more.
`HoldersKeepSockets` follows from `CountsAgree`: a socket with a holder has a positive count.

**Lanes.** `LaneInv` is one invariant for all lanes, in eight parts: where the runner and its two
pumps can be together (`ControlInv`), what an objection prevents (`ObjectionInv`), the references
held at each place (`HeldInv`), what the count of a shared connection consists of (`PoolInv`), where
each input is (`FeedInv`), what the listeners heard (`ListenInv`), and where each frame is
(`DrainInv`: while no delivery failed, what arrived is what was emitted, then what the pump holds, then the
buffer). `FramesInv` adds, of the frames of a subscription over MQTT, the order that holds after a failed delivery too. Each is
preserved with the help of the parts before it, by a lemma that goes through the actions of the
four lanes. `SuccessIsEarned` follows from `FeedInv`, `DrainBeforeTerminal` from `ListenInv` and
`DrainInv`, `ConnectionsShared` from `PoolInv`. A part that TLC refuted showed an error of the model: the events
of a socket were enabled for lanes that have none, and a lane over MQTT could be told of trouble by them.
`SocketErrs` and `SocketCloses` now have that guard.

**Loading.** `LoadInv` says what a call has in hand at each place: a document that was admitted from
the moment its references are followed, a whole one when it returns, and a whole one in the cache. The
calls are independent but for the cache, so that a step of one leaves what is said of the others.

**References.** `GraphIsFaithful` is about the end of a recursion over a graph that is rewritten while it is
walked, so its invariant `DerefInv` has to say what is owed in the middle. `Yields(n, y)` says that y may
be put in the place of n: y is n, or n is a reference that is replaced, y stands for it, and all that y leads to
n leads to as well. `Slots` and `Resolutions` say that every member and every memo holds what its
authored node yields. What the calls owe one another is told along the stack (`StackOK`, `Awaits`): the
one below gets from the one above a node that the member, or the target, yields (`Expects`), and each leads
down to all the walks above it, since the walk never leaves what the outermost node leads to. That a walked node
holds nothing but settled members is true only once its calls are over: `Settling` says that what is not
settled yet is reserved by a call on the stack, or is a member whose turn comes. A revisit
that meets a reservation has come back to a reference under way, so the reference leads to itself, and may
stay. `TargetFound` is where
`PointersAreDirect` is used: a pointer that passes through no reference finds in the half-rewritten
graph what stands there for its authored target. A resource is walked on behalf of a
reference that is not awaiting its value, so the chain of what is awaited is not broken there but
begins anew (`Above`). That data is left alone needs to know that the key a node was first met under
never changes (`KeysKept`), that a call which visits members has none of the node's data in its list, and that
only such calls write to members: `Spares` says so of the whole stack, and `VisitSpares` and `SparesSteps` prove it beside
`DerefInv`. Attempts at the proof showed that the property as first stated was false where a
pointer passes through a reference; it now excepts those documents, and `MCDeref` has none of them.

**Preparation.** `PrepInv` says that what was decided stays decided: while a call goes on the context
does not change, so its target is the one the context still leads to, and past the credentials
nothing is asked and no destination refused. The rest is about operators. For the destination: a decision
leads to a server of the document or to what the host configured (`TargetOf`), and the expansion of a
template without patterns replaces all of it by supplied values (`Expansion`). For the credentials: every scheme that is
placed was satisfied by the list that was placed, and what is placed is what was checked against the destination
(`PlacedIsChecked`). `Expanded` is a recursive function over positions. The library's theorem on
induction has an operator as its parameter; `SetInduction` is the same for a set, derived from the library's
statement that the order of the naturals is well-founded, and a set is enough for any one
property. The proof of `CoveredDispatch` showed that `Security` took the credential that is placed
for the one that is checked; `CheckedCredential` is now the reading of `validateCredentialDestinations`.

**Only model-checked:**

* every liveness property (fairness and `ENABLED` are beyond the prover), which is part of `EndsOnceForAll` too;
* `ChallengesAreHonest` for its part `AnsweredOnce`, which does not hold of every document: an unnamed scheme
  that several lists contain, or an entry of the wrong shape, is asked for again (see
  [Observations](#observations)). Its other part is the theorem `HonestInspection`;
* `LastWordCounts`, about a recursive operator.

## Findings

The first two are runs of `PROJECT.json`. The other three have a `.cfg` of their own, which TLC
refutes too: `tlc -config MCExecutionCallback.cfg Execution` (`ParkedEmitReturns`),
`tlc -config MCPreparationHost.cfg MCPreparation` (`HostIsVerbatim`) and
`tlc -config MCDerefNames.cfg MCDeref` (`NamesAreNoKeywords`, after 215 thousand states).

**A WebSocket reply exchange can panic the program** (`execution_exchange`). A run that starts
the reply exchange (`go/invoke.go:1737-1775`) emits outputs itself while the exchange's
goroutine reads inputs, encodes them and fires an error when that fails. `FireError` calls
`finish`, which closes the channel of events (`go/execution.go:208`). If the run is in the
select of `EmitOutput` at that moment, because the consumer is slow and the buffer full, its
send case becomes a send on a closed channel, and Go panics in a goroutine nobody recovers.
The case for `done` does not help: a parked sender is woken with the panic by `close(events)`
before `done` is closed, and a select that finds both ready may choose either. The comment on
that call says that it returns when the `invocation terminated while the emit was parked`
(`go/invoke.go:1809`). Where only the run finishes the execution its own emits never meet the
closed channel (`execution`), since `Cancel` leaves the finishing to the run.

**A circular reference with siblings is resolved for ever** (`deref_circular`). The comment at the
head of `typescript/src/internal/deref.ts` says that `Circular references are detected and left as
shared object references (no infinite recursion)` (lines 8-9). Where a reference has members of
its own, the walk copies the target, merges the members in and walks the copy (lines 486-511). The
memo of visited nodes is keyed by the identity of objects, and a copy is a new one: if the target
leads to such a reference again, through references alone, it is copied on every round and the
walk recurses without an end. `NoInfiniteRecursion` bounds the calls that await one another by the pairs of
nodes, which every terminating walk of the small documents stays below.

**A message of an MQTT subscription can panic the program, too** (`MCExecutionCallback.cfg`). The run of a subscription only
waits (`go/mqtt/driver.go:407-414`); paho's callback goroutine emits (`dispatch`, 153-173), after
it copied the set of subscribers. When the run returns, on an error that `dispatch` reported among
others, its execution finishes and closes the channel of events under the callback's `EmitOutput`,
or before it. No helper is needed for it, and `EndsInOrder` does not speak of these emits.

**The value of a server variable is interpreted** (`MCPreparationHost.cfg`). `substituteServerVariables`
passes the value as the replacement of `replaceAll` (`typescript/src/target.ts:535`), where two dollar signs
are one, and a dollar sign before an ampersand, a backquote or a quote is the match or what stands
before or after it. The documentation of the function says that it expands every expression `from the consumer-supplied value (the key
form's variables member), else the variable's declared default` (496-498). In the counterexample a host that
is one expression is dialled with one dollar sign where two were supplied. `HostIsWhatWasSupplied` holds of the
hosts without such a value.

**A name in a map of schemas is taken for a keyword** (`MCDerefNames.cfg`). The filter of the walk says that a
keyword is a name `inside a map-of-schemas container, where every child key is a member NAME, not a
keyword` (`typescript/src/util.ts:499-501`). It is asked with the key under which a node is walked, and a
node is walked once (`deref.ts:452`). If a reference under another key leads to the map (as in
`{first: {$ref: '#/properties'}, properties: {default: {$ref: ...}}}`), the map is walked
under that key, `default` is passed over as data, and when the walk comes to `properties` the memo answers. The
reference in the map stays unresolved, depending on the order of the members.

## Observations

Weaknesses met while modelling that contradict no document, comment or test of the repository,
and so are no findings. The models have the behaviour; the properties are stated so as not to
deny it, and this is where.

* `metadata.baseURL` is read only while `configuration.server` is unset
  (`typescript/src/target.ts:199-206`). The challenge that asks for a key "before
  metadata.baseURL can replace its target" (`target.ts:212`) is answered by setting
  `configuration.server`, and after that answer `baseURL` no longer counts;
  `HostIsWhatWasSupplied` says so.
* An unnamed scheme of the server is counted once for each alternative it occurs in
  (`flatCredentialIsUnambiguous`, `typescript/src/internal/context.ts`). With two schemes of the
  operation no context satisfies it and the host is asked again for what it answered.
  `MCPreparation` has no such pair.
* A named entry of the wrong shape is admitted in place of a usable flat credential
  (`context.ts:626-649` for keys, the same for the other families), so an answer can lack what
  satisfied the challenge. The contexts of `MCPreparation` are well shaped.
* Schemes of a broker (`apiKey`, `userPassword`, SCRAM) on a server over HTTP or WebSocket are asked for.
  Then a SCRAM credential is not placed, nor that of an `apiKey` which travels as a user or password, and that of `userPassword` is without the check
  of destinations, over whatever another scheme wrote to that field (`typescript/src/invoke.ts:818-862`,
  `1109-1205`). `DispatchIsCovered` excepts documents with them.
* A subscription over MQTT whose first delivery fails before the broker has answered goes on to
  deliver, and reports the failure after it (`typescript-mqtt/src/index.ts:272-299`). Its outputs have a gap.
* The value of a server variable that spells another variable's expression is expanded again, if
  that variable comes later (`typescript/src/target.ts:509-545`). `HostIsWhatWasSupplied` excepts such values.
* A WebSocket publish whose address is taken from an input consumes that input and publishes
  nothing of it; `SuccessIsEarned` excepts it.
* A socket that errs or closes evicts the entry its key has by then, which may be a newer one
  (`ws-pool.ts:236`); that one is then never joined, and no idle timer closes it.
* A reply exchange over two sockets acquires the output socket first and awaits the input socket
  before it listens on the output socket (`invoke.ts:1749-1789`). Early frames are captured only
  until the first socket has a holder (`ws-pool.ts:217`), so the frames of the second wait reach no
  handler: `missed` records them.
* `dispose()` on a session whose stream ended well, with frames queued, drops them, and a later
  `next()` still says that it ended; `EndIsTrue` excepts the owner's own disposal.
* A pointer that passes through a reference on its way (`#/a/b` where `#/a` is a reference) resolves if
  `#/a` was replaced before and is unresolvable otherwise, since `resolvePointer` looks at the graph as it
  is (`deref.ts:95-131`): what the members are called decides, by the order of the walk. `PointersAreDirect`.
* A document that is fetched is walked whole before the reference that needed it is followed
  (`deref.ts:345`). If a reference of that document points back at the reference that is waiting, it
  yields this one itself, by its reservation (`deref.ts:451,482`), and keeps it for good, though its chain
  ends. `n: {$ref: other#/a}` and, in the other document, `b: {$ref: entry#/n}` leave `b` a reference to
  `other#/a`. Since fetching reaches the whole document, `LeadsTo` counts its root among what a reference leads
  to, and `SurvivorsAreCircular` takes such a survivor for one whose walk comes back to it.
* The members beside a reference that survives, because it is circular or its target does not exist, are
  not walked (`deref.ts:486,517`), so references among them survive too.
  `SurvivorsAreCircular` asks it only of nodes that are no such reference.
* Two loads of one location race and the slower one stays in the cache, with whichever document it
  fetched (`engine.ts:320-345`); `PreparedIsWhole` asks only that it passed every check.

## Not modelled

The list of components in `PROJECT.json` has every part with the reason. In short: parsing of JSON,
YAML and Avro, formats of content, schemas, serialization of plans, TLS configuration and test harnesses are
left out for good, since they hold no state that another part observes.

Of the modelled parts these are left out: CONNECT, SUBSCRIBE and the check of the grants (a
session exists once they succeeded); contents, topics and metadata of messages; the vendored event
loop's reconnection, replay, persistence, notices and later subscriptions, which `run` never
uses; diagnostics of a Go execution; the sends, callbacks and connects of the host session;
`runSSESubscribe` and `sse.ts`, which nothing reaches, because `validateCell` refuses to receive
over HTTP; identifiers, anchors and arrays in `Deref`; shared values in merges (the memo of
`mergePatch`, `traits.ts:85`); editions and their normalization; bindings and tags.

The Go lanes, pool and drivers and the Rust preparation are counterparts of TypeScript code that is
modelled. They are not the same code, and nothing is claimed of them: the models of one
language would have to be compared with the other line by line first.
