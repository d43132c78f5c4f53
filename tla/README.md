# PCLN.Terracotta: TLA+ models, checks and proofs

PCLN.Terracotta is a launcher plugin (C#) that lets Minecraft players share a LAN
world, and a helper process (Rust) that carries the network side: it runs an
EasyTier node, a small "Scaffolding" server for the host, and port forwards. Plugin
and helper talk over a local pipe. This directory models the parts that keep state
and run concurrently, checks them with TLC on small instances, and proves with TLAPS,
for every value of the constants, the safety properties the passing runs check.

Paths below are relative to the repository; `helper/` stands for
`src/Terracotta.Helper/src/` and `plugin/` for `src/PCLN.Terracotta.Plugin/`.

## 1. Inventory

| component | state | operations | interacts with |
|---|---|---|---|
| `RoomService` (helper/room/service.rs, events.rs) | the room snapshot and the known members, each behind a mutex; an event bus | create, join, set_lan_address, diagnose, leave, status / poll_and_emit | awaits the backend with no lock held; publishes events; called by the IPC session |
| `EasyTierRoomBackend` (helper/network/backend.rs with discovery, port_forward, easytier, minecraft_broadcast, mesh) | the active session and what it owns: child process, listeners, tasks; advertisement files shared by the machine | create, join (local or mesh), set_lan_address, refresh, diagnose, leave | called by RoomService; other helpers through the advertisement directory |
| IPC session (helper/ipc/session.rs, protocol/) | request ids seen, identity, event cursor, the frame being read | handshake, requests, two-second tick, event forwarding in one `select!` loop | the plugin's client; RoomService |
| `HelperProcessManager` (plugin/Infrastructure) | semaphore, client, process task, endpoint, generation, `_intentionalStop`, crash count and window | EnsureStarted, Stop, the watching task of each process, exit event | host task and process services; controller through the exit event |
| `TerracottaController`, `RoomStateMachine`, `HelperRoomGateway` (plugin) | state machine, snapshot, operation gate, pending create, recovery intent, poll loop, event pump | create, join, leave, refresh, diagnose, recovery, restart, push and exit callbacks, dispose | manager, IPC client, game events, UI |
| `HelperIpcClient`, `IpcFraming` (plugin) | pending requests, write gate, bounded event channel, reader task | send, read loop, dispose | helper session; gateway and manager call it |
| Scaffolding server and client (helper/scaffolding) | player table with last-seen times; one connection per exchange | player ping, protocols, profile list, cleanup, shutdown | join and refresh of the backend, on other machines |
| network samples (helper/network/easytier_cli.rs, quality.rs) | none that outlives a refresh | the table of `easytier-cli peer`, the probe of the room's port | refresh of the backend |
| the rest | none that outlives a call | credentials, room codes, argument parsing, package lookup, views, diagnostics, contracts | |

What is hard in it:

* **Awaits between read and write.** RoomService drops its lock before every backend
  call and writes back what it read; the backend checks for a session long before it
  stores one; a recovery reads its intent before it queues for the gate.
* **Callbacks outside the gate.** Push events, the exit event and the restart command
  change the controller's state while an operation waits for the helper.
* **Crashes and restarts.** A process ends while it is being stopped, replaced or
  connected to; its exit is accounted for later, under the same semaphore.
* **Partial failure.** Opening a room acquires up to five resources, each with its own
  error path; a stop can be cancelled half way, wait for an answer that never comes, or end
  with the exception of the process it waits for.
* **What outlives its owner.** Connections of a stopped forward, events of a stopped pump,
  advertisements of a helper that is gone.
* **Frames.** A request is two writes that a token can separate, and one read that a
  `select!` can drop: either leaves the stream out of step.
* **Timeouts and limits.** The crash window, the three-second stop, the bounded event
  channel, the 4096 request ids of a session, the ten seconds of a player, the six hours
  of an advertisement.
* **Liveness.** Transient states must end, a link must come back, gates must be released.

`PROJECT.json` lists each hazard at its line with the properties that would catch it,
and says in a note where a property covers only part of a hazard.

## 2. Modules

| module | models | state and actions |
|---|---|---|
| `RoomBackend` | the promise of the `RoomBackend` trait, as an abstract specification | `session`; OpenSession, CloseSession |
| `RoomService` | helper/room/service.rs and events.rs | the snapshot `room`, `known`, and for each caller the await it has reached. Each operation is a `Begin...` action (validation, lock, early returns), a `Backend...` action (any answer the contract allows) and a `Finish...` action. `poll_and_emit` has two steps after the answer, because the lock is released before the events are published. `feed` is a subscriber that has applied every event. |
| `MCRoomService` | values of the constants for TLC | |
| `EasyTierBackend` | helper/network/backend.rs and what it calls | an operation runs through its `Plan`, one resource per step; `fresh` is what its locals own, `held` what the stored session owns; `Cleanup` is the error path of each step. `listening` are the port forwards whose accept loop runs, `conns` those with a connection task alive: stopping a forward ends the first and not the second. `hosts` and `adverts` are the machine's other helpers. `KeepsContract` states that it implements `RoomBackend`. |
| `HelperProcessManager` | plugin/Infrastructure/HelperProcessManager.cs | the gate, a program counter per caller, the manager's fields by the generation they belong to, and per generation the process with its watching task. `stream` says whether the cached client's pipe is in order, cut inside a frame or without a reader; `faulted` whether the process task ends with an exception. |
| `TerracottaController` | plugin/Application/TerracottaController.cs, RoomStateMachine.cs, Infrastructure/HelperRoomGateway.cs | state machine and snapshot separately (the code writes one without the other), the operation inside the gate and how far it is, the operations at the gate that have read something before it, the poll loop, and the helper as RoomService and the manager promise it. `pushes` is the channel of the event pump that runs, `late` what a stopped one still delivers. |
| `RequestReply` | what a caller in the plugin may rely on of a call to the helper, as an abstract specification | where a call stands for its caller, what the helper did with it; Ask, Serve, GetAnswer, Lose |
| `IpcSession` | plugin/Infrastructure/HelperIpcClient.cs and IpcFraming.cs, helper/ipc/session.rs and protocol/framing.rs | `pc` is how far SendAsync is for each call; `pending`, `channel`, `initialized` are the client's and the gateway's fields; `toHelper` holds the parts of frames, `toClient` whole frames; `partial` is the read under way, `seen`, `identity`, `cursor` the session's locals. Reading a request and handling it are separate steps. `cut` and `dropped` record that a frame was cut by a cancelled write or a read dropped by `select!`; `late` counts the answers put into the event channel since its newest event. `ServesCalls` states that it implements `RequestReply`. |
| `Scaffolding` | helper/scaffolding and its callers in network/backend.rs | the table (`players`, `kind`, `age`), the cleanup `timer`, and for each member the request its exchange has reached. A join makes the exchange under the member's machine id, a refresh under a probe id. A cleanup reads the clock (`BeginCleanup`) and later gets the lock (`RemoveStaleGuests`); `since` is how long ago it read the clock. `heard` is the history of answered pings. |
| `RoomServiceProofs`, `EasyTierBackendProofs`, `HelperProcessManagerProofs`, `IpcSessionProofs`, `ScaffoldingProofs`, `TerracottaControllerProofs` | theorems about the module each is named after | an inductive invariant, one lemma per action or group of actions, the theorems (section 4) |

Conventions: a definition whose comment begins with "Mutant" is a deliberately wrong
variant of the definition after it, used to confirm that a property can fail; no
specification uses it. Definitions keep the source's names where possible.
`PROJECT.json` maps every definition to its lines.

Composition. `RoomService` extends `RoomBackend`, so its backend steps are exactly the
contract's; `EasyTierBackend` is checked against the same contract with `INSTANCE ...
WITH`, hence the two fit together without a product state space. `TerracottaController`
abstracts the helper to off, idle, active or faulted, which are the states RoomService
can be left in. `HelperProcessManager` contains the recovery the controller queues; it
and the controller take a call to the helper as answered, failed or cancelled, which is
what `RequestReply` says and `IpcSession` implements. `RoomService` takes any roster from
its backend and any network sample; `Scaffolding` says which rosters there are. The manager's `stream` summarises what `IpcSession` shows in
detail: after a cut frame, or with a reader that was cancelled, a shutdown call may wait
for ever.

Atomicity. The statements of one handler between two awaits are one step. Where callbacks
on other threads can fall between such statements and it makes a difference, the step is
split: a leave clears its fields (`EnterLeave`) before it reads the state (`LeaveDecides`),
and a create or join stores its session (`Persist`) after it has published Connected, still
inside the gate.

Two ways of calling RoomService are specified. `Spec` allows any interleaving of
callers, which is what the Rust type offers. `SessionSpec` is the deployed program: the
`select!` loop of the IPC session runs the body of one arm to its end, so no operation
begins while another is under way.

## 3. Runs

| run | outcome | what it shows |
|---|---|---|
| `room_session` | passes, 210,643 states | under one session: types; an active room has a backend session of its role; an idle one has none and no members; a create or join never finds a session that an earlier attempt left; a subscriber knows the lifecycle state between operations; a leave that is reported has happened; a poll moves a room only between Connected and Reconnecting; transient states end; a recovered link recovers |
| `backend` | passes, 220,953 states | no failing step leaks a resource; when no session is stored, no process or server of an earlier one runs and nothing listens; a member owns what its path needs; the contract is implemented; calls end |
| `backend_set_lan` | violation of `HostServes` | changing the LAN address binds ports the session still holds, after shutting the Scaffolding server down |
| `backend_advert` | violation of `LocalJoinFindsHost` | an advertisement survives the exit of its helper and a join trusts it |
| `process` | passes, 36,358 states | cached client, task and endpoint are of the newest process; no orphan; a dead client has a watcher; only an owned process is charged with a crash; a call gives the gate back unless its shutdown gets no answer; the client of a helper that died unasked is dropped |
| `process_crash_loop` | violation of `NoCrashLoop` | a recovery resets the crash count |
| `controller` | passes, 5,235,738 states | a waiting create can resume; only a cancellation orphans a transient state; no operation ends so that the helper serves a room behind an idle controller, only a late event or a cancellation brings that about |
| `ipc` | passes, 1,165,210 states | a call is served at most once and its caller gets its own answer or none; the gateway's cached identity is true of this session; neither lag nor the full channel loses the newest event, unless as many late answers as the channel holds come after it; a session ends with a framing error only after a cut frame, a dropped read or a closed stream, and at the request limit only when it is reached; every call ends, also after a dropped read, at the request limit and under disposal, unless a frame was cut or the host cancelled the reader |
| `ipc_stop` | violation of `StopEnds` | a call cancelled between the two writes of its frame makes the helper swallow the shutdown request; the stop waits for an answer and never comes to its three seconds |
| `scaffolding` | passes, 40,281 states | the host is the one HOST of the table and of every roster; a silent guest leaves within the timeout, one interval and the wait for the lock; whoever was answered within the timeout is listed; every exchange ends |
| `controller_polling` | violation of `ConnectedIsPolled` | a poll tick during a diagnosis ends polling for good |
| `controller_recovery` | violation of `LeftRoomStaysClosed` | a recovery that a leave overtook builds the room again |

Each violation is a finding in `PROJECT.json`, quoting the document or comment it
contradicts. The trace of `controller_recovery`: a create whose session could not be stored
is Faulted with a recovery remembered, the helper crashes, its exit queues a recovery, a
leave closes the room first, and the recovery opens it again.

The models make more behaviours visible that the properties leave room for, because no
document promises otherwise or because a property names them as its exception:

* Under `Spec`, where two callers of RoomService interleave, `RoomHasSession` fails (a
  create finishes over a leave that has begun): the safety of the room rests on the
  session's serialisation.
* A create that failed leaves the room Faulted, and create and join are refused as "in
  progress" (service.rs:163, 327) until a leave. `EntersFresh` is why this must be so: the
  failed attempt may have left a session in the backend.
* A state-changed event carries the roster from before its poll, so a subscriber has the
  right state but not the right members until the next status.
* Connections that a forward has accepted are carried on after the leave that stopped it
  (port_forward.rs:61-65, 81-88; `conns`). `LeaveStopsListening` is about what can accept.
* A stop cancelled half way leaves `_intentionalStop` set with the client cached; when that
  helper dies later, nobody is told (HelperProcessManager.cs:136, 258). `CrashIsNoticed`
  excuses a process that somebody has asked to stop.
* The leave of a faulted room publishes Idle before it stops the helper
  (TerracottaController.cs:291-293); cancelled in between, every later leave returns early
  while the helper serves the room. `OnlyEventsHide` names the cancellation.
* A member refreshes under probe ids (backend.rs:523), so its own row ages out of the
  host's table while it is in the room. `HeardAreListed` is about ids.
* An answer that finds nobody waiting goes into the same drop-oldest channel as the events
  (HelperIpcClient.cs:191), so 128 calls cancelled while the pump stands still would push
  the newest event out. `NewestEventArrives` excludes exactly that case.

### Bounds

* `Callers`: two for RoomService and the manager. Under `SessionSpec` the second caller
  is the tick arm; under `Spec` two are enough for every pairwise race, and the proofs
  hold for any number.
* `Member` has two elements and `Quality` one, so a member can join, leave and stay;
  `Net` has a healthy and an unhealthy sample.
* `Codes`: three, so that this helper hosts one room, a neighbour another, and a third
  is joined after its host died.
* `MaxGeneration` = 3: a process, its replacement, and the replacement's replacement,
  which is what a stale exit, a crash within the window of another, and a cancelled stop
  need. TLC stops counting there; the code's counter is not bounded.
* `MaxWaiting` = 1 operation at the gate besides a queued recovery and the one inside,
  `MaxPushes` = 1 undelivered event, in the running pump and in a stopped one; of several
  stopped pumps the model keeps the events of one. Commands (create, join, leave, diagnose)
  read nothing before the gate, so one that waits is one that comes when the gate is free
  and needs no place in the queue. With the operation inside the gate, the recovery
  and the callbacks this gives every pairwise overlap. The channel of the code holds 128
  and drops the oldest when full, which `Enqueue` does at its bound.

* `NumOps` = 2: the identity and one operation after it, or an identity that was
  cancelled and sent again, next to `Stop` and `Hello`. A session has one shutdown.
  `RequestLimit` = 3 is reached by hello and two operations, so that the shutdown meets
  it; in `ipc_stop` it is out of the way.
* `BusCap` = 1 and `MaxEvents` = 2 make a receiver lag; `EventCap` = 2 lets a late answer
  and the events compete for the client's channel.
* `Scaffolding`: the cleanup waits at most `LockWait` = 1 unit for the table, less than its
  interval (`LockAssumption`: the lock is held only over work in memory), so the interval is
  2 units; player and request timeout are 2 as well. The code has ten seconds and five; that
  the ratio does not matter is what the theorems add, which hold for all values. `Members`
  has two, one of which is on the host's machine and has its id (`Twins`). One probe id is
  enough for refreshes to overlap and to share an id, as two members in one second do.

The runs of `IpcSession` do not check for deadlock: a session that has ended with its
client disposed is the end of the model, and a hanging call is what `CallsSettle` and
`StopEnds` look for. All other runs check for deadlock.

### Fairness

* RoomService: weak fairness of a begun operation's steps, since every await of the
  backend is bounded by a timeout or an attempt count; strong fairness of the tick arm,
  which `tokio::select!` picks at random among the ready ones, so that requests cannot
  starve it for ever. The sender of requests is not fair.
* EasyTierBackend: weak fairness of the call under way. Every step is a bounded wait.
  Exits and neighbours are not fair.
* HelperProcessManager: weak fairness of a call's steps once it holds the gate and of
  the event, but of `Shutdown` only while the call can be answered (`Answered`: the stream
  is in order, or the helper has gone and the pipe breaks): `SendAsync` has no timeout
  (line 263). A process that was told or killed exits; strong fairness of the watching
  task's acquisition, because `SemaphoreSlim` serves its waiters in turn. A running
  process need not exit and no call need come. `CallsEnd` and `CrashDropsClient` name the
  stop that is `Stuck` in such a shutdown as their only exception.
* IpcSession: weak fairness of the writes of a call at the write gate, of the read loop,
  the pump and disposal, of reading and handling requests, and of forwarding events: the
  runtimes run what is ready and `select!` picks at random. Nothing makes a caller call, a
  token fire, the host cancel the reader, the tick come or the helper die. A stop that was cancelled need not be
  followed by another.
* Scaffolding: time passes, the interval ticks, the cleanup gets the lock and timeouts fire.
  Members, the network and the host are not fair.
* TerracottaController: `FairSpec` makes the helper's answers and the continuations
  happen. The passing run checks safety only, under `Spec`.

### External behaviour

The host's task service is not in the repository. Disposing a task registration is taken
not to wait for the task; if it did, a stop that holds the manager's semaphore and the
watching task that waits for it would wait for each other (HelperProcessManager.cs:175 and
290). A pump that is disposed may therefore go on delivering what its channel holds
(HelperRoomGateway.cs:138, 156-176): `Retire`. The host may cancel a reader's task at any
time, and a process task may end with the exception of the host's process service. EasyTier, the operating system's sockets and the file system appear as steps that
may fail. A local stream delivers bytes in order until one end is closed.

## 4. Proofs

`RoomServiceProofs` proves, for all `Callers`, `Member`, `Quality`, `Net` and `Healthy`
with the two named assumptions of `RoomService` (healthy samples are samples; the marks
for "no sample" and "not present" are not values):

* `TypeCorrect`: `Spec => []TypeOK`, for any interleaving of callers.
* `RoomAlwaysHasSession`, `IdleAlwaysClean`, `AlwaysEntersFresh`, `FeedAlwaysKnowsState`:
  the four safety invariants of `room_session`, from `SessionSpec`.

None of the four is inductive. While an operation waits for the backend, what its last
step will write depends on what its first step read, so the invariant has to say what
each stage of each operation guarantees. `SessionInv` is the conjunction of the types,
`RoomHasSession` and `IdleIsClean`, that at most one caller is at work, that between
operations the room is in a settled state the subscriber knows, and of `Phase(c)`: for
the caller at work, the room's state, the session and the saved answer that its
operation and stage imply (for example: a create that awaits the backend has the room
Creating and no session yet; a diagnosis has it Diagnosing, with a saved state that is
Connected or Reconnecting and that the subscriber still sees). `StepTypeInv` and `StepSessionInv` go through the actions
one by one; `OneAtWork` gives that the acting caller is the only one that is not ready.
The types are proved separately, so that they hold without the session's discipline.

The action properties `LeaveIsFinal` and `PollOnlyReconnects` follow from the same
invariant (`LeaveAlwaysFinal`, `PollsOnlyReconnect`). Both say something of every caller,
so `OnlyTheWorker` first gives that a step changes the room only on behalf of the caller
at work; `Phase` then says what that caller's last step writes.

`ScaffoldingProofs` proves, for all sets of members and probe ids, any members on the
host's machine and all values of the four times, from `IdsAssumption`, `TimesAssumption`
and `LockAssumption`:

* `TypesHold`, `HostAlwaysUnique`, `SilentGuestsAlwaysLeave`, `HeardAlwaysListed`:
  `Spec => []...` for the invariants of the run `scaffolding`.

`ServerInv` adds three conjuncts to the types and `HostIsUnique`. `SilentGuestsLeave` says
nothing about when the next cleanup comes, so `AgeBound` ties the age of a row to the
timer and to how long a cleanup under way has waited for the lock. `HeardAreListed` needs
`FreshRows`: a row is no older than the last answered ping of its id, also a ping between
the cleanup's reading of the clock and its lock. A failed join shows the id it was made under, so `JoinUnderOwnId` says that this is the member's.

`EasyTierBackendProofs` proves, for every set of room codes and without an assumption:

* `TypesHold`, `NothingEverLeaks`, `LeaveAlwaysStopsListening`, `MemberAlwaysOwnsItsPath`:
  `Spec => []...` for the invariants of the run `backend`.
* `ContractKept`: `Spec => KeepsContract`, the refinement of `RoomBackend`. With it the
  theorems about `RoomService`, which hold for any backend that keeps the contract, hold
  with this one.

`NothingLeaks` looks only at the end of a call; the reason it holds is that every error
path gives back what the steps before it acquired. `LocalsFollowPlan` says that the locals
are what the first `step` steps of the `Plan` acquire (only the LAN broadcast may be
missing, since its failure is ignored), and `CleanupCoversLocals` compares that with the
error path of each step. `CallFitsSession` keeps the test a call began with true while it
runs. `SessionOwns` ties what a session owns to what leaving with its role stops, and
`LoopsOwned` says that every accept loop belongs to a forward of the session or of the
locals. Nothing is proved of connection tasks: they outlive the leave.

`HelperProcessManagerProofs` proves, for every set of callers and every bound on the
number of processes, from `CallersAssumption` and `MaxGenerationAssumption`:

* `TypesHold`, `ClientAlwaysCurrent`, `NeverAnOrphan`, `CrashAlwaysNoticed`:
  `Spec => []...` for the invariants of the run `process`.
* `CrashesChargedToOwned`: `Spec => CrashChargedToOwned`.

`OneOwner` strengthens `ClientIsCurrent` with when task and endpoint are there at all.
`CriticalSection` says what a caller between two awaits inside the gate may rely on; its
hard case is the catch block of a failed start, which finds a process running without a
client and therefore must still have the task of that process; when the process task ends
with an exception the stop throws, but then that process has ended. `CrashesBounded` is needed
because the crash count is typed by the number of generations: a process is charged once.

`IpcSessionProofs` proves, for any number of calls, any request limit and any capacity of
the bus and of the event channel, from `CallsAssumption` and `BoundsAssumption`:

* `TypesHold`, `IdentityAlwaysKnown`, `NewestAlwaysArrives`, `AlwaysEndsForAReason`:
  `Spec => []...` for the invariants of the run `ipc`.
* `CallsServed`: `Spec => ServesCalls`, the refinement of `RequestReply`.

The conjuncts of the invariant stand for four arguments:

* *Served once, answered truly.* `ServedOnce` says that the JSON of a request is on the
  stream at most once and only between its write and its handling; `AnswersTrue` that an
  answer on the stream is what the helper did with the request it names; `PendingOpen` that
  a call the read loop can complete has not ended. With them every step maps to a step of
  `RequestReply` or to a stutter.
* *Identity.* `IdentityKnown` relates the gateway's flag to a request that was served and
  that request to the session's identity, through answers that are late or never read.
* *Frames.* `EndsForAReason` needs that a stream nobody has disturbed stays a sequence of
  frames. `Frames` says this for the parts on the stream, the length already consumed and
  the call that has written its length; `StreamInStep` says it holds while nothing was cut
  or dropped. `OneWriter` and `ReaderStopped` are the write gate and the order of disposal
  it rests on.
* *Newest event.* `NewestKept` follows the newest event from the cursor to the stream, into
  the channel before the answers that came late since, and to the pump. The attempt
  to prove the property as it stood first failed for a good reason: late answers share the
  channel, and enough of them push the newest event out (TLC confirms it with
  `EventCap` = 1). The history variable `late` and the condition `late < EventCap` state
  exactly what is true.

`TerracottaControllerProofs` proves, for any number of waiting operations and any capacity
of the event channel above zero, from `BoundsAssumption`:

* `TypesHold`, `WaitingAlwaysResumable`: `Spec => []...` for the invariants of the run
  `controller`.
* `OnlyCancelsOrphan`, `OnlyEventsEverHide`: its two action properties.

The invariant `IInv` consists of the types, of which operation can be at which stage
(`GateShape`) and of three facts: `WaitingIsResumable` itself; `MadeIsSettled`, that a room
whose session is being stored is no longer in a transient state; and `LeftIsOff`, that a
leave that has succeeded has stopped the helper. Each group of actions has a lemma with its
effect on state, gate and helper (`EnterEffect`, `ServeEffect`, `FinishEffect`,
`CallbackEffect`, ...). `StepOrphans` and `StepHides` go through these: an operation that
ends puts its transient state away whatever the callbacks did to it meanwhile, and none
that opened a room leaves the controller idle, because a transition to Connected is illegal
from Idle and the illegal transition ends in a fault that a leave can close. Both theorems
say which steps are exempt instead of excusing a behaviour as a whole: an event of a stopped
pump, and a cancellation.

The inductive invariants hold in TLC on the instances of the runs as well. All
invariants, action properties and refinements of the passing runs are stated by a theorem.
Only model-checked: liveness (`OperationsEnd`, `LinkRecovers`, `CallsEnd` of backend and
manager, `CrashDropsClient`, `CallsSettle`, `ExchangesEnd`), because the prover handles neither
fairness nor ENABLED. A bound such as `MaxGeneration` or `MaxEvents` limits a behaviour of
the model; the theorems hold for every value of it.

## 5. Not modelled

* Disposal of the controller. What it races with (commands and exported services that do
  not go through the task list) is decided by the order in which the host cancels
  `Stopping`, unregisters commands and disposes tasks, which is not in the repository.
* The table of `easytier-cli peer`, the TCP probe and the conversion of player profiles to
  members (helper/network/easytier_cli.rs, quality.rs): text without state. RoomService
  takes any sample.
* Room credentials and `RoomCode`: key derivation and text normalisation without state.
* c:ping and c:server_port of the Scaffolding server: they change nothing and the helper
  does not call them.
* The platforms' listeners, package resolution, settings, views, diagnostics and exports:
  I/O and presentation. `PROJECT.json` gives the reason for each.

## 6. Plan

1. Done: `RoomService` with its contract, `EasyTierBackend`, `HelperProcessManager`,
   `TerracottaController`, `IpcSession` with `RequestReply`, `Scaffolding`;
   for each of them the proofs of all safety properties its passing run checks.
2. Abstract specifications to prove next: what `TerracottaController` assumes of the
   helper (off, idle, active or faulted) as a specification of its own that `RoomService`
   under `SessionSpec` implements, and of the manager that `HelperProcessManager`
   implements, so that the controller's abstract helper rests on theorems as
   `RoomService`'s backend does.
3. Further safety properties of the components as they are: which restarts the crash window
   grants; that a roster a member is given names only players the host has heard within the
   timeout and one interval.
4. A composition of controller and manager that replaces the abstract helper, should the
   state space allow it.
