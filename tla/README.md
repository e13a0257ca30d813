# Coselig Modbus Hub: verification development

TLA+ models, TLC runs and TLAPS proofs for the Home Assistant custom integration
`custom_components/coselig_modbus_hub`, which drives RS-485 devices behind an
RTU-over-TCP gateway. Paths such as `transport.py:419` are relative to
`src/custom_components/coselig_modbus_hub/`.

- [1. The system](#1-the-system)
- [2. How the models read the code](#2-how-the-models-read-the-code)
- [3. Modules](#3-modules)
- [4. Runs: what is checked, with which bounds](#4-runs)
- [5. Fairness](#5-fairness)
- [6. Theorems: what is proved, and how](#6-theorems)
- [7. Disagreements between the code and its own documents](#7-disagreements)
- [8. What is not modelled](#8-what-is-not-modelled)
- [9. Plan](#9-plan)

## 1. The system

One *hub* per config entry owns one gateway. Everything runs on one asyncio loop, so two
tasks interleave at awaits that really wait and nowhere else.

| Component | State it keeps | Operations |
| --- | --- | --- |
| **Transport** `transport.py` | `_controls` (one ordered dict holding latest-wins *stateful* controls, at most 256, and FIFO *actions*, at most 32), `_polls`, `_wake`, `_idle`, `_gate`, the worker and its item, `_pending_response`, reader, writer, one RX task, `_disconnecting`, `_loss_reported`, `_closed` | `submit`, `submit_action`, `exclusive`, `connect`, `disconnect`, `discard_controls`, `close`; tasks `_run` and `_read_loop` |
| **Coordinator** `coordinator.py` | per device `available`, `populated`, `consecutive_failures`; `gateway_available`, `_backoff_index`, poll interval, runtime pause, `scanning`, `_round_lock`, `_schedule_wake` | `start`, `_loop`, `async_poll_round` with `_poll_devices`, `_async_update_data`, `async_command`, `async_action_command`, `gateway_lost`, `set_poll_interval`, `set_runtime_poll_paused`, `pause`, `stop` |
| **Hub** `hub.py` | started or not, event subscriptions per slave and channel | `start`, `scan`, `stop`, `subscribe_s402`, dispatch of events, loss callback |
| **Scanner** `scanner.py` | the devices found so far | one `exclusive()` section of FC03 / FC02 probes per address |
| **Protocol** `protocol.py` | none | build, CRC, `receive`, `validate`, decoders |
| **S402 events** `s402.py`, `event.py` | the entity's subscription | parse a pushed frame, dispatch, availability |
| **Entities** `light.py`, `switch.py`, `cover.py` | optimistic value and its time; the assumed state of a Cover | commands, coordinator update |
| **Trace and Monitor** `trace.py`, `monitor.py`, `monitor.js` | a ring of entries, last timestamp, subscribers | append, history, live stream, merge in the page |
| **Models and profiles** `models.py`, `profiles.py`, `r410_cover.py` | none | register layout, conversions, validation of Cover channels |
| **Config and options flows** `config_flow.py` | per open flow: a snapshot of the options, what is managed, a draft | some sixty steps: menus, forms, scans, summaries; each confirmation stores and ends the flow |
| **Setup and unload** `__init__.py` | `runtime_data`; options and registry in HA's storage | setup, its failures, pruning of the registries, platforms, unload |
| **Diagnostics, constants, assets** | none | a read-only snapshot |

**How they interact.** An entity's command goes through `Coordinator.async_command`
(stateful) or `async_action_command` (momentary) to `Transport.submit*`. The call passes
`_gate`, is queued, wakes the worker and awaits a future. The worker takes controls before polls,
connects when there is no connection, writes, and waits for `_pending_response`, which the RX
task fills. Polls come from the coordinator's round, which holds `_round_lock`; a scan holds
`_round_lock` and then `_gate`. An end of stream seen by the RX task calls
`Coordinator.gateway_lost`, which discards the queued controls and wakes the loop to
reconnect. `Hub.stop` cancels the loop and then closes the transport.

An options flow never touches the hub, with one exception: the polling form tells the running coordinator its
interval. Everything else it stores in the entry's options and has the entry reloaded, which makes a
new hub from them. Setting up prunes the registry to what the options name. The transport
records every frame and verdict in the trace; a page of the Monitor subscribes to it and keeps a
history of its own, which outlives subscriptions, hubs and the trace's buffer.

**What is hard in it, and what would make it correct.**

- *Three tasks may be inside `disconnect()`* (the worker after a failed exchange, the
  coordinator after a failed round, `close()`), and each awaits the RX task it cancelled. A
  connection, a future or a task must not be left behind: `CloseIsFinal`, `CloseEnds`.
- *A late answer* after a timeout must not be taken as the answer to the next request:
  `AnswerIsOwn`. *Two tasks may be inside `connect()`* (the worker and the coordinator), and the second replaces
  what the first has opened: `OneInFlight`, which the code breaks then (section 7). *A request is never sent twice*, whatever is retried or reconnected:
  `AtMostOnce`. *A call that was told its outcome is not sent afterwards*:
  `NoSendAfterVerdict`.
- *One dict, two disciplines*: a newer control takes the place of an older one with the same
  key, actions keep their order, cancelled items are skipped: `FifoActions`, `QueueBounds`,
  and `KeepsPromise`, the refinement of an abstract schedule.
- *The scan wants the bus alone*, although calls were accepted before it took the gate and may
  be cancelled at any wait: `ExclusiveBus`, `ScanAlone`, `OneBusUser`.
- *Events used as condition variables* (`_wake`, `_idle`, `_schedule_wake`) are cleared by one
  task and set by others; a lost wake-up would stop polling or strand a caller:
  `EveryCallEnds`, `Reconnects`, `KeepsPolling`.
- *Two independent notions of health*: a gateway is lost at once, a device after three failures
  in a row; a reconnection restores what the polls had shown, and no control survives the
  loss: `HealthFollowsPolls`, `LostHoldsNoControl`, `BackoffStartsOver`.
- *A poll and a command cross*: the answer of a poll may be older than what the user has just
  commanded, and the command may still wait: `ShowsQueued`, `Truthful`. *A Cover has no
  feedback*, so that what it assumes must not outlive a time out of reach: `AssumedIsCurrent`.
- *What is stored is decided early and written late*: a flow reads the options when it opens, walks
  its menus for as long as the user likes, and stores part of its snapshot into the options as they are by then;
  meanwhile the entry is set up, fails, retries, is reloaded. What is stored must load again
  (`OptionsLoadable`), a loaded entry must run what is stored (`RunsStored`), although setting up awaits
  twice and prunes by the options as they are after the first await.
- *One relay, three ways to be driven* (Switch, or one of the Covers, which count relays from
  1 while registers count from 0): every output has one driver (`OneDriver`), and its identity in the registry outlives
  the Covers that own it (`IdentityKept`).
- *A page and a trace that begin anew independently*: snapshots overlap, the wall clock may be set back, a clear
  crosses snapshots on their way, events come between a request and its answer: `PageInOrder`, `ShowsTrace`,
  `ClearedStaysAway`, `TransactionsAreExchanges`.
- *Two tables of frame lengths*: `receive()` reads by the head of the answer, `validate()` judges by the request. Were they to
  disagree, the stream would be out of step from then on: `AnswersArrive`.
- *Shutdown at any point* (while the first round of `start()` runs, in a later round, in a scan): `StopEnds`,
  `StoppedIsFinal`, `CloseIsFinal`.

`PROJECT.json` lists every hazard with its line and the properties that guard it.

## 2. How the models read the code

- **A step** is what one task does between two suspension points. An `await` of something that
  is already there (a free lock, a set event, a future that is done) does not suspend and is part of
  the step around it. An error path, a `finally`, and a call to another function are parts of
  the step of the handler that runs them.
- **A call** of `submit()` is one identifier. `fut[r]` says where it stands: not made, at the
  gate, pending, or one of nine outcomes (result, superseded, device exception, timeout,
  protocol, gateway, offline, full, cancelled).
- **A frame** is reduced to what the code can tell apart: which outstanding request it answers
  (`owed` holds those whose answer may still arrive on a connection) and how
  `validate()` judges it: acceptable, a Modbus exception, or unacceptable. The gateway may
  answer late, wrongly, or never.
- **History variables** `sends` (writes per request), `replaced` (the open connections that a second `connect()`
  has replaced), `missed` in ConfigEntry (an interval was stored that the
  hub was not told), `count`, `epoch` and `cleared` in Monitor (entries recorded, how often the trace began anew, entries
  recorded before the clear the page saw last), and in Entities `pressed`, `during` (changes made on the device itself
  since the last poll that counted, and since the one on the bus was read), `retLost` and `lost`
  (availability was lost since an action was answered), occur in no guard but
  that of the bound on `count` and `epoch`.
- **A bound** is a constant or a comment that says `bound`: `MaxConnections` (connections per behaviour),
  `Cancellable`, `Drops`, `Events`, `MaxBackoff`, `MaxActions` (waiting Cover actions), `MaxClock`
  (readings of the clock), `MaxReloads` (reloads that wait), `MaxChanges` (options stored), and in Monitor
  `Readings`, `MaxRecords`, `MaxMessages` and `MaxEpochs`. A call identifier is used once in Transport; in
  Hub a caller may ask again for ever.

- **What the gateway sends**: each request written on a connection gets one answer there at most (`RxAnswer`); a frame that answers
  nothing (a duplicate, a stray one) is one that `validate()` refuses (`RxNoise`), or an S402 event.

**Two tasks in `connect()`.** `connect()` has no lock: of two tasks suspended in `open_connection`, the second to resume
replaces the reader, the writer and the RX task of the first. The replaced socket has no owner any more, and its RX task goes on until its
next frame, which it hands to whatever request waits by then.

- What keeps the two apart is in the coordinator, and the model has just that. It connects when `start()` begins or `gateway_available` is
  false (`gateway`), under the round lock (`RoundLockFree`). While it does, no poll and no scan begins, and controls
  are refused; no poll and no scan begins either while it disconnects after a round that failed (`RoundFails`), under the same lock (`Quiet`).
- A cancelled scan or refresh lets go of that lock, but its request stays with the worker, which may be connecting for it. So the two
  overlap, and `replaced` says when. The run `transport_overlap` shows what comes of it: `OneInFlight` fails.
- `AnswerIsOwn` is `OneInFlight` as long as nothing was replaced. The condition is not only about the replaced connection: an answer that
  was taken for another one leaves that one's own answer to arrive late, and so on, until the connection is closed.
- `CloseIsFinal` allows the replaced sockets to stay open, and only those. All other properties hold with and without replacement.
- The model lets the coordinator connect between two polls of a round as well, since it sees the round lock by the requests made under it.

**In Hub**, the transport shows only what the coordinator can tell apart: who has the bus
(`bus`, `phase`), whose calls wait (`call`), whether there is a connection (`link`).

- `disconnect()` is one step (Transport has its suspensions).
- Each device has one `PollSpec` (`profiles.py:120-121` gives every profile
  exactly one), so a round has one request per device.
- `_round_lock` is `asyncio.Lock`, first come first served: a queue `waiters`, and `Grant`
  hands a free lock to its head.
- The caller of a control acts on `GatewayError` only; with any other outcome it is simply
  free to ask again. Cancelled controls are in Transport.
- A control asked for while the gate is held by the scan joins the waiting calls; that no such
  control is on the bus during the scan is `ExclusiveBus` of Transport.
- `fails` stops at 3, the threshold, which is all the code compares it with;
  `backoff` stops at `MaxBackoff`, as the code clamps the index when it reads it.

**In Entities**, the device is one of many behind the gateway and the transport is reduced further.

- What waits (`queued`, `actions`), what is on the bus, and the order "controls before polls" are
  kept; calls of other devices are not, so a poll may be taken or delayed at any time at
  which nothing of this device waits. Polls of other devices publish too, with this device's old
  state: `RepublishKeeps` (section 6) shows that this changes nothing.
- `now` counts readings of `loop.time()`: what the code compares is only which reading came first, and
  two readings of the monotonic clock are taken to be different.
- A register holds a raw value. Commands and polls pass through the same `raw_to_*`
  functions before they are shown, so `shown` is the raw value that was converted.
- `Resumed`: a future that is done resumes its caller in the next turn of asyncio's
  loop. Between the turn in which an action is answered and the one in which its caller resumes
  (`ret`) any task that is already ready may run, among them a loss; what needs a socket or a timer
  (the next answer, the end of the backoff) comes later.
- A write that the gateway delivers after its exchange was given up is one more
  change on the device itself (`Press`).

**In OptionsFlow**, the options are devices, S402 ids, Covers and the interval.

- A device list is a function from its slaves and a Cover list one from its ids, because no flow puts a slave or an id twice
  into one list. The list of S402 is a function too, from an id to `once` or `again`: two flows can append the same id, and all that
  the code asks of that list is which ids are in it and whether one of them is there more than once.
- Of a Cover only the slave and the set of relays are kept; of a device its model and the mode of each group.
  The scan range is not kept: a flow that changes it alone stores nothing that the properties see.
- Menus that only lead on are tables (`InitMenus` ... `BackMenus`), forms that follow each other and only fill
  in the draft are one action, and a form that is refused comes back and is no step.
- Home Assistant's part is external: setups and unloads of an entry exclude each other, a reload that is
  scheduled waits for its turn, a failed connection is retried later, options and registry survive a restart. The
  stopped hub that stays in `runtime_data` after a platform failed is equivalent to none: HA does not unload such an entry, and
  every use of it asks a closed transport.

**In Monitor**, an entry is a number (its place in the order of recording), a time, a direction and a content.

- Time counts in ticks, `TicksPerMs` of them to a millisecond, because the buffer keeps microseconds
  and the page sees milliseconds. A reading of the wall clock may be any: it can be set back.
- One connection carries snapshots and replies in order (HA's WebSocket); a snapshot is taken when it is sent.
- The page keeps its history when it comes back to the same gateway; choosing another gateway starts a new page.
- `Merge` is `mergeTraceHistory` said in one piece: of entries with one key the first (`Firsts`, the `Map`), in the order of their times
  and else in the order they had (`Sorted`, the stable sort), and of those the last `Limit`.
- `Transactions` is what `buildTransactions` groups, as sets of places of the page: an entry belongs with those that have the same
  `Opener`, the latest entry before it (or itself) that opens a transaction; an event only with itself.

**In Frames**, a frame is its first six bytes (slave, function, two words), its length and whether the checksum
fits; of shorter frames the fields they lack are arbitrary and looked at by nothing.

## 3. Modules

| Module | Models | Notes |
| --- | --- | --- |
| `BusSchedule` | what the transport promises its callers | abstract: an ordered schedule, one call on the bus, no sockets, no worker, no events |
| `Transport` | `transport.py`, the scanner's section, `Hub`'s use of `close()` | one action per handler and suspension point; properties, invariants and the refinement mapping at its end |
| `Hub` | `coordinator.py`, `hub.py`, `scanner.py` as callers | the loop, rounds, lock, health, start and stop |
| `Entities` | `light.py`, `switch.py`, `cover.py`, with the coordinator's poll and health of their device | commands, polls and losses that cross; the inductive invariant at its end |
| `Frames` | `protocol.py`, the requests of `profiles.py` and `r410_cover.py`, the candidates of `s402.py` | pure operators: bounds of requests, lengths read, verdicts |
| `Devices` | `models.py`, `profiles.py`, `r410_cover.py`, the entities the platforms create | pure operators on options: outputs, accepted Covers, drivers, identities |
| `ConfigEntry` | `__init__.py`, reconfiguration | set up, unloaded, reloaded, restarted; pruning |
| `OptionsFlow` | `config_flow.py` | the options flows of an entry, next to `ConfigEntry`, which it extends |
| `Monitor` | `trace.py`, `monitor.py`, the history of `monitor.js` | the buffer, the subscription, one page |
| `MCTransport`, `MCLinks`, `MCHub`, `MCEntities`, `MCOptionsFlow`, `MCMonitor` | | model values, `KeyOf`, owners of registers, models a scan may take, symmetry |
| `SequenceFacts` | | lemmas on Append, Tail, suffixes, `RemoveAt`, how many places of a sequence are of a kind; the least number of a set, the greatest of a set of places |
| `Frames_proofs` | | every answer is read whole |
| `Transport_proofs` | | type correctness; the calls, the scan, close |
| `TransportPromise_proofs` | | the refinement of `BusSchedule`; capacities, order of actions, connections and answers |
| `Hub_proofs` | | the inductive invariant; the scan's lock and the final stop |
| `Entities_proofs` | | types, the inductive invariant and the three theorems on what is shown |
| `Options_proofs` | | `Devices`, `ConfigEntry` and `OptionsFlow`: types, what is stored and what runs, drivers and identities |
| `Monitor_proofs` | | what `Merge` returns; types; what was cleared stays away; order and newest part of the page, its transactions |

Operators marked `mutant` in a comment are wrong variants of the definition after them. No
action uses them: putting one in the place of the right definition must break the property
that `PROJECT.json` names, which shows that the property says something about the code.

**Transport, state to code.** `controls`, `polls`, `wake`, `idle` are the fields with
these names; `gateQ` is the lock's queue of waiters; `worker` is the point at which `_run` is
suspended (`idle` at `_wake.wait()`, `connecting`, `exchange`, `disconnect` in the error path);
`pend` is the state of `_pending_response`; `rx[c]` is the RX task of connection `c`, `task` the one
in `_reader_task`, `peer[c]` its socket; `reaps[a]` the RX task whose end the
`disconnect()` of agent `a` awaits; `gateway` is the coordinator's `gateway_available`; `owner` and `closer` are the coordinator's own use of
`connect()`/`disconnect()` and `close()`.

**Transport, actions to code.** `Submit`, `PassGate`, `CancelCall` are `submit()` and
`submit_action()` with `_enqueue` (`EnqueuePoll`, `EnqueueAction`, `EnqueueStateful`); `Scan*` is
`exclusive()` with the probes; `Worker*` is `_run` with `_exchange` (`TakeNext` is the head of the
loop, which every action that returns to it includes); `Rx*` is `_read_loop`; `BeginDisconnect`,
`Reaped`, `SocketClosed` are the three parts of `disconnect()`, `Opens` is the end of `connect()`; `OwnerDiscards` is `gateway_lost` as the
caller of a failed request runs it, the other `Owner*` are the coordinator's calls of `connect()` and
`disconnect()`; `Close`, `WorkerCancelled`, `Close*` are `close()` and the cancellation it delivers. `PeerDrops` is the gateway.

**Hub, state to code.** `hub` is how far `Hub.start`/`stop` are; `gateway`, `backoff`, `avail`,
`populated`, `fails`, `interval`, `paused`, `wake` are the coordinator's fields; `lock`
and `waiters` are `_round_lock`; `loop` is the await at which `_loop` stands; `at` and
`won` are the round's position and whether a device answered; `scan` is `Hub.scan`.

**Hub, actions to code.** `LoopWakes`, `BackoffOver`, `Grant`, `LoopConnects`, `LoopConnectFails` are
`_loop` between its awaits; `PollSlave`, `RoundCut`, `PollSucceeds`, `PollFails`,
`PollLosesGateway`, `PollClosed`, `RoundOver` are `_poll_devices`, which the loop, a refresh and
`start()` run alike; `ControlAsks`/`ControlReturns` are the two command functions;
`Scan*` is `Hub.scan`; `SetSchedule` the options flow and the pause; `StopBegins`,
`LoopCancelled`, `CloseTransport` are `Hub.stop`, which also follows a set-up that is cancelled in the first round. A second `stop()`
finds everything closed, or in the state in which the first one left it, and has no step of its own.

**Entities, state to code.** `reg` is the device; `gateway`, `avail`, `fails`, `scanning`, `cache` and
`cachedAt` are the coordinator's and the `DeviceState`'s fields (`cachedAt` is `poll_started`,
0 before the first poll that succeeded); `poll` and `pollAt` the poll under way and its `started`; `queued`,
`actions`, `bus` what the transport holds; `optimisticAt` and `lastPoll` are `_optimistic_at` and
`_last_poll`; `closed` is `_attr_is_closed` with "unknown" for `None`, `wasUp` is `_last_available`.

**Entities, actions to code.** `Publish` is `async_set_updated_data` with every entity's
`_handle_coordinator_update`, in one step as in the code; every action that publishes contains it.
`Command` is `async_turn_on`, `async_turn_off` and `_set_state` up to their first wait;
`PollStarts` ... `PollLosesGateway` are `_poll_devices`; `GatewayLost` and `GatewayRestored` the
coordinator's; `CoverAsks`, `ActionAnswered`, `ActionFails`, `CoverReturns` are `_action`, cut at its
`await`; `WriteTaken`, `WriteEnds`, `ActionTaken`, `PollTaken`, `PollBreaks` are the worker.

**ConfigEntry.** `stored` is `entry.options`, `hub` the options its hub was made from, `registry` the unique ids of the entity
registry, `entry` HA's state of the entry with setting up cut at its awaits (`starting`: `hub.start()`,
`forwarding`: the platforms). `SetupBegins`, `SetupFails`, `SetupRuns` (with `prune_registries`), `PlatformsReady`
and `PlatformsFail` are `async_setup_entry`; `Reload` is the unload that a reload begins with (it may fail);
`Reconfigure` is `async_step_reconfigure`; `Restart` is HA. `Store` is the end of every flow: options stored, a reload scheduled
if they changed.

**OptionsFlow.** `flow[f]` is one open dialog: its `step`, its snapshot (`_options`), the device it manages, the Cover it edits and
its draft. `Open` is `async_step_init`; `Navigate` every menu entry that only leads on; `Scan` ... `ConfirmS402` add;
`ListDevices` ... `ConfirmS402Remove` manage; `OutputConfiguration` ... `CancelRemoveCover` are the Covers of an R410; `Polling`
and `ScanRange` the communication forms. `Scan` and `ConfirmCover` have the flow's early returns (no new devices, a Cover that is gone, relays taken meanwhile).

**Monitor.** `buffer`, `last` are `ProtocolTraceBuffer`'s fields; `Send`, `Answer`, `Finish`, `Abandon` and `Event` are what an exchange
and the RX task record; `Unload` and `Load` the hub's end and the next one; `Publish`, `ClearRuns`, `ClearRefused` the WebSocket
commands; `Select`, `Ingest`, `AskClear`, `ClearDone` the page, with `Merge` (`mergeTraceHistory`) and
`Transactions` (`buildTransactions`; `Opens` is its `direction === "TX" || !current`).

## 4. Runs

The runs of Transport, Hub and Entities have `CHECK_DEADLOCK FALSE`: these systems may stop, once closed or when no
caller asks for anything (in Entities also because the clock is bounded). The runs of OptionsFlow and
Monitor check for deadlock: a dialog can be closed and opened, a page can come back.

| Run | Instance | Checks |
| --- | --- | --- |
| `transport_schedule` | 2 controls with one key, 3 actions, capacities 1 and 2, 1 connection that may be reset, controls may be cancelled, symmetry | `Inv`, `QueueBounds`, `FifoActions`, `NoSendAfterVerdict`, `KeepsPromise` |
| `transport_links` | a control, a poll, a probe, 2 connections, the gateway may end or reset them; frames at the limits of counts and addresses | `TypeOK`, `Inv`, `AtMostOnce`, `AnswerIsOwn`, `ExclusiveBus`, `CloseIsFinal`; and `AnswersArrive`, evaluated once |
| `transport_live` | a control, a poll, a probe, 1 connection, fair | `EveryCallEnds`, `CloseEnds` |
| `transport_close` | 2 controls, a probe, 1 connection | violates `NoOrphanFuture` |
| `transport_overlap` | 2 probes, 4 connections | violates `OneInFlight` |
| `hub_safety` | 2 devices, 1 control caller, refresh, scan, cancellations, 2 delays of the backoff after the first | `TypeOK`, `HealthFollowsPolls`, `LostHoldsNoControl`, `HubInv`, `OneBusUser`, `ScanAlone`, `BackoffStartsOver`, `StoppedIsFinal` |
| `hub_live` | 1 device, 1 control caller, refresh, scan, option changes, fair | `Reconnects`, `KeepsPolling`, `StopEnds` |
| `hub_deaf` | 1 device, scan, fair | violates `NoDeafGateway` |
| `entities` | a Light with 2 registers, values 0 and 1, and a Cover; 1 waiting action, 3 readings of the clock | `TypeOK`, `EntitiesInv`, `ShowsQueued`, `Truthful`, `AssumedIsCurrent` |
| `options` | 1 flow; a dimmer at slave 1, an R410 at slave 2, 1 S402, 2 Cover ids, 3 sets of relays, 2 intervals; 1 waiting reload, 2 changes, symmetry | `TypeOK`, `OptionsLoadable`, `OneDriver`, `RunsStored`, `IdentityKept` |
| `options_two_flows` | as `options` with 2 flows, 1 Cover id, 1 interval | violates `S402Distinct` |
| `monitor` | capacity 2, history 3, 2 ticks to a millisecond, readings 0 to 2, 5 entries, 1 message under way, 1 new beginning | `TypeOK`, `PageInOrder`, `ClearedStaysAway`, `TransactionsAreExchanges`, `ShowsTrace` |

**Why these bounds are enough.** Ordering needs three actions (one on the bus, two that
could be swapped) and a key with a second control; both capacities are reached (1 stateful
control; 2 actions, with the third refused). The races over connections are between one that is closing
and the next, and over one that replaces another, so two connections show them; a request sent again would go out on the second. The scan needs one request before it,
one poll behind it and one probe of its own. A round needs two
devices so that one can fail while the other answers and a loss can fall between the
two; the backoff needs two more steps than its first, to grow, to be at its limit and to start over; thresholds need three failures, which a round that repeats for ever reaches. The liveness runs are
smaller because symmetry and large state graphs do not go with temporal checking. In `transport_overlap` one connection is
lost, two overlap, and the fourth carries the request that waits while the replaced one is still read. Only one
caller of controls takes part in `hub_live`, so the bus is free for a poll whenever its control returns: a
stream of controls that always has another one queued does postpone polls (a hazard listed without a property).
In Entities a race between a poll and a command needs three readings: the poll at setup, a poll and
a command that crosses it; two registers of one output can be refused, sent or cancelled
separately. A Cover loses its availability and gets it back with
the gateway in these three; the longer way, three failed polls and a fourth that succeeds, takes more readings and is left to the proof. What happens with more outputs, readings and
Covers is proved.

In OptionsFlow slave 1 is the one S402 frames reserve, so it must be among the slaves, and the R410 has room for two Covers
that leave no relay free or for one that overlaps them. Two stored changes let the second be decided on a snapshot
from before the first was loaded, and let one device be removed and added again; a reload waits while set-up is
under way, and a change during set-up is stored after the hub was made. In Monitor the buffer (2) forgets before the page (3) does, and the page is
full with one entry to come; five entries are a whole exchange with an event inside and the beginning of the next one; two
ticks to the millisecond let two times differ and look the same; three readings let the clock stand, advance and
be set back. A second message under way would only repeat the first, because the snapshot is taken when it is sent and
`Select` adds one more.
`PageInOrder` and `ShowsTrace` depend on one of these bounds: the page holds more than the buffer (in the code 1000 entries against 200). With a
page as short as the buffer (3 and 3) TLC finds both violated: an entry that was taken for the twin of an earlier one comes in again when
that one has left the page, behind a later one of its millisecond. With the code's numbers that takes hundreds of entries in one
millisecond, more than the line can carry, so the run keeps to a page longer than the buffer, and the theorems about the page state
what they need as a hypothesis (`Sparse`, section 6).

## 5. Fairness

*Transport*: weak fairness for the worker, the coordinator, `close()`, every RX task, the
gate and the scan's steps. asyncio runs every ready task and fires every timer; a wait for
an answer ends by `asyncio.wait_for`, a wait for a connection by its own timeout, the wait for
the writer to close likewise. There is no fairness for the gateway's answers, its drops, or
the callers: none of the liveness results depends on a gateway that answers.

*Hub*: weak fairness for the worker, the loop, the grant of the lock, the steps of a round,
`stop()`, the scan and the return of a control; strong fairness for `ScanEnds`, because a
scan goes through a finite range of addresses while the model leaves the number of probes open.

## 6. Theorems

All proofs are checked by TLAPS for every value of the constants that the named
assumptions (`RequestAssumption`, `BoundAssumption`, `HubAssumption`, `EntitiesAssumption`, `FramesAssumption`, `OptionsAssumption`, `ConfigEntryAssumption`, `NoneAssumption`,
`MonitorAssumption`) allow: any number of calls, capacities, connections, devices, callers, outputs, registers, Covers, dialogs and entries of a trace. TLC
evaluates the same assumptions in every run. Some theorems have one hypothesis more, an assumption on how the component is used. None can be left out:

- `OneDialog`, at most one options dialog of the entry is open: `options_two_flows` is what happens without it.
- `Sparse(page)`, for the theorems on the page: of one millisecond it never holds more than `Limit - Capacity` entries, 800 with the code's
  1000 and 200. The code does not bound this by itself (the buffer keeps a run's times distinct in microseconds only), the line does: an exchange is three
  entries and takes milliseconds, an event needs a frame, and while the clock stands each entry counts one
  millisecond after the one before. With a page as short as the buffer TLC finds both properties violated (section 4).

| Theorem | Statement | Code behaviour |
| --- | --- | --- |
| `TypeCorrect` | `Spec => []TypeOK` (Transport) | every queue holds only calls of its own kind, and the places of worker, scan, coordinator and `close()` are always among those named |
| `CallsAreWhereTheySay` | `Spec => []PlacesInv` | a call at the gate is in the gate's queue once, a call in a queue is in one queue once and was never sent, a call on the bus is the worker's item |
| `SentAtMostOnce` | `Spec => []AtMostOnce` | no retry, reconnection or replacement writes a request twice |
| `ScanHasTheBus` | `Spec => []ExclusiveBus` | while the scan has the bus nobody else's call is queued or sent |
| `NoLateService` | `Spec => NoSendAfterVerdict` | a call that has an outcome is not sent later |
| `TransportKeepsPromise` | `Spec => KeepsPromise` | the transport implements `BusSchedule`: whatever the sockets and tasks do, its callers see an ordered schedule with one call on the bus |
| `ScheduleIsBounded` | `Spec => []QueueBounds` | neither share of `_controls` exceeds its capacity |
| `ActionsInOrder` | `Spec => []FifoActions` | actions are written in the order in which they were accepted |
| `TransportInvariant` | `Spec => []Inv` | the whole inductive invariant: calls, order of actions, connections, `close()`; answers under way as long as nothing was replaced |
| `AnswersReachTheirRequest` | `Spec => []AnswerIsOwn` | as long as no open connection was replaced, a late answer never passes for that of the next request |
| `NothingLeftOpen` | `Spec => []CloseIsFinal` | `close()` leaves no reader and no queued call, and no socket but those that a second `connect()` replaced before |
| `HubKeepsInv`, `HubTypeCorrect` | `Spec => []HubInv`, `[]TypeOK` (Hub) | the inductive invariant of the coordinator and its types |
| `HealthIsConfirmed` | `Spec => []HealthFollowsPolls` | an available device has been polled with success and has fewer than 3 failures |
| `NoControlReplayed` | `Spec => []LostHoldsNoControl` | a loss leaves no control in the queue |
| `RoundLockExcludes` | `Spec => []OneBusUser` | round, refresh and scan exclude each other |
| `BackoffReset` | `Spec => BackoffStartsOver` | the delays start over when the gateway is restored and not before; a failed attempt is followed by the next longer one |
| `ScanHasTheHub` | `Spec => []ScanAlone` | a scan that probes is not disturbed by a control or a poll, also not by one a cancelled task left |
| `StopIsFinal` | `Spec => []StoppedIsFinal` | after `stop()` the loop is gone, the connection is closed, nothing is on the bus and no call waits |
| `EveryAnswerArrives` | `AnswersArrive` (Frames) | every answer, that to a Cover's pulse included, is read off the stream whole and reaches its request |
| `EntitiesTypeCorrect`, `EntitiesKeepInv` | `Spec => []TypeOK`, `[]EntitiesInv` (Entities) | types and the inductive invariant of the entities |
| `QueuedIsShown` | `Spec => []ShowsQueued` | no poll undoes what an output shows while the command still waits |
| `CorrectedIsTrue` | `Spec => []Truthful` | an output that a poll corrected after its last command shows what the device holds |
| `CoverForgetsLosses` | `Spec => []AssumedIsCurrent` | an available Cover shows no action answered before a loss |
| `OptionsTyped` | `Spec => []TypeOK` (OptionsFlow) | options, dialogs and the entry keep their types |
| `LoadedRunsStored` | `Spec => []RunsStored` | a loaded entry without a reload ahead runs what is stored |
| `OneEntityDrives` | `Spec => []OneDriver` | no register has two entities, for any layout of groups and Covers |
| `OutputsKeepIdentity` | `Spec => IdentityKept` | pruning never takes the registry entry of an output that is still configured |
| `OneDialogStoresLoadable` | `Spec => []OptionsLoadable` under `OneDialog` | what the menus store, in any order, set-up accepts |
| `MergeIsHistory` | (an operator) | `mergeTraceHistory` of any two histories: entries of either, sorted by time, no key twice; no key is lost unless the limit is reached with entries that are not older |
| `MonitorTypeCorrect` | `Spec => []TypeOK` (Monitor) | the buffer stays within its capacity, the page within its limit |
| `ClearedIsGone` | `Spec => []ClearedStaysAway` | no entry from before a clear comes back behind its reply |
| `PageShowsOrder` | `Spec => []PageInOrder` under `[]Sparse(page)` | the page shows one run in the order of recording, however snapshots overlap and the clock is set, and whatever it lost |
| `SnapshotIsShown` | `Spec => ShowsTrace` under `[]Sparse(page)` | a page that took a snapshot in ends with it |
| `TransactionsShowExchanges` | `Spec => []TransactionsAreExchanges` under `[]Sparse(page)` | `buildTransactions` shows each exchange as one transaction, also with events in it |

**The argument for Transport.** None of the properties is inductive. `AtMostOnce` needs that a call
that was sent is not in a queue; that needs that each call is in at most one place, and that in turn
what `fut` says of a call at the gate. `PlacesInv` collects this: `CallsInv` (future and number of sends),
`QueueInv` (who may stand in each queue, without repetitions), `GateInv` (the gate's queue and the scan's turn),
`WorkerInv` (the worker's item), `IdleInv` (`_idle` means empty queues and no item) and
`ExclusiveBus`. `TypeOK /\ PlacesInv` is inductive. The proofs go action by action, with
lemmas for the shared pieces (`TakeNext`, `Enqueue`, `Settle`); facts about
sequences are in `SequenceFacts`. `NoSendAfterVerdict` follows from
`PlacesInv`: a step that writes takes a pending item from a queue, or is the worker's whose `connect()` is over.

Three further results rest on it.

- *The refinement.* `BusSchedule` sees futures, the two queues and the call on the bus. The steps of sockets, RX tasks, connecting and
  `disconnect()` change none of these (`Unseen`) and map to stutters. The others map to one step each:
  accepting, refusing, superseding (in its place), cancelling, taking the next, ending a call, closing. `PlacesInv` is what shows that the concrete guard implies the
  abstract one.
- *Capacities and order.* `QueueBounds` counts places of a kind in the queue: `SequenceFacts` says how that number changes under
  Append, replacement in place and the removal of a prefix. `FifoInv` gives each action the ticket of its acceptance: tickets grow along the queue, those in it are
  above all that were written or are with the worker, and a pending action is in the queue, with the worker or written. The last is
  what forbids overtaking.
- *Connections*: `SocketsInv` (no socket is open but the writer's and those that were replaced, and an RX task that reads from the
  writer's is the one the transport knows) and `CloseInv` (what each part of `close()` has undone) hold whatever overlaps. `AnswersInv` (an
  answer that can still be read belongs to the request under way) holds as long as nothing was replaced: a timeout closes the connection before the next request
  can be written, which is why a late answer has nobody left to read it.

**The argument for Hub.** `HubInv` is the conjunction of `HealthFollowsPolls`,
`LostHoldsNoControl`, `OneBusUser`, `BackoffUnused` (with an available gateway no delay has been used) and `BusHasCall`: a call on the bus is
pending. The last is needed because what a step of the worker settles is the call on the bus,
and both the lock's and the loss's facts speak about it. `BackoffReset` adds to `BackoffUnused` what each step does to the index
(`BackoffMoves`). `StopIsFinal` needs
two more facts, proved invariant with it: `Turns` (where `start()` and the loop stand agrees with the lock
and its queue) and `Final` (what holds from the end of the loop on).

**The argument for Entities.** `ClockInv`: no reading is in the future, and a poll and a command never
share one. `Published`: the state that is published already has nothing new for any output, so publishing it
again (failed polls, losses, other devices) changes nothing. `PollIsLast`: once the
worker has taken a poll, no command from before that poll waits any more, since controls go first, and
the answer is what the device held. `CorrectedIsQuiet`: of an output that a poll has corrected
nothing waits and nothing is on the bus. When the answer is published, either the poll began after the
output's last command, and by `PollIsLast` what it brings is the effect of that command, or it began
before, and `_apply_poll` drops it. `LossInv` does the same for Covers: `_last_available` is the
availability, and an action that was answered before a loss cannot come back after the recovery.
The proof works with `QuietStep`, the steps that show nothing new, and five steps that do.

**The argument for Frames.** An answer that `validate()` lets pass is an exception (5 bytes), the echo of a write (8 bytes) or a read with
the count that was asked for; by the builder's bounds (2000 bits, 125 registers) that count is between 1 and 250, and
even for registers, which is what `receive()` reads. A report of an S402 has the form of the echo of a write of a register, at an address
(0x01A0) that is neither a dimmer's (from 0x082A on) nor that of a Cover's pulse (0x019B).

**The argument for the options.** `DialogInv` says what each dialog holds at each of its steps: the managed device is in its snapshot, a
draft of the device list agrees with the snapshot on the models of what they share, an S402 to be added is new to it. It is inductive by
itself and gives the types. `EntryInv` follows the entry from the moment at which set-up has read the options: without a reload ahead the hub has
the stored lists, and once pruned the registry has nothing else. `OneDriver` and `IdentityKept` then follow
from lemmas on `Devices` alone: in options that load, outputs of different slaves are different, the relays of Covers are disjoint, a Switch gets only a free relay, and the outputs a Cover
owns are among the identities that pruning expects. For
`OptionsLoadable` the stored options must load already, and each confirmation must keep them so: under `OneDialog` the lists in the snapshot are those in store
(`SnapInv`), so what the dialog decided against its snapshot it decided against the store.

**The argument for the Monitor.** `MergeIsHistory` is about the operator: the ranks of distinct times and places are distinct (`Ranks`), so
`Sorted` lists each kept entry once and in order; that each key keeps a representative takes the least index at which it occurs (`LeastNumber`, an induction).
`ClearedStaysAway` needs to know what is on the channel. `OneReply`: at most one reply is under way, and while it is, the page waits for it and
has no other request under way. `ClearInv`: the buffer, and every snapshot behind the reply, hold entries recorded after the clear only. The page
takes the reply with its history emptied, and whatever follows is newer. The step of the proof that would fail if replies could
overtake snapshots is `ClearRuns` (the mutant `ClearRunsFirst`).

The theorems on the page share one more invariant, `TraceInv`. That a page is in order is not inductive: a merge puts what is new to the page
behind what is there, so one has to know that nothing new belongs before. Its parts:

- `History`: a number names one entry, and time follows the numbers within a run. This is what `Stamp` is for (the mutant `StampAsRead`).
- `SentInv` with `BufferInv`: each snapshot under way, and the buffer, is a `Window`, consecutive numbers of one run; a later one never ends before an
  earlier one (`Behind`), nor does what it shows again begin before the earlier one does (`NoGap`).
- `PageInv`: the page is in order as far as one run's clock says (`InOrder`; a later time of another run may hide an entry, hence `Hidden`), and it
  has the key of each entry of a snapshot that is not newer than what it has already (`Covered`).

`MergeKeepsOrder` and `MergeKeepsCover` say that a merge keeps the last two. Here `Sparse` is used, in `FullPage`: a
page that lost an entry is full of entries at least as late; a snapshot brings `Capacity` of them and one millisecond `Limit - Capacity`, so one
is later and not of the snapshot, and what was lost cannot be needed again. For `ShowsTrace`, `EndsWithWindow` concludes by
induction on the distance from the end. For the transactions the invariant also follows the numbers of an exchange (`Exchanges`:
its entries begin with a TX and no other exchange is among them; `Ongoing`: so does the one under way), and `OneOpener` turns that into equal openers.

**Only model-checked:** every liveness property, since liveness under fairness and `ENABLED` are
out of the prover's reach. Every safety property a passing run checks is stated by a theorem. Where an induction over numbers is enough, `LeastNumber` and
`GreatestNumber` of `SequenceFacts` provide it; no module here declares a recursive operator.

## 7. Disagreements

Met while modelling; each is a run that TLC ends with a counterexample.

1. `transport_close`, `transport.py:419`. `close()` cancels the worker while it is in the
   `disconnect()` of its error path. `_run` is left before it settles the item's future,
   and the item is in no queue: its caller waits for ever. `tests/test_transport.py:689-697`
   expects every pending call to end with `close()`.
2. `hub_deaf`, `coordinator.py:243`. After a timed-out control the worker disconnects and no loss is
   reported. With polling off the loop sleeps, the gateway stays "available" without
   a connection, and pushed S402 events are lost, against `event.py:60`.
3. `options_two_flows`, `config_flow.py:387`. A flow looks for a duplicate S402 in the snapshot it took when it opened, and appends to
   the options as they are when it is confirmed. Two dialogs open at once store one id twice, against
   `docs/development.md:80`; from then on every set-up fails (`s402.py:53-54`), and the dialog that could
   mend it does not open (`config_flow.py:705-707`).
4. `transport_overlap`, `transport.py:149`. A scan may run while the gateway is lost; the loop then waits for the round lock, and the worker
   connects for the probes. Cancelled while the worker is in `connect()`, the scan gives the lock to the loop, which connects as well. The second to
   finish replaces the connection of the first, on which the worker may have written its request already. Nobody closes that socket, and
   its RX task hands the next frame it reads to the request that waits by then, against `docs/development.md:58` (one TCP socket, at most one
   Modbus request in flight). In TLC's trace the stream is lost just before the probe is sent; a refresh that is cancelled does the same.

Seen while reading, described here and not the subject of a run:

- `transport.py:192`. `_disconnecting` is one flag for all connections. A connection opened while an older one is still in
  `wait_closed()` has its RX task see the flag and end at once; `docs/development.md:62` promises one long-lived reader. The model has
  it (`EveryCallEnds` holds nevertheless, by the time-out).
- `coordinator.py:182-183`. The `disconnect()` after a round in which all devices failed makes a control in flight fail with
  `GatewayError`; its handler then declares the gateway lost. The model has it.
- The cause of item 3 has other effects: `_persist_add`, `_persist_edit` and the removal of a device write the device list of the snapshot, so
  that a flow undoes what another one has stored meanwhile. If that takes an R410 away that has got Covers, the
  options do not load (`__init__.py:115`, `config_flow.py:703-704`); slave 1 and an S402 can come together likewise.
  `OptionsLoadable` is checked with one flow at a time for this reason.
- `config_flow.py:1605`. An interval stored while set-up awaits `hub.start()` finds no `runtime_data` to tell, and there is no
  reload: the hub runs with the interval from before until the next reload (`docs/development.md:84`: the runtime is told directly). `RunsStored`
  excepts it by `missed`.
- `trace.py:38-41`. Times are kept distinct in microseconds and published in milliseconds: two equal reports within one
  millisecond get the same key in the page, which keeps one of them, against `trace.py:39-40` and `docs/development.md:110`. `ShowsTrace` excepts
  entries that cannot be told apart.
- Home Assistant may deliver several WebSocket messages as one group; the continuation of the page's `_clear` then runs after a snapshot
  of that group was taken in. The model has `ClearDone` first.
- A page that selects its gateway again between a clear and its reply drops the reply: the buffer is empty, the page keeps its history.

## 8. What is not modelled

- The checksum itself (a frame's fits or does not), decoding of registers, statistics, logging.
- The dispatch of a report to the entity of its input and `Hub.subscribe_s402`: a table and a set, read and
  changed without an await between.
- In the entities: the brightness that a Light remembers, conversions of brightness and temperature, the masks of a Cover's commands.
- In the flows: texts, names, the scan range, the first form of a new entry (its result is where `OptionsFlow` starts), the
  gateway check of a reconfiguration (only its success has an effect), the removal of an entry. Two masters on the bus while a flow
  scans for an entry that is being retried (a hazard listed without a property).
- In the Monitor: rendering, filters, export, decoding, the choice among several gateways. Its pause button is `SetSchedule` of Hub.
- Diagnostics, constants, translations and brand have no state.
- Real time. A timeout may fire at any moment and delays have no length: that the backoff of a second outlasts a request is not used.
- An unsolicited frame that `validate()` would accept for a request it does not answer, other than a late answer.
- A stream of controls that never pauses.

## 9. Plan

Order: the most important behaviour first. Done: `Transport` with `BusSchedule`, `Hub`, `Entities`, `Devices`, `ConfigEntry`, `OptionsFlow`,
`Monitor` and `Frames`, modelled, checked and with their safety proved as section 6 says. Next:

1. **Connections in Hub**: a module that composes `Hub` with the connections of `Transport` would derive `RoundLockFree` and `Quiet`, which
   Transport takes over from the coordinator, from the round lock itself (`OneBusUser`).
2. **Pure operators** still open: conversions (`models.py:85-106`) and the masks of a Cover's commands (`r410_cover.py`).
