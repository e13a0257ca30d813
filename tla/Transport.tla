------------------------------ MODULE Transport ------------------------------
(***************************************************************************)
(* The RTU-over-TCP transport of one gateway (transport.py): callers       *)
(* schedule controls, actions and polls; one worker owns the bus; one RX   *)
(* task per connection reads the stream; connect() and disconnect() are    *)
(* run by the worker, by the coordinator and by close().                   *)
(*                                                                         *)
(* The program is single-threaded asyncio, so a step of the model is what  *)
(* one task does between two suspension points (an await that really       *)
(* waits).  Frames are abstracted to the request they answer and to how    *)
(* validate() judges them; a request id stands for one call of submit().   *)
(***************************************************************************)
EXTENDS Integers, Sequences, FiniteSets, SequencesExt

CONSTANTS
  Stateful,          \* calls submit(key = ...): latest-wins controls
  Action,            \* calls submit_action(): FIFO, never coalesced
  Poll,              \* calls submit(poll = True)
  Probe,             \* the scanner's submit(poll = True, exclusive = True)
  Cancellable,       \* bound: the calls whose caller may be cancelled
  Key, KeyOf,        \* CommandKeys, and the key of each stateful control
  StatefulCapacity,  \* stateful_capacity (256 in const.py)
  ActionCapacity,    \* action_capacity (32 in const.py)
  MaxConnections,    \* bound: TCP connections opened in one behaviour
  Drops,             \* bound: how the gateway may end a connection
  NoRequest          \* no request; at the gate, the scan's turn

Request == Stateful \cup Action \cup Poll \cup Probe
Control == Stateful \cup Action
Connection == 1 .. MaxConnections
Agent == {"worker", "owner", "closer"}     \* the callers of disconnect()

ASSUME RequestAssumption ==
  /\ NoRequest \notin Request
  /\ Stateful \cap (Action \cup Poll \cup Probe) = {}
  /\ Action \cap (Poll \cup Probe) = {}
  /\ Poll \cap Probe = {}
  /\ Cancellable \subseteq Request \ Probe
  /\ KeyOf \in [Stateful -> Key]
ASSUME BoundAssumption ==
  /\ StatefulCapacity \in Nat \ {0}
  /\ ActionCapacity \in Nat \ {0}
  /\ MaxConnections \in Nat \ {0}
  /\ Drops \subseteq {"eof", "reset"}

VARIABLES
  fut,           \* the future each call awaits, or where the call stands
  controls,      \* _controls: the ordered schedule of controls
  polls,         \* _polls: queued polls and probes
  nextAction,    \* _next_action_sequence
  ticket,        \* the ActionSlot sequence of each accepted action
  wake, idle,    \* the events _wake and _idle
  gateQ,         \* who waits for the lock _gate, in order
  scan, probe,   \* the scanner inside exclusive(), and its last probe
  worker,        \* where _run is suspended
  cur, err,      \* its item, and the error it will report after disconnect()
  pend,          \* _pending_response of the exchange under way
  writer,        \* the connection of _writer and _reader, 0 for None
  task,          \* the connection of _reader_task, 0 for None
  rx,            \* the RX task of each connection
  peer,          \* the socket of each connection
  opened,        \* _connections
  disconnecting, \* _disconnecting
  lossReported,  \* _loss_reported
  reaps,         \* the RX task whose end each disconnect() awaits, 0 for none
  gateway,       \* the coordinator's gateway_available
  owner,         \* the coordinator's own use of connect() and disconnect()
  closer,        \* close()
  owed,          \* the connection on which a request is still unanswered
  sends,         \* history: how often a request was written to a socket
  replaced       \* history: the open connections a second connect() replaced

queueVars == <<controls, polls, nextAction, ticket, wake, idle>>
gateVars  == <<gateQ, scan, probe>>
workVars  == <<worker, cur, err>>
linkVars  == <<writer, task, rx, peer, opened, disconnecting, lossReported, reaps,
               gateway, replaced>>
busVars   == <<owed, sends>>
vars == <<fut, queueVars, gateVars, workVars, pend, linkVars, owner, closer, busVars>>

Settled == {"result", "superseded", "device", "timeout", "protocol", "gateway",
            "offline", "full", "cancelled"}
Verdict == {"timeout", "protocol", "gateway"}   \* failures that end a connection
FutState == {"new", "gate", "pending"} \cup Settled

QueueType ==
  /\ controls \in Seq(Control)
  /\ polls \in Seq(Poll \cup Probe)
  /\ nextAction \in Nat
  /\ ticket \in [Action -> Nat]
  /\ wake \in BOOLEAN /\ idle \in BOOLEAN
GateType ==
  /\ gateQ \in Seq(Request \cup {NoRequest})
  /\ scan \in {"off", "gate", "drain", "bus"}
  /\ probe \in Probe \cup {NoRequest}
WorkType ==
  /\ worker \in {"none", "idle", "connecting", "exchange", "disconnect", "stopped"}
  /\ cur \in Request \cup {NoRequest}
  /\ err \in Verdict \cup {"none"} /\ (err = "none" <=> worker # "disconnect")
  /\ pend \in {"none", "waiting", "ok", "exception", "bad", "gateway"}
LinkType ==
  /\ writer \in {0} \cup Connection
  /\ task \in {0} \cup Connection
  /\ rx \in [Connection -> {"none", "new", "reading", "cancelled", "done"}]
  /\ peer \in [Connection -> {"unused", "up", "eof", "reset", "closed"}]
  /\ opened \in 0 .. MaxConnections
  /\ disconnecting \in BOOLEAN
  /\ lossReported \in BOOLEAN
  /\ reaps \in [Agent -> {0} \cup Connection]
  /\ gateway \in BOOLEAN
  /\ replaced \subseteq Connection
BusType ==
  /\ owed \in [Request -> {0} \cup Connection]
  /\ sends \in [Request -> Nat]
TypeOK ==
  /\ fut \in [Request -> FutState]
  /\ QueueType /\ GateType /\ WorkType /\ LinkType /\ BusType
  /\ owner \in {"idle", "connecting", "disconnect"}
  /\ closer \in {"open", "join", "disconnect", "done"}

Init ==
  /\ fut = [r \in Request |-> "new"]
  /\ controls = <<>> /\ polls = <<>>
  /\ nextAction = 0 /\ ticket = [r \in Action |-> 0]
  /\ wake = FALSE /\ idle = TRUE
  /\ gateQ = <<>> /\ scan = "off" /\ probe = NoRequest
  /\ worker = "none" /\ cur = NoRequest /\ err = "none" /\ pend = "none"
  /\ writer = 0 /\ task = 0
  /\ rx = [c \in Connection |-> "none"]
  /\ peer = [c \in Connection |-> "unused"]
  /\ opened = 0 /\ disconnecting = FALSE /\ lossReported = FALSE
  /\ reaps = [a \in Agent |-> 0]
  /\ gateway = TRUE /\ replaced = {}
  /\ owner = "idle" /\ closer = "open"
  /\ owed = [r \in Request |-> 0]
  /\ sends = [r \in Request |-> 0]

-----------------------------------------------------------------------------
(***************************************************************************)
(* State functions and the pieces handlers share.                          *)
(***************************************************************************)

closed == closer # "open"                                  \* _closed
Connected == writer # 0 /\ peer[writer] # "reset"          \* property connected
Link == IF Connected THEN writer ELSE 0
LiveTask == task # 0 /\ rx[task] # "done"
GateFree == scan \in {"off", "gate"}
Elems(q) == {q[i] : i \in DOMAIN q}
Depth(kind) == Cardinality({i \in DOMAIN controls : controls[i] \in kind})

\* A future takes its first outcome only; f is the value of fut so far.
Settle(f, r, outcome) ==
  IF f[r] = "pending" THEN [f EXCEPT ![r] = outcome] ELSE f

SettleAll(f, S, outcome) ==
  [r \in Request |-> IF r \in S /\ f[r] = "pending" THEN outcome ELSE f[r]]

\* discard_controls(): every queued control is told "offline".
Discarded(f) == SettleAll(f, Elems(controls), "offline")

\* Position i of a queue holds its first item whose caller has not cancelled.
FirstLiveLifo(q, f, i) == i = Len(q) /\ f[q[i]] # "cancelled"     \* mutant
FirstLiveOrNot(q, f, i) == i = 1                                  \* mutant
FirstLive(q, f, i) ==
  /\ f[q[i]] # "cancelled"
  /\ \A j \in 1 .. (i - 1) : f[q[j]] = "cancelled"
AllCancelled(q, f) == \A i \in DOMAIN q : f[q[i]] = "cancelled"

\* What the queue keeps when the item at i is taken.
AfterKeeping(q, i) == SubSeq(q, i, Len(q))                        \* mutant
After(q, i) == SubSeq(q, i + 1, Len(q))

\* _exchange up to its first suspension, on connection w (0: connect() waits).
StartOn(r, w) ==
  /\ cur' = r
  /\ worker' = IF w = 0 THEN "connecting" ELSE "exchange"
  /\ pend' = IF w = 0 THEN "none" ELSE "waiting"
  /\ owed' = IF w = 0 THEN owed ELSE [owed EXCEPT ![r] = w]
  /\ sends' = IF w = 0 THEN sends ELSE [sends EXCEPT ![r] = @ + 1]

\* The head of the worker's loop, with the queues and connection as they are
\* then: controls before polls, cancelled items skipped, else go idle.
TakeNext(f, ctl, pol, w) ==
  \/ \E i \in DOMAIN ctl :
        /\ FirstLive(ctl, f, i)
        /\ controls' = After(ctl, i) /\ polls' = pol
        /\ StartOn(ctl[i], w)
        /\ UNCHANGED <<wake, idle>>
  \/ /\ AllCancelled(ctl, f)
     /\ \E i \in DOMAIN pol :
          /\ FirstLive(pol, f, i)
          /\ controls' = <<>> /\ polls' = After(pol, i)
          /\ StartOn(pol[i], w)
          /\ UNCHANGED <<wake, idle>>
  \/ /\ AllCancelled(ctl, f) /\ AllCancelled(pol, f)
     /\ controls' = <<>> /\ polls' = <<>>
     /\ worker' = "idle" /\ cur' = NoRequest /\ pend' = "none"
     /\ wake' = FALSE /\ idle' = TRUE
     /\ UNCHANGED busVars

\* connect() after open_connection: the new connection takes the place of what
\* is there by now.  The replaced one is not closed, and its RX task goes on.
Opens(c) ==
  /\ c = opened + 1 /\ c \in Connection
  /\ opened' = c /\ writer' = c /\ task' = c
  /\ rx' = [rx EXCEPT ![c] = "new"]
  /\ peer' = [peer EXCEPT ![c] = "up"]
  /\ lossReported' = FALSE
  /\ replaced' = IF Connected THEN replaced \cup {writer} ELSE replaced
  /\ UNCHANGED <<disconnecting, reaps>>

\* disconnect() after the RX task is gone: fail the response waited for (p),
\* drop the writer and start to close it.
CloseWriterKept(p) ==                                             \* mutant
  /\ pend' = IF p = "waiting" THEN "gateway" ELSE p
  /\ writer' = writer
  /\ peer' = [c \in Connection |-> IF c = writer THEN "closed" ELSE peer[c]]
CloseWriter(p) ==
  /\ pend' = IF p = "waiting" THEN "gateway" ELSE p
  /\ writer' = 0
  /\ peer' = [c \in Connection |-> IF c = writer THEN "closed" ELSE peer[c]]

\* disconnect() called by agent a, up to its first suspension.  Without an RX
\* task and a writer it has none, and is over at once.
BeginDisconnect(a, p) ==
  /\ \/ /\ LiveTask
        /\ rx' = [rx EXCEPT ![task] = "cancelled"]
        /\ reaps' = [reaps EXCEPT ![a] = task]
        /\ disconnecting' = TRUE
        /\ pend' = p
        /\ UNCHANGED <<writer, peer>>
     \/ /\ ~LiveTask
        /\ CloseWriter(p)
        /\ disconnecting' = (writer # 0)
        /\ UNCHANGED <<rx, reaps>>
  /\ task' = 0
  /\ UNCHANGED <<opened, lossReported, gateway, replaced>>
DisconnectWaits == LiveTask \/ writer # 0

\* disconnect() of agent a goes on once the RX task it cancelled has ended.
Reaped(a, p) ==
  /\ reaps[a] # 0 /\ rx[reaps[a]] = "done"
  /\ reaps' = [reaps EXCEPT ![a] = 0]
  /\ CloseWriter(p)
  /\ disconnecting' = (writer # 0)
  /\ UNCHANGED <<task, rx, opened, lossReported, gateway, replaced>>

\* disconnect() of agent a returns from wait_closed (or its timeout).
SocketClosed(a) ==
  /\ reaps[a] = 0
  /\ disconnecting' = FALSE
  /\ UNCHANGED <<writer, task, rx, peer, opened, lossReported, reaps, gateway, replaced>>

\* The task running disconnect() as agent a is cancelled.  A cancellation that
\* meets the wait for the RX task is delivered when that task has ended.
DisconnectCancelled(a) ==
  /\ reaps[a] # 0 => rx[reaps[a]] = "done"
  /\ reaps' = [reaps EXCEPT ![a] = 0]
  /\ disconnecting' = FALSE
  /\ UNCHANGED <<writer, task, rx, peer, opened, lossReported, gateway, replaced>>

-----------------------------------------------------------------------------
(***************************************************************************)
(* Callers: submit(), submit_action(), cancellation, the scanner.          *)
(***************************************************************************)

\* _enqueue raises: the call fails and nothing is queued.
Refuse(r, outcome) ==
  /\ fut' = [fut EXCEPT ![r] = outcome]
  /\ UNCHANGED <<controls, polls, nextAction, ticket, wake, idle, worker>>

\* _enqueue has placed r: the worker is woken, and created the first time.
PlacedAsleep ==                                                   \* mutant
  /\ wake' = wake /\ idle' = FALSE
  /\ worker' = IF worker = "none" THEN "idle" ELSE worker
Placed ==
  /\ wake' = TRUE /\ idle' = FALSE
  /\ worker' = IF worker = "none" THEN "idle" ELSE worker

EnqueuePollAsControl(r) ==                                        \* mutant
  /\ r \in Poll \cup Probe
  /\ fut' = [fut EXCEPT ![r] = "pending"]
  /\ controls' = Append(controls, r)
  /\ UNCHANGED <<polls, nextAction, ticket>>
  /\ Placed
EnqueuePoll(r) ==
  /\ r \in Poll \cup Probe
  /\ fut' = [fut EXCEPT ![r] = "pending"]
  /\ polls' = Append(polls, r)
  /\ UNCHANGED <<controls, nextAction, ticket>>
  /\ Placed

ActionsFullLate == Depth(Action) > ActionCapacity                 \* mutant
ActionsFull == Depth(Action) >= ActionCapacity

EnqueueAction(r) ==
  /\ r \in Action
  /\ \/ /\ ActionsFull
        /\ Refuse(r, "full")
     \/ /\ ~ActionsFull
        /\ fut' = [fut EXCEPT ![r] = "pending"]
        /\ nextAction' = nextAction + 1
        /\ ticket' = [ticket EXCEPT ![r] = nextAction + 1]
        /\ controls' = Append(controls, r)
        /\ UNCHANGED polls
        /\ Placed

SameKey(r) == {i \in DOMAIN controls :
                 controls[i] \in Stateful /\ KeyOf[controls[i]] = KeyOf[r]}

\* The newer control takes the older one's place in the schedule.
ReplaceAtEnd(q, i, r) == Append(RemoveAt(q, i), r)                \* mutant
Replace(q, i, r) == [q EXCEPT ![i] = r]

EnqueueStateful(r) ==
  /\ r \in Stateful
  /\ \/ \E i \in SameKey(r) :
           /\ fut' = [Settle(fut, controls[i], "superseded") EXCEPT ![r] = "pending"]
           /\ controls' = Replace(controls, i, r)
           /\ UNCHANGED <<polls, nextAction, ticket>>
           /\ Placed
     \/ /\ SameKey(r) = {}
        /\ Depth(Stateful) >= StatefulCapacity
        /\ Refuse(r, "full")
     \/ /\ SameKey(r) = {}
        /\ Depth(Stateful) < StatefulCapacity
        /\ fut' = [fut EXCEPT ![r] = "pending"]
        /\ controls' = Append(controls, r)
        /\ UNCHANGED <<polls, nextAction, ticket>>
        /\ Placed

Enqueue(r) ==
  \/ closed /\ Refuse(r, "offline")
  \/ ~closed /\ (EnqueuePoll(r) \/ EnqueueAction(r) \/ EnqueueStateful(r))

\* The coordinator connects and disconnects under the round lock, which polls and
\* scans need too.  While it connects gateway_available is false, which refuses
\* controls; start() connects before there is any caller.
Quiet(r) == owner = "idle" \/ (owner = "disconnect" /\ r \in Control)

\* A call arrives; the lock _gate is first come, first served.
Submit(r) ==
  /\ r \notin Probe /\ fut[r] = "new" /\ Quiet(r)
  /\ \/ /\ GateFree /\ gateQ = <<>>
        /\ Enqueue(r)
        /\ UNCHANGED gateQ
     \/ /\ ~(GateFree /\ gateQ = <<>>)
        /\ fut' = [fut EXCEPT ![r] = "gate"]
        /\ gateQ' = Append(gateQ, r)
        /\ UNCHANGED <<queueVars, worker>>
  /\ UNCHANGED <<scan, probe, cur, err, pend, linkVars, owner, closer, busVars>>

\* The first waiter gets the lock: a request is queued, the scan keeps it.
PassGate ==
  /\ GateFree /\ gateQ # <<>>
  /\ gateQ' = Tail(gateQ)
  /\ \/ /\ Head(gateQ) # NoRequest
        /\ Enqueue(Head(gateQ))
        /\ UNCHANGED scan
     \/ /\ Head(gateQ) = NoRequest
        /\ scan' = "drain"
        /\ UNCHANGED <<fut, queueVars, worker>>
  /\ UNCHANGED <<probe, cur, err, pend, linkVars, owner, closer, busVars>>

\* The caller's task is cancelled: at the gate it leaves, else its future is
\* cancelled and the item stays where it is.
CancelCall(r) ==
  /\ r \in Cancellable
  /\ \/ /\ fut[r] = "gate"
        /\ \E i \in DOMAIN gateQ : gateQ[i] = r /\ gateQ' = RemoveAt(gateQ, i)
     \/ /\ fut[r] = "pending"
        /\ UNCHANGED gateQ
  /\ fut' = [fut EXCEPT ![r] = "cancelled"]
  /\ UNCHANGED <<queueVars, scan, probe, workVars, pend, linkVars, owner, closer, busVars>>

\* scan() enters exclusive(): take the gate, then wait for _idle.
ScanBegin ==
  /\ scan = "off" /\ owner = "idle"
  /\ \E p \in Probe : fut[p] = "new"
  /\ \/ /\ gateQ = <<>> /\ scan' = "drain" /\ UNCHANGED gateQ
     \/ /\ gateQ # <<>> /\ scan' = "gate" /\ gateQ' = Append(gateQ, NoRequest)
  /\ probe' = NoRequest
  /\ UNCHANGED <<fut, queueVars, workVars, pend, linkVars, owner, closer, busVars>>

\* _probe: answers, exceptions, timeouts and bad frames let the scan go on.
ScanGoesOn == fut[probe] \in {"result", "device", "timeout", "protocol"}

ScanUndrained == scan = "drain" /\ controls = <<>> /\ polls = <<>> \* mutant
ScanDrained == scan = "drain" /\ idle                             \* _idle.wait()

ScanProbe(p) ==
  /\ \/ ScanDrained
     \/ scan = "bus" /\ ScanGoesOn
  /\ p \in Probe /\ fut[p] = "new"
  /\ Enqueue(p)
  /\ scan' = "bus" /\ probe' = p
  /\ UNCHANGED <<gateQ, cur, err, pend, linkVars, owner, closer, busVars>>

\* The range is done, or a probe raised: the gate is released.
ScanEnd ==
  /\ scan = "bus" /\ fut[probe] \in Settled
  /\ scan' = "off" /\ probe' = NoRequest
  /\ UNCHANGED <<fut, gateQ, queueVars, workVars, pend, linkVars, owner, closer, busVars>>

\* The scan task is cancelled, wherever it waits.
ScanCancel ==
  /\ \/ /\ scan = "gate"
        /\ \E i \in DOMAIN gateQ : gateQ[i] = NoRequest /\ gateQ' = RemoveAt(gateQ, i)
        /\ UNCHANGED fut
     \/ /\ scan = "drain"
        /\ UNCHANGED <<gateQ, fut>>
     \/ /\ scan = "bus"
        /\ fut' = Settle(fut, probe, "cancelled")
        /\ UNCHANGED gateQ
  /\ scan' = "off" /\ probe' = NoRequest
  /\ UNCHANGED <<queueVars, workVars, pend, linkVars, owner, closer, busVars>>

-----------------------------------------------------------------------------
(***************************************************************************)
(* The worker _run, until close() cancels it.                              *)
(***************************************************************************)

Running == ~closed

WorkerWakes ==
  /\ Running /\ worker = "idle" /\ wake
  /\ TakeNext(fut, controls, polls, Link)
  /\ UNCHANGED <<fut, nextAction, ticket, gateVars, err, linkVars, owner, closer>>

\* open_connection succeeds for the worker, which writes its request at once.
WorkerConnects(c) ==
  /\ Running /\ worker = "connecting"
  /\ Opens(c)
  /\ StartOn(cur, c)
  /\ UNCHANGED <<fut, queueVars, gateVars, err, gateway, owner, closer>>

\* The exchange of cur ends without an error that ends the connection.
Finish(outcome) ==
  LET f == Settle(fut, cur, outcome)
  IN  /\ fut' = f
      /\ TakeNext(f, controls, polls, Link)
      /\ UNCHANGED <<nextAction, ticket, gateVars, err, linkVars, owner, closer>>

WorkerSucceeds ==
  Running /\ worker = "exchange" /\ pend = "ok" /\ Finish("result")

WorkerDeviceException ==
  Running /\ worker = "exchange" /\ pend = "exception" /\ Finish("device")

\* Any other error: discard the controls, disconnect(), then report it.
Fail(e) ==
  /\ BeginDisconnect("worker", "none")
  /\ \/ /\ DisconnectWaits
        /\ fut' = Discarded(fut)
        /\ controls' = <<>>
        /\ worker' = "disconnect" /\ err' = e
        /\ UNCHANGED <<polls, wake, idle, cur, busVars>>
     \/ /\ ~DisconnectWaits
        /\ fut' = Settle(Discarded(fut), cur, e)
        /\ TakeNext(fut', <<>>, polls, 0)
        /\ UNCHANGED err
  /\ UNCHANGED <<nextAction, ticket, gateVars, owner, closer>>

WorkerConnectFails == Running /\ worker = "connecting" /\ Fail("gateway")
WorkerProtocolError == Running /\ worker = "exchange" /\ pend = "bad" /\ Fail("protocol")
\* The RX task has reported the loss, or drain() has met a reset connection.
WorkerGatewayError ==
  /\ Running /\ worker = "exchange"
  /\ \/ pend = "gateway"
     \/ pend = "waiting" /\ owed[cur] # 0 /\ peer[owed[cur]] = "reset"
  /\ Fail("gateway")
\* The deadline may fire before the worker sees an answer that has arrived.
WorkerTimeoutKeepsLink ==                                         \* mutant
  Running /\ worker = "exchange" /\ Finish("timeout")
WorkerTimeout == Running /\ worker = "exchange" /\ Fail("timeout")

\* The worker's disconnect() is over: report the error, take the next item.
ResumeRetrying(w) ==                                              \* mutant
  /\ err' = "none"
  /\ StartOn(cur, w)
  /\ UNCHANGED <<fut, queueVars, gateVars, owner, closer>>
Resume(w) ==
  /\ fut' = Settle(fut, cur, err)
  /\ err' = "none"
  /\ TakeNext(fut', controls, polls, w)
  /\ UNCHANGED <<nextAction, ticket, gateVars, owner, closer>>

WorkerReaped ==
  /\ Running /\ worker = "disconnect"
  /\ Reaped("worker", pend)
  /\ \/ /\ writer # 0
        /\ UNCHANGED <<fut, queueVars, gateVars, workVars, owner, closer, busVars>>
     \/ /\ writer = 0
        /\ Resume(0)

WorkerDisconnected ==
  /\ Running /\ worker = "disconnect"
  /\ SocketClosed("worker")
  /\ Resume(Link)

WorkerStep ==
  \/ WorkerWakes \/ \E c \in Connection : WorkerConnects(c)
  \/ WorkerConnectFails \/ WorkerSucceeds \/ WorkerDeviceException
  \/ WorkerProtocolError \/ WorkerGatewayError \/ WorkerTimeout
  \/ WorkerReaped \/ WorkerDisconnected

-----------------------------------------------------------------------------
(***************************************************************************)
(* The RX task of connection c, and the network under it.                  *)
(***************************************************************************)

Current(c) == c = writer /\ ~disconnecting
RxDone(c) ==
  /\ rx' = [rx EXCEPT ![c] = "done"]
  /\ task' = IF task = c THEN 0 ELSE task

\* The loop condition, tested at the start and after every frame.
RxLoops(c) ==
  \/ /\ Current(c)
     /\ rx' = [rx EXCEPT ![c] = "reading"]
     /\ UNCHANGED task
  \/ ~Current(c) /\ RxDone(c)

\* _mark_connection_lost, with the callback Coordinator.gateway_lost, which
\* discards the controls.
MarkLost(c) ==
  \/ /\ ~lossReported
     /\ lossReported' = TRUE
     /\ CloseWriter(pend)
     /\ fut' = Discarded(fut) /\ controls' = <<>>
     /\ gateway' = FALSE
  \/ /\ lossReported
     /\ UNCHANGED <<lossReported, pend, writer, peer, fut, controls, gateway>>

RxStart(c) ==
  /\ rx[c] = "new" /\ RxLoops(c)
  /\ UNCHANGED <<fut, queueVars, gateVars, workVars, pend, writer, peer, opened,
                 disconnecting, lossReported, reaps, gateway, replaced, owner, closer, busVars>>

\* A frame answering q arrives.  "ok": validate() will accept it; "exception":
\* a Modbus exception; "bad": wrong slave, function or echo.
RxAnswer(c, q, kind) ==
  /\ rx[c] = "reading" /\ peer[c] = "up" /\ owed[q] = c
  /\ owed' = [owed EXCEPT ![q] = 0]
  /\ pend' = IF pend = "waiting" THEN kind ELSE pend
  /\ RxLoops(c)
  /\ UNCHANGED <<fut, queueVars, gateVars, workVars, writer, peer, opened,
                 disconnecting, lossReported, reaps, gateway, replaced, owner, closer, sends>>

\* An S402 event: dispatched to listeners, never to the pending request.
RxEvent(c) ==
  /\ rx[c] = "reading" /\ peer[c] = "up"
  /\ RxLoops(c)
  /\ UNCHANGED <<fut, queueVars, gateVars, workVars, pend, writer, peer, opened,
                 disconnecting, lossReported, reaps, gateway, replaced, owner, closer, busVars>>

\* A frame that answers nothing that was asked on c: validate() will refuse it.
RxNoise(c) ==
  /\ rx[c] = "reading" /\ peer[c] = "up"
  /\ pend' = IF pend = "waiting" THEN "bad" ELSE pend
  /\ RxLoops(c)
  /\ UNCHANGED <<fut, queueVars, gateVars, workVars, writer, peer, opened,
                 disconnecting, lossReported, reaps, gateway, replaced, owner, closer,
                 busVars>>

\* receive() cannot frame the stream: the request waiting gets the error, else
\* the connection is lost; the RX task ends either way.
RxMalformed(c) ==
  /\ rx[c] = "reading" /\ peer[c] = "up"
  /\ RxDone(c)
  /\ \/ /\ pend = "waiting" /\ pend' = "bad"
        /\ UNCHANGED <<lossReported, writer, peer, fut, controls, gateway>>
     \/ pend # "waiting" /\ Current(c) /\ MarkLost(c)
     \/ /\ pend # "waiting" /\ ~Current(c)
        /\ UNCHANGED <<lossReported, pend, writer, peer, fut, controls, gateway>>
  /\ UNCHANGED <<polls, nextAction, ticket, wake, idle, gateVars, workVars, opened,
                 disconnecting, reaps, replaced, owner, closer, busVars>>

\* End of stream or a socket error.
RxEnds(c) ==
  /\ rx[c] = "reading" /\ peer[c] \in {"eof", "reset", "closed"}
  /\ RxDone(c)
  /\ \/ Current(c) /\ MarkLost(c)
     \/ /\ ~Current(c)
        /\ UNCHANGED <<lossReported, pend, writer, peer, fut, controls, gateway>>
  /\ UNCHANGED <<polls, nextAction, ticket, wake, idle, gateVars, workVars, opened,
                 disconnecting, reaps, replaced, owner, closer, busVars>>

RxCancelSwallowed(c) ==                                           \* mutant
  /\ rx[c] = "cancelled"
  /\ rx' = [rx EXCEPT ![c] = "reading"]
  /\ UNCHANGED <<fut, queueVars, gateVars, workVars, pend, writer, task, peer, opened,
                 disconnecting, lossReported, reaps, gateway, replaced, owner, closer, busVars>>
RxCancelled(c) ==
  /\ rx[c] = "cancelled"
  /\ rx' = [rx EXCEPT ![c] = "done"]
  /\ UNCHANGED <<fut, queueVars, gateVars, workVars, pend, writer, task, peer, opened,
                 disconnecting, lossReported, reaps, gateway, replaced, owner, closer, busVars>>

\* The gateway closes (eof) or resets the connection.
PeerDrops(c, how) ==
  /\ peer[c] = "up"
  /\ peer' = [peer EXCEPT ![c] = how]
  /\ UNCHANGED <<fut, queueVars, gateVars, workVars, pend, writer, task, rx, opened,
                 disconnecting, lossReported, reaps, gateway, replaced, owner, closer, busVars>>

\* What the RX task owes its connection: to start, to stop, to see its end.
RxStep(c) == RxStart(c) \/ RxCancelled(c) \/ RxEnds(c)

-----------------------------------------------------------------------------
(***************************************************************************)
(* The coordinator's connect(), disconnect() and discard_controls(), and   *)
(* close().  Coordinator.stop() ends a connect() before close() runs.      *)
(***************************************************************************)

\* The lock under which rounds and scans run.  A cancelled round or scan lets go
\* of it, whatever the worker still does for it.
RoundLockFree ==
  scan = "off" /\ \A p \in Poll : fut[p] \notin {"gate", "pending"}

\* start() connects first of all; the loop connects once the gateway is lost.
\* connect() of an open transport returns at once.
OwnerConnect ==
  /\ owner = "idle" /\ ~closed /\ RoundLockFree
  /\ ~gateway \/ (opened = 0 /\ \A r \in Request : fut[r] = "new")
  /\ \/ /\ ~Connected
        /\ owner' = "connecting"
        /\ UNCHANGED linkVars
     \/ /\ Connected
        /\ gateway' = TRUE
        /\ UNCHANGED <<writer, task, rx, peer, opened, disconnecting, lossReported, reaps,
                       replaced, owner>>
  /\ UNCHANGED <<fut, queueVars, gateVars, workVars, pend, closer, busVars>>

OwnerConnects(c) ==
  /\ owner = "connecting" /\ owner' = "idle"
  /\ Opens(c)
  /\ gateway' = TRUE
  /\ UNCHANGED <<fut, queueVars, gateVars, workVars, pend, closer, busVars>>

OwnerConnectFails ==
  /\ owner = "connecting" /\ owner' = "idle"
  /\ UNCHANGED <<fut, queueVars, gateVars, workVars, pend, linkVars, closer, busVars>>

\* A poll round without one success ends in disconnect().  An earlier failure
\* stands for those of the round.
RoundFails == \E p \in Poll : fut[p] \in {"device", "timeout", "protocol"}
OwnerDisconnect ==
  /\ owner = "idle" /\ RoundLockFree /\ RoundFails
  /\ BeginDisconnect("owner", pend)
  /\ owner' = IF DisconnectWaits THEN "disconnect" ELSE "idle"
  /\ UNCHANGED <<fut, queueVars, gateVars, workVars, closer, busVars>>

OwnerReaped ==
  /\ owner = "disconnect"
  /\ Reaped("owner", pend)
  /\ owner' = IF writer # 0 THEN "disconnect" ELSE "idle"
  /\ UNCHANGED <<fut, queueVars, gateVars, workVars, closer, busVars>>

OwnerDisconnected ==
  /\ owner = "disconnect" /\ owner' = "idle"
  /\ SocketClosed("owner")
  /\ UNCHANGED <<fut, queueVars, gateVars, workVars, pend, closer, busVars>>

\* Coordinator.stop(), or the cancellation of a refresh, meets disconnect().
OwnerCancelled ==
  /\ owner = "disconnect" /\ owner' = "idle"
  /\ DisconnectCancelled("owner")
  /\ UNCHANGED <<fut, queueVars, gateVars, workVars, pend, closer, busVars>>

\* A caller that got a GatewayError runs gateway_lost.
OwnerDiscards ==
  /\ \E r \in Request : fut[r] = "gateway"
  /\ fut' = Discarded(fut) /\ controls' = <<>>
  /\ gateway' = FALSE
  /\ UNCHANGED <<polls, nextAction, ticket, wake, idle, gateVars, workVars, pend, writer, task,
                 rx, peer, opened, disconnecting, lossReported, reaps, replaced, owner, closer,
                 busVars>>

\* close() after the worker is gone: cancel what is queued, then disconnect().
CloseQueues ==
  /\ fut' = SettleAll(fut, Elems(controls) \cup Elems(polls), "cancelled")
  /\ controls' = <<>> /\ polls' = <<>> /\ idle' = TRUE
  /\ BeginDisconnect("closer", pend)
  /\ closer' = IF DisconnectWaits THEN "disconnect" ELSE "done"
  /\ UNCHANGED <<nextAction, ticket, wake, gateVars, cur, err, owner, busVars>>

Close ==
  /\ closer = "open" /\ owner # "connecting"
  /\ \/ /\ worker = "none"
        /\ CloseQueues /\ UNCHANGED worker
     \/ /\ worker # "none"
        /\ closer' = "join"
        /\ UNCHANGED <<fut, queueVars, gateVars, workVars, pend, linkVars, owner, busVars>>

\* The cancelled worker ends.  In connect() or an exchange it cancels its item;
\* in disconnect() the item's future is left as it is.
WorkerCancelled ==
  /\ closer = "join" /\ worker \notin {"none", "stopped"}
  /\ worker' = "stopped" /\ cur' = NoRequest /\ err' = "none" /\ pend' = "none"
  /\ \/ /\ worker = "idle"
        /\ UNCHANGED <<fut, linkVars>>
     \/ /\ worker \in {"connecting", "exchange"}
        /\ fut' = Settle(fut, cur, "cancelled")
        /\ UNCHANGED linkVars
     \/ /\ worker = "disconnect"
        /\ DisconnectCancelled("worker")
        /\ UNCHANGED fut
  /\ UNCHANGED <<queueVars, gateVars, owner, closer, busVars>>

CloseJoined ==
  /\ closer = "join" /\ worker = "stopped" /\ worker' = "none"
  /\ CloseQueues

CloseReaped ==
  /\ closer = "disconnect"
  /\ Reaped("closer", pend)
  /\ closer' = IF writer # 0 THEN "disconnect" ELSE "done"
  /\ UNCHANGED <<fut, queueVars, gateVars, workVars, owner, busVars>>

CloseDisconnected ==
  /\ closer = "disconnect" /\ closer' = "done"
  /\ SocketClosed("closer")
  /\ UNCHANGED <<fut, queueVars, gateVars, workVars, pend, owner, busVars>>

CloseStep == WorkerCancelled \/ CloseJoined \/ CloseReaped \/ CloseDisconnected
OwnerStep ==
  \/ \E c \in Connection : OwnerConnects(c)
  \/ OwnerConnectFails \/ OwnerReaped \/ OwnerDisconnected
ScanStep == ScanEnd \/ \E p \in Probe : ScanProbe(p)

-----------------------------------------------------------------------------
Next ==
  \/ \E r \in Request : Submit(r) \/ CancelCall(r)
  \/ PassGate
  \/ ScanBegin \/ ScanStep \/ ScanCancel
  \/ WorkerStep
  \/ \E c \in Connection : RxStep(c) \/ RxEvent(c) \/ RxNoise(c) \/ RxMalformed(c)
  \/ \E c \in Connection, q \in Request, k \in {"ok", "exception", "bad"} : RxAnswer(c, q, k)
  \/ \E c \in Connection, how \in Drops : PeerDrops(c, how)
  \/ OwnerConnect \/ OwnerDisconnect \/ OwnerDiscards \/ OwnerCancelled \/ OwnerStep
  \/ Close \/ CloseStep

Spec == Init /\ [][Next]_vars

\* asyncio runs every ready task and every timer; nothing makes the gateway
\* answer, a caller call, or the coordinator connect.
Fairness ==
  /\ WF_vars(WorkerStep) /\ WF_vars(OwnerStep) /\ WF_vars(CloseStep)
  /\ WF_vars(PassGate) /\ WF_vars(ScanStep)
  /\ \A c \in Connection : WF_vars(RxStep(c))
FairSpec == Spec /\ Fairness

-----------------------------------------------------------------------------
(***************************************************************************)
(* What must hold.                                                         *)
(***************************************************************************)

\* Never more pending controls than the two capacities, and never two pending
\* stateful controls with one key: a replacement must not slip past either.
QueueBounds ==
  /\ Cardinality({i \in DOMAIN controls : controls[i] \in Stateful}) <= StatefulCapacity
  /\ Cardinality({i \in DOMAIN controls : controls[i] \in Action}) <= ActionCapacity
  /\ \A i, j \in DOMAIN controls :
        /\ i # j
        /\ {controls[i], controls[j]} \subseteq Stateful
        => KeyOf[controls[i]] # KeyOf[controls[j]]

\* An uncertain write is never replayed: whatever fails and reconnects, a
\* request is written to a socket at most once.
AtMostOnce == \A r \in Request : sends[r] <= 1

\* A request whose caller was told that it was superseded, discarded, refused
\* or over is never written afterwards; a cancelled one only if the worker was
\* already connecting for it.
NoSendAfterVerdict ==
  [][\A r \in Request :
        sends'[r] # sends[r] => fut[r] = "pending" \/ (fut[r] = "cancelled" /\ r = cur)]_vars

\* docs/development.md:58: at most one Modbus request is in flight.  While one
\* is, no task still reads a connection for the answer of another.  The code
\* breaks it when two tasks are inside connect() at once.
OneInFlight ==
  pend = "waiting" =>
     \A r \in Request :
        owed[r] # 0 /\ rx[owed[r]] = "reading" /\ peer[owed[r]] = "up" => r = cur

\* Unless a connection was replaced while it was open, an answer that arrives
\* while a response is awaited answers the request that is on the bus: after a
\* time-out, a reset or a bad frame the connection goes with its late answers.
AnswerIsOwn == replaced = {} => OneInFlight

\* Accepted actions are written in the order in which they were accepted.
FifoActions ==
  \A a, b \in Action :
     ticket[a] # 0 /\ ticket[a] < ticket[b] /\ sends[b] > 0
        => sends[a] > 0 \/ fut[a] # "pending"

\* While a scan has the bus, nothing but probes is queued or under way, also
\* when an earlier scan was cancelled with its probe in flight.
ExclusiveBus ==
  scan = "bus" => ({cur} \cup Elems(controls) \cup Elems(polls)) \subseteq (Probe \cup {NoRequest})

\* After close() the transport holds no connection, RX task or queued item, and
\* the only sockets still open are those it had lost before, to a second
\* connect(); also when the coordinator's disconnect() ran across it.
CloseIsFinal ==
  closer = "done" =>
     /\ writer = 0 /\ task = 0 /\ controls = <<>> /\ polls = <<>>
     /\ \A c \in Connection : peer[c] \in {"up", "eof"} => c \in replaced

\* Every accepted call gets an outcome while the transport is open: no wake-up
\* is lost, and no disconnect() waits for ever.
EveryCallEnds ==
  \A r \in Request : fut[r] = "pending" ~> (fut[r] # "pending" \/ closed)

\* close() comes to its end.
CloseEnds == closed ~> closer = "done"

\* What tests/test_transport.py, test_close_cancels_pending, expects of close():
\* no call is left waiting.  The code breaks it: a worker cancelled inside its
\* disconnect() drops its item without an outcome.
NoOrphanFuture == closer = "done" => \A r \in Request : fut[r] # "pending"

-----------------------------------------------------------------------------
(***************************************************************************)
(* The inductive invariant behind the safety properties above, in the      *)
(* parts that the *_proofs modules take one by one: where each call is     *)
(* (PlacesInv), the order of the actions (FifoInv), and the connections,   *)
(* close() and the answers under way (LinkInv).                            *)
(***************************************************************************)
Distinct(q) == \A i, j \in DOMAIN q : i # j => q[i] # q[j]
Busy == {"connecting", "exchange", "disconnect"}

\* A call that is not accepted was never written.
CallsInv ==
  \A r \in Request :
     /\ sends[r] <= 1
     /\ fut[r] \in {"new", "gate"} => sends[r] = 0 /\ r # cur

\* What is queued waits for its first write and is queued once.
QueueInv(q) ==
  /\ Distinct(q)
  /\ \A i \in DOMAIN q :
       fut[q[i]] \in {"pending", "cancelled"} /\ sends[q[i]] = 0 /\ q[i] # cur

\* Who waits at the gate waits there once; the scan only while it says so.
GateInv ==
  /\ Distinct(gateQ)
  /\ \A i \in DOMAIN gateQ :
       IF gateQ[i] = NoRequest THEN scan = "gate" ELSE fut[gateQ[i]] = "gate"

\* A busy worker holds one item nobody else settles, unwritten while it connects.
WorkerInv ==
  /\ worker \in Busy => cur # NoRequest /\ fut[cur] \in {"pending", "cancelled"}
  /\ worker \notin Busy => cur = NoRequest
  /\ worker = "connecting" => sends[cur] = 0

\* _idle means that the bus has drained.
IdleInv == idle => controls = <<>> /\ polls = <<>> /\ cur = NoRequest

\* Where every call is: the facts that AtMostOnce and ExclusiveBus rest on.
PlacesInv ==
  /\ CallsInv /\ QueueInv(controls) /\ QueueInv(polls)
  /\ GateInv /\ WorkerInv /\ IdleInv /\ ExclusiveBus

\* Tickets grow along the schedule, behind every action that was written or is
\* with the worker; an accepted action stays in sight until it has its outcome.
FifoInv ==
  /\ \A a \in Action :
        ticket[a] <= nextAction /\ (fut[a] \in {"new", "gate"} => ticket[a] = 0)
  /\ \A i, j \in DOMAIN controls :
        i < j /\ {controls[i], controls[j]} \subseteq Action
        => ticket[controls[i]] < ticket[controls[j]]
  /\ \A i \in DOMAIN controls, b \in Action :
        controls[i] \in Action /\ (sends[b] > 0 \/ b = cur) => ticket[b] < ticket[controls[i]]
  /\ \A b \in Action : cur \in Action /\ sends[b] > 0 => ticket[b] <= ticket[cur]
  /\ Running => \A a \in Action :
        fut[a] = "pending" => sends[a] > 0 \/ a = cur \/ a \in Elems(controls)
  /\ FifoActions

\* No socket is open but the writer's and those that were replaced; the RX task
\* that reads from the writer's is the one the transport knows.
SocketsInv ==
  /\ writer <= opened /\ \A r \in Request : owed[r] <= opened
  /\ \A c \in Connection : peer[c] \in {"up", "eof"} => c = writer \/ c \in replaced
  /\ writer # 0 /\ rx[writer] \in {"new", "reading"} => task = writer
  /\ owner = "connecting" => ~closed

\* An answer can still be read for the request under way only.
Awaited(r) == owed[r] # 0 /\ rx[owed[r]] \in {"new", "reading"} /\ peer[owed[r]] = "up"
AnswersInv ==
  /\ Running \/ pend = "waiting" =>
        \A r \in Request : Awaited(r) => r = cur /\ worker = "exchange" /\ owed[r] = task
  /\ worker = "exchange" /\ pend \in {"ok", "exception"} => owed[cur] = 0

\* What close() has undone stays undone.
CloseInv ==
  /\ closer \in {"disconnect", "done"} =>
        task = 0 /\ controls = <<>> /\ polls = <<>> /\ worker = "none"
  /\ closer = "done" \/ (closer = "disconnect" /\ reaps["closer"] = 0) => writer = 0

LinkInv == SocketsInv /\ CloseInv /\ (replaced = {} => AnswersInv)

Inv == PlacesInv /\ FifoInv /\ LinkInv

-----------------------------------------------------------------------------
(***************************************************************************)
(* The transport implements the schedule it promises.                      *)
(***************************************************************************)
Promise == INSTANCE BusSchedule WITH
  Poll <- Poll \cup Probe, outcome <- fut, schedule <- controls,
  queue <- polls, bus <- cur, running <- Running

\* Every step of the transport is a step of BusSchedule or changes nothing there.
KeepsPromise == Promise!Spec
=============================================================================
