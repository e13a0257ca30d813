--------------------------------- MODULE Hub ---------------------------------
(***************************************************************************)
(* The hub of one gateway: Hub.start/scan/stop (hub.py) and the            *)
(* coordinator's polling loop, health thresholds and reconnection          *)
(* (coordinator.py), over the transport.                                   *)
(*                                                                         *)
(* Of the transport only what the hub can tell apart is kept: which call   *)
(* has the bus, which calls wait, whether a connection is open.  Module    *)
(* Transport has the rest: queue order, sockets, and the suspension inside *)
(* disconnect(), which is one step here.                                   *)
(***************************************************************************)
EXTENDS Integers, SequencesExt

CONSTANTS
  Slaves,        \* number of configured devices, polled in the order 1 .. Slaves
  Control,       \* callers of async_command and async_action_command
  MaxBackoff,    \* bound of _backoff_index, which is clamped when it is read
  Events         \* bound: which of "refresh", "scan", "options", "cancel" happen

Device == 1 .. Slaves
Caller == Control \cup {"poll", "probe"}
User == {"start", "loop", "refresh", "scan"}          \* who takes _round_lock

ASSUME HubAssumption ==
  /\ Slaves \in Nat
  /\ MaxBackoff \in Nat \ {0}
  /\ Control \cap {"poll", "probe", "nobody", "orphan"} = {}

VARIABLES
  hub,           \* "new", "polling" (start), "up", "stopping", "stopped"
  gateway,       \* gateway_available
  backoff,       \* _backoff_index
  avail,         \* the slaves with state.available
  populated,     \* the slaves with state.populated
  fails,         \* consecutive_failures, capped at 3
  interval,      \* poll_interval # 0
  paused,        \* _runtime_poll_paused
  wake,          \* _schedule_wake
  lock, waiters, \* the holder of _round_lock, and who waits for it, in order
  loop,          \* where _loop is suspended
  refresh,       \* an explicit refresh: "idle", "lock", "round"
  scan,          \* Hub.scan: "off", "lock", "drain", "bus"
  at, won,       \* the round: its slave, 0 for no round; successes # 0
  call,          \* what each caller's submit() has come to
  bus, phase,    \* the call the worker has taken, and how far it is
  link           \* the transport is connected

roundVars == <<lock, at, won, refresh>>
pollVars == <<interval, paused>>
healthVars == <<populated, fails>>
busVars == <<bus, phase, link>>
vars == <<hub, gateway, backoff, avail, healthVars, pollVars, wake, waiters, loop,
          roundVars, scan, call, busVars>>

Outcome == {"result", "refused", "failed", "gateway", "cancelled"}

TypeOK ==
  /\ hub \in {"new", "polling", "up", "stopping", "stopped"}
  /\ gateway \in BOOLEAN /\ backoff \in 0 .. MaxBackoff
  /\ avail \subseteq Device /\ populated \subseteq Device
  /\ fails \in [Device -> 0 .. 3]
  /\ interval \in BOOLEAN /\ paused \in BOOLEAN /\ wake \in BOOLEAN
  /\ lock \in User \cup {"free"} /\ waiters \in Seq(User)
  /\ loop \in {"off", "new", "backoff", "lock", "connect", "wait", "turn", "round", "pace", "done"}
  /\ refresh \in {"idle", "lock", "round"} /\ scan \in {"off", "lock", "drain", "bus"}
  /\ at \in 0 .. (Slaves + 1) /\ won \in BOOLEAN
  /\ call \in [Caller -> {"idle", "pending"} \cup Outcome]
  /\ bus \in Caller \cup {"nobody", "orphan"}
  /\ phase \in {"idle", "connecting", "exchange", "failed"}
  /\ link \in BOOLEAN

Init ==
  /\ hub = "new" /\ gateway = TRUE /\ backoff = 0
  /\ avail = {} /\ populated = {} /\ fails = [d \in Device |-> 0]
  /\ interval \in BOOLEAN /\ paused = FALSE /\ wake = FALSE
  /\ lock = "free" /\ waiters = <<>>
  /\ loop = "off" /\ refresh = "idle" /\ scan = "off"
  /\ at = 0 /\ won = FALSE
  /\ call = [c \in Caller |-> "idle"]
  /\ bus = "nobody" /\ phase = "idle" /\ link = FALSE

BackgroundPaused == ~interval \/ paused
Scanning == scan \in {"drain", "bus"}
Closed == hub = "stopped"                               \* Transport._closed
BusIdle == bus = "nobody" /\ \A c \in Caller : call[c] # "pending"

-----------------------------------------------------------------------------
(***************************************************************************)
(* The transport's worker and its connection.                              *)
(***************************************************************************)

Start(c, up) == bus' = c /\ phase' = IF up THEN "exchange" ELSE "connecting"

\* The worker takes the next call: a control if there is one.
TakeNext(calls, up) ==
  /\ call' = calls
  /\ \/ \E c \in Control : calls[c] = "pending" /\ Start(c, up)
     \/ /\ \A c \in Control : calls[c] # "pending"
        /\ \E c \in {"poll", "probe"} : calls[c] = "pending" /\ Start(c, up)
     \/ /\ \A c \in Caller : calls[c] # "pending"
        /\ bus' = "nobody" /\ phase' = "idle"

\* What a caller has to act on.  The caller of a control acts on a GatewayError
\* only; with any other outcome it is simply free to ask again.
Told(c, outcome) == IF c \in Control /\ outcome # "gateway" THEN "idle" ELSE outcome

\* The call on the bus gets its outcome; one whose caller is gone is an orphan.
Settled(outcome) == IF bus \in Caller THEN [call EXCEPT ![bus] = Told(bus, outcome)] ELSE call

\* discard_controls(): all that wait, but not the one on the bus.
Discards(calls) ==
  [c \in Caller |-> IF c \in Control \ {bus} /\ calls[c] = "pending" THEN Told(c, "offline")
                                                                ELSE calls[c]]

\* Coordinator.gateway_lost
GatewayLostKeeping(calls) ==                                           \* mutant
  /\ gateway' = FALSE /\ wake' = TRUE /\ avail' = {}
  /\ call' = calls
GatewayLost(calls) ==
  /\ gateway' = FALSE /\ wake' = TRUE /\ avail' = {}
  /\ call' = Discards(calls)

WorkerWakes ==
  /\ phase = "idle" /\ ~BusIdle
  /\ TakeNext(call, link)
  /\ UNCHANGED <<hub, gateway, backoff, avail, healthVars, pollVars, wake, waiters, loop,
                 roundVars, scan, link>>

WorkerConnects ==
  /\ phase = "connecting" /\ phase' = "exchange" /\ link' = TRUE
  /\ UNCHANGED <<hub, gateway, backoff, avail, healthVars, pollVars, wake, waiters, loop,
                 roundVars, scan, call, bus>>

\* "refused": a Modbus exception, or an answer decode() rejects.
WorkerAnswered(outcome) ==
  /\ phase = "exchange"
  /\ TakeNext(Settled(outcome), link)
  /\ UNCHANGED <<hub, gateway, backoff, avail, healthVars, pollVars, wake, waiters, loop,
                 roundVars, scan, link>>

\* Time-out or bad frame; no connection; the connection failed meanwhile.  The
\* worker discards the controls and disconnects.
WorkerFails ==
  /\ \/ /\ phase = "exchange"
        /\ TakeNext(Discards(Settled("failed")), FALSE)
     \/ /\ phase \in {"connecting", "failed"}
        /\ TakeNext(Discards(Settled("gateway")), FALSE)
  /\ link' = FALSE
  /\ UNCHANGED <<hub, gateway, backoff, avail, healthVars, pollVars, wake, waiters, loop,
                 roundVars, scan>>

WorkerStep ==
  \/ WorkerWakes \/ WorkerConnects \/ WorkerFails
  \/ \E o \in {"result", "refused"} : WorkerAnswered(o)

\* The connection goes, and with it the response waited for.
Disconnects == link' = FALSE /\ phase' = IF phase = "exchange" THEN "failed" ELSE phase

\* The RX task meets the end of the stream: on_connection_lost.
LinkLost ==
  /\ link /\ Disconnects
  /\ GatewayLost(call)
  /\ UNCHANGED <<hub, backoff, healthVars, pollVars, waiters, loop, roundVars, scan, bus>>

-----------------------------------------------------------------------------
(***************************************************************************)
(* The round lock, and the loop between its suspension points.             *)
(***************************************************************************)

\* `who` gives up waiting; at most one of its tasks waits.
Leave(who) ==
  \/ \E i \in DOMAIN waiters : waiters[i] = who /\ waiters' = RemoveAt(waiters, i)
  \/ (\A i \in DOMAIN waiters : waiters[i] # who) /\ UNCHANGED waiters

NextBackoff(b) == IF b < MaxBackoff THEN b + 1 ELSE b

\* The top of _loop, with the gateway g, _schedule_wake w and index b.
LoopTopAsleep(g, w, b) ==                                              \* mutant
  /\ loop' = IF ~g \/ BackgroundPaused THEN "wait" ELSE "turn"
  /\ backoff' = b
  /\ wake' = (w /\ loop' # "turn")
  /\ waiters' = IF loop' = "turn" THEN Append(waiters, "loop") ELSE waiters
LoopTop(g, w, b) ==
  /\ loop' = IF ~g THEN "backoff" ELSE IF BackgroundPaused THEN "wait" ELSE "turn"
  /\ backoff' = IF g THEN b ELSE NextBackoff(b)
  /\ wake' = (w /\ loop' # "turn")
  /\ waiters' = IF loop' = "turn" THEN Append(waiters, "loop") ELSE waiters

\* The loop's task starts, the schedule is due, or somebody set _schedule_wake.
\* A wait clears the event, the sleep(0) after a slow round does not.
LoopWakes ==
  /\ \/ loop = "new" /\ LoopTop(gateway, wake, backoff)
     \/ loop = "wait" /\ wake /\ LoopTop(gateway, FALSE, backoff)
     \/ loop = "pace" /\ \E w \in {FALSE, wake} : LoopTop(gateway, w, backoff)
  /\ UNCHANGED <<hub, gateway, avail, healthVars, pollVars, roundVars, scan, call, busVars>>

BackoffOver ==
  /\ loop = "backoff" /\ loop' = "lock"
  /\ waiters' = Append(waiters, "loop")
  /\ UNCHANGED <<hub, gateway, backoff, avail, healthVars, pollVars, wake, roundVars, scan,
                 call, busVars>>

\* The first in line gets the lock, and starts a round unless it came to
\* reconnect or to scan.
LockFreeAlways == TRUE                                                 \* mutant
LockFree == lock = "free"
Grant ==
  /\ LockFree /\ waiters # <<>>
  /\ lock' = Head(waiters) /\ waiters' = Tail(waiters)
  /\ loop' = IF lock' # "loop" THEN loop ELSE IF loop = "lock" THEN "connect" ELSE "round"
  /\ refresh' = IF lock' = "refresh" THEN "round" ELSE refresh
  /\ scan' = IF lock' = "scan" THEN "drain" ELSE scan
  /\ at' = IF lock' = "scan" \/ (lock' = "loop" /\ loop = "lock") THEN 0 ELSE 1
  /\ won' = FALSE
  /\ UNCHANGED <<hub, gateway, backoff, avail, healthVars, pollVars, wake, call, busVars>>

\* Reconnected.  Nothing is polled while paused: confirmed health is restored.
RestoredAll == IF BackgroundPaused THEN populated ELSE avail            \* mutant
Restored == IF BackgroundPaused THEN {d \in populated : fails[d] < 3} ELSE avail

LoopConnects ==
  /\ loop = "connect"
  /\ link' = TRUE /\ gateway' = TRUE
  /\ avail' = Restored
  /\ lock' = "free"
  /\ LoopTop(TRUE, wake, 0)
  /\ UNCHANGED <<hub, healthVars, pollVars, at, won, refresh, scan, call, bus, phase>>

LoopConnectFailsAfresh ==                                              \* mutant
  /\ loop = "connect" /\ ~link
  /\ lock' = "free"
  /\ LoopTop(gateway, wake, 0)
  /\ UNCHANGED <<hub, gateway, avail, healthVars, pollVars, at, won, refresh, scan, call,
                 busVars>>
LoopConnectFails ==
  /\ loop = "connect" /\ ~link
  /\ lock' = "free"
  /\ LoopTop(gateway, wake, backoff)
  /\ UNCHANGED <<hub, gateway, avail, healthVars, pollVars, at, won, refresh, scan, call,
                 busVars>>

LoopStep == LoopWakes \/ BackoffOver \/ LoopConnects \/ LoopConnectFails

-----------------------------------------------------------------------------
(***************************************************************************)
(* A poll round, under the lock; background when the loop runs it.         *)
(***************************************************************************)

\* async_poll_round returns or raises to its caller, with the gateway g.
RoundEnds(g) ==
  /\ at' = 0 /\ won' = FALSE /\ lock' = "free"
  /\ \/ /\ lock = "loop"
        /\ loop' = IF g THEN "pace" ELSE "backoff"
        /\ backoff' = IF g THEN backoff ELSE NextBackoff(backoff)
        /\ UNCHANGED <<hub, refresh>>
     \/ /\ lock = "refresh" /\ refresh' = "idle"
        /\ UNCHANGED <<hub, loop, backoff>>
     \/ /\ lock = "start"                        \* Hub.start goes on
        /\ hub' = IF g THEN "up" ELSE "stopping"
        /\ loop' = IF g THEN "new" ELSE loop
        /\ UNCHANGED <<refresh, backoff>>

AskPoll == at \in Device /\ call["poll"] = "idle"
Cut == lock = "loop" /\ BackgroundPaused

PollSlave ==
  /\ AskPoll /\ ~Cut /\ ~Closed
  /\ call' = [call EXCEPT !["poll"] = "pending"]
  /\ UNCHANGED <<hub, gateway, backoff, avail, healthVars, pollVars, wake, waiters, loop,
                 roundVars, scan, busVars>>

\* Paused in mid-round, or the transport is closed and submit() raises.
RoundCut ==
  /\ AskPoll /\ (Cut \/ Closed)
  /\ RoundEnds(gateway)
  /\ UNCHANGED <<gateway, avail, healthVars, pollVars, wake, waiters, scan, call, busVars>>

\* On to the next slave; after the last one, disconnect() if none answered.
NextSlave(w) ==
  /\ call' = [call EXCEPT !["poll"] = "idle"]
  /\ \/ /\ at < Slaves
        /\ at' = at + 1 /\ won' = w
        /\ UNCHANGED <<hub, backoff, loop, lock, refresh, link, phase>>
     \/ /\ at = Slaves /\ w
        /\ RoundEnds(gateway)
        /\ UNCHANGED <<link, phase>>
     \/ /\ at = Slaves /\ ~w
        /\ at' = at + 1 /\ won' = w
        /\ Disconnects
        /\ UNCHANGED <<hub, backoff, loop, lock, refresh>>

PollSucceedsLate ==                                                    \* mutant
  /\ call["poll"] = "result"
  /\ NextSlave(TRUE)
  /\ fails' = [fails EXCEPT ![at'] = 0]
  /\ populated' = populated \cup {at'} /\ avail' = avail \cup {at'}
  /\ UNCHANGED <<gateway, pollVars, wake, waiters, scan, bus>>
PollSucceeds ==
  /\ call["poll"] = "result"
  /\ fails' = [fails EXCEPT ![at] = 0]
  /\ populated' = populated \cup {at} /\ avail' = avail \cup {at}
  /\ NextSlave(TRUE)
  /\ UNCHANGED <<gateway, pollVars, wake, waiters, scan, bus>>

PollFails ==
  /\ call["poll"] \in {"refused", "failed"}
  /\ fails' = [fails EXCEPT ![at] = IF @ < 3 THEN @ + 1 ELSE @]
  /\ avail' = IF fails'[at] = 3 THEN avail \ {at} ELSE avail
  /\ NextSlave(won)
  /\ UNCHANGED <<gateway, populated, pollVars, wake, waiters, scan, bus>>

PollLosesGateway ==
  /\ call["poll"] = "gateway"
  /\ GatewayLost([call EXCEPT !["poll"] = "idle"])
  /\ RoundEnds(FALSE)
  /\ UNCHANGED <<healthVars, pollVars, waiters, scan, busVars>>

\* close() cancelled the poll's future.
PollClosed ==
  /\ call["poll"] = "cancelled"
  /\ call' = [call EXCEPT !["poll"] = "idle"]
  /\ RoundEnds(gateway)
  /\ UNCHANGED <<gateway, avail, healthVars, pollVars, wake, waiters, scan, busVars>>

\* Past the last slave: disconnect() is over, or no device is configured.
RoundOver ==
  /\ at = Slaves + 1
  /\ RoundEnds(gateway)
  /\ UNCHANGED <<gateway, avail, healthVars, pollVars, wake, waiters, scan, call, busVars>>

RoundStep ==
  \/ PollSlave \/ RoundCut \/ PollSucceeds \/ PollFails
  \/ PollLosesGateway \/ PollClosed \/ RoundOver

-----------------------------------------------------------------------------
(***************************************************************************)
(* Callers: controls, refreshes, scans, options; cancellation of a task.   *)
(***************************************************************************)

\* async_command, async_action_command: refused at once, or submitted.
ControlUnchecked == gateway /\ avail # {}                              \* mutant
ControlChecked == ~Scanning /\ gateway /\ avail # {}

ControlAsks(c) ==
  /\ hub \in {"up", "stopping"} /\ call[c] = "idle"
  /\ ControlChecked
  /\ call' = [call EXCEPT ![c] = "pending"]
  /\ UNCHANGED <<hub, gateway, backoff, avail, healthVars, pollVars, wake, waiters, loop,
                 roundVars, scan, busVars>>

\* The caller sees a GatewayError and reports it to the coordinator.
ControlReturns(c) ==
  /\ call[c] = "gateway"
  /\ GatewayLost([call EXCEPT ![c] = "idle"])
  /\ UNCHANGED <<hub, backoff, healthVars, pollVars, waiters, loop, roundVars, scan, busVars>>

\* The task of `who` is cancelled: it leaves the lock, and the call it awaits
\* is skipped by the worker, or finished for nobody.
AbortKeepsBus(who, own) ==                                             \* mutant
  /\ Leave(who)
  /\ \/ /\ lock = who /\ lock' = "free"
        /\ at' = 0 /\ won' = FALSE
        /\ call' = [call EXCEPT ![own] = "idle"]
        /\ UNCHANGED bus
     \/ /\ lock # who
        /\ UNCHANGED <<lock, at, won, call, bus>>
  /\ UNCHANGED <<gateway, backoff, avail, healthVars, pollVars, phase, link>>
Abort(who, own) ==
  /\ Leave(who)
  /\ \/ /\ lock = who /\ lock' = "free"
        /\ at' = 0 /\ won' = FALSE
        /\ call' = [call EXCEPT ![own] = "idle"]
        /\ bus' = IF bus = own THEN "orphan" ELSE bus
     \/ /\ lock # who
        /\ UNCHANGED <<lock, at, won, call, bus>>
  /\ UNCHANGED <<gateway, backoff, avail, healthVars, pollVars, phase, link>>

RefreshAsks ==
  /\ "refresh" \in Events /\ hub = "up" /\ refresh = "idle"
  /\ refresh' = "lock" /\ waiters' = Append(waiters, "refresh")
  /\ UNCHANGED <<hub, gateway, backoff, avail, healthVars, pollVars, wake, loop, lock, at, won,
                 scan, call, busVars>>

RefreshCancelled ==
  /\ "cancel" \in Events /\ refresh # "idle" /\ refresh' = "idle"
  /\ Abort("refresh", "poll")
  /\ UNCHANGED <<hub, wake, loop, scan>>

ScanAsks ==
  /\ "scan" \in Events /\ hub = "up" /\ scan = "off"
  /\ scan' = "lock" /\ waiters' = Append(waiters, "scan")
  /\ UNCHANGED <<hub, gateway, backoff, avail, healthVars, pollVars, wake, loop, roundVars,
                 call, busVars>>

\* exclusive() has the bus to itself, then one probe after the other.
ScanProbes ==
  /\ ~Closed
  /\ \/ scan = "drain" /\ BusIdle
     \/ scan = "bus" /\ call["probe"] \in {"result", "refused", "failed"}
  /\ scan' = "bus"
  /\ call' = [call EXCEPT !["probe"] = "pending"]
  /\ UNCHANGED <<hub, gateway, backoff, avail, healthVars, pollVars, wake, waiters, loop,
                 roundVars, busVars>>

\* The range is done, or a probe raised.  Either way the schedule is woken.
ScanEnds ==
  /\ \/ scan = "bus" /\ call["probe"] \in Outcome
     \/ scan = "drain" /\ Closed
  /\ scan' = "off" /\ lock' = "free" /\ wake' = TRUE
  /\ \/ /\ call["probe"] = "gateway"
        /\ GatewayLost([call EXCEPT !["probe"] = "idle"])
     \/ /\ call["probe"] # "gateway"
        /\ call' = [call EXCEPT !["probe"] = "idle"]
        /\ UNCHANGED <<gateway, avail>>
  /\ UNCHANGED <<hub, backoff, healthVars, pollVars, waiters, loop, at, won, refresh, busVars>>

ScanCancelled ==
  /\ "cancel" \in Events /\ scan # "off" /\ scan' = "off"
  /\ Abort("scan", "probe")
  /\ wake' = (wake \/ Scanning)
  /\ UNCHANGED <<hub, loop, refresh>>

\* set_poll_interval from the options flow, set_runtime_poll_paused from the
\* Monitor: both wake the loop.
SetScheduleAsleep ==                                                   \* mutant
  /\ "options" \in Events /\ hub = "up"
  /\ interval' \in BOOLEAN
  /\ UNCHANGED <<hub, gateway, backoff, avail, healthVars, paused, wake, waiters, loop, roundVars,
                 scan, call, busVars>>
SetSchedule ==
  /\ "options" \in Events /\ hub = "up"
  /\ \/ interval' \in BOOLEAN /\ UNCHANGED paused
     \/ interval /\ paused' \in BOOLEAN /\ UNCHANGED interval
  /\ wake' = TRUE
  /\ UNCHANGED <<hub, gateway, backoff, avail, healthVars, waiters, loop, roundVars, scan, call,
                 busVars>>

-----------------------------------------------------------------------------
(***************************************************************************)
(* Hub.start and Hub.stop.                                                 *)
(***************************************************************************)

StartConnects ==
  /\ hub = "new" /\ hub' = "polling"
  /\ link' = TRUE
  /\ waiters' = Append(waiters, "start")
  /\ UNCHANGED <<gateway, backoff, avail, healthVars, pollVars, wake, loop, roundVars, scan,
                 call, bus, phase>>

\* Setup fails or is cancelled, also inside its first round, the entry is
\* unloaded, or Home Assistant shuts down.  A second stop() finds everything
\* cancelled and changes nothing.
StopBegins ==
  /\ hub' = "stopping"
  /\ \/ /\ hub \in {"new", "up"}
        /\ UNCHANGED <<gateway, backoff, avail, healthVars, pollVars, waiters, lock, at, won,
                       call, busVars>>
     \/ hub = "polling" /\ Abort("start", "poll")
  /\ UNCHANGED <<wake, loop, refresh, scan>>

\* Coordinator.stop: the loop is cancelled wherever it waits.
LoopCancelSwallowed ==                                                 \* mutant
  /\ hub = "stopping" /\ loop \notin {"off", "done"} /\ loop' = "pace"
  /\ Abort("loop", "poll")
  /\ UNCHANGED <<hub, wake, refresh, scan>>
LoopCancelled ==
  /\ hub = "stopping" /\ loop \notin {"off", "done"} /\ loop' = "done"
  /\ Abort("loop", "poll")
  /\ UNCHANGED <<hub, wake, refresh, scan>>

\* Transport.close
LoopLeft == TRUE                                                       \* mutant
LoopGone == loop \in {"off", "done"}
CloseTransport ==
  /\ hub = "stopping" /\ LoopGone
  /\ hub' = "stopped"
  /\ call' = [c \in Caller |-> IF call[c] = "pending" THEN Told(c, "cancelled") ELSE call[c]]
  /\ bus' = "nobody" /\ phase' = "idle" /\ link' = FALSE
  /\ UNCHANGED <<gateway, backoff, avail, healthVars, pollVars, wake, waiters, loop, roundVars,
                 scan>>

StopStep == LoopCancelled \/ CloseTransport

Next ==
  \/ StartConnects \/ StopBegins \/ StopStep
  \/ WorkerStep \/ LinkLost
  \/ LoopStep \/ Grant \/ RoundStep
  \/ \E c \in Control : ControlAsks(c) \/ ControlReturns(c)
  \/ RefreshAsks \/ RefreshCancelled
  \/ ScanAsks \/ ScanProbes \/ ScanEnds \/ ScanCancelled
  \/ SetSchedule

Spec == Init /\ [][Next]_vars

\* asyncio runs every task that is ready and every timer; a scan's range is
\* finite.  Nobody has to ask, to answer, to stop or to change the schedule.
Fairness ==
  /\ WF_vars(WorkerStep) /\ WF_vars(LoopStep) /\ WF_vars(Grant) /\ WF_vars(RoundStep)
  /\ WF_vars(StopStep) /\ WF_vars(ScanProbes \/ ScanEnds) /\ SF_vars(ScanEnds)
  /\ \A c \in Control : WF_vars(ControlReturns(c))
FairSpec == Spec /\ Fairness

-----------------------------------------------------------------------------
(***************************************************************************)
(* What must hold.                                                         *)
(***************************************************************************)

\* Available means confirmed by a poll and fewer than three failures since,
\* on whichever path a slave became available.
HealthFollowsPolls == \A d \in avail : d \in populated /\ fails[d] < 3

\* No control waits while the gateway is lost, so none is sent after the
\* coordinator has reconnected.
LostHoldsNoControl == ~gateway => \A c \in Control : call[c] = "pending" => c = bus

\* Reconnecting, a round and a scan exclude each other, and their requests are
\* only with the transport while they run.
OneBusUser ==
  /\ loop = "connect" => lock = "loop" /\ at = 0
  /\ at # 0 => lock \in {"start", "loop", "refresh"}
  /\ Scanning => lock = "scan"
  /\ call["poll"] # "idle" => at \in Device
  /\ call["probe"] # "idle" => scan = "bus"

\* A restored gateway makes the delays start over, and nothing else does: not a
\* wake-up, a pause, a round or another loss.  An attempt that fails is followed
\* by the next longer delay.
BackoffStartsOver ==
  [][/\ IF gateway' THEN backoff' = 0 ELSE backoff' >= backoff
     /\ loop = "connect" /\ loop' = "backoff"
           => backoff' > backoff \/ backoff' = MaxBackoff]_vars

\* An available gateway has used none of the delays yet.
BackoffUnused == gateway => backoff = 0

\* The call on the bus is one that waits for its outcome; what a cancelled task
\* leaves there is an orphan.
BusHasCall == bus \in Caller => call[bus] = "pending"

\* Together, and with TypeOK, they are inductive: they need each other.
HubInv ==
  /\ HealthFollowsPolls /\ LostHoldsNoControl /\ OneBusUser /\ BackoffUnused
  /\ BusHasCall

\* Once a scan probes, no control and no poll waits or is under way, also not
\* one left over by a cancelled task.
ScanAlone ==
  scan = "bus" => /\ bus \in {"probe", "nobody"}
                  /\ \A c \in Caller \ {"probe"} : call[c] # "pending"

\* After stop() nothing runs on the bus, whatever was under way.
StoppedIsFinal ==
  hub = "stopped" => /\ loop \in {"off", "done"} /\ ~link /\ bus = "nobody"
                     /\ \A c \in Caller : call[c] # "pending"

\* A lost gateway is connected to again, whatever the loop was doing and
\* whoever has the lock, also while polling is paused.
Reconnects == (hub = "up" /\ ~gateway) ~> (loop = "connect" \/ hub # "up" \/ gateway)

\* Polling that is on goes on: no pause, scan, loss or wake-up is missed.
Polling == hub = "up" /\ gateway /\ ~BackgroundPaused
KeepsPolling == Polling ~> (~Polling \/ (lock = "loop" /\ at # 0))

\* stop() comes to its end.
StopEnds == hub = "stopping" ~> hub = "stopped"

\* What event.py says of availability: a gateway that is available is connected,
\* or will be.  The code breaks it while polling is off: the worker closes the
\* connection after a time-out, and nobody opens it again.
NoDeafGateway ==
  (hub = "up" /\ gateway /\ ~link) ~> (link \/ ~gateway \/ hub # "up")
=============================================================================
