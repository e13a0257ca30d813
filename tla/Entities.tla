------------------------------ MODULE Entities ------------------------------
(***************************************************************************)
(* The Lights, Switches and Covers of one device (light.py, switch.py,     *)
(* cover.py), the state that the coordinator keeps of it and publishes to  *)
(* them, and the device itself.                                            *)
(*                                                                         *)
(* A Light or Switch shows a command at once and then ignores the polls    *)
(* that began before it.  A Cover has no feedback: it shows its last       *)
(* successful action, until the device may have been out of reach.  Of the *)
(* transport only the order of service is kept: one call on the bus, and   *)
(* controls before polls (module Transport).                               *)
(***************************************************************************)
EXTENDS Integers, Sequences

CONSTANTS
  Output,        \* Lights and Switches
  Register,      \* what they write: holding registers or coils
  Owner,         \* the output of each register
  Main,          \* the register that every command of an output writes
  Value, None,   \* what registers hold; no value
  Cover,         \* the Covers of the device
  MaxActions,    \* bound: Cover actions that wait
  MaxClock       \* bound: readings of loop.time()

Time == 0 .. MaxClock
ShapeIsAction == [open |-> "open", close |-> "close", stop |-> "stop"]    \* mutant
Shape == [open |-> "open", close |-> "closed", stop |-> "unknown"]
Action == {"open", "close", "stop"}

ASSUME EntitiesAssumption ==
  /\ Owner \in [Register -> Output]
  /\ Main \in [Output -> Register] /\ \A e \in Output : Owner[Main[e]] = e
  /\ None \notin Value \cup Register \cup (Cover \X Action)
  /\ MaxActions \in Nat /\ MaxClock \in Nat \ {0}

VARIABLES
  now,                    \* loop.time(): every reading is later than the one before
  reg,                    \* the device
  gateway, avail, fails,  \* gateway_available, state.available, consecutive_failures
  scanning,
  cache, cachedAt,        \* the registers of the state, and its poll_started
  poll, pollAt,           \* the coordinator's poll, and its `started`
  queued,                 \* the stateful control that waits for each register
  actions,                \* the Cover actions that wait, in order
  bus,                    \* what the worker is doing
  target, payload,        \* ... the register it writes, and the value
  answer,                 \* ... what the device has answered to the poll
  act,                    \* ... the Cover action
  ret,                    \* the action whose caller is about to resume
  shown,                  \* what the output shows, as the raw value it was made
                          \* from: commands and polls go through the same raw_to_*
  optimisticAt, lastPoll, \* _optimistic_at and _last_poll of each output
  closed, wasUp,          \* _attr_is_closed of each Cover, and _last_available
  pressed, during,        \* history: registers changed on the device itself since
                          \* the last poll that counted, and since the one on the bus
  retLost, lost           \* history: availability was lost since the action of ret,
                          \* or of closed, was answered

healthVars == <<gateway, avail, fails, scanning>>
pollVars   == <<poll, pollAt>>
busVars    == <<bus, target, payload, answer, act>>
showVars   == <<cache, cachedAt, shown, lastPoll, closed, wasUp, retLost, lost>>
vars == <<now, reg, healthVars, pollVars, queued, actions, busVars, ret, showVars,
          optimisticAt, pressed, during>>

TypeOK ==
  /\ now \in Time /\ reg \in [Register -> Value]
  /\ gateway \in BOOLEAN /\ avail \in BOOLEAN /\ fails \in 0 .. 3 /\ scanning \in BOOLEAN
  /\ cache \in [Register -> Value \cup {None}] /\ cachedAt \in Time
  /\ poll \in {"idle", "queued", "bus", "failed"} /\ pollAt \in Time
  /\ queued \in [Register -> Value \cup {None}]
  /\ actions \in Seq(Cover \X Action)
  /\ bus \in {"none", "write", "action", "poll", "read"}
  /\ target \in Register \cup {None} /\ payload \in Value \cup {None}
  /\ bus = "write" => target \in Register /\ payload \in Value
  /\ answer \in [Register -> Value \cup {None}]
  /\ act \in (Cover \X Action) \cup {None} /\ ret \in (Cover \X Action) \cup {None}
  /\ bus = "action" => act # None
  /\ shown \in [Register -> Value \cup {None}]
  /\ optimisticAt \in [Output -> Time \cup {-1}] /\ lastPoll \in [Output -> Time \cup {-1}]
  /\ closed \in [Cover -> {"open", "closed", "unknown"}] /\ wasUp \in BOOLEAN
  /\ pressed \subseteq Register /\ during \subseteq Register
  /\ retLost \in BOOLEAN /\ lost \in [Cover -> BOOLEAN]

Empty == [r \in Register |-> None]

\* After setup, whose first poll may have failed: the outputs are created and
\* look at the state once.
Init ==
  /\ reg \in [Register -> Value]
  /\ gateway = TRUE /\ scanning = FALSE
  /\ \/ /\ now = 1 /\ cachedAt = 1 /\ cache = reg /\ avail = TRUE /\ fails = 0
        /\ lastPoll = [e \in Output |-> 1]
     \/ /\ now = 0 /\ cachedAt = 0 /\ cache = Empty /\ avail = FALSE /\ fails = 1
        /\ lastPoll = [e \in Output |-> -1]
  /\ shown = cache
  /\ optimisticAt = [e \in Output |-> -1]
  /\ poll = "idle" /\ pollAt = 0
  /\ queued = Empty /\ actions = <<>>
  /\ bus = "none" /\ target = None /\ payload = None /\ answer = Empty /\ act = None
  /\ ret = None
  /\ closed = [c \in Cover |-> "unknown"] /\ wasUp = avail
  /\ pressed = {} /\ during = {}
  /\ retLost = FALSE /\ lost = [c \in Cover |-> FALSE]

-----------------------------------------------------------------------------
(***************************************************************************)
(* What the coordinator publishes, and what the entities make of it.       *)
(***************************************************************************)

Available == gateway /\ avail                  \* property available

\* _apply_poll takes a state whose poll began at s.
AcceptsAny(e, s) == s # 0 /\ s > lastPoll[e]                              \* mutant
Accepts(e, s) == s # 0 /\ s > lastPoll[e] /\ s >= optimisticAt[e]

\* _handle_coordinator_update of a Cover: availability goes, or has returned.
KeepsShape(up) == up                                                     \* mutant
Keeps(up) == up /\ wasUp

\* async_set_updated_data: health (g, a) and registers c of the poll begun at s
\* go to all entities in one step.
Publish(g, a, c, s) ==
  /\ gateway' = g /\ avail' = a
  /\ cache' = c /\ cachedAt' = s
  /\ lastPoll' = [e \in Output |-> IF Accepts(e, s) THEN s ELSE lastPoll[e]]
  /\ shown' = [r \in Register |-> IF Accepts(Owner[r], s) THEN c[r] ELSE shown[r]]
  /\ closed' = [k \in Cover |-> IF Keeps(g /\ a) THEN closed[k] ELSE "unknown"]
  /\ wasUp' = (g /\ a)
  /\ retLost' = (ret # None /\ (retLost \/ ~(g /\ a)))
  /\ lost' = [k \in Cover |-> closed'[k] # "unknown" /\ (lost[k] \/ ~(g /\ a))]

Discarded == queued' = Empty /\ actions' = <<>>         \* discard_controls()
KeptQueued == queued' = queued /\ actions' = actions

GatewayLost ==
  /\ Discarded
  /\ Publish(FALSE, FALSE, cache, cachedAt)
  /\ UNCHANGED <<now, reg, fails, scanning, pollVars, busVars, ret, optimisticAt, pressed,
                 during>>

\* A caller whose call was answered resumes in the next turn of asyncio's loop:
\* before the backoff is over, and before the worker has another answer.
Resumed == ret = None

\* The loop has reconnected; while polling is paused it restores the device.
GatewayRestored ==
  /\ ~gateway /\ Resumed
  /\ \E a \in {avail, cachedAt # 0 /\ fails < 3} : Publish(TRUE, a, cache, cachedAt)
  /\ UNCHANGED <<now, reg, fails, scanning, pollVars, queued, actions, busVars, ret,
                 optimisticAt, pressed, during>>

-----------------------------------------------------------------------------
(***************************************************************************)
(* The poll of the device, from `started` to the published state.          *)
(***************************************************************************)

PollStarts ==
  /\ poll = "idle" /\ ~scanning
  /\ now < MaxClock
  /\ now' = now + 1 /\ pollAt' = now + 1 /\ poll' = "queued"
  /\ UNCHANGED <<reg, healthVars, queued, actions, busVars, ret, showVars, optimisticAt,
                 pressed, during>>

\* The worker takes a poll when no control waits.
NoneWaitsIgnored == queued = queued                                      \* mutant
NoneWaits == queued = Empty /\ actions = <<>>

PollTaken ==
  /\ bus = "none" /\ Resumed /\ poll = "queued" /\ NoneWaits
  /\ bus' = "poll" /\ poll' = "bus"
  /\ UNCHANGED <<now, reg, healthVars, pollAt, queued, actions, target, payload, answer, act,
                 ret, showVars, optimisticAt, pressed, during>>

\* The device reads its registers; the answer is on its way.
DeviceReads ==
  /\ bus = "poll" /\ bus' = "read"
  /\ answer' = reg /\ during' = {}
  /\ UNCHANGED <<now, reg, healthVars, pollVars, queued, actions, target, payload, act, ret,
                 showVars, optimisticAt, pressed>>

\* poll_started is the clock's reading from before the request was made.
StartedLate == now                                                       \* mutant
Started == pollAt

PollAnswered ==
  /\ bus = "read" /\ Resumed
  /\ bus' = "none" /\ answer' = Empty /\ poll' = "idle"
  /\ fails' = 0
  /\ Publish(gateway, TRUE, answer, Started)
  /\ pressed' = during /\ during' = {}
  /\ UNCHANGED <<now, reg, scanning, pollAt, queued, actions, target, payload, act, ret,
                 optimisticAt>>

\* Time-out, exception, or an answer that validate() or decode() rejects; the
\* transport drops what waits unless the device itself has answered.
PollFails ==
  /\ bus \in {"poll", "read"} /\ Resumed
  /\ bus' = "none" /\ answer' = Empty /\ during' = {} /\ poll' = "idle"
  /\ Discarded \/ KeptQueued
  /\ fails' = IF fails < 3 THEN fails + 1 ELSE 3
  /\ Publish(gateway, avail /\ fails' < 3, cache, cachedAt)
  /\ UNCHANGED <<now, reg, scanning, pollAt, target, payload, act, ret, optimisticAt, pressed>>

\* GatewayError: the worker discards, then the round runs gateway_lost.
PollBreaks ==
  /\ bus \in {"poll", "read"} /\ Resumed
  /\ bus' = "none" /\ answer' = Empty /\ during' = {} /\ poll' = "failed"
  /\ Discarded
  /\ UNCHANGED <<now, reg, healthVars, pollAt, target, payload, act, ret, showVars,
                 optimisticAt, pressed>>

PollLosesGateway ==
  /\ poll = "failed" /\ poll' = "idle"
  /\ Discarded
  /\ Publish(FALSE, FALSE, cache, cachedAt)
  /\ UNCHANGED <<now, reg, fails, scanning, pollAt, busVars, ret, optimisticAt, pressed, during>>

-----------------------------------------------------------------------------
(***************************************************************************)
(* Commands of a Light or a Switch.                                        *)
(***************************************************************************)

\* turn_on, turn_off, _set_state: show the command, then queue it, one control
\* per register, the newer for the older.  A full queue refuses new registers.
Commanded(e) == now' = now + 1 /\ optimisticAt' = [optimisticAt EXCEPT ![e] = now + 1]

CommandQueues(W, v) ==
  \E A \in SUBSET W :
     /\ \A r \in W \ A : queued[r] = None
     /\ queued' = [r \in Register |-> IF r \in A THEN v[r] ELSE queued[r]]

Command(e) ==
  /\ Available /\ ~scanning /\ now < MaxClock
  /\ Commanded(e)
  /\ \E W \in SUBSET {r \in Register : Owner[r] = e} : \E v \in [W -> Value] :
       /\ Main[e] \in W
       /\ shown' = [r \in Register |-> IF r \in W THEN v[r] ELSE shown[r]]
       /\ CommandQueues(W, v)
  /\ UNCHANGED <<reg, healthVars, pollVars, actions, busVars, ret, cache, cachedAt, lastPoll,
                 closed, wasUp, retLost, lost, pressed, during>>

\* The service call is cancelled: its control is never sent.
CommandCancelled(r) ==
  /\ queued[r] # None
  /\ queued' = [queued EXCEPT ![r] = None]
  /\ UNCHANGED <<now, reg, healthVars, pollVars, actions, busVars, ret, showVars, optimisticAt,
                 pressed, during>>

WriteTaken(r) ==
  /\ bus = "none" /\ Resumed /\ queued[r] # None
  /\ bus' = "write" /\ target' = r /\ payload' = queued[r]
  /\ queued' = [queued EXCEPT ![r] = None]
  /\ UNCHANGED <<now, reg, healthVars, pollVars, actions, answer, act, ret, showVars,
                 optimisticAt, pressed, during>>

\* The exchange is over.  Without an echo the device may have obeyed or not.
WriteEnds ==
  /\ bus = "write" /\ Resumed
  /\ bus' = "none" /\ target' = None /\ payload' = None
  /\ \/ reg' = [reg EXCEPT ![target] = payload] /\ (KeptQueued \/ Discarded)
     \/ reg' = reg /\ (KeptQueued \/ Discarded)
  /\ UNCHANGED <<now, healthVars, pollVars, answer, act, ret, showVars, optimisticAt,
                 pressed, during>>

-----------------------------------------------------------------------------
(***************************************************************************)
(* Actions of a Cover.                                                     *)
(***************************************************************************)

CoverAsks(k, a) ==
  /\ Available /\ ~scanning
  /\ Len(actions) < MaxActions
  /\ actions' = Append(actions, <<k, a>>)
  /\ UNCHANGED <<now, reg, healthVars, pollVars, queued, busVars, ret, showVars, optimisticAt,
                 pressed, during>>

ActionTaken ==
  /\ bus = "none" /\ Resumed /\ actions # <<>>
  /\ bus' = "action" /\ act' = Head(actions) /\ actions' = Tail(actions)
  /\ UNCHANGED <<now, reg, healthVars, pollVars, queued, target, payload, answer, ret, showVars,
                 optimisticAt, pressed, during>>

ActionAnswered ==
  /\ bus = "action" /\ Resumed
  /\ bus' = "none" /\ act' = None
  /\ ret' = act /\ retLost' = ~Available
  /\ UNCHANGED <<now, reg, healthVars, pollVars, queued, actions, target, payload, answer,
                 cache, cachedAt, shown, lastPoll, closed, wasUp, lost, optimisticAt, pressed,
                 during>>

\* It fails, or its caller is gone: the Cover goes on showing what it showed.
ActionFails ==
  /\ bus = "action" /\ Resumed
  /\ bus' = "none" /\ act' = None
  /\ KeptQueued \/ Discarded
  /\ UNCHANGED <<now, reg, healthVars, pollVars, target, payload, answer, ret, showVars,
                 optimisticAt, pressed, during>>

CoverReturns ==
  /\ ret # None /\ ret' = None
  /\ closed' = [closed EXCEPT ![ret[1]] = Shape[ret[2]]]
  /\ lost' = [lost EXCEPT ![ret[1]] = retLost /\ ret[2] # "stop"]
  /\ retLost' = FALSE
  /\ UNCHANGED <<now, reg, healthVars, pollVars, queued, actions, busVars, cache, cachedAt,
                 shown, lastPoll, wasUp, optimisticAt, pressed, during>>

-----------------------------------------------------------------------------
(***************************************************************************)
(* The scan, and what happens on the device itself.                        *)
(***************************************************************************)

\* pause(): the round lock is free of polls.
ScanBegins ==
  /\ ~scanning /\ poll = "idle" /\ scanning' = TRUE
  /\ UNCHANGED <<now, reg, gateway, avail, fails, pollVars, queued, actions, busVars, ret,
                 showVars, optimisticAt, pressed, during>>

ScanEnds ==
  /\ scanning /\ scanning' = FALSE
  /\ UNCHANGED <<now, reg, gateway, avail, fails, pollVars, queued, actions, busVars, ret,
                 showVars, optimisticAt, pressed, during>>

\* A wall button, another master, or a write the gateway had still to deliver
\* when its exchange was given up.
Press(r, v) ==
  /\ v # reg[r] /\ reg' = [reg EXCEPT ![r] = v]
  /\ pressed' = pressed \cup {r}
  /\ during' = IF bus = "read" THEN during \cup {r} ELSE during
  /\ UNCHANGED <<now, healthVars, pollVars, queued, actions, busVars, ret, showVars, optimisticAt>>

Next ==
  \/ GatewayLost \/ GatewayRestored
  \/ PollStarts \/ PollTaken \/ DeviceReads \/ PollAnswered \/ PollFails \/ PollBreaks
  \/ PollLosesGateway
  \/ \E e \in Output : Command(e)
  \/ \E r \in Register : CommandCancelled(r) \/ WriteTaken(r)
  \/ WriteEnds
  \/ \E k \in Cover : \E a \in Action : CoverAsks(k, a)
  \/ ActionTaken \/ ActionAnswered \/ ActionFails \/ CoverReturns
  \/ ScanBegins \/ ScanEnds
  \/ \E r \in Register : \E v \in Value : Press(r, v)

Spec == Init /\ [][Next]_vars

-----------------------------------------------------------------------------
(***************************************************************************)
(* What must hold.                                                         *)
(***************************************************************************)

\* A control that waits is what its output shows: no poll, however late, makes
\* a slider jump back while the command is still to be sent.
ShowsQueued == \A r \in Register : queued[r] # None => shown[r] = queued[r]

\* An output that a poll has corrected since its last command shows what the
\* device holds, until somebody else changes the device.
Corrected(e) == lastPoll[e] > optimisticAt[e]
Truthful ==
  \A r \in Register : Corrected(Owner[r]) /\ r \notin pressed => shown[r] = reg[r]

\* What an available Cover assumes was answered in this spell of availability:
\* no loss and recovery lies between, whichever task noticed it first.
AssumedIsCurrent ==
  Available => \A k \in Cover : closed[k] # "unknown" => ~lost[k]

-----------------------------------------------------------------------------
(***************************************************************************)
(* The inductive invariant behind them.                                    *)
(***************************************************************************)

\* No reading is later than now, and no two events share one.
ClockInv ==
  /\ cachedAt <= now /\ pollAt <= now
  /\ \A e \in Output : optimisticAt[e] <= now /\ lastPoll[e] <= cachedAt
  /\ bus \in {"poll", "read"} <=> poll = "bus"
  /\ poll \in {"queued", "bus"} =>
       cachedAt < pollAt /\ \A e \in Output : optimisticAt[e] # pollAt

\* The published state has nothing new for any output.
Published ==
  \A e \in Output : cachedAt = 0 \/ cachedAt <= lastPoll[e] \/ cachedAt < optimisticAt[e]

\* Nothing that was commanded before the poll on the bus is still to be sent,
\* and the answer is what the device holds.
PollIsLast ==
  /\ bus \in {"poll", "read"} =>
       \A r \in Register : optimisticAt[Owner[r]] < pollAt => queued[r] = None
  /\ bus = "read" => \A r \in Register : r \notin during => answer[r] = reg[r]

\* Nor is anything of an output that a poll has corrected.
CorrectedIsQuiet ==
  /\ bus = "write" => ~Corrected(Owner[target])
  /\ \A r \in Register : Corrected(Owner[r]) => queued[r] = None

\* What a loss leaves behind is gone before availability returns.
LossInv ==
  /\ wasUp = Available
  /\ retLost => ret # None /\ ~Available

OutputInv == ClockInv /\ Published /\ PollIsLast /\ CorrectedIsQuiet /\ ShowsQueued /\ Truthful
EntitiesInv == OutputInv /\ LossInv /\ AssumedIsCurrent
=============================================================================
