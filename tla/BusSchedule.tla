----------------------------- MODULE BusSchedule -----------------------------
(***************************************************************************)
(* What the transport promises its callers, without sockets, tasks or      *)
(* locks: accepted controls wait in one schedule, polls in another; one    *)
(* request at a time has the bus; a control goes before any poll; a newer  *)
(* control takes the place of the older one with its key; a failure drops  *)
(* the controls that wait; and a call has one outcome, for good.           *)
(* Transport implements this specification.                                *)
(***************************************************************************)
EXTENDS Naturals, Sequences

CONSTANTS Stateful, Action, Poll, KeyOf, NoRequest
Request == Stateful \cup Action \cup Poll

VARIABLES
  outcome,   \* of each call; "new", then perhaps "gate", until it is accepted
  schedule,  \* controls accepted and not started, in the order they will start
  queue,     \* polls accepted and not started
  bus,       \* the request that has the bus, or NoRequest
  running    \* FALSE once the transport is shut down

vars == <<outcome, schedule, queue, bus, running>>

Init ==
  /\ outcome = [r \in Request |-> "new"]
  /\ schedule = <<>> /\ queue = <<>>
  /\ bus = NoRequest /\ running = TRUE

Failure == {"timeout", "protocol", "gateway"}
In(r, q) == \E i \in DOMAIN q : q[i] = r
End(f, S, o) == [r \in Request |-> IF r \in S /\ f[r] = "pending" THEN o ELSE f[r]]
Dropped == End(outcome, {r \in Request : In(r, schedule)}, "offline")
Rest(q, i) == SubSeq(q, i + 1, Len(q))

\* Item i of q is the first that its caller still wants.
Wanted(q, i) ==
  outcome'[q[i]] # "cancelled" /\ \A j \in 1 .. (i - 1) : outcome'[q[j]] = "cancelled"
NoneWanted(q) == \A i \in DOMAIN q : outcome'[q[i]] = "cancelled"

NotAccepted(r) == outcome[r] \in {"new", "gate"}

\* A call asks and has to wait for a scan.
Ask(r) ==
  /\ outcome[r] = "new"
  /\ outcome' = [outcome EXCEPT ![r] = "gate"]
  /\ UNCHANGED <<schedule, queue, bus, running>>

Accept(r) ==
  /\ running /\ NotAccepted(r) /\ outcome'[r] = "pending"
  /\ \/ /\ r \in Poll
        /\ queue' = Append(queue, r) /\ schedule' = schedule
        /\ outcome' = [outcome EXCEPT ![r] = "pending"]
     \/ /\ r \in Stateful
        /\ \E i \in DOMAIN schedule :
             /\ schedule[i] \in Stateful /\ KeyOf[schedule[i]] = KeyOf[r]
             /\ schedule' = [schedule EXCEPT ![i] = r]
             /\ outcome' = [End(outcome, {schedule[i]}, "superseded") EXCEPT ![r] = "pending"]
        /\ queue' = queue
     \/ /\ r \in Stateful \cup Action
        /\ \A i \in DOMAIN schedule :
             {schedule[i], r} \subseteq Stateful => KeyOf[schedule[i]] # KeyOf[r]
        /\ schedule' = Append(schedule, r) /\ queue' = queue
        /\ outcome' = [outcome EXCEPT ![r] = "pending"]
  /\ UNCHANGED <<bus, running>>

Refuse(r) ==
  /\ NotAccepted(r)
  /\ outcome'[r] \in {"full", "offline", "cancelled"}
  /\ outcome' = [outcome EXCEPT ![r] = outcome'[r]]
  /\ UNCHANGED <<schedule, queue, bus, running>>

Withdraw(r) ==
  /\ outcome[r] = "pending"
  /\ outcome' = [outcome EXCEPT ![r] = "cancelled"]
  /\ UNCHANGED <<schedule, queue, bus, running>>

\* The bus or the gateway failed: controls that wait are dropped.
Drop ==
  /\ schedule # <<>> /\ schedule' = <<>>
  /\ outcome' = Dropped
  /\ UNCHANGED <<queue, bus, running>>

\* The bus goes to the first wanted control of s, else to the first wanted poll.
Grant(s) ==
  \/ \E i \in DOMAIN s :
       bus' = s[i] /\ Wanted(s, i) /\ schedule' = Rest(s, i) /\ queue' = queue
  \/ \E i \in DOMAIN queue :
       /\ bus' = queue[i] /\ NoneWanted(s) /\ Wanted(queue, i)
       /\ schedule' = <<>> /\ queue' = Rest(queue, i)
  \/ /\ bus' = NoRequest /\ NoneWanted(s) /\ NoneWanted(queue)
     /\ schedule' = <<>> /\ queue' = <<>>

\* The request on the bus gets its outcome and the bus goes on; a failure may
\* drop the waiting controls in the same step.
Turn ==
  /\ running /\ running' = running
  /\ \/ /\ Grant(schedule)
        /\ \E o \in {"result", "device"} \cup Failure : outcome' = End(outcome, {bus}, o)
     \/ /\ Grant(<<>>)
        /\ \E o \in Failure : outcome' = End(Dropped, {bus}, o)

\* Shutting down stops the bus; what waits is cancelled, at once or later.
ShutDown ==
  /\ running /\ running' = FALSE
  /\ UNCHANGED <<outcome, schedule, queue, bus>>
ReleaseBus ==
  /\ ~running /\ running' = running
  /\ bus' = NoRequest
  /\ outcome' \in {outcome, End(outcome, {bus}, "cancelled")}
  /\ UNCHANGED <<schedule, queue>>
CancelAll ==
  /\ running' = FALSE /\ bus = NoRequest
  /\ schedule' = <<>> /\ queue' = <<>>
  /\ outcome' = End(outcome, {r \in Request : In(r, schedule) \/ In(r, queue)}, "cancelled")
  /\ UNCHANGED bus

Next ==
  \/ \E r \in Request : Ask(r) \/ Accept(r) \/ Refuse(r) \/ Withdraw(r)
  \/ Turn \/ Drop \/ ShutDown \/ ReleaseBus \/ CancelAll

Spec == Init /\ [][Next]_vars
=============================================================================
