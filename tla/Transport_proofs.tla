--------------------------- MODULE Transport_proofs ---------------------------
(***************************************************************************)
(* Theorems about Transport, for every value of its constants.             *)
(***************************************************************************)
EXTENDS Transport, SequenceFacts

-----------------------------------------------------------------------------
(***************************************************************************)
(* The queues: what After and Replace keep.                                *)
(***************************************************************************)

LEMMA AfterFacts ==
  ASSUME NEW S, NEW q \in Seq(S), NEW i \in DOMAIN q
  PROVE  /\ After(q, i) \in Seq(S)
         /\ DOMAIN q = 1 .. Len(q) /\ Len(q) \in Nat
         /\ DOMAIN After(q, i) = 1 .. (Len(q) - i)
         /\ \A j \in 1 .. (Len(q) - i) : After(q, i)[j] = q[i + j]
BY SuffixFacts DEF After

LEMMA ReplaceFacts ==
  ASSUME NEW S, NEW q \in Seq(S), NEW i \in DOMAIN q, NEW e \in S
  PROVE  /\ Replace(q, i, e) \in Seq(S)
         /\ DOMAIN Replace(q, i, e) = DOMAIN q
         /\ \A j \in DOMAIN q : Replace(q, i, e)[j] = IF j = i THEN e ELSE q[j]
BY ExceptSeq, LenProperties DEF Replace

-----------------------------------------------------------------------------
(***************************************************************************)
(* Types: first the pieces that handlers share, then every action.         *)
(***************************************************************************)
PendType == {"none", "waiting", "ok", "exception", "bad", "gateway"}
FutType == [Request -> FutState]

LEMMA SettleType ==
  ASSUME NEW f \in FutType, NEW r, NEW o \in Settled
  PROVE  Settle(f, r, o) \in FutType
BY DEF Settle, FutType, FutState

LEMMA SettleAllType ==
  ASSUME NEW f \in FutType, NEW S, NEW o \in Settled
  PROVE  SettleAll(f, S, o) \in FutType
BY DEF SettleAll, FutType, FutState

LEMMA DiscardedType ==
  ASSUME NEW f \in FutType
  PROVE  Discarded(f) \in FutType
BY SettleAllType DEF Discarded, Settled

LEMMA StartOnType ==
  ASSUME TypeOK, NEW r \in Request \cup {NoRequest},
         NEW w \in {0} \cup Connection, StartOn(r, w)
  PROVE  cur' \in Request \cup {NoRequest} /\ worker' \in {"connecting", "exchange"}
         /\ pend' \in PendType /\ BusType'
<1>1. CASE w = 0
  BY <1>1 DEF TypeOK, BusType, StartOn, PendType
<1>2. CASE w # 0
  <2>1. owed' \in [Request -> {0} \cup Connection]
    BY <1>2 DEF TypeOK, BusType, StartOn
  <2>2. sends' = [sends EXCEPT ![r] = sends[r] + 1]
    BY <1>2 DEF StartOn
  <2>3. sends' \in [Request -> Nat]
    <3>1. \A q \in Request : sends[q] \in Nat /\ sends[q] + 1 \in Nat
      BY DEF TypeOK, BusType
    <3>2. sends' = [q \in Request |-> IF q = r THEN sends[q] + 1 ELSE sends[q]]
      BY <2>2 DEF TypeOK, BusType
    <3>. QED BY <3>1, <3>2
  <2>. QED BY <1>2, <2>1, <2>3 DEF BusType, StartOn, PendType
<1>. QED BY <1>1, <1>2

\* The worker's next item leaves everything well typed.
LEMMA TakeNextType ==
  ASSUME TypeOK, NEW f, NEW ctl \in Seq(Control), NEW pol \in Seq(Poll \cup Probe),
         NEW w \in {0} \cup Connection, TakeNext(f, ctl, pol, w),
         nextAction' = nextAction, ticket' = ticket, err' = "none"
  PROVE  QueueType' /\ WorkType' /\ BusType'
<1>1. CASE \E i \in DOMAIN ctl :
             /\ controls' = After(ctl, i) /\ polls' = pol
             /\ StartOn(ctl[i], w)
             /\ UNCHANGED <<wake, idle>>
  <2>1. PICK i \in DOMAIN ctl :
             /\ controls' = After(ctl, i) /\ polls' = pol
             /\ StartOn(ctl[i], w)
             /\ UNCHANGED <<wake, idle>>
    BY <1>1
  <2>2. ctl[i] \in Request
    BY ElementOfSeq, LenProperties DEF Control, Request
  <2>3. After(ctl, i) \in Seq(Control)
    BY AfterFacts
  <2>. QED BY <2>1, <2>2, <2>3, StartOnType DEF TypeOK, QueueType, WorkType, PendType
<1>2. CASE \E i \in DOMAIN pol :
             /\ controls' = <<>> /\ polls' = After(pol, i)
             /\ StartOn(pol[i], w)
             /\ UNCHANGED <<wake, idle>>
  <2>1. PICK i \in DOMAIN pol :
             /\ controls' = <<>> /\ polls' = After(pol, i)
             /\ StartOn(pol[i], w)
             /\ UNCHANGED <<wake, idle>>
    BY <1>2
  <2>2. pol[i] \in Request
    BY ElementOfSeq, LenProperties DEF Request
  <2>3. After(pol, i) \in Seq(Poll \cup Probe)
    BY AfterFacts
  <2>. QED BY <2>1, <2>2, <2>3, StartOnType, EmptySeqType
           DEF TypeOK, QueueType, WorkType, PendType
<1>3. CASE /\ controls' = <<>> /\ polls' = <<>>
           /\ worker' = "idle" /\ cur' = NoRequest /\ pend' = "none"
           /\ wake' = FALSE /\ idle' = TRUE
           /\ UNCHANGED busVars
  BY <1>3, EmptySeqType DEF TypeOK, QueueType, WorkType, BusType, busVars
<1>. QED BY <1>1, <1>2, <1>3 DEF TakeNext

LEMMA OpensType ==
  ASSUME TypeOK, NEW c, Opens(c), gateway' \in BOOLEAN
  PROVE  LinkType' /\ c \in Connection
<1>1. c \in Connection /\ opened' \in 0 .. MaxConnections
  BY BoundAssumption DEF Opens, Connection
<1>2. /\ rx' \in [Connection -> {"none", "new", "reading", "cancelled", "done"}]
      /\ peer' \in [Connection -> {"unused", "up", "eof", "reset", "closed"}]
  BY <1>1 DEF TypeOK, LinkType, Opens
<1>3. replaced' \subseteq Connection
  <2>1. writer \in {0} \cup Connection /\ replaced \subseteq Connection
    BY DEF TypeOK, LinkType
  <2>2. Connected => writer \in Connection
    BY <2>1 DEF Connected
  <2>. QED BY <2>1, <2>2 DEF Opens
<1>. QED BY <1>1, <1>2, <1>3 DEF TypeOK, LinkType, Opens

LEMMA CloseWriterType ==
  ASSUME TypeOK, NEW p \in PendType, CloseWriter(p)
  PROVE  /\ pend' \in PendType /\ writer' \in {0} \cup Connection
         /\ peer' \in [Connection -> {"unused", "up", "eof", "reset", "closed"}]
BY DEF TypeOK, LinkType, CloseWriter, PendType

LEMMA BeginDisconnectType ==
  ASSUME TypeOK, NEW a \in Agent, NEW p \in PendType, BeginDisconnect(a, p)
  PROVE  pend' \in PendType /\ LinkType'
<1>1. CASE LiveTask /\ rx' = [rx EXCEPT ![task] = "cancelled"]
           /\ reaps' = [reaps EXCEPT ![a] = task] /\ disconnecting' = TRUE
           /\ pend' = p /\ UNCHANGED <<writer, peer>>
  BY <1>1 DEF TypeOK, LinkType, BeginDisconnect, LiveTask
<1>2. CASE CloseWriter(p) /\ disconnecting' = (writer # 0) /\ UNCHANGED <<rx, reaps>>
  <2>1. disconnecting' \in BOOLEAN
    BY <1>2
  <2>. QED BY <1>2, <2>1, CloseWriterType DEF TypeOK, LinkType, BeginDisconnect
<1>. QED BY <1>1, <1>2 DEF BeginDisconnect

LEMMA ReapedType ==
  ASSUME TypeOK, NEW a \in Agent, NEW p \in PendType, Reaped(a, p)
  PROVE  pend' \in PendType /\ LinkType'
<1>1. disconnecting' \in BOOLEAN /\ reaps' \in [Agent -> {0} \cup Connection]
  BY DEF TypeOK, LinkType, Reaped
<1>. QED BY <1>1, CloseWriterType DEF TypeOK, LinkType, Reaped

LEMMA SocketClosedType ==
  ASSUME TypeOK, NEW a \in Agent, SocketClosed(a) \/ DisconnectCancelled(a)
  PROVE  LinkType'
BY DEF TypeOK, LinkType, SocketClosed, DisconnectCancelled

LEMMA EnqueueType ==
  ASSUME TypeOK, NEW r \in Request, Enqueue(r)
  PROVE  /\ fut' \in FutType /\ QueueType'
         /\ worker' \in {"none", "idle", "connecting", "exchange", "disconnect", "stopped"}
         /\ worker' = "disconnect" <=> worker = "disconnect"
<1>. USE DEF TypeOK, QueueType, WorkType, FutType
<1>1. ASSUME NEW o \in {"full", "offline"}, Refuse(r, o)
      PROVE  /\ fut' \in FutType /\ QueueType'
             /\ worker' \in {"none", "idle", "connecting", "exchange", "disconnect", "stopped"}
             /\ worker' = "disconnect" <=> worker = "disconnect"
  BY <1>1 DEF Refuse, FutState, Settled
<1>2. CASE EnqueuePoll(r)
  BY <1>2, AppendFacts DEF EnqueuePoll, Placed, FutState
<1>3. CASE EnqueueAction(r)
  <2>1. CASE Refuse(r, "full")
    BY <2>1, <1>1
  <2>2. CASE /\ fut' = [fut EXCEPT ![r] = "pending"]
             /\ nextAction' = nextAction + 1
             /\ ticket' = [ticket EXCEPT ![r] = nextAction + 1]
             /\ controls' = Append(controls, r)
             /\ UNCHANGED polls
             /\ Placed
    <3>1. controls' \in Seq(Control)
      BY <1>3, <2>2, AppendFacts DEF EnqueueAction, Control
    <3>2. nextAction' \in Nat
      BY <2>2
    <3>3. ticket' \in [Action -> Nat]
      BY <2>2, <3>2
    <3>4. fut' \in FutType
      BY <2>2 DEF FutState
    <3>. QED BY <2>2, <3>1, <3>2, <3>3, <3>4 DEF Placed
  <2>. QED BY <1>3, <2>1, <2>2 DEF EnqueueAction
<1>4. CASE EnqueueStateful(r)
  <2>1. CASE Refuse(r, "full")
    BY <2>1, <1>1
  <2>2. CASE \E i \in SameKey(r) :
           /\ fut' = [Settle(fut, controls[i], "superseded") EXCEPT ![r] = "pending"]
           /\ controls' = Replace(controls, i, r)
           /\ UNCHANGED <<polls, nextAction, ticket>>
           /\ Placed
    <3>1. PICK i \in SameKey(r) :
           /\ fut' = [Settle(fut, controls[i], "superseded") EXCEPT ![r] = "pending"]
           /\ controls' = Replace(controls, i, r)
           /\ UNCHANGED <<polls, nextAction, ticket>>
           /\ Placed
      BY <2>2
    <3>2. Settle(fut, controls[i], "superseded") \in FutType
      BY SettleType DEF Settled
    <3>3. Replace(controls, i, r) \in Seq(Control)
      BY <1>4, ReplaceFacts DEF SameKey, EnqueueStateful, Control
    <3>. QED BY <3>1, <3>2, <3>3 DEF Placed, FutState
  <2>3. CASE /\ fut' = [fut EXCEPT ![r] = "pending"]
             /\ controls' = Append(controls, r)
             /\ UNCHANGED <<polls, nextAction, ticket>>
             /\ Placed
    BY <1>4, <2>3, AppendFacts DEF EnqueueStateful, Placed, FutState, Control
  <2>. QED BY <1>4, <2>1, <2>2, <2>3 DEF EnqueueStateful
<1>. QED BY <1>1, <1>2, <1>3, <1>4 DEF Enqueue

LEMMA InitType == Init => TypeOK
<1>. SUFFICES ASSUME Init PROVE TypeOK
  OBVIOUS
<1>1. QueueType /\ GateType
  BY EmptySeqType DEF Init, QueueType, GateType
<1>2. WorkType
  BY DEF Init, WorkType
<1>3. opened \in 0 .. MaxConnections
  BY BoundAssumption DEF Init
<1>4. LinkType /\ BusType
  BY <1>3 DEF Init, LinkType, BusType
<1>. QED BY <1>1, <1>2, <1>4 DEF Init, TypeOK, FutState

LEMMA Kept ==
  /\ QueueType /\ UNCHANGED queueVars => QueueType'
  /\ GateType /\ UNCHANGED gateVars => GateType'
  /\ WorkType /\ UNCHANGED workVars /\ UNCHANGED pend => WorkType'
  /\ LinkType /\ UNCHANGED linkVars => LinkType'
  /\ BusType /\ UNCHANGED busVars => BusType'
BY DEF QueueType, GateType, WorkType, LinkType, BusType,
       queueVars, gateVars, workVars, linkVars, busVars

\* The gate's queue, whatever happens to it.
LEMMA GateQueueType ==
  ASSUME GateType,
         \/ UNCHANGED gateQ
         \/ \E e \in Request \cup {NoRequest} : gateQ' = Append(gateQ, e)
         \/ \E i \in DOMAIN gateQ : gateQ' = RemoveAt(gateQ, i)
         \/ gateQ # <<>> /\ gateQ' = Tail(gateQ)
  PROVE  gateQ' \in Seq(Request \cup {NoRequest})
<1>1. CASE UNCHANGED gateQ
  BY <1>1 DEF GateType
<1>2. CASE \E e \in Request \cup {NoRequest} : gateQ' = Append(gateQ, e)
  BY <1>2, AppendFacts DEF GateType
<1>3. CASE \E i \in DOMAIN gateQ : gateQ' = RemoveAt(gateQ, i)
  BY <1>3, RemoveAtFacts DEF GateType
<1>4. CASE gateQ # <<>> /\ gateQ' = Tail(gateQ)
  BY <1>4, TailFacts DEF GateType
<1>. QED BY <1>1, <1>2, <1>3, <1>4

\* Callers and the scanner.
LEMMA CallerType ==
  ASSUME TypeOK,
         \/ \E r \in Request : Submit(r) \/ CancelCall(r)
         \/ PassGate \/ ScanBegin \/ ScanStep \/ ScanCancel
  PROVE  TypeOK'
<1>1. ASSUME NEW r \in Request, Submit(r)
      PROVE  TypeOK'
  <2>1. GateType'
    BY <1>1, GateQueueType DEF Submit, TypeOK, GateType
  <2>2. fut' \in FutType /\ QueueType' /\ WorkType'
    <3>1. CASE Enqueue(r)
      BY <1>1, <3>1, EnqueueType DEF Submit, TypeOK, WorkType
    <3>2. CASE fut' = [fut EXCEPT ![r] = "gate"] /\ UNCHANGED <<queueVars, worker>>
      BY <1>1, <3>2, Kept DEF Submit, TypeOK, FutType, FutState, workVars
    <3>. QED BY <1>1, <3>1, <3>2 DEF Submit
  <2>. QED BY <1>1, <2>1, <2>2, Kept DEF Submit, TypeOK, FutType
<1>2. ASSUME NEW r \in Request, CancelCall(r)
      PROVE  TypeOK'
  <2>1. GateType'
    BY <1>2, GateQueueType DEF CancelCall, TypeOK, GateType
  <2>2. fut' \in [Request -> FutState]
    BY <1>2 DEF CancelCall, FutState, Settled, TypeOK
  <2>. QED BY <1>2, <2>1, <2>2, Kept DEF CancelCall, TypeOK
<1>3. CASE PassGate
  <2>1. Head(gateQ) \in Request \cup {NoRequest}
    BY <1>3, TailFacts DEF PassGate, TypeOK, GateType
  <2>2. GateType'
    BY <1>3, GateQueueType DEF PassGate, TypeOK, GateType
  <2>3. fut' \in FutType /\ QueueType' /\ WorkType'
    <3>1. CASE Head(gateQ) # NoRequest /\ Enqueue(Head(gateQ))
      BY <1>3, <2>1, <3>1, EnqueueType DEF PassGate, TypeOK, WorkType
    <3>2. CASE UNCHANGED <<fut, queueVars, worker>>
      BY <1>3, <3>2, Kept DEF PassGate, TypeOK, FutType, workVars
    <3>. QED BY <1>3, <3>1, <3>2 DEF PassGate
  <2>. QED BY <1>3, <2>2, <2>3, Kept DEF PassGate, TypeOK, FutType
<1>4. CASE ScanBegin
  <2>1. GateType'
    BY <1>4, GateQueueType DEF ScanBegin, TypeOK, GateType
  <2>. QED BY <1>4, <2>1, Kept DEF ScanBegin, TypeOK
<1>5. ASSUME NEW p \in Probe, ScanProbe(p)
      PROVE  TypeOK'
  <2>1. fut' \in FutType /\ QueueType' /\ WorkType'
    BY <1>5, EnqueueType DEF ScanProbe, TypeOK, WorkType, Request
  <2>2. GateType'
    BY <1>5 DEF ScanProbe, TypeOK, GateType
  <2>. QED BY <1>5, <2>1, <2>2, Kept DEF ScanProbe, TypeOK, FutType
<1>6. CASE ScanEnd
  <2>1. GateType'
    BY <1>6 DEF ScanEnd, TypeOK, GateType
  <2>. QED BY <1>6, <2>1, Kept DEF ScanEnd, TypeOK
<1>7. CASE ScanCancel
  <2>1. GateType'
    BY <1>7, GateQueueType DEF ScanCancel, TypeOK, GateType
  <2>2. fut' \in FutType
    BY <1>7, SettleType DEF ScanCancel, FutType, Settled, TypeOK
  <2>. QED BY <1>7, <2>1, <2>2, Kept DEF ScanCancel, TypeOK, FutType
<1>. QED BY <1>1, <1>2, <1>3, <1>4, <1>5, <1>6, <1>7 DEF ScanStep

LEMMA LinkInConnection == TypeOK => Link \in {0} \cup Connection
BY DEF TypeOK, LinkType, Link

\* The worker.
LEMMA FinishType ==
  ASSUME TypeOK, worker = "exchange", NEW o \in Settled, Finish(o)
  PROVE  TypeOK'
<1>1. Settle(fut, cur, o) \in FutType
  BY SettleType DEF TypeOK, FutType
<1>2. QueueType' /\ WorkType' /\ BusType'
  BY LinkInConnection, TakeNextType DEF Finish, TypeOK, QueueType, WorkType
<1>. QED BY <1>1, <1>2, Kept DEF Finish, TypeOK, FutType

LEMMA FailType ==
  ASSUME TypeOK, worker \in {"connecting", "exchange"}, NEW e \in Verdict, Fail(e)
  PROVE  TypeOK'
<1>1. pend' \in PendType /\ LinkType'
  BY BeginDisconnectType DEF Fail, PendType, Agent
<1>2. Discarded(fut) \in FutType /\ Settle(Discarded(fut), cur, e) \in FutType
  BY DiscardedType, SettleType DEF TypeOK, FutType, Settled, Verdict
<1>3. CASE /\ fut' = Discarded(fut)
           /\ controls' = <<>>
           /\ worker' = "disconnect" /\ err' = e
           /\ UNCHANGED <<polls, wake, idle, cur, busVars>>
  <2>1. QueueType'
    BY <1>3, EmptySeqType DEF Fail, TypeOK, QueueType
  <2>2. WorkType'
    BY <1>1, <1>3 DEF TypeOK, WorkType, PendType, Verdict
  <2>. QED BY <1>1, <1>2, <1>3, <2>1, <2>2, Kept DEF Fail, TypeOK, FutType
<1>4. CASE /\ fut' = Settle(Discarded(fut), cur, e)
           /\ TakeNext(fut', <<>>, polls, 0)
           /\ UNCHANGED err
  <2>1. QueueType' /\ WorkType' /\ BusType'
    BY <1>4, TakeNextType, EmptySeqType DEF Fail, TypeOK, QueueType, WorkType
  <2>. QED BY <1>1, <1>2, <1>4, <2>1, Kept DEF Fail, TypeOK, FutType
<1>. QED BY <1>3, <1>4 DEF Fail

LEMMA ResumeType ==
  ASSUME TypeOK, worker = "disconnect", NEW w \in {0} \cup Connection,
         LinkType', owner' = owner, closer' = closer, Resume(w)
  PROVE  TypeOK'
<1>1. fut' \in FutType
  <2>1. err \in Settled
    BY DEF TypeOK, WorkType, Verdict, Settled
  <2>. QED BY <2>1, SettleType DEF Resume, TypeOK, FutType
<1>2. QueueType' /\ WorkType' /\ BusType'
  BY TakeNextType DEF Resume, TypeOK, QueueType
<1>. QED BY <1>1, <1>2, Kept DEF Resume, TypeOK, FutType

LEMMA WorkerType ==
  ASSUME TypeOK, WorkerStep
  PROVE  TypeOK'
<1>1. CASE WorkerWakes
  <2>1. QueueType' /\ WorkType' /\ BusType'
    BY <1>1, LinkInConnection, TakeNextType DEF WorkerWakes, TypeOK, QueueType, WorkType
  <2>. QED BY <1>1, <2>1, Kept DEF WorkerWakes, TypeOK
<1>2. ASSUME NEW c \in Connection, WorkerConnects(c)
      PROVE  TypeOK'
  <2>1. LinkType'
    BY <1>2, OpensType DEF WorkerConnects, TypeOK, LinkType
  <2>2. WorkType' /\ BusType'
    BY <1>2, StartOnType DEF WorkerConnects, TypeOK, WorkType, PendType
  <2>. QED BY <1>2, <2>1, <2>2, Kept DEF WorkerConnects, TypeOK
<1>3. CASE WorkerSucceeds \/ WorkerDeviceException
  BY <1>3, FinishType DEF WorkerSucceeds, WorkerDeviceException, Settled
<1>4. CASE WorkerConnectFails \/ WorkerProtocolError \/ WorkerGatewayError \/ WorkerTimeout
  BY <1>4, FailType
     DEF WorkerConnectFails, WorkerProtocolError, WorkerGatewayError, WorkerTimeout, Verdict
<1>5. CASE WorkerReaped
  <2>1. pend' \in PendType /\ LinkType'
    BY <1>5, ReapedType DEF WorkerReaped, TypeOK, WorkType, PendType, Agent
  <2>2. CASE UNCHANGED <<fut, queueVars, gateVars, workVars, owner, closer, busVars>>
    <3>1. WorkType'
      BY <2>1, <2>2 DEF TypeOK, WorkType, workVars, PendType
    <3>. QED BY <2>1, <2>2, <3>1, Kept DEF TypeOK
  <2>3. CASE Resume(0)
    BY <1>5, <2>1, <2>3, ResumeType DEF WorkerReaped, Resume
  <2>. QED BY <1>5, <2>2, <2>3 DEF WorkerReaped
<1>6. CASE WorkerDisconnected
  <2>1. LinkType'
    BY <1>6, SocketClosedType DEF WorkerDisconnected, Agent
  <2>. QED BY <1>6, <2>1, LinkInConnection, ResumeType DEF WorkerDisconnected, Resume
<1>. QED BY <1>1, <1>2, <1>3, <1>4, <1>5, <1>6 DEF WorkerStep

\* The RX tasks and the gateway.
LEMMA RxDoneType ==
  ASSUME TypeOK, NEW c \in Connection, RxDone(c) \/ RxLoops(c)
  PROVE  /\ rx' \in [Connection -> {"none", "new", "reading", "cancelled", "done"}]
         /\ task' \in {0} \cup Connection
BY DEF TypeOK, LinkType, RxDone, RxLoops

LEMMA MarkLostType ==
  ASSUME TypeOK, NEW c \in Connection,
         \/ MarkLost(c)
         \/ UNCHANGED <<lossReported, pend, writer, peer, fut, controls, gateway>>
  PROVE  /\ fut' \in FutType /\ controls' \in Seq(Control)
         /\ lossReported' \in BOOLEAN /\ gateway' \in BOOLEAN /\ pend' \in PendType
         /\ writer' \in {0} \cup Connection
         /\ peer' \in [Connection -> {"unused", "up", "eof", "reset", "closed"}]
<1>1. CASE /\ CloseWriter(pend) /\ lossReported' = TRUE /\ gateway' = FALSE
           /\ fut' = Discarded(fut) /\ controls' = <<>>
  <2>1. Discarded(fut) \in FutType
    BY DiscardedType DEF TypeOK, FutType
  <2>2. pend \in PendType
    BY DEF TypeOK, WorkType, PendType
  <2>. QED BY <1>1, <2>1, <2>2, CloseWriterType, EmptySeqType
<1>2. CASE UNCHANGED <<lossReported, pend, writer, peer, fut, controls, gateway>>
  BY <1>2 DEF TypeOK, FutType, QueueType, LinkType, WorkType, PendType
<1>. QED BY <1>1, <1>2 DEF MarkLost

LEMMA RxType ==
  ASSUME TypeOK,
         \/ \E c \in Connection : RxStep(c) \/ RxEvent(c) \/ RxNoise(c) \/ RxMalformed(c)
         \/ \E c \in Connection, q \in Request, k \in {"ok", "exception", "bad"} : RxAnswer(c, q, k)
         \/ \E c \in Connection, how \in Drops : PeerDrops(c, how)
  PROVE  TypeOK'
<1>1. ASSUME NEW c \in Connection, RxStart(c) \/ RxEvent(c)
      PROVE  TypeOK'
  <2>1. LinkType'
    BY <1>1, RxDoneType DEF RxStart, RxEvent, TypeOK, LinkType
  <2>. QED BY <1>1, <2>1, Kept DEF RxStart, RxEvent, TypeOK
<1>2. ASSUME NEW c \in Connection, NEW q \in Request, NEW k \in {"ok", "exception", "bad"},
             RxAnswer(c, q, k)
      PROVE  TypeOK'
  <2>1. LinkType'
    BY <1>2, RxDoneType DEF RxAnswer, TypeOK, LinkType
  <2>2. WorkType' /\ BusType'
    BY <1>2 DEF RxAnswer, TypeOK, WorkType, workVars, BusType
  <2>. QED BY <1>2, <2>1, <2>2, Kept DEF RxAnswer, TypeOK
<1>3. ASSUME NEW c \in Connection, RxMalformed(c) \/ RxEnds(c)
      PROVE  TypeOK'
  <2>1. CASE MarkLost(c) \/ UNCHANGED <<lossReported, pend, writer, peer, fut, controls, gateway>>
    <3>1. QueueType' /\ LinkType' /\ WorkType'
      BY <1>3, <2>1, RxDoneType, MarkLostType
         DEF RxMalformed, RxEnds, TypeOK, QueueType, LinkType, WorkType, workVars, PendType
    <3>. QED BY <1>3, <2>1, <3>1, MarkLostType, Kept DEF RxMalformed, RxEnds, TypeOK, FutType
  <2>2. CASE pend' = "bad" /\ UNCHANGED <<lossReported, writer, peer, fut, controls, gateway>>
    <3>1. QueueType' /\ LinkType' /\ WorkType'
      BY <1>3, <2>2, RxDoneType
         DEF RxMalformed, RxEnds, TypeOK, QueueType, LinkType, WorkType, workVars
    <3>. QED BY <1>3, <2>2, <3>1, Kept DEF RxMalformed, RxEnds, TypeOK
  <2>. QED BY <1>3, <2>1, <2>2 DEF RxMalformed, RxEnds
<1>6. ASSUME NEW c \in Connection, RxNoise(c)
      PROVE  TypeOK'
  <2>1. LinkType'
    BY <1>6, RxDoneType DEF RxNoise, TypeOK, LinkType
  <2>2. WorkType'
    BY <1>6 DEF RxNoise, TypeOK, WorkType, workVars
  <2>. QED BY <1>6, <2>1, <2>2, Kept DEF RxNoise, TypeOK
<1>4. ASSUME NEW c \in Connection, RxCancelled(c)
      PROVE  TypeOK'
  <2>1. LinkType'
    BY <1>4 DEF RxCancelled, TypeOK, LinkType
  <2>. QED BY <1>4, <2>1, Kept DEF RxCancelled, TypeOK
<1>5. ASSUME NEW c \in Connection, NEW how \in Drops, PeerDrops(c, how)
      PROVE  TypeOK'
  <2>1. LinkType'
    BY <1>5, BoundAssumption DEF PeerDrops, TypeOK, LinkType
  <2>. QED BY <1>5, <2>1, Kept DEF PeerDrops, TypeOK
<1>. QED BY <1>1, <1>2, <1>3, <1>4, <1>5, <1>6 DEF RxStep

\* The coordinator and close().
LEMMA OwnerType ==
  ASSUME TypeOK, OwnerConnect \/ OwnerDisconnect \/ OwnerDiscards \/ OwnerCancelled \/ OwnerStep
  PROVE  TypeOK'
<1>. /\ "owner" \in Agent /\ pend \in PendType
  BY DEF Agent, TypeOK, WorkType, PendType
<1>1. CASE OwnerConnect \/ OwnerConnectFails
  <2>1. LinkType' /\ owner' \in {"idle", "connecting", "disconnect"}
    BY <1>1, Kept DEF OwnerConnect, OwnerConnectFails, TypeOK, LinkType
  <2>. QED BY <1>1, <2>1, Kept DEF OwnerConnect, OwnerConnectFails, TypeOK
<1>2. CASE OwnerDisconnect \/ OwnerReaped
  <2>1. LinkType' /\ pend' \in PendType
    BY <1>2, BeginDisconnectType, ReapedType DEF OwnerDisconnect, OwnerReaped
  <2>2. WorkType' /\ owner' \in {"idle", "disconnect"}
    BY <1>2, <2>1 DEF OwnerDisconnect, OwnerReaped, TypeOK, WorkType, workVars, PendType
  <2>. QED BY <1>2, <2>1, <2>2, Kept DEF OwnerDisconnect, OwnerReaped, TypeOK
<1>3. CASE OwnerDiscards
  <2>1. QueueType'
    BY <1>3, EmptySeqType DEF OwnerDiscards, TypeOK, QueueType
  <2>2. fut' \in FutType
    BY <1>3, DiscardedType DEF OwnerDiscards, TypeOK, FutType
  <2>3. LinkType'
    BY <1>3 DEF OwnerDiscards, TypeOK, LinkType
  <2>. QED BY <1>3, <2>1, <2>2, <2>3, Kept DEF OwnerDiscards, TypeOK, FutType
<1>4. CASE OwnerCancelled \/ OwnerDisconnected
  BY <1>4, SocketClosedType, Kept DEF OwnerCancelled, OwnerDisconnected, TypeOK
<1>5. ASSUME NEW c \in Connection, OwnerConnects(c)
      PROVE  TypeOK'
  BY <1>5, OpensType, Kept DEF OwnerConnects, TypeOK
<1>. QED BY <1>1, <1>2, <1>3, <1>4, <1>5 DEF OwnerStep

LEMMA CloseType ==
  ASSUME TypeOK, Close \/ CloseStep
  PROVE  TypeOK'
<1>. /\ "closer" \in Agent /\ "worker" \in Agent /\ pend \in PendType
  BY DEF Agent, TypeOK, WorkType, PendType
<1>1. ASSUME CloseQueues, worker \in {"none", "stopped"}, worker' = "none"
      PROVE  TypeOK'
  <2>1. LinkType' /\ pend' \in PendType
    BY <1>1, BeginDisconnectType DEF CloseQueues
  <2>2. fut' \in FutType /\ QueueType'
    BY <1>1, SettleAllType, EmptySeqType
       DEF CloseQueues, TypeOK, FutType, QueueType, Settled
  <2>3. WorkType'
    BY <1>1, <2>1 DEF CloseQueues, TypeOK, WorkType, PendType
  <2>. QED BY <1>1, <2>1, <2>2, <2>3, Kept DEF CloseQueues, TypeOK, FutType
<1>2. CASE Close
  <2>1. CASE worker = "none" /\ CloseQueues /\ UNCHANGED worker
    BY <2>1, <1>1
  <2>2. CASE closer' = "join" /\ UNCHANGED <<fut, queueVars, gateVars, workVars, pend, linkVars, owner, busVars>>
    BY <2>2, Kept DEF TypeOK
  <2>. QED BY <1>2, <2>1, <2>2 DEF Close
<1>3. CASE WorkerCancelled
  <2>1. WorkType'
    BY <1>3 DEF WorkerCancelled, TypeOK, WorkType
  <2>2. fut' \in FutType
    BY <1>3, SettleType DEF WorkerCancelled, TypeOK, FutType, Settled
  <2>3. LinkType'
    BY <1>3, SocketClosedType, Kept DEF WorkerCancelled, TypeOK
  <2>. QED BY <1>3, <2>1, <2>2, <2>3, Kept DEF WorkerCancelled, TypeOK, FutType
<1>4. CASE CloseJoined
  BY <1>1, <1>4 DEF CloseJoined
<1>5. CASE CloseReaped
  <2>1. LinkType' /\ pend' \in PendType
    BY <1>5, ReapedType DEF CloseReaped
  <2>2. WorkType'
    BY <1>5, <2>1 DEF CloseReaped, TypeOK, WorkType, workVars, PendType
  <2>. QED BY <1>5, <2>1, <2>2, Kept DEF CloseReaped, TypeOK
<1>6. CASE CloseDisconnected
  BY <1>6, SocketClosedType, Kept DEF CloseDisconnected, TypeOK
<1>. QED BY <1>2, <1>3, <1>4, <1>5, <1>6 DEF CloseStep

LEMMA StepType == TypeOK /\ [Next]_vars => TypeOK'
<1>. SUFFICES ASSUME TypeOK, [Next]_vars PROVE TypeOK'
  OBVIOUS
<1>1. CASE UNCHANGED vars
  BY <1>1, Kept DEF vars, TypeOK
<1>2. CASE Next
  BY <1>2, CallerType, WorkerType, RxType, OwnerType, CloseType DEF Next
<1>. QED BY <1>1, <1>2

\* Every variable of the transport stays in its type: what __init__ sets up and
\* every handler assigns.
THEOREM TypeCorrect == Spec => []TypeOK
BY InitType, StepType, PTL DEF Spec

-----------------------------------------------------------------------------
(***************************************************************************)
(* Where every call is: PlacesInv is an invariant of Transport, and with   *)
(* it that no request is written twice, that no call is served after it    *)
(* was told its outcome, and that a scan has the bus to itself.            *)
(***************************************************************************)

Waiting == {"pending", "cancelled"}

\* The items of a queue, as the worker finds them.
Queued(f, q) ==
  /\ Distinct(q)
  /\ \A i \in DOMAIN q : f[q[i]] \in Waiting /\ sends[q[i]] = 0

LEMMA Items ==
  ASSUME NEW ctl \in Seq(Control), NEW pol \in Seq(Poll \cup Probe)
  PROVE  /\ \A i \in DOMAIN ctl : ctl[i] \in Control /\ ctl[i] \in Request /\ ctl[i] # NoRequest
         /\ \A j \in DOMAIN pol : pol[j] \in Poll \cup Probe /\ pol[j] \in Request
                                  /\ pol[j] # NoRequest
         /\ \A i \in DOMAIN ctl, j \in DOMAIN pol : ctl[i] # pol[j]
<1>1. \A i \in DOMAIN ctl : ctl[i] \in Control
  BY ElementOfSeq, LenProperties
<1>2. \A j \in DOMAIN pol : pol[j] \in Poll \cup Probe
  BY ElementOfSeq, LenProperties
<1>3. Control \cap (Poll \cup Probe) = {} /\ NoRequest \notin Request
  BY RequestAssumption DEF Control
<1>4. Control \subseteq Request /\ Poll \cup Probe \subseteq Request
  BY DEF Control, Request
<1>. QED BY <1>1, <1>2, <1>3, <1>4

LEMMA NoItems == DOMAIN <<>> = {} /\ Distinct(<<>>) /\ Elems(<<>>) = {}
BY DEF Distinct, Elems

\* Settling calls, and perhaps dropping all controls, disturbs no other call.
Settling ==
  /\ fut' \in FutType
  /\ UNCHANGED <<polls, cur, sends>>
  /\ controls' \in {controls, <<>>}
  /\ \A r \in Request :
        \/ fut'[r] = fut[r]
        \/ fut[r] = "pending" /\ fut'[r] = "cancelled"
        \/ fut[r] = "pending" /\ controls' = <<>> /\ r \in Elems(controls)
           /\ fut'[r] \in Settled

LEMMA SettlingKeeps ==
  ASSUME TypeOK, PlacesInv, Settling
  PROVE  /\ CallsInv' /\ QueueInv(controls)' /\ QueueInv(polls)'
         /\ \A r \in Request : fut[r] = "gate" <=> fut'[r] = "gate"
         /\ cur # NoRequest /\ fut[cur] \in Waiting => fut'[cur] \in Waiting
<1>1. CallsInv'
  <2>1. \A r \in Request : fut'[r] \in {"new", "gate"} => fut'[r] = fut[r]
    BY DEF Settling, Settled
  <2>. QED BY <2>1 DEF Settling, PlacesInv, CallsInv
<1>2. controls \in Seq(Control) /\ polls \in Seq(Poll \cup Probe)
  BY DEF TypeOK, QueueType
<1>3. QueueInv(controls)'
  <2>1. CASE controls' = <<>>
    BY <2>1, NoItems DEF QueueInv
  <2>2. CASE controls' = controls /\ controls # <<>>
    <3>1. \A r \in Request : fut'[r] = fut[r] \/ fut'[r] = "cancelled"
      BY <2>2 DEF Settling
    <3>. QED BY <1>2, <2>2, <3>1, Items DEF Settling, PlacesInv, QueueInv
  <2>. QED BY <2>1, <2>2 DEF Settling
<1>4. QueueInv(polls)'
  <2>1. \A i \in DOMAIN polls : fut'[polls[i]] = fut[polls[i]] \/ fut'[polls[i]] = "cancelled"
    BY <1>2, Items DEF Settling, Elems
  <2>. QED BY <2>1 DEF Settling, PlacesInv, QueueInv
<1>5. \A r \in Request : fut[r] = "gate" <=> fut'[r] = "gate"
  BY DEF Settling, Settled
<1>6. ASSUME cur # NoRequest, fut[cur] \in Waiting
      PROVE  fut'[cur] \in Waiting
  <2>1. cur \in Request /\ cur \notin Elems(controls)
    BY <1>6 DEF TypeOK, WorkType, PlacesInv, QueueInv, Elems
  <2>. QED BY <1>6, <2>1 DEF Settling, Waiting
<1>. QED BY <1>1, <1>3, <1>4, <1>5, <1>6

\* Settling with the gate, the scan, the worker and _idle left alone.
LEMMA SettlingIsSafe ==
  ASSUME TypeOK, PlacesInv, Settling, TypeOK', UNCHANGED <<gateQ, scan, worker, idle>>
  PROVE  PlacesInv'
<1>1. GateInv'
  <2>1. \A i \in DOMAIN gateQ : gateQ[i] # NoRequest => gateQ[i] \in Request
    BY ElementOfSeq, LenProperties DEF TypeOK, GateType
  <2>. QED BY <2>1, SettlingKeeps DEF PlacesInv, GateInv, Distinct
<1>2. WorkerInv'
  BY SettlingKeeps DEF PlacesInv, WorkerInv, Settling, Waiting
<1>3. IdleInv'
  BY DEF PlacesInv, IdleInv, Settling
<1>4. ExclusiveBus'
  BY NoItems DEF PlacesInv, ExclusiveBus, Settling, Elems
<1>. QED BY <1>1, <1>2, <1>3, <1>4, SettlingKeeps DEF PlacesInv

-----------------------------------------------------------------------------
(***************************************************************************)
(* The worker takes its next item.                                         *)
(***************************************************************************)

\* What is left of a queue after its item at i was taken.
LEMMA QueuedAfter ==
  ASSUME NEW S, NEW q \in Seq(S), NEW f, NEW i \in DOMAIN q, Queued(f, q)
  PROVE  /\ Queued(f, After(q, i))
         /\ \A j \in DOMAIN After(q, i) : After(q, i)[j] # q[i]
         /\ Elems(After(q, i)) \subseteq Elems(q)
<1>1. /\ DOMAIN q = 1 .. Len(q) /\ Len(q) \in Nat
      /\ DOMAIN After(q, i) = 1 .. (Len(q) - i)
      /\ \A j \in 1 .. (Len(q) - i) : After(q, i)[j] = q[i + j]
  BY AfterFacts
<1>2. \A j \in DOMAIN After(q, i) :
         i + j \in DOMAIN q /\ i + j # i /\ After(q, i)[j] = q[i + j]
  BY <1>1
<1>3. \A j, k \in DOMAIN After(q, i) : j # k => i + j # i + k
  BY <1>1
<1>4. Distinct(After(q, i))
  BY <1>2, <1>3 DEF Distinct, Queued
<1>. QED BY <1>2, <1>4 DEF Queued, Distinct, Elems

\* Starting r, which is in no queue, on a connection or towards one.
LEMMA StartIsSafe ==
  ASSUME TypeOK, NEW r \in Request, NEW w, StartOn(r, w),
         fut' \in FutType, fut'[r] \in Waiting, sends[r] = 0,
         \A q \in Request : sends[q] <= 1 /\ (fut'[q] \in {"new", "gate"} => sends[q] = 0),
         Queued(fut', controls'), Queued(fut', polls'),
         controls' \in Seq(Control), polls' \in Seq(Poll \cup Probe),
         r \notin Elems(controls'), r \notin Elems(polls')
  PROVE  /\ CallsInv' /\ QueueInv(controls)' /\ QueueInv(polls)' /\ WorkerInv'
         /\ cur' = r
<1>1. cur' = r /\ worker' \in {"connecting", "exchange"} /\ r # NoRequest
      /\ (worker' = "connecting" => sends' = sends)
  BY RequestAssumption DEF StartOn
<1>2. \A q \in Request : sends'[q] = IF q = r THEN sends'[q] ELSE sends[q]
  BY DEF StartOn, TypeOK, BusType
<1>3. sends'[r] \in {0, 1}
  BY DEF StartOn, TypeOK, BusType
<1>4. CallsInv'
  <2>1. \A q \in Request : sends'[q] <= 1
    BY <1>2, <1>3
  <2>. QED BY <1>1, <1>2, <2>1 DEF CallsInv, Waiting
<1>5. ASSUME NEW q, q = controls' \/ q = polls'
      PROVE  /\ Distinct(q)
             /\ \A i \in DOMAIN q : fut'[q[i]] \in Waiting /\ sends'[q[i]] = 0 /\ q[i] # cur'
  <2>1. \A i \in DOMAIN q : q[i] \in Request /\ q[i] # r
    BY <1>5, Items DEF Elems
  <2>. QED BY <1>1, <1>2, <1>5, <2>1 DEF Queued
<1>6. WorkerInv'
  BY <1>1 DEF WorkerInv, Waiting, Busy
<1>. QED BY <1>1, <1>4, <1>5, <1>6 DEF QueueInv, Waiting

LEMMA TakeNextIsSafe ==
  ASSUME TypeOK, NEW ctl \in Seq(Control), NEW pol \in Seq(Poll \cup Probe), NEW w,
         TakeNext(fut', ctl, pol, w), fut' \in FutType,
         Queued(fut', ctl), Queued(fut', pol),
         \A q \in Request : sends[q] <= 1 /\ (fut'[q] \in {"new", "gate"} => sends[q] = 0),
         idle => ctl = <<>> /\ pol = <<>>
  PROVE  /\ CallsInv' /\ QueueInv(controls)' /\ QueueInv(polls)' /\ WorkerInv' /\ IdleInv'
         /\ {cur'} \cup Elems(controls') \cup Elems(polls')
               \subseteq {NoRequest} \cup Elems(ctl) \cup Elems(pol)
<1>1. CASE \E i \in DOMAIN ctl :
             /\ controls' = After(ctl, i) /\ polls' = pol
             /\ StartOn(ctl[i], w) /\ UNCHANGED <<wake, idle>>
  <2>1. PICK i \in DOMAIN ctl :
             /\ controls' = After(ctl, i) /\ polls' = pol
             /\ StartOn(ctl[i], w) /\ UNCHANGED <<wake, idle>>
    BY <1>1
  <2>2. /\ controls' \in Seq(Control) /\ Queued(fut', controls')
        /\ ctl[i] \notin Elems(controls') /\ Elems(controls') \subseteq Elems(ctl)
    <3>1. After(ctl, i) \in Seq(Control)
      BY AfterFacts
    <3>2. /\ Queued(fut', After(ctl, i))
          /\ \A j \in DOMAIN After(ctl, i) : After(ctl, i)[j] # ctl[i]
          /\ Elems(After(ctl, i)) \subseteq Elems(ctl)
      BY QueuedAfter
    <3>. QED BY <2>1, <3>1, <3>2 DEF Elems
  <2>3. ctl[i] \in Request /\ ctl[i] \notin Elems(pol) /\ ctl[i] \in Elems(ctl)
    BY Items DEF Elems
  <2>4. fut'[ctl[i]] \in Waiting /\ sends[ctl[i]] = 0
    BY DEF Queued
  <2>5. /\ CallsInv' /\ QueueInv(controls)' /\ QueueInv(polls)' /\ WorkerInv'
        /\ cur' = ctl[i]
    BY <2>1, <2>2, <2>3, <2>4, StartIsSafe
  <2>6. ~idle
    BY <2>3 DEF Elems
  <2>. QED BY <2>1, <2>2, <2>3, <2>5, <2>6 DEF IdleInv
<1>2. CASE \E i \in DOMAIN pol :
             /\ controls' = <<>> /\ polls' = After(pol, i)
             /\ StartOn(pol[i], w) /\ UNCHANGED <<wake, idle>>
  <2>1. PICK i \in DOMAIN pol :
             /\ controls' = <<>> /\ polls' = After(pol, i)
             /\ StartOn(pol[i], w) /\ UNCHANGED <<wake, idle>>
    BY <1>2
  <2>2. /\ polls' \in Seq(Poll \cup Probe) /\ Queued(fut', polls')
        /\ pol[i] \notin Elems(polls') /\ Elems(polls') \subseteq Elems(pol)
    <3>1. After(pol, i) \in Seq(Poll \cup Probe)
      BY AfterFacts
    <3>2. /\ Queued(fut', After(pol, i))
          /\ \A j \in DOMAIN After(pol, i) : After(pol, i)[j] # pol[i]
          /\ Elems(After(pol, i)) \subseteq Elems(pol)
      BY QueuedAfter
    <3>. QED BY <2>1, <3>1, <3>2 DEF Elems
  <2>3. pol[i] \in Request /\ pol[i] \in Elems(pol)
    BY Items DEF Elems
  <2>4. fut'[pol[i]] \in Waiting /\ sends[pol[i]] = 0
    BY DEF Queued
  <2>5. controls' \in Seq(Control) /\ Queued(fut', controls') /\ Elems(controls') = {}
    BY <2>1, EmptySeqType, NoItems DEF Queued
  <2>6. /\ CallsInv' /\ QueueInv(controls)' /\ QueueInv(polls)' /\ WorkerInv'
        /\ cur' = pol[i]
    BY <2>1, <2>2, <2>3, <2>4, <2>5, StartIsSafe
  <2>7. ~idle
    BY <2>3 DEF Elems
  <2>. QED BY <2>1, <2>2, <2>3, <2>5, <2>6, <2>7 DEF IdleInv
<1>3. CASE /\ controls' = <<>> /\ polls' = <<>>
           /\ worker' = "idle" /\ cur' = NoRequest
           /\ UNCHANGED busVars
  <2>1. CallsInv'
    BY <1>3, RequestAssumption DEF CallsInv, busVars
  <2>. QED BY <1>3, <2>1, NoItems DEF QueueInv, WorkerInv, Busy, IdleInv
<1>. QED BY <1>1, <1>2, <1>3 DEF TakeNext

-----------------------------------------------------------------------------
(***************************************************************************)
(* A call is queued.                                                       *)
(***************************************************************************)

LEMMA DistinctAppend ==
  ASSUME NEW S, NEW q \in Seq(S), NEW e \in S, Distinct(q), \A i \in DOMAIN q : q[i] # e
  PROVE  /\ Distinct(Append(q, e))
         /\ \A i \in DOMAIN Append(q, e) :
               Append(q, e)[i] = e \/ \E j \in DOMAIN q : Append(q, e)[i] = q[j]
<1>1. /\ DOMAIN q = 1 .. Len(q) /\ Len(q) \in Nat
      /\ DOMAIN Append(q, e) = 1 .. (Len(q) + 1)
      /\ \A i \in 1 .. Len(q) : Append(q, e)[i] = q[i]
      /\ Append(q, e)[Len(q) + 1] = e
  BY AppendFacts
<1>2. \A i \in DOMAIN Append(q, e) : i \in DOMAIN q \/ i = Len(q) + 1
  BY <1>1
<1>. QED BY <1>1, <1>2 DEF Distinct

LEMMA DistinctRemoveAt ==
  ASSUME NEW S, NEW q \in Seq(S), NEW i \in DOMAIN q, Distinct(q)
  PROVE  /\ Distinct(RemoveAt(q, i))
         /\ \A j \in DOMAIN RemoveAt(q, i) :
               RemoveAt(q, i)[j] # q[i] /\ \E k \in DOMAIN q : RemoveAt(q, i)[j] = q[k]
<1>1. /\ DOMAIN q = 1 .. Len(q) /\ Len(q) \in Nat
      /\ DOMAIN RemoveAt(q, i) = 1 .. (Len(q) - 1)
      /\ \A j \in 1 .. (Len(q) - 1) : RemoveAt(q, i)[j] = IF j < i THEN q[j] ELSE q[j + 1]
  BY RemoveAtFacts
<1>. DEFINE at(j) == IF j < i THEN j ELSE j + 1
<1>2. \A j \in DOMAIN RemoveAt(q, i) :
         at(j) \in DOMAIN q /\ at(j) # i /\ RemoveAt(q, i)[j] = q[at(j)]
  BY <1>1
<1>3. \A j, k \in DOMAIN RemoveAt(q, i) : j # k => at(j) # at(k)
  BY <1>1
<1>. HIDE DEF at
<1>4. Distinct(RemoveAt(q, i))
  BY <1>2, <1>3 DEF Distinct
<1>. QED BY <1>2, <1>4 DEF Distinct

\* r, a call that waits nowhere, was refused or queued.
LEMMA EnqueueIsSafe ==
  ASSUME TypeOK, PlacesInv, TypeOK', NEW r \in Request, fut[r] \in {"new", "gate"},
         Enqueue(r), UNCHANGED <<cur, sends>>
  PROVE  /\ CallsInv' /\ QueueInv(controls)' /\ QueueInv(polls)' /\ WorkerInv' /\ IdleInv'
         /\ \A q \in Request : q # r => (fut[q] = "gate" <=> fut'[q] = "gate")
         /\ Elems(controls') \cup Elems(polls') \subseteq Elems(controls) \cup Elems(polls) \cup {r}
<1>1. controls \in Seq(Control) /\ polls \in Seq(Poll \cup Probe)
  BY DEF TypeOK, QueueType
<1>2. r # cur /\ r \notin Elems(controls) /\ r \notin Elems(polls) /\ sends[r] = 0
  BY DEF PlacesInv, CallsInv, QueueInv, Elems
<1>3. ASSUME NEW o \in Settled, Refuse(r, o)
      PROVE  /\ CallsInv' /\ QueueInv(controls)' /\ QueueInv(polls)' /\ WorkerInv' /\ IdleInv'
             /\ \A q \in Request : q # r => (fut[q] = "gate" <=> fut'[q] = "gate")
             /\ Elems(controls') \cup Elems(polls')
                   \subseteq Elems(controls) \cup Elems(polls) \cup {r}
  <2>1. \A q \in Request : q # r => fut'[q] = fut[q]
    BY <1>3 DEF Refuse, TypeOK
  <2>2. CallsInv'
    BY <1>2, <2>1 DEF PlacesInv, CallsInv
  <2>3. QueueInv(controls)' /\ QueueInv(polls)'
    BY <1>1, <1>2, <1>3, <2>1, Items DEF Refuse, PlacesInv, QueueInv, Elems
  <2>4. WorkerInv' /\ IdleInv'
    BY <1>2, <1>3, <2>1 DEF Refuse, PlacesInv, WorkerInv, IdleInv, TypeOK, WorkType
  <2>. QED BY <1>3, <2>1, <2>2, <2>3, <2>4 DEF Refuse
<1>4. ASSUME Placed, fut'[r] = "pending",
             \A q \in Request : q # r =>
                fut'[q] = fut[q] \/ (fut[q] = "pending" /\ fut'[q] \in Settled /\ q # cur)
      PROVE  /\ CallsInv' /\ WorkerInv' /\ IdleInv'
             /\ \A q \in Request : q # r => (fut[q] = "gate" <=> fut'[q] = "gate")
  <2>1. CallsInv'
    BY <1>4 DEF PlacesInv, CallsInv, Settled
  <2>2. WorkerInv' /\ IdleInv'
    BY <1>2, <1>4 DEF Placed, PlacesInv, WorkerInv, IdleInv, Busy, TypeOK, WorkType
  <2>. QED BY <1>4, <2>1, <2>2 DEF Settled
<1>5. ASSUME r \in Poll \cup Probe, Placed, fut' = [fut EXCEPT ![r] = "pending"],
             polls' = Append(polls, r), controls' = controls
      PROVE  /\ QueueInv(controls)' /\ QueueInv(polls)'
             /\ Elems(controls') \cup Elems(polls')
                   \subseteq Elems(controls) \cup Elems(polls) \cup {r}
  <2>1. fut'[r] = "pending" /\ \A q \in Request : q # r => fut'[q] = fut[q]
    BY <1>5 DEF TypeOK
  <2>2. QueueInv(polls)' /\ Elems(polls') \subseteq Elems(polls) \cup {r}
    <3>1. \A i \in DOMAIN polls : polls[i] \in Request /\ fut'[polls[i]] = fut[polls[i]]
      BY <1>1, <1>2, <2>1, Items DEF Elems
    <3>2. QueueInv(polls)
      BY DEF PlacesInv
    <3>3. \A i \in DOMAIN polls : polls[i] # r
      BY <1>2 DEF Elems
    <3>4. /\ Distinct(polls')
          /\ \A i \in DOMAIN polls' :
                polls'[i] = r \/ \E j \in DOMAIN polls : polls'[i] = polls[j]
      BY <1>1, <1>5, <3>2, <3>3, DistinctAppend DEF QueueInv
    <3>. QED BY <1>2, <2>1, <3>1, <3>2, <3>4 DEF QueueInv, Elems
  <2>3. QueueInv(controls)'
    BY <1>1, <1>2, <1>5, <2>1, Items DEF QueueInv, PlacesInv, Elems
  <2>. QED BY <1>5, <2>2, <2>3
<1>6. ASSUME r \in Control, Placed, fut' = [fut EXCEPT ![r] = "pending"],
             controls' = Append(controls, r), polls' = polls
      PROVE  /\ QueueInv(controls)' /\ QueueInv(polls)'
             /\ Elems(controls') \cup Elems(polls')
                   \subseteq Elems(controls) \cup Elems(polls) \cup {r}
  <2>1. fut'[r] = "pending" /\ \A q \in Request : q # r => fut'[q] = fut[q]
    BY <1>6 DEF TypeOK
  <2>2. QueueInv(controls)' /\ Elems(controls') \subseteq Elems(controls) \cup {r}
    <3>1. \A i \in DOMAIN controls : controls[i] \in Request /\ fut'[controls[i]] = fut[controls[i]]
      BY <1>1, <1>2, <2>1, Items DEF Elems
    <3>2. QueueInv(controls)
      BY DEF PlacesInv
    <3>3. \A i \in DOMAIN controls : controls[i] # r
      BY <1>2 DEF Elems
    <3>4. /\ Distinct(controls')
          /\ \A i \in DOMAIN controls' :
                controls'[i] = r \/ \E j \in DOMAIN controls : controls'[i] = controls[j]
      BY <1>1, <1>6, <3>2, <3>3, DistinctAppend DEF QueueInv
    <3>. QED BY <1>2, <2>1, <3>1, <3>2, <3>4 DEF QueueInv, Elems
  <2>3. QueueInv(polls)'
    BY <1>1, <1>2, <1>6, <2>1, Items DEF QueueInv, PlacesInv, Elems
  <2>. QED BY <1>6, <2>2, <2>3
<1>7. ASSUME r \in Stateful, Placed, NEW i \in SameKey(r),
             fut' = [Settle(fut, controls[i], "superseded") EXCEPT ![r] = "pending"],
             controls' = Replace(controls, i, r), polls' = polls
      PROVE  /\ QueueInv(controls)' /\ QueueInv(polls)'
             /\ fut'[r] = "pending"
             /\ \A q \in Request : q # r =>
                  fut'[q] = fut[q] \/ (fut[q] = "pending" /\ fut'[q] \in Settled /\ q # cur)
             /\ Elems(controls') \cup Elems(polls')
                   \subseteq Elems(controls) \cup Elems(polls) \cup {r}
  <2>1. i \in DOMAIN controls /\ r \in Control /\ controls[i] \in Request
    BY <1>1, <1>7, Items DEF SameKey, Control
  <2>2. /\ DOMAIN controls' = DOMAIN controls
        /\ \A j \in DOMAIN controls : controls'[j] = IF j = i THEN r ELSE controls[j]
    BY <1>1, <1>7, <2>1, ReplaceFacts
  <2>3. /\ fut'[r] = "pending"
        /\ \A q \in Request : q # r /\ q # controls[i] => fut'[q] = fut[q]
        /\ controls[i] # r /\ controls[i] # cur
        /\ \/ fut'[controls[i]] = fut[controls[i]]
           \/ fut[controls[i]] = "pending" /\ fut'[controls[i]] = "superseded"
    BY <1>2, <1>7, <2>1 DEF Settle, TypeOK, Elems, PlacesInv, QueueInv
  <2>4. QueueInv(controls)'
    <3>1. \A j \in DOMAIN controls : j # i => controls[j] # controls[i] /\ controls[j] # r
      BY <1>2, <2>1 DEF PlacesInv, QueueInv, Distinct, Elems
    <3>2. \A j \in DOMAIN controls : j # i => fut'[controls[j]] = fut[controls[j]]
      BY <1>1, <2>3, <3>1, Items
    <3>3. Distinct(controls')
      BY <2>2, <3>1 DEF PlacesInv, QueueInv, Distinct
    <3>. QED BY <1>2, <2>2, <2>3, <3>2, <3>3 DEF PlacesInv, QueueInv
  <2>5. QueueInv(polls)'
    <3>1. \A j \in DOMAIN polls : fut'[polls[j]] = fut[polls[j]]
      BY <1>1, <1>2, <2>1, <2>3, Items DEF Elems
    <3>. QED BY <1>7, <3>1 DEF PlacesInv, QueueInv
  <2>. QED BY <1>7, <2>2, <2>3, <2>4, <2>5 DEF Elems, Settled
<1>8. CASE EnqueuePoll(r)
  <2>1. fut'[r] = "pending" /\ \A q \in Request : q # r => fut'[q] = fut[q]
    BY <1>8 DEF EnqueuePoll, TypeOK
  <2>. QED BY <1>4, <1>5, <1>8, <2>1 DEF EnqueuePoll
<1>9. CASE EnqueueAction(r)
  <2>1. CASE Refuse(r, "full")
    BY <1>3, <2>1 DEF Settled
  <2>2. CASE fut' = [fut EXCEPT ![r] = "pending"] /\ controls' = Append(controls, r)
             /\ UNCHANGED polls /\ Placed
    <3>1. fut'[r] = "pending" /\ \A q \in Request : q # r => fut'[q] = fut[q]
      BY <2>2 DEF TypeOK
    <3>. QED BY <1>4, <1>6, <1>9, <2>2, <3>1 DEF EnqueueAction, Control
  <2>. QED BY <1>9, <2>1, <2>2 DEF EnqueueAction
<1>10. CASE EnqueueStateful(r)
  <2>1. CASE Refuse(r, "full")
    BY <1>3, <2>1 DEF Settled
  <2>2. CASE fut' = [fut EXCEPT ![r] = "pending"] /\ controls' = Append(controls, r)
             /\ UNCHANGED polls /\ Placed
    <3>1. fut'[r] = "pending" /\ \A q \in Request : q # r => fut'[q] = fut[q]
      BY <2>2 DEF TypeOK
    <3>. QED BY <1>4, <1>6, <1>10, <2>2, <3>1 DEF EnqueueStateful, Control
  <2>3. CASE \E i \in SameKey(r) :
           /\ fut' = [Settle(fut, controls[i], "superseded") EXCEPT ![r] = "pending"]
           /\ controls' = Replace(controls, i, r)
           /\ polls' = polls
           /\ Placed
    BY <1>4, <1>7, <1>10, <2>3 DEF EnqueueStateful
  <2>. QED BY <1>10, <2>1, <2>2, <2>3 DEF EnqueueStateful
<1>. QED BY <1>3, <1>8, <1>9, <1>10 DEF Enqueue, Settled

-----------------------------------------------------------------------------
(***************************************************************************)
(* Every action keeps PlacesInv.                                           *)
(***************************************************************************)

LEMMA InitInv == Init => PlacesInv
<1>. SUFFICES ASSUME Init PROVE PlacesInv
  OBVIOUS
<1>1. CallsInv
  BY RequestAssumption DEF Init, CallsInv
<1>2. QueueInv(controls) /\ QueueInv(polls) /\ GateInv
  BY NoItems DEF Init, QueueInv, GateInv
<1>3. WorkerInv /\ IdleInv /\ ExclusiveBus
  BY DEF Init, WorkerInv, Busy, IdleInv, ExclusiveBus
<1>. QED BY <1>1, <1>2, <1>3 DEF PlacesInv

LEMMA GateItems ==
  ASSUME TypeOK
  PROVE  /\ gateQ \in Seq(Request \cup {NoRequest})
         /\ \A i \in DOMAIN gateQ : gateQ[i] \in Request \cup {NoRequest}
BY ElementOfSeq, LenProperties DEF TypeOK, GateType

LEMMA SubmitIsSafe ==
  ASSUME TypeOK, PlacesInv, TypeOK', NEW r \in Request, Submit(r)
  PROVE  PlacesInv'
<1>1. fut[r] = "new" /\ UNCHANGED <<scan, cur, sends>>
  BY DEF Submit, busVars
<1>2. CASE GateFree /\ gateQ = <<>> /\ Enqueue(r) /\ UNCHANGED gateQ
  <2>1. GateInv'
    BY <1>2, NoItems DEF GateInv
  <2>2. ExclusiveBus'
    BY <1>1, <1>2 DEF ExclusiveBus, GateFree
  <2>. QED BY <1>1, <1>2, <2>1, <2>2, EnqueueIsSafe DEF PlacesInv
<1>3. CASE /\ fut' = [fut EXCEPT ![r] = "gate"] /\ gateQ' = Append(gateQ, r)
           /\ UNCHANGED <<queueVars, worker>>
  <2>1. \A q \in Request : q # r => fut'[q] = fut[q]
    BY <1>3 DEF TypeOK
  <2>2. r \notin Elems(controls) /\ r \notin Elems(polls) /\ r # cur /\ sends[r] = 0
    BY <1>1 DEF PlacesInv, CallsInv, QueueInv, Elems
  <2>3. CallsInv'
    BY <1>1, <2>1, <2>2 DEF PlacesInv, CallsInv
  <2>4. QueueInv(controls)' /\ QueueInv(polls)'
    <3>1. controls \in Seq(Control) /\ polls \in Seq(Poll \cup Probe)
      BY DEF TypeOK, QueueType
    <3>. QED BY <1>1, <1>3, <2>1, <2>2, <3>1, Items DEF PlacesInv, QueueInv, Elems, queueVars
  <2>5. GateInv'
    <3>1. \A i \in DOMAIN gateQ : gateQ[i] # r
      BY <1>1, RequestAssumption DEF PlacesInv, GateInv
    <3>2. /\ Distinct(gateQ')
          /\ \A i \in DOMAIN gateQ' :
                gateQ'[i] = r \/ \E j \in DOMAIN gateQ : gateQ'[i] = gateQ[j]
      BY <1>3, <3>1, GateItems, DistinctAppend DEF PlacesInv, GateInv
    <3>3. fut'[r] = "gate" /\ r # NoRequest
      BY <1>3, RequestAssumption DEF TypeOK
    <3>. QED BY <1>1, <2>1, <3>1, <3>2, <3>3, GateItems DEF PlacesInv, GateInv
  <2>6. WorkerInv' /\ IdleInv' /\ ExclusiveBus'
    BY <1>1, <1>3, <2>1, <2>2
       DEF PlacesInv, WorkerInv, IdleInv, ExclusiveBus, queueVars, TypeOK, WorkType
  <2>. QED BY <2>3, <2>4, <2>5, <2>6 DEF PlacesInv
<1>. QED BY <1>2, <1>3 DEF Submit

LEMMA PassGateIsSafe ==
  ASSUME TypeOK, PlacesInv, TypeOK', PassGate
  PROVE  PlacesInv'
<1>. DEFINE h == Head(gateQ)
<1>1. /\ h \in Request \cup {NoRequest} /\ h = gateQ[1] /\ 1 \in DOMAIN gateQ
      /\ \A i \in DOMAIN gateQ' : gateQ'[i] # h /\ \E j \in DOMAIN gateQ : gateQ'[i] = gateQ[j]
      /\ Distinct(gateQ')
  <2>1. /\ h \in Request \cup {NoRequest} /\ h = gateQ[1]
        /\ DOMAIN gateQ = 1 .. Len(gateQ) /\ Len(gateQ) \in Nat \ {0}
        /\ DOMAIN gateQ' = 1 .. (Len(gateQ) - 1)
        /\ \A j \in 1 .. (Len(gateQ) - 1) : gateQ'[j] = gateQ[j + 1]
    BY TailFacts DEF PassGate, TypeOK, GateType
  <2>2. \A i \in DOMAIN gateQ' :
           i + 1 \in DOMAIN gateQ /\ i + 1 # 1 /\ gateQ'[i] = gateQ[i + 1]
    BY <2>1
  <2>3. 1 \in DOMAIN gateQ /\ \A i, j \in DOMAIN gateQ' : i # j => i + 1 # j + 1
    BY <2>1
  <2>. QED BY <2>1, <2>2, <2>3 DEF PlacesInv, GateInv, Distinct
<1>2. UNCHANGED <<cur, sends>>
  BY DEF PassGate, busVars
<1>3. CASE h # NoRequest /\ Enqueue(h) /\ UNCHANGED scan
  <2>1. h \in Request /\ fut[h] = "gate"
    BY <1>1, <1>3 DEF PlacesInv, GateInv
  <2>2. GateInv'
    BY <1>1, <1>2, <1>3, <2>1, EnqueueIsSafe, GateItems DEF PlacesInv, GateInv
  <2>3. ExclusiveBus'
    BY <1>3 DEF PassGate, ExclusiveBus, GateFree
  <2>. QED BY <1>2, <1>3, <2>1, <2>2, <2>3, EnqueueIsSafe DEF PlacesInv
<1>4. CASE h = NoRequest /\ scan' = "drain" /\ UNCHANGED <<fut, queueVars, worker>>
  <2>1. GateInv'
    BY <1>1, <1>4 DEF PlacesInv, GateInv
  <2>2. ExclusiveBus'
    BY <1>4 DEF ExclusiveBus
  <2>. QED BY <1>2, <1>4, <2>1, <2>2
           DEF PlacesInv, CallsInv, QueueInv, WorkerInv, IdleInv, queueVars
<1>. QED BY <1>3, <1>4 DEF PassGate

\* Cancelling a call, or letting the scan go, leaves the gate's other waiters.
LEMMA LeaveGate ==
  ASSUME TypeOK, PlacesInv, NEW e, NEW i \in DOMAIN gateQ, gateQ[i] = e, gateQ' = RemoveAt(gateQ, i)
  PROVE  /\ Distinct(gateQ')
         /\ \A j \in DOMAIN gateQ' : gateQ'[j] # e /\ \E k \in DOMAIN gateQ : gateQ'[j] = gateQ[k]
BY GateItems, DistinctRemoveAt DEF PlacesInv, GateInv

LEMMA CancelCallIsSafe ==
  ASSUME TypeOK, PlacesInv, TypeOK', NEW r \in Request, CancelCall(r)
  PROVE  PlacesInv'
<1>1. /\ UNCHANGED <<controls, polls, idle, scan, worker, cur, sends>>
      /\ fut' = [fut EXCEPT ![r] = "cancelled"]
  BY DEF CancelCall, queueVars, workVars, busVars
<1>2. CASE fut[r] = "pending" /\ UNCHANGED gateQ
  <2>1. Settling
    BY <1>1, <1>2 DEF Settling, TypeOK, FutType
  <2>. QED BY <1>1, <1>2, <2>1, SettlingIsSafe
<1>3. CASE fut[r] = "gate" /\ \E i \in DOMAIN gateQ : gateQ[i] = r /\ gateQ' = RemoveAt(gateQ, i)
  <2>1. \A q \in Request : q # r => fut'[q] = fut[q]
    BY <1>1 DEF TypeOK
  <2>2. r \notin Elems(controls) /\ r \notin Elems(polls) /\ r # cur
    BY <1>3 DEF PlacesInv, CallsInv, QueueInv, Elems
  <2>3. GateInv'
    BY <1>1, <1>3, <2>1, LeaveGate, GateItems DEF PlacesInv, GateInv
  <2>4. QueueInv(controls)' /\ QueueInv(polls)'
    <3>1. controls \in Seq(Control) /\ polls \in Seq(Poll \cup Probe)
      BY DEF TypeOK, QueueType
    <3>. QED BY <1>1, <2>1, <2>2, <3>1, Items DEF PlacesInv, QueueInv, Elems
  <2>5. CallsInv'
    BY <1>1 DEF PlacesInv, CallsInv, TypeOK
  <2>6. WorkerInv' /\ IdleInv' /\ ExclusiveBus'
    BY <1>1, <2>1, <2>2 DEF PlacesInv, WorkerInv, IdleInv, ExclusiveBus, TypeOK, WorkType
  <2>. QED BY <2>3, <2>4, <2>5, <2>6 DEF PlacesInv
<1>. QED BY <1>2, <1>3 DEF CancelCall

LEMMA ScanIsSafe ==
  ASSUME TypeOK, PlacesInv, TypeOK', ScanBegin \/ ScanStep \/ ScanCancel
  PROVE  PlacesInv'
<1>1. CASE ScanBegin
  <2>1. UNCHANGED <<fut, controls, polls, idle, worker, cur, sends>>
    BY <1>1 DEF ScanBegin, queueVars, workVars, busVars
  <2>2. \A i \in DOMAIN gateQ : gateQ[i] # NoRequest
    BY <1>1 DEF ScanBegin, PlacesInv, GateInv
  <2>3. GateInv'
    <3>1. CASE gateQ = <<>> /\ UNCHANGED gateQ
      BY <3>1, NoItems DEF GateInv
    <3>2. CASE scan' = "gate" /\ gateQ' = Append(gateQ, NoRequest)
      <4>1. /\ Distinct(gateQ')
            /\ \A i \in DOMAIN gateQ' :
                  gateQ'[i] = NoRequest \/ \E j \in DOMAIN gateQ : gateQ'[i] = gateQ[j]
        BY <2>2, <3>2, GateItems, DistinctAppend DEF PlacesInv, GateInv
      <4>. QED BY <2>1, <2>2, <3>2, <4>1 DEF PlacesInv, GateInv
    <3>. QED BY <1>1, <3>1, <3>2 DEF ScanBegin
  <2>4. ExclusiveBus'
    BY <1>1 DEF ScanBegin, ExclusiveBus
  <2>. QED BY <2>1, <2>3, <2>4 DEF PlacesInv, CallsInv, QueueInv, WorkerInv, IdleInv
<1>2. ASSUME NEW p \in Probe, ScanProbe(p)
      PROVE  PlacesInv'
  <2>1. p \in Request /\ fut[p] = "new" /\ UNCHANGED <<cur, sends, gateQ>>
    BY <1>2 DEF ScanProbe, Request, busVars
  <2>2. ({cur} \cup Elems(controls) \cup Elems(polls)) \subseteq (Probe \cup {NoRequest})
    BY <1>2, NoItems DEF ScanProbe, ScanDrained, PlacesInv, ExclusiveBus, IdleInv, Elems
  <2>3. ExclusiveBus'
    BY <1>2, <2>1, <2>2, EnqueueIsSafe DEF ScanProbe, ExclusiveBus
  <2>4. GateInv'
    <3>1. \A i \in DOMAIN gateQ : gateQ[i] # NoRequest /\ fut[gateQ[i]] = "gate"
      BY <1>2 DEF ScanProbe, ScanDrained, PlacesInv, GateInv
    <3>2. \A i \in DOMAIN gateQ : gateQ[i] \in Request /\ gateQ[i] # p
      BY <2>1, <3>1, GateItems
    <3>3. \A q \in Request : q # p => (fut[q] = "gate" <=> fut'[q] = "gate")
      BY <1>2, <2>1, EnqueueIsSafe DEF ScanProbe
    <3>. QED BY <2>1, <3>1, <3>2, <3>3 DEF PlacesInv, GateInv
  <2>. QED BY <1>2, <2>1, <2>3, <2>4, EnqueueIsSafe DEF ScanProbe, PlacesInv
<1>3. CASE ScanEnd
  <2>1. UNCHANGED <<fut, gateQ, controls, polls, idle, worker, cur, sends>> /\ scan' = "off"
        /\ scan = "bus"
    BY <1>3 DEF ScanEnd, queueVars, workVars, busVars
  <2>. QED BY <2>1 DEF PlacesInv, CallsInv, QueueInv, GateInv, WorkerInv, IdleInv, ExclusiveBus
<1>4. CASE ScanCancel
  <2>1. UNCHANGED <<controls, polls, idle, worker, cur, sends>> /\ scan' = "off"
    BY <1>4 DEF ScanCancel, queueVars, workVars, busVars
  <2>2. Settling
    <3>1. \A r \in Request : fut'[r] = fut[r] \/ (fut[r] = "pending" /\ fut'[r] = "cancelled")
      BY <1>4 DEF ScanCancel, Settle, TypeOK
    <3>. QED BY <2>1, <3>1 DEF Settling, TypeOK, FutType
  <2>3. GateInv'
    <3>1. /\ Distinct(gateQ')
          /\ \A j \in DOMAIN gateQ' :
                gateQ'[j] # NoRequest /\ \E k \in DOMAIN gateQ : gateQ'[j] = gateQ[k]
      <4>1. CASE scan = "gate" /\ \E i \in DOMAIN gateQ :
                    gateQ[i] = NoRequest /\ gateQ' = RemoveAt(gateQ, i)
        BY <4>1, LeaveGate
      <4>2. CASE scan \in {"drain", "bus"} /\ UNCHANGED gateQ
        BY <4>2 DEF PlacesInv, GateInv
      <4>. QED BY <1>4, <4>1, <4>2 DEF ScanCancel
    <3>. QED BY <2>2, <3>1, SettlingKeeps, GateItems DEF PlacesInv, GateInv
  <2>4. WorkerInv'
    BY <2>1, <2>2, SettlingKeeps DEF PlacesInv, WorkerInv, Waiting
  <2>5. IdleInv' /\ ExclusiveBus'
    BY <2>1 DEF PlacesInv, IdleInv, ExclusiveBus
  <2>. QED BY <2>2, <2>3, <2>4, <2>5, SettlingKeeps DEF PlacesInv
<1>. QED BY <1>1, <1>2, <1>3, <1>4 DEF ScanStep

\* The item of the worker gets its outcome, the controls may be dropped, and
\* the worker goes on.
LEMMA TurnIsSafe ==
  ASSUME TypeOK, PlacesInv, TypeOK', UNCHANGED <<gateQ, scan>>,
         NEW ctl \in {controls, <<>>}, NEW w, TakeNext(fut', ctl, polls, w),
         \A r \in Request :
            \/ fut'[r] = fut[r]
            \/ /\ fut[r] = "pending" /\ fut'[r] \in Settled
               /\ r = cur \/ (ctl = <<>> /\ r \in Elems(controls))
  PROVE  PlacesInv'
<1>1. /\ ctl \in Seq(Control) /\ polls \in Seq(Poll \cup Probe) /\ controls \in Seq(Control)
      /\ fut' \in FutType
  BY EmptySeqType DEF TypeOK, QueueType, FutType
<1>2. Queued(fut', ctl)
  <2>1. CASE ctl = <<>>
    BY <2>1, NoItems DEF Queued
  <2>2. CASE ctl = controls /\ ctl # <<>>
    <3>1. \A i \in DOMAIN ctl : fut'[ctl[i]] = fut[ctl[i]]
      BY <1>1, <2>2, Items DEF PlacesInv, QueueInv
    <3>. QED BY <2>2, <3>1 DEF PlacesInv, QueueInv, Queued, Waiting
  <2>. QED BY <2>1, <2>2
<1>3. Queued(fut', polls)
  <2>1. \A i \in DOMAIN polls : fut'[polls[i]] = fut[polls[i]]
    BY <1>1, Items DEF PlacesInv, QueueInv, Elems
  <2>. QED BY <2>1 DEF PlacesInv, QueueInv, Queued, Waiting
<1>4. /\ \A q \in Request : sends[q] <= 1 /\ (fut'[q] \in {"new", "gate"} => sends[q] = 0)
      /\ \A q \in Request : fut[q] = "gate" <=> fut'[q] = "gate"
  BY DEF PlacesInv, CallsInv, Settled
<1>5. idle => ctl = <<>> /\ polls = <<>>
  BY DEF PlacesInv, IdleInv
<1>6. /\ CallsInv' /\ QueueInv(controls)' /\ QueueInv(polls)' /\ WorkerInv' /\ IdleInv'
      /\ {cur'} \cup Elems(controls') \cup Elems(polls')
             \subseteq {NoRequest} \cup Elems(ctl) \cup Elems(polls)
  BY <1>1, <1>2, <1>3, <1>4, <1>5, TakeNextIsSafe
<1>7. GateInv'
  BY <1>4, GateItems DEF PlacesInv, GateInv
<1>8. ExclusiveBus'
  <2>1. Elems(ctl) \subseteq Elems(controls)
    BY NoItems
  <2>. QED BY <1>6, <2>1 DEF PlacesInv, ExclusiveBus
<1>. QED BY <1>6, <1>7, <1>8 DEF PlacesInv

LEMMA DiscardedCalls ==
  ASSUME TypeOK
  PROVE  /\ Discarded(fut) \in FutType
         /\ \A r \in Request :
              \/ Discarded(fut)[r] = fut[r]
              \/ /\ fut[r] = "pending" /\ r \in Elems(controls)
                 /\ Discarded(fut)[r] = "offline"
BY DiscardedType DEF Discarded, SettleAll, TypeOK, FutType

LEMMA SettleCalls ==
  ASSUME NEW f \in FutType, NEW o \in Settled, NEW c
  PROVE  \A r \in Request :
           Settle(f, c, o)[r] = f[r] \/ (r = c /\ f[r] = "pending" /\ Settle(f, c, o)[r] = o)
BY DEF Settle, FutType

\* The same, with the worker waiting in disconnect() before it goes on.
LEMMA FailIsSafe ==
  ASSUME TypeOK, PlacesInv, TypeOK', worker \in {"connecting", "exchange"}, NEW e \in Verdict, Fail(e)
  PROVE  PlacesInv'
<1>1. UNCHANGED <<gateQ, scan>> /\ e \in Settled
  BY DEF Fail, gateVars, Verdict, Settled
<1>2. CASE /\ fut' = Discarded(fut) /\ controls' = <<>> /\ worker' = "disconnect"
           /\ UNCHANGED <<polls, wake, idle, cur, busVars>>
  <2>1. UNCHANGED sends
    BY <1>2 DEF busVars
  <2>2. Settling
    BY <1>2, <2>1, DiscardedCalls DEF Settling, Settled
  <2>3. WorkerInv'
    BY <1>2, <2>2, SettlingKeeps DEF PlacesInv, WorkerInv, Busy, Waiting
  <2>4. GateInv'
    BY <1>1, <2>2, SettlingKeeps, GateItems DEF PlacesInv, GateInv
  <2>5. IdleInv' /\ ExclusiveBus'
    BY <1>1, <1>2, NoItems DEF PlacesInv, IdleInv, ExclusiveBus
  <2>. QED BY <2>2, <2>3, <2>4, <2>5, SettlingKeeps DEF PlacesInv
<1>3. CASE fut' = Settle(Discarded(fut), cur, e) /\ TakeNext(fut', <<>>, polls, 0)
  <2>1. \A r \in Request :
            \/ fut'[r] = fut[r]
            \/ /\ fut[r] = "pending" /\ fut'[r] \in Settled
               /\ r = cur \/ r \in Elems(controls)
    BY <1>1, <1>3, DiscardedCalls, SettleCalls DEF Settled
  <2>. QED BY <1>1, <1>3, <2>1, TurnIsSafe
<1>. QED BY <1>2, <1>3 DEF Fail

LEMMA ResumeIsSafe ==
  ASSUME TypeOK, PlacesInv, TypeOK', worker = "disconnect", NEW w, Resume(w)
  PROVE  PlacesInv'
<1>1. err \in Settled /\ fut \in FutType
  BY DEF TypeOK, WorkType, Verdict, Settled, FutType
<1>2. \A r \in Request :
         fut'[r] = fut[r] \/ (fut[r] = "pending" /\ fut'[r] \in Settled /\ r = cur)
  BY <1>1, SettleCalls DEF Resume
<1>. QED BY <1>2, TurnIsSafe DEF Resume, gateVars

LEMMA WorkerIsSafe ==
  ASSUME TypeOK, PlacesInv, TypeOK', WorkerStep
  PROVE  PlacesInv'
<1>1. CASE WorkerWakes
  BY <1>1, TurnIsSafe DEF WorkerWakes, gateVars
<1>2. ASSUME NEW c \in Connection, WorkerConnects(c)
      PROVE  PlacesInv'
  <2>1. /\ cur \in Request /\ fut[cur] \in Waiting /\ sends[cur] = 0 /\ ~idle
        /\ UNCHANGED <<fut, controls, polls, idle, gateQ, scan>>
    BY <1>2 DEF WorkerConnects, PlacesInv, WorkerInv, Busy, Waiting, IdleInv, TypeOK, WorkType,
               queueVars, gateVars
  <2>2. /\ controls \in Seq(Control) /\ polls \in Seq(Poll \cup Probe) /\ fut \in FutType
        /\ Queued(fut, controls) /\ Queued(fut, polls)
        /\ cur \notin Elems(controls) /\ cur \notin Elems(polls)
    BY DEF TypeOK, QueueType, FutType, PlacesInv, QueueInv, Queued, Waiting, Elems
  <2>3. \A q \in Request : sends[q] <= 1 /\ (fut[q] \in {"new", "gate"} => sends[q] = 0)
    BY DEF PlacesInv, CallsInv
  <2>4. /\ CallsInv' /\ QueueInv(controls)' /\ QueueInv(polls)' /\ WorkerInv' /\ cur' = cur
    BY <1>2, <2>1, <2>2, <2>3, StartIsSafe DEF WorkerConnects
  <2>. QED BY <2>1, <2>4 DEF PlacesInv, GateInv, IdleInv, ExclusiveBus
<1>3. ASSUME NEW o \in Settled, Finish(o)
      PROVE  PlacesInv'
  <2>1. \A r \in Request :
           fut'[r] = fut[r] \/ (fut[r] = "pending" /\ fut'[r] \in Settled /\ r = cur)
    BY <1>3, SettleCalls DEF Finish, TypeOK, FutType
  <2>. QED BY <1>3, <2>1, TurnIsSafe DEF Finish, gateVars
<1>4. CASE WorkerSucceeds \/ WorkerDeviceException
  BY <1>3, <1>4 DEF WorkerSucceeds, WorkerDeviceException, Settled
<1>5. CASE WorkerConnectFails \/ WorkerProtocolError \/ WorkerGatewayError \/ WorkerTimeout
  BY <1>5, FailIsSafe
     DEF WorkerConnectFails, WorkerProtocolError, WorkerGatewayError, WorkerTimeout, Verdict
<1>6. CASE WorkerReaped
  <2>1. CASE UNCHANGED <<fut, queueVars, gateVars, workVars, owner, closer, busVars>>
    <3>1. UNCHANGED <<fut, controls, polls, idle, gateQ, scan, worker, cur, sends>>
      BY <2>1 DEF queueVars, gateVars, workVars, busVars
    <3>. QED BY <3>1 DEF PlacesInv, CallsInv, QueueInv, GateInv, WorkerInv, IdleInv, ExclusiveBus
  <2>. QED BY <1>6, <2>1, ResumeIsSafe DEF WorkerReaped
<1>7. CASE WorkerDisconnected
  BY <1>7, ResumeIsSafe DEF WorkerDisconnected
<1>. QED BY <1>1, <1>2, <1>4, <1>5, <1>6, <1>7 DEF WorkerStep

\* The steps that settle at most the queued controls.
LEMMA OthersAreSafe ==
  ASSUME TypeOK, PlacesInv, TypeOK',
         \/ \E c \in Connection : RxStep(c) \/ RxEvent(c) \/ RxNoise(c) \/ RxMalformed(c)
         \/ \E c \in Connection, q \in Request, k \in {"ok", "exception", "bad"} : RxAnswer(c, q, k)
         \/ \E c \in Connection, how \in Drops : PeerDrops(c, how)
         \/ OwnerConnect \/ OwnerDisconnect \/ OwnerDiscards \/ OwnerCancelled \/ OwnerStep
         \/ CloseReaped \/ CloseDisconnected
  PROVE  PlacesInv'
<1>. DEFINE Same == UNCHANGED <<polls, idle, gateQ, scan, worker, cur, sends>>
            Drop == \/ fut' = Discarded(fut) /\ controls' = <<>>
                    \/ UNCHANGED <<fut, controls>>
<1>1. ASSUME NEW c \in Connection, RxStep(c) \/ RxEvent(c) \/ RxNoise(c) \/ RxMalformed(c)
      PROVE  Same /\ Drop
  BY <1>1 DEF RxStep, RxStart, RxCancelled, RxEnds, RxEvent, RxNoise, RxMalformed, MarkLost,
              queueVars, gateVars, workVars, busVars
<1>2. ASSUME NEW c \in Connection, NEW q \in Request, NEW k \in {"ok", "exception", "bad"},
             RxAnswer(c, q, k)
      PROVE  Same /\ Drop
  BY <1>2 DEF RxAnswer, queueVars, gateVars, workVars
<1>3. ASSUME NEW c \in Connection, NEW how \in Drops, PeerDrops(c, how)
      PROVE  Same /\ Drop
  BY <1>3 DEF PeerDrops, queueVars, gateVars, workVars, busVars
<1>4. ASSUME \/ OwnerConnect \/ OwnerDisconnect \/ OwnerDiscards \/ OwnerCancelled \/ OwnerStep
             \/ CloseReaped \/ CloseDisconnected
      PROVE  Same /\ Drop
  BY <1>4 DEF OwnerConnect, OwnerDisconnect, OwnerDiscards, OwnerCancelled, OwnerStep,
              OwnerConnects, OwnerConnectFails, OwnerReaped, OwnerDisconnected,
              CloseReaped, CloseDisconnected, queueVars, gateVars, workVars, busVars
<1>5. Same /\ Drop
  BY <1>1, <1>2, <1>3, <1>4
<1>6. Settling
  BY <1>5, DiscardedCalls DEF Settling, Settled, TypeOK, FutType
<1>. QED BY <1>5, <1>6, SettlingIsSafe

LEMMA CloseIsSafe ==
  ASSUME TypeOK, PlacesInv, TypeOK', Close \/ WorkerCancelled \/ CloseJoined
  PROVE  PlacesInv'
<1>1. ASSUME CloseQueues, worker \in {"none", "stopped"}, worker' = "none"
      PROVE  PlacesInv'
  <2>1. /\ controls' = <<>> /\ polls' = <<>> /\ UNCHANGED <<gateQ, scan, cur, sends>>
        /\ cur = NoRequest
    BY <1>1 DEF CloseQueues, gateVars, busVars, PlacesInv, WorkerInv, Busy
  <2>2. \A r \in Request : fut'[r] = fut[r] \/ (fut[r] = "pending" /\ fut'[r] = "cancelled")
    BY <1>1 DEF CloseQueues, SettleAll
  <2>3. CallsInv'
    BY <2>1, <2>2 DEF PlacesInv, CallsInv
  <2>4. GateInv'
    BY <2>1, <2>2, GateItems DEF PlacesInv, GateInv
  <2>5. QueueInv(controls)' /\ QueueInv(polls)' /\ IdleInv' /\ ExclusiveBus'
    BY <2>1, NoItems DEF QueueInv, IdleInv, ExclusiveBus
  <2>6. WorkerInv'
    BY <1>1, <2>1 DEF WorkerInv, Busy
  <2>. QED BY <2>3, <2>4, <2>5, <2>6 DEF PlacesInv
<1>2. CASE Close
  <2>1. CASE worker = "none" /\ CloseQueues /\ UNCHANGED worker
    BY <1>1, <2>1
  <2>2. CASE UNCHANGED <<fut, queueVars, gateVars, workVars, pend, linkVars, owner, busVars>>
    <3>1. UNCHANGED <<fut, controls, polls, idle, gateQ, scan, worker, cur, sends>>
      BY <2>2 DEF queueVars, gateVars, workVars, busVars
    <3>. QED BY <3>1 DEF PlacesInv, CallsInv, QueueInv, GateInv, WorkerInv, IdleInv, ExclusiveBus
  <2>. QED BY <1>2, <2>1, <2>2 DEF Close
<1>3. CASE WorkerCancelled
  <2>1. /\ UNCHANGED <<controls, polls, idle, gateQ, scan, sends>>
        /\ cur' = NoRequest /\ worker' = "stopped"
    BY <1>3 DEF WorkerCancelled, queueVars, gateVars, busVars
  <2>2. \A r \in Request :
           fut'[r] = fut[r] \/ (fut[r] = "pending" /\ fut'[r] = "cancelled" /\ r = cur)
    BY <1>3 DEF WorkerCancelled, Settle, TypeOK
  <2>3. CallsInv'
    BY <2>1, <2>2, RequestAssumption DEF PlacesInv, CallsInv
  <2>4. QueueInv(controls)' /\ QueueInv(polls)'
    <3>1. controls \in Seq(Control) /\ polls \in Seq(Poll \cup Probe)
      BY DEF TypeOK, QueueType
    <3>. QED BY <2>1, <2>2, <3>1, Items DEF PlacesInv, QueueInv
  <2>5. GateInv'
    BY <2>1, <2>2, GateItems DEF PlacesInv, GateInv
  <2>6. WorkerInv' /\ IdleInv' /\ ExclusiveBus'
    BY <2>1 DEF PlacesInv, WorkerInv, Busy, IdleInv, ExclusiveBus
  <2>. QED BY <2>3, <2>4, <2>5, <2>6 DEF PlacesInv
<1>4. CASE CloseJoined
  BY <1>1, <1>4 DEF CloseJoined
<1>. QED BY <1>2, <1>3, <1>4

LEMMA StepInv == TypeOK /\ PlacesInv /\ [Next]_vars => PlacesInv'
<1>. SUFFICES ASSUME TypeOK, PlacesInv, [Next]_vars PROVE PlacesInv'
  OBVIOUS
<1>1. TypeOK'
  BY StepType
<1>2. CASE UNCHANGED vars
  BY <1>2 DEF vars, queueVars, gateVars, workVars, busVars,
              PlacesInv, CallsInv, QueueInv, GateInv, WorkerInv, IdleInv, ExclusiveBus
<1>3. CASE Next
  BY <1>1, <1>3, SubmitIsSafe, CancelCallIsSafe, PassGateIsSafe, ScanIsSafe, WorkerIsSafe,
     OthersAreSafe, CloseIsSafe DEF Next, CloseStep
<1>. QED BY <1>2, <1>3

-----------------------------------------------------------------------------
\* Every call is where its future says: in one queue once and unwritten, at the
\* gate once, with the worker, or settled.
THEOREM CallsAreWhereTheySay == Spec => []PlacesInv
BY InitInv, StepInv, TypeCorrect, PTL DEF Spec

\* No failure, reconnection, replacement or cancellation makes _run write a
\* request a second time.
THEOREM SentAtMostOnce == Spec => []AtMostOnce
<1>1. PlacesInv => AtMostOnce
  BY DEF PlacesInv, CallsInv, AtMostOnce
<1>. QED BY <1>1, CallsAreWhereTheySay, PTL

\* exclusive() keeps its promise to the scanner: nothing but its probes is
\* queued or under way while it has the bus.
THEOREM ScanHasTheBus == Spec => []ExclusiveBus
<1>1. PlacesInv => ExclusiveBus
  BY DEF PlacesInv
<1>. QED BY <1>1, CallsAreWhereTheySay, PTL

-----------------------------------------------------------------------------
(***************************************************************************)
(* Who writes to the socket, and for whom.                                 *)
(***************************************************************************)

LEMMA OnlyTheWorkerWrites ==
  ASSUME [Next]_vars, ~(Running /\ WorkerStep)
  PROVE  sends' = sends
<1>1. CASE UNCHANGED vars
  BY <1>1 DEF vars, busVars
<1>2. CASE \/ \E r \in Request : Submit(r) \/ CancelCall(r)
           \/ PassGate \/ ScanBegin \/ ScanStep \/ ScanCancel
  BY <1>2 DEF Submit, CancelCall, PassGate, ScanBegin, ScanStep, ScanEnd, ScanProbe,
              ScanCancel, busVars
<1>3. CASE WorkerStep
  BY <1>3 DEF WorkerStep, WorkerWakes, WorkerConnects, WorkerConnectFails, WorkerSucceeds,
              WorkerDeviceException, WorkerProtocolError, WorkerGatewayError, WorkerTimeout,
              WorkerReaped, WorkerDisconnected
<1>4. CASE \/ \E c \in Connection : RxStep(c) \/ RxEvent(c) \/ RxNoise(c) \/ RxMalformed(c)
           \/ \E c \in Connection, q \in Request, k \in {"ok", "exception", "bad"} : RxAnswer(c, q, k)
           \/ \E c \in Connection, how \in Drops : PeerDrops(c, how)
  BY <1>4 DEF RxStep, RxStart, RxCancelled, RxEnds, RxEvent, RxNoise, RxMalformed, RxAnswer, PeerDrops,
              busVars
<1>5. CASE OwnerConnect \/ OwnerDisconnect \/ OwnerDiscards \/ OwnerCancelled \/ OwnerStep
  BY <1>5 DEF OwnerConnect, OwnerDisconnect, OwnerDiscards, OwnerCancelled, OwnerStep,
              OwnerConnects, OwnerConnectFails, OwnerReaped, OwnerDisconnected, busVars
<1>6. CASE Close \/ CloseStep
  BY <1>6 DEF Close, CloseStep, WorkerCancelled, CloseJoined, CloseQueues, CloseReaped,
              CloseDisconnected, busVars
<1>. QED BY <1>1, <1>2, <1>3, <1>4, <1>5, <1>6 DEF Next

\* What TakeNext writes is an item that its caller still waits for.
LEMMA WrittenIsPending ==
  ASSUME TypeOK, PlacesInv, NEW ctl \in {controls, <<>>}, NEW w, TakeNext(fut', ctl, polls, w),
         \A r \in Request :
            fut'[r] = fut[r] \/ (fut[r] = "pending" /\ fut'[r] \in Settled)
  PROVE  \A r \in Request : sends'[r] # sends[r] => fut[r] = "pending"
<1>. SUFFICES ASSUME NEW r \in Request, sends'[r] # sends[r]
              PROVE  fut[r] = "pending"
  OBVIOUS
<1>1. ASSUME NEW q \in Request, StartOn(q, w)
      PROVE  q = r
  BY <1>1 DEF StartOn, TypeOK, BusType
<1>2. ctl \in Seq(Control) /\ polls \in Seq(Poll \cup Probe)
  BY EmptySeqType DEF TypeOK, QueueType
<1>3. CASE \E i \in DOMAIN ctl : FirstLive(ctl, fut', i) /\ StartOn(ctl[i], w)
  <2>1. PICK i \in DOMAIN ctl : FirstLive(ctl, fut', i) /\ StartOn(ctl[i], w)
    BY <1>3
  <2>2. ctl[i] = r /\ fut'[r] # "cancelled" /\ fut[r] \in Waiting
    BY <1>1, <1>2, <2>1, Items, NoItems DEF FirstLive, PlacesInv, QueueInv, Waiting
  <2>. QED BY <2>2 DEF Waiting
<1>4. CASE \E i \in DOMAIN polls : FirstLive(polls, fut', i) /\ StartOn(polls[i], w)
  <2>1. PICK i \in DOMAIN polls : FirstLive(polls, fut', i) /\ StartOn(polls[i], w)
    BY <1>4
  <2>2. polls[i] = r /\ fut'[r] # "cancelled" /\ fut[r] \in Waiting
    BY <1>1, <1>2, <2>1, Items DEF FirstLive, PlacesInv, QueueInv, Waiting
  <2>. QED BY <2>2 DEF Waiting
<1>5. CASE UNCHANGED busVars
  BY <1>5 DEF busVars
<1>. QED BY <1>3, <1>4, <1>5 DEF TakeNext

\* No call is written after its caller was told its outcome, save one cancelled
\* while the worker was already connecting for it.
THEOREM NoLateService == Spec => NoSendAfterVerdict
<1>. DEFINE Due == \A r \in Request :
        sends'[r] # sends[r] => fut[r] = "pending" \/ (fut[r] = "cancelled" /\ r = cur)
<1>1. ASSUME TypeOK, PlacesInv, [Next]_vars
      PROVE  Due
  <2>1. CASE ~(Running /\ WorkerStep)
    BY <1>1, <2>1, OnlyTheWorkerWrites
  <2>2. CASE WorkerWakes
    BY <1>1, <2>2, WrittenIsPending DEF WorkerWakes
  <2>3. ASSUME NEW c \in Connection, WorkerConnects(c)
        PROVE  Due
    <3>1. \A r \in Request : sends'[r] # sends[r] => r = cur
      BY <1>1, <2>3 DEF WorkerConnects, StartOn, TypeOK, BusType
    <3>2. fut[cur] \in Waiting
      BY <1>1, <2>3 DEF WorkerConnects, PlacesInv, WorkerInv, Busy, Waiting
    <3>. QED BY <3>1, <3>2 DEF Waiting
  <2>4. ASSUME NEW o \in Settled, Finish(o)
        PROVE  Due
    <3>1. \A r \in Request : fut'[r] = fut[r] \/ (fut[r] = "pending" /\ fut'[r] \in Settled)
      BY <1>1, <2>4, SettleCalls DEF Finish, TypeOK, FutType
    <3>. QED BY <1>1, <2>4, <3>1, WrittenIsPending DEF Finish
  <2>5. ASSUME NEW e \in Verdict, Fail(e)
        PROVE  Due
    <3>1. CASE UNCHANGED busVars
      BY <3>1 DEF busVars
    <3>2. CASE fut' = Settle(Discarded(fut), cur, e) /\ TakeNext(fut', <<>>, polls, 0)
      <4>1. \A r \in Request : fut'[r] = fut[r] \/ (fut[r] = "pending" /\ fut'[r] \in Settled)
        BY <1>1, <2>5, <3>2, DiscardedCalls, SettleCalls DEF Settled, Verdict
      <4>. QED BY <1>1, <3>2, <4>1, WrittenIsPending
    <3>. QED BY <2>5, <3>1, <3>2 DEF Fail
  <2>6. ASSUME worker = "disconnect", NEW w, Resume(w)
        PROVE  Due
    <3>1. \A r \in Request : fut'[r] = fut[r] \/ (fut[r] = "pending" /\ fut'[r] \in Settled)
      <4>1. err \in Settled /\ fut \in FutType
        BY <1>1, <2>6 DEF TypeOK, WorkType, Verdict, Settled, FutType
      <4>. QED BY <2>6, <4>1, SettleCalls DEF Resume
    <3>. QED BY <1>1, <2>6, <3>1, WrittenIsPending DEF Resume
  <2>7. CASE WorkerSucceeds \/ WorkerDeviceException
    BY <2>4, <2>7 DEF WorkerSucceeds, WorkerDeviceException, Settled
  <2>8. CASE WorkerConnectFails \/ WorkerProtocolError \/ WorkerGatewayError \/ WorkerTimeout
    BY <2>5, <2>8
       DEF WorkerConnectFails, WorkerProtocolError, WorkerGatewayError, WorkerTimeout, Verdict
  <2>9. CASE WorkerReaped \/ WorkerDisconnected
    BY <2>6, <2>9 DEF WorkerReaped, WorkerDisconnected, busVars
  <2>. QED BY <2>1, <2>2, <2>3, <2>7, <2>8, <2>9 DEF WorkerStep
<1>2. TypeOK /\ PlacesInv /\ [Next]_vars => [Due]_vars
  BY <1>1
<1>. QED BY <1>2, TypeCorrect, CallsAreWhereTheySay, PTL DEF Spec, NoSendAfterVerdict

=============================================================================
