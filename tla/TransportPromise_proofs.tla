----------------------- MODULE TransportPromise_proofs -----------------------
(***************************************************************************)
(* Transport implements BusSchedule: every step of the transport is, for   *)
(* its callers, a step of the schedule it promises, or nothing at all.     *)
(* Behind it, the connections.                                             *)
(***************************************************************************)
EXTENDS Transport_proofs

\* What the callers cannot see.
Unseen == UNCHANGED <<fut, controls, polls, cur, Running>>

LEMMA SameRequests == Promise!Request = Request
BY DEF Promise!Request, Request

\* A future settled alone, and the futures of a queue, as the promise says it.
LEMMA SettleIsEnd ==
  ASSUME NEW f \in FutType, NEW r \in Request, NEW o
  PROVE  Settle(f, r, o) = Promise!End(f, {r}, o)
BY SameRequests DEF Settle, Promise!End, FutType

LEMMA SettleAllIsEnd ==
  ASSUME NEW f, NEW S, NEW o
  PROVE  SettleAll(f, S, o) = Promise!End(f, S, o)
BY SameRequests DEF SettleAll, Promise!End

LEMMA DiscardedIsDropped ==
  ASSUME TypeOK
  PROVE  Discarded(fut) = Promise!Dropped
<1>1. Elems(controls) = {r \in Promise!Request : Promise!In(r, controls)}
  <2>1. controls \in Seq(Control) /\ polls \in Seq(Poll \cup Probe)
    BY DEF TypeOK, QueueType
  <2>. QED BY <2>1, Items, SameRequests DEF Elems, Promise!In
<1>. QED BY <1>1, SettleAllIsEnd DEF Discarded, Promise!Dropped

\* Dropping the controls that wait, when there are any.
LEMMA DiscardIsDrop ==
  ASSUME TypeOK, fut' = Discarded(fut), controls' = <<>>, UNCHANGED <<polls, cur, Running>>
  PROVE  Promise!Drop \/ Unseen
<1>1. CASE controls = <<>>
  BY <1>1, NoItems DEF Unseen, Discarded, SettleAll, TypeOK
<1>2. CASE controls # <<>>
  BY <1>2, DiscardedIsDropped DEF Promise!Drop
<1>. QED BY <1>1, <1>2

-----------------------------------------------------------------------------
\* submit() and submit_action() accept a call or refuse it.
LEMMA EnqueueAnswers ==
  ASSUME TypeOK, PlacesInv, NEW r \in Request, fut[r] \in {"new", "gate"},
         Enqueue(r), UNCHANGED <<cur, closer>>
  PROVE  Promise!Accept(r) \/ Promise!Refuse(r)
<1>1. /\ controls \in Seq(Control) /\ polls \in Seq(Poll \cup Probe) /\ fut \in FutType
      /\ Promise!NotAccepted(r) /\ UNCHANGED <<cur, Running>>
  BY DEF TypeOK, QueueType, FutType, Promise!NotAccepted, Running, closed
<1>2. ASSUME NEW o \in {"full", "offline"}, Refuse(r, o)
      PROVE  Promise!Refuse(r)
  BY <1>1, <1>2 DEF Refuse, Promise!Refuse, FutType
<1>3. CASE ~closed /\ EnqueuePoll(r)
  BY <1>1, <1>3 DEF EnqueuePoll, Promise!Accept, Running, FutType
<1>4. ASSUME ~closed, r \in Control, fut' = [fut EXCEPT ![r] = "pending"],
             controls' = Append(controls, r), UNCHANGED polls,
             r \in Stateful => SameKey(r) = {}
      PROVE  Promise!Accept(r)
  <2>1. \A i \in DOMAIN controls :
           {controls[i], r} \subseteq Stateful => KeyOf[controls[i]] # KeyOf[r]
    BY <1>4 DEF SameKey
  <2>. QED BY <1>1, <1>4, <2>1 DEF Promise!Accept, Running, FutType, Control
<1>5. ASSUME ~closed, r \in Stateful, NEW i \in SameKey(r),
             fut' = [Settle(fut, controls[i], "superseded") EXCEPT ![r] = "pending"],
             controls' = Replace(controls, i, r), UNCHANGED polls
      PROVE  Promise!Accept(r)
  <2>1. /\ i \in DOMAIN controls /\ controls[i] \in Stateful /\ KeyOf[controls[i]] = KeyOf[r]
        /\ controls[i] \in Request
    BY <1>1, <1>5, Items DEF SameKey
  <2>2. fut' = [Promise!End(fut, {controls[i]}, "superseded") EXCEPT ![r] = "pending"]
    BY <1>1, <1>5, <2>1, SettleIsEnd
  <2>3. fut'[r] = "pending"
    BY <2>2, SameRequests DEF Promise!End
  <2>. QED BY <1>1, <1>5, <2>1, <2>2, <2>3 DEF Promise!Accept, Running, Replace
<1>6. CASE ~closed /\ EnqueueAction(r)
  BY <1>2, <1>4, <1>6, RequestAssumption DEF EnqueueAction, Control
<1>7. CASE ~closed /\ EnqueueStateful(r)
  BY <1>2, <1>4, <1>5, <1>7 DEF EnqueueStateful, Control
<1>. QED BY <1>2, <1>3, <1>6, <1>7 DEF Enqueue

LEMMA CallersKeepPromise ==
  ASSUME TypeOK, PlacesInv, NEW r \in Request, Submit(r) \/ CancelCall(r)
  PROVE  Promise!Next \/ Unseen
<1>1. /\ UNCHANGED <<cur, closer, Running>> /\ fut \in FutType /\ r \in Promise!Request
  BY SameRequests
     DEF Submit, CancelCall, workVars, Running, closed, TypeOK, FutType
<1>2. CASE Submit(r) /\ Enqueue(r)
  BY <1>1, <1>2, EnqueueAnswers DEF Submit, Promise!Next
<1>3. CASE Submit(r) /\ fut' = [fut EXCEPT ![r] = "gate"] /\ UNCHANGED queueVars
  BY <1>1, <1>3 DEF Submit, queueVars, Promise!Ask, Promise!Next
<1>4. CASE CancelCall(r)
  <2>1. /\ fut' = [fut EXCEPT ![r] = "cancelled"] /\ fut'[r] = "cancelled"
        /\ fut[r] \in {"gate", "pending"} /\ UNCHANGED <<controls, polls>>
    BY <1>1, <1>4 DEF CancelCall, queueVars, FutType
  <2>2. Promise!Refuse(r) \/ Promise!Withdraw(r)
    BY <1>1, <2>1 DEF Promise!Refuse, Promise!Withdraw, Promise!NotAccepted
  <2>. QED BY <1>1, <2>2 DEF Promise!Next
<1>. QED BY <1>2, <1>3, <1>4 DEF Submit

LEMMA GateKeepsPromise ==
  ASSUME TypeOK, PlacesInv, PassGate
  PROVE  Promise!Next \/ Unseen
<1>1. UNCHANGED <<cur, closer, Running>>
  BY DEF PassGate, Running, closed
<1>2. CASE Head(gateQ) # NoRequest /\ Enqueue(Head(gateQ))
  <2>1. /\ Head(gateQ) \in Request \cup {NoRequest} /\ Head(gateQ) = gateQ[1]
        /\ 1 \in DOMAIN gateQ
    BY TailFacts DEF PassGate, TypeOK, GateType
  <2>2. Head(gateQ) \in Request /\ fut[Head(gateQ)] = "gate"
    BY <1>2, <2>1 DEF PlacesInv, GateInv
  <2>. QED BY <1>1, <1>2, <2>2, EnqueueAnswers, SameRequests DEF Promise!Next
<1>3. CASE UNCHANGED <<fut, queueVars, worker>>
  BY <1>1, <1>3 DEF Unseen, queueVars
<1>. QED BY <1>2, <1>3 DEF PassGate

LEMMA ScanKeepsPromise ==
  ASSUME TypeOK, PlacesInv, ScanBegin \/ ScanStep \/ ScanCancel
  PROVE  Promise!Next \/ Unseen
<1>1. CASE ScanBegin \/ ScanEnd
  BY <1>1 DEF ScanBegin, ScanEnd, Unseen, queueVars, workVars, Running, closed
<1>2. ASSUME NEW p \in Probe, ScanProbe(p)
      PROVE  Promise!Next
  <2>1. p \in Request /\ fut[p] = "new" /\ UNCHANGED <<cur, closer>> /\ Enqueue(p)
    BY <1>2 DEF ScanProbe, Request
  <2>. QED BY <2>1, EnqueueAnswers, SameRequests DEF Promise!Next
<1>3. CASE ScanCancel
  <2>1. UNCHANGED <<controls, polls, cur, Running>> /\ fut' \in {fut, Settle(fut, probe, "cancelled")}
    BY <1>3 DEF ScanCancel, queueVars, workVars, Running, closed
  <2>2. CASE fut' = fut
    BY <2>1, <2>2 DEF Unseen
  <2>3. CASE fut' # fut
    <3>1. fut[probe] = "pending" /\ fut' = [fut EXCEPT ![probe] = "cancelled"]
      BY <2>1, <2>3 DEF Settle
    <3>2. probe \in Request
      BY <2>3, <3>1 DEF TypeOK, GateType, Request
    <3>. QED BY <2>1, <3>1, <3>2, SameRequests DEF Promise!Withdraw, Promise!Next
  <2>. QED BY <2>2, <2>3
<1>. QED BY <1>1, <1>2, <1>3 DEF ScanStep

-----------------------------------------------------------------------------
\* The head of the worker's loop gives the bus to whom the promise says, after
\* the item that had it got its outcome and the controls were perhaps dropped.
LEMMA TakeNextIsGrant ==
  ASSUME TypeOK, NEW ctl \in {controls, <<>>}, NEW w, TakeNext(fut', ctl, polls, w)
  PROVE  Promise!Grant(ctl)
<1>1. CASE \E i \in DOMAIN ctl :
             /\ FirstLive(ctl, fut', i)
             /\ controls' = After(ctl, i) /\ polls' = polls
             /\ StartOn(ctl[i], w)
  BY <1>1 DEF Promise!Grant, Promise!Wanted, Promise!Rest, FirstLive, After, StartOn
<1>2. CASE /\ AllCancelled(ctl, fut')
           /\ \E i \in DOMAIN polls :
                /\ FirstLive(polls, fut', i)
                /\ controls' = <<>> /\ polls' = After(polls, i)
                /\ StartOn(polls[i], w)
  BY <1>2 DEF Promise!Grant, Promise!Wanted, Promise!NoneWanted, Promise!Rest,
              FirstLive, AllCancelled, After, StartOn
<1>3. CASE /\ AllCancelled(ctl, fut') /\ AllCancelled(polls, fut')
           /\ controls' = <<>> /\ polls' = <<>> /\ cur' = NoRequest
  BY <1>3 DEF Promise!Grant, Promise!NoneWanted, AllCancelled
<1>. QED BY <1>1, <1>2, <1>3 DEF TakeNext

\* A worker that is not busy has nothing to settle.
LEMMA EndNothing ==
  ASSUME NEW f \in FutType, NEW o
  PROVE  Promise!End(f, {NoRequest}, o) = f
BY SameRequests, RequestAssumption DEF Promise!End, FutType

LEMMA FailKeepsPromise ==
  ASSUME TypeOK, PlacesInv, Running, worker \in {"connecting", "exchange"}, NEW e \in Verdict, Fail(e)
  PROVE  Promise!Next \/ Unseen
<1>1. cur \in Request /\ UNCHANGED <<closer, Running>> /\ Discarded(fut) \in FutType
  BY DiscardedCalls DEF PlacesInv, WorkerInv, Busy, TypeOK, WorkType, Fail, Running, closed
<1>2. CASE fut' = Discarded(fut) /\ controls' = <<>> /\ UNCHANGED <<polls, cur>>
  BY <1>1, <1>2, DiscardIsDrop DEF Promise!Next
<1>3. CASE fut' = Settle(Discarded(fut), cur, e) /\ TakeNext(fut', <<>>, polls, 0)
  <2>1. fut' = Promise!End(Promise!Dropped, {cur}, e)
    BY <1>1, <1>3, SettleIsEnd, DiscardedIsDropped
  <2>2. Promise!Grant(<<>>)
    BY <1>3, TakeNextIsGrant
  <2>3. e \in Promise!Failure
    BY DEF Verdict, Promise!Failure
  <2>. QED BY <1>1, <2>1, <2>2, <2>3 DEF Promise!Turn, Promise!Next
<1>. QED BY <1>2, <1>3 DEF Fail

\* An exchange that ends without a failure, or whose failure is reported late.
LEMMA SettledTurn ==
  ASSUME TypeOK, PlacesInv, Running, worker \in Busy, UNCHANGED <<closer>>,
         NEW o \in {"result", "device"} \cup Verdict, NEW w,
         fut' = Settle(fut, cur, o), TakeNext(fut', controls, polls, w)
  PROVE  Promise!Next
<1>1. cur \in Request /\ UNCHANGED Running /\ fut \in FutType
  BY DEF PlacesInv, WorkerInv, Busy, TypeOK, WorkType, Running, closed, FutType
<1>2. fut' = Promise!End(fut, {cur}, o)
  BY <1>1, SettleIsEnd
<1>3. Promise!Grant(controls)
  BY TakeNextIsGrant
<1>. QED BY <1>1, <1>2, <1>3 DEF Promise!Turn, Promise!Next, Promise!Failure, Verdict

LEMMA WorkerKeepsPromise ==
  ASSUME TypeOK, PlacesInv, WorkerStep
  PROVE  Promise!Next \/ Unseen
<1>1. CASE WorkerWakes
  <2>1. cur = NoRequest /\ fut \in FutType /\ UNCHANGED <<fut, closer, Running>> /\ Running
    BY <1>1 DEF WorkerWakes, PlacesInv, WorkerInv, Busy, TypeOK, FutType, Running, closed
  <2>2. Promise!Grant(controls)
    BY <1>1, TakeNextIsGrant DEF WorkerWakes
  <2>3. fut' = Promise!End(fut, {cur}, "result")
    BY <2>1, EndNothing
  <2>. QED BY <2>1, <2>2, <2>3 DEF Promise!Turn, Promise!Next
<1>2. ASSUME NEW c \in Connection, WorkerConnects(c)
      PROVE  Unseen
  BY <1>2 DEF WorkerConnects, StartOn, Unseen, queueVars, Running, closed
<1>3. CASE WorkerSucceeds \/ WorkerDeviceException
  BY <1>3, SettledTurn DEF WorkerSucceeds, WorkerDeviceException, Finish, Busy
<1>4. CASE WorkerConnectFails \/ WorkerProtocolError \/ WorkerGatewayError \/ WorkerTimeout
  BY <1>4, FailKeepsPromise
     DEF WorkerConnectFails, WorkerProtocolError, WorkerGatewayError, WorkerTimeout, Verdict
<1>5. ASSUME Running, worker = "disconnect", NEW w, Resume(w)
      PROVE  Promise!Next
  <2>1. err \in Verdict
    BY <1>5 DEF TypeOK, WorkType
  <2>. QED BY <1>5, <2>1, SettledTurn DEF Resume, Busy
<1>6. CASE WorkerReaped
  BY <1>5, <1>6 DEF WorkerReaped, Unseen, queueVars, workVars, Running, closed
<1>7. CASE WorkerDisconnected
  BY <1>5, <1>7 DEF WorkerDisconnected
<1>. QED BY <1>1, <1>2, <1>3, <1>4, <1>6, <1>7 DEF WorkerStep

\* RX tasks, the network, the coordinator and the end of close() drop the
\* controls at most.
LEMMA OthersDiscard ==
  ASSUME \/ \E c \in Connection : RxStep(c) \/ RxEvent(c) \/ RxNoise(c) \/ RxMalformed(c)
         \/ \E c \in Connection, q \in Request, k \in {"ok", "exception", "bad"} : RxAnswer(c, q, k)
         \/ \E c \in Connection, how \in Drops : PeerDrops(c, how)
         \/ OwnerConnect \/ OwnerDisconnect \/ OwnerDiscards \/ OwnerCancelled \/ OwnerStep
         \/ CloseReaped \/ CloseDisconnected
  PROVE  /\ UNCHANGED <<polls, nextAction, ticket, cur, sends, Running>>
         /\ \/ fut' = Discarded(fut) /\ controls' = <<>>
            \/ UNCHANGED <<fut, controls>>
<1>. DEFINE Same == UNCHANGED <<polls, nextAction, ticket, cur, sends, Running>>
            Drop == \/ fut' = Discarded(fut) /\ controls' = <<>>
                    \/ UNCHANGED <<fut, controls>>
<1>1. ASSUME NEW c \in Connection, RxStep(c) \/ RxEvent(c) \/ RxNoise(c) \/ RxMalformed(c)
      PROVE  Same /\ Drop
  BY <1>1 DEF RxStep, RxStart, RxCancelled, RxEnds, RxEvent, RxNoise, RxMalformed, MarkLost,
              queueVars, workVars, busVars, Running, closed
<1>2. ASSUME NEW c \in Connection, NEW q \in Request, NEW k \in {"ok", "exception", "bad"},
             RxAnswer(c, q, k)
      PROVE  Same /\ Drop
  BY <1>2 DEF RxAnswer, queueVars, workVars, Running, closed
<1>3. ASSUME NEW c \in Connection, NEW how \in Drops, PeerDrops(c, how)
      PROVE  Same /\ Drop
  BY <1>3 DEF PeerDrops, queueVars, workVars, busVars, Running, closed
<1>4. ASSUME \/ OwnerConnect \/ OwnerDisconnect \/ OwnerDiscards \/ OwnerCancelled \/ OwnerStep
             \/ CloseReaped \/ CloseDisconnected
      PROVE  Same /\ Drop
  BY <1>4 DEF OwnerConnect, OwnerDisconnect, OwnerDiscards, OwnerCancelled, OwnerStep,
              OwnerConnects, OwnerConnectFails, OwnerReaped, OwnerDisconnected,
              CloseReaped, CloseDisconnected, queueVars, workVars, busVars, Running, closed
<1>. QED BY <1>1, <1>2, <1>3, <1>4

LEMMA CloseKeepsPromise ==
  ASSUME TypeOK, PlacesInv, Close \/ CloseStep
  PROVE  Promise!Next \/ Unseen
<1>1. ASSUME CloseQueues, worker \in {"none", "stopped"}
      PROVE  Promise!Next
  <2>1. /\ controls' = <<>> /\ polls' = <<>> /\ cur = NoRequest /\ cur' = cur /\ Running' = FALSE
        /\ fut' = SettleAll(fut, Elems(controls) \cup Elems(polls), "cancelled")
    BY <1>1 DEF CloseQueues, PlacesInv, WorkerInv, Busy, Running, closed
  <2>2. Elems(controls) \cup Elems(polls)
          = {r \in Promise!Request : Promise!In(r, controls) \/ Promise!In(r, polls)}
    <3>1. controls \in Seq(Control) /\ polls \in Seq(Poll \cup Probe)
      BY DEF TypeOK, QueueType
    <3>. QED BY <3>1, Items, SameRequests DEF Elems, Promise!In
  <2>. QED BY <2>1, <2>2, SettleAllIsEnd DEF Promise!CancelAll, Promise!Next
<1>2. CASE Close
  <2>1. CASE closer' = "join" /\ UNCHANGED <<fut, queueVars, workVars>>
    BY <1>2, <2>1 DEF Close, queueVars, workVars, Running, closed,
                      Promise!ShutDown, Promise!Next
  <2>. QED BY <1>1, <1>2, <2>1 DEF Close
<1>3. CASE WorkerCancelled
  <2>1. /\ cur' = NoRequest /\ UNCHANGED <<controls, polls, Running>> /\ ~Running
        /\ fut \in FutType
    BY <1>3 DEF WorkerCancelled, queueVars, Running, closed, TypeOK, FutType
  <2>2. fut' \in {fut, Promise!End(fut, {cur}, "cancelled")}
    <3>1. CASE UNCHANGED fut
      BY <3>1
    <3>2. CASE worker \in {"connecting", "exchange"} /\ fut' = Settle(fut, cur, "cancelled")
      <4>1. cur \in Request
        BY <3>2 DEF PlacesInv, WorkerInv, Busy, TypeOK, WorkType
      <4>. QED BY <2>1, <3>2, <4>1, SettleIsEnd
    <3>. QED BY <1>3, <3>1, <3>2 DEF WorkerCancelled
  <2>. QED BY <2>1, <2>2 DEF Promise!ReleaseBus, Promise!Next
<1>4. CASE CloseJoined
  BY <1>1, <1>4 DEF CloseJoined
<1>5. CASE CloseReaped \/ CloseDisconnected
  BY <1>5, OthersDiscard, DiscardIsDrop DEF Unseen, Promise!Next
<1>. QED BY <1>2, <1>3, <1>4, <1>5 DEF CloseStep

-----------------------------------------------------------------------------
LEMMA InitKeepsPromise == Init => Promise!Init
BY SameRequests DEF Init, Promise!Init, Running, closed

LEMMA StepKeepsPromise == TypeOK /\ PlacesInv /\ [Next]_vars => [Promise!Next]_(Promise!vars)
<1>. SUFFICES ASSUME TypeOK, PlacesInv, [Next]_vars
              PROVE  Promise!Next \/ Unseen
  BY DEF Promise!vars, Unseen
<1>1. CASE UNCHANGED vars
  BY <1>1 DEF vars, queueVars, workVars, Unseen, Running, closed
<1>2. CASE \/ \E c \in Connection : RxStep(c) \/ RxEvent(c) \/ RxNoise(c) \/ RxMalformed(c)
           \/ \E c \in Connection, q \in Request, k \in {"ok", "exception", "bad"} : RxAnswer(c, q, k)
           \/ \E c \in Connection, how \in Drops : PeerDrops(c, how)
           \/ OwnerConnect \/ OwnerDisconnect \/ OwnerDiscards \/ OwnerCancelled \/ OwnerStep
  BY <1>2, OthersDiscard, DiscardIsDrop DEF Unseen, Promise!Next
<1>3. CASE Next
  BY <1>2, <1>3, CallersKeepPromise, GateKeepsPromise, ScanKeepsPromise, WorkerKeepsPromise,
     CloseKeepsPromise DEF Next
<1>. QED BY <1>1, <1>3

\* What submit(), the worker, failures and close() do to the calls is what
\* BusSchedule promises: one outcome per call, controls before polls, one
\* request at a time, a replacement in the older control's place.
THEOREM TransportKeepsPromise == Spec => KeepsPromise
BY InitKeepsPromise, StepKeepsPromise, TypeCorrect, CallsAreWhereTheySay, PTL
   DEF Spec, KeepsPromise, Promise!Spec

-----------------------------------------------------------------------------
(***************************************************************************)
(* What a step can do to the calls and to the schedule, in four kinds.     *)
(***************************************************************************)

\* A call is queued or refused.
Queues ==
  \E r \in Request :
     /\ fut[r] \in {"new", "gate"} /\ Enqueue(r)
     /\ UNCHANGED <<cur, sends, closer>>

\* No call is accepted and none is written; controls may be dropped, with an
\* outcome while the transport is open.
Settles ==
  /\ UNCHANGED <<nextAction, ticket, sends>>
  /\ controls' \in {controls, <<>>} /\ cur' \in {cur, NoRequest}
  /\ \A r \in Request :
        \/ fut'[r] = fut[r]
        \/ fut[r] = "new" /\ fut'[r] = "gate"
        \/ fut'[r] \in Settled
  /\ Running' => /\ Running /\ cur' = cur
                 /\ \A r \in Elems(controls) : r \in Elems(controls') \/ fut'[r] # "pending"

\* The worker has its connection and writes its item.
Connects == \E c \in Connection : WorkerConnects(c)

\* The worker's item has its outcome and the next one is taken.
Turns ==
  /\ Running /\ UNCHANGED <<nextAction, ticket, closer>>
  /\ \A r \in Request :
        fut'[r] = fut[r] \/ (fut[r] = "pending" /\ fut'[r] \in Settled)
  /\ cur # NoRequest => fut'[cur] # "pending"
  /\ \E ctl \in {controls, <<>>}, w \in {0} \cup Connection :
        /\ TakeNext(fut', ctl, polls, w)
        /\ \A r \in Elems(controls) : r \in Elems(ctl) \/ fut'[r] # "pending"

LEMMA WorkerTurns ==
  ASSUME TypeOK, PlacesInv, WorkerStep
  PROVE  Settles \/ Connects \/ Turns
<1>1. fut \in FutType /\ Link \in {0} \cup Connection /\ 0 \in {0} \cup Connection
  BY LinkInConnection DEF TypeOK, FutType
<1>2. ASSUME Running, worker \in Busy, UNCHANGED <<nextAction, ticket, closer>>,
             NEW o \in Settled, fut' = Settle(fut, cur, o),
             NEW w \in {0} \cup Connection, TakeNext(fut', controls, polls, w)
      PROVE  Turns
  <2>1. cur \in Request
    BY <1>2 DEF PlacesInv, WorkerInv, TypeOK, WorkType
  <2>2. fut'[cur] # "pending"
    BY <1>1, <1>2, <2>1 DEF Settle, Settled, FutType
  <2>3. \A r \in Request :
           fut'[r] = fut[r] \/ (fut[r] = "pending" /\ fut'[r] \in Settled)
    BY <1>1, <1>2, SettleCalls
  <2>. QED BY <1>2, <2>2, <2>3 DEF Turns
<1>3. ASSUME Running, worker \in {"connecting", "exchange"}, NEW e \in Verdict, Fail(e)
      PROVE  Settles \/ Turns
  <2>1. /\ cur \in Request /\ Discarded(fut) \in FutType /\ e \in Settled
        /\ UNCHANGED <<nextAction, ticket, closer, Running>>
    BY <1>3, DiscardedCalls
       DEF PlacesInv, WorkerInv, Busy, TypeOK, WorkType, Fail, Running, closed, Verdict, Settled
  <2>2. \A r \in Elems(controls) : Discarded(fut)[r] # "pending"
    <3>1. Elems(controls) \subseteq Request
      BY Items DEF TypeOK, QueueType, Elems
    <3>. QED BY <3>1 DEF Discarded, SettleAll
  <2>3. CASE fut' = Discarded(fut) /\ controls' = <<>> /\ UNCHANGED <<cur, busVars>>
    BY <1>3, <2>1, <2>2, <2>3, DiscardedCalls DEF Settles, Settled, busVars
  <2>4. CASE fut' = Settle(Discarded(fut), cur, e) /\ TakeNext(fut', <<>>, polls, 0)
    <3>1. fut'[cur] # "pending"
      BY <2>1, <2>4 DEF Settle, FutType, Settled
    <3>2. \A r \in Request :
             fut'[r] = fut[r] \/ (fut[r] = "pending" /\ fut'[r] \in Settled)
      BY <2>1, <2>4, DiscardedCalls, SettleCalls DEF Settled
    <3>3. \A r \in Elems(controls) : fut'[r] # "pending"
      <4>1. \A r \in Request : fut'[r] = Discarded(fut)[r] \/ fut'[r] \in Settled
        BY <2>1, <2>4, SettleCalls
      <4>2. Elems(controls) \subseteq Request
        BY Items DEF TypeOK, QueueType, Elems
      <4>. QED BY <2>2, <4>1, <4>2 DEF Settled
    <3>. QED BY <1>1, <1>3, <2>1, <2>4, <3>1, <3>2, <3>3 DEF Turns
  <2>. QED BY <1>3, <2>3, <2>4 DEF Fail
<1>4. CASE WorkerWakes
  <2>1. cur = NoRequest
    BY <1>4 DEF WorkerWakes, PlacesInv, WorkerInv, Busy
  <2>. QED BY <1>1, <1>4, <2>1 DEF WorkerWakes, Turns
<1>5. CASE WorkerSucceeds \/ WorkerDeviceException
  BY <1>1, <1>2, <1>5 DEF WorkerSucceeds, WorkerDeviceException, Finish, Busy, Settled
<1>6. CASE WorkerConnectFails \/ WorkerProtocolError \/ WorkerGatewayError \/ WorkerTimeout
  BY <1>3, <1>6
     DEF WorkerConnectFails, WorkerProtocolError, WorkerGatewayError, WorkerTimeout, Verdict
<1>7. ASSUME Running, worker = "disconnect", NEW w \in {0} \cup Connection, Resume(w)
      PROVE  Turns
  <2>1. err \in Settled
    BY <1>7 DEF TypeOK, WorkType, Verdict, Settled
  <2>. QED BY <1>2, <1>7, <2>1 DEF Resume, Busy
<1>8. CASE WorkerReaped
  <2>1. CASE UNCHANGED <<fut, queueVars, workVars, closer, busVars>>
    BY <2>1 DEF Settles, queueVars, workVars, busVars, Running, closed
  <2>. QED BY <1>1, <1>7, <1>8, <2>1 DEF WorkerReaped
<1>9. CASE WorkerDisconnected
  BY <1>1, <1>7, <1>9 DEF WorkerDisconnected
<1>. QED BY <1>4, <1>5, <1>6, <1>8, <1>9 DEF WorkerStep, Connects

LEMMA CallSteps ==
  ASSUME TypeOK, PlacesInv, [Next]_vars
  PROVE  Queues \/ Settles \/ Connects \/ Turns
<1>1. CASE UNCHANGED vars
  BY <1>1 DEF vars, queueVars, workVars, busVars, Settles, Running, closed
<1>2. ASSUME NEW r \in Request, Submit(r)
      PROVE  Queues \/ Settles
  <2>1. /\ fut[r] = "new"
        /\ UNCHANGED <<cur, sends, closer, Running>>
    BY <1>2 DEF Submit, busVars, Running, closed
  <2>2. CASE Enqueue(r)
    BY <2>1, <2>2 DEF Queues
  <2>3. CASE fut' = [fut EXCEPT ![r] = "gate"] /\ UNCHANGED queueVars
    BY <2>1, <2>3 DEF queueVars, Settles, TypeOK
  <2>. QED BY <1>2, <2>2, <2>3 DEF Submit
<1>3. ASSUME NEW r \in Request, CancelCall(r)
      PROVE  Settles
  <2>1. /\ UNCHANGED <<controls, nextAction, ticket, cur, sends, Running>>
        /\ fut' = [fut EXCEPT ![r] = "cancelled"]
    BY <1>3 DEF CancelCall, queueVars, workVars, busVars, Running, closed
  <2>2. \A q \in Request : fut'[q] = fut[q] \/ fut'[q] \in Settled
    BY <2>1 DEF TypeOK, Settled
  <2>. QED BY <2>1, <2>2 DEF Settles
<1>4. CASE PassGate
  <2>1. UNCHANGED <<cur, sends, closer, Running>>
    BY <1>4 DEF PassGate, busVars, Running, closed
  <2>2. CASE Head(gateQ) # NoRequest /\ Enqueue(Head(gateQ))
    <3>1. /\ Head(gateQ) \in Request \cup {NoRequest} /\ Head(gateQ) = gateQ[1]
          /\ 1 \in DOMAIN gateQ
      BY <1>4, TailFacts DEF PassGate, TypeOK, GateType
    <3>2. Head(gateQ) \in Request /\ fut[Head(gateQ)] = "gate"
      BY <2>2, <3>1 DEF PlacesInv, GateInv
    <3>. QED BY <2>1, <2>2, <3>2 DEF Queues
  <2>3. CASE UNCHANGED <<fut, queueVars>>
    BY <2>1, <2>3 DEF queueVars, Settles
  <2>. QED BY <1>4, <2>2, <2>3 DEF PassGate
<1>5. CASE ScanBegin \/ ScanEnd
  BY <1>5 DEF ScanBegin, ScanEnd, Settles, queueVars, workVars, busVars, Running, closed
<1>6. ASSUME NEW p \in Probe, ScanProbe(p)
      PROVE  Queues
  <2>1. p \in Request /\ fut[p] = "new" /\ UNCHANGED <<cur, sends, closer>> /\ Enqueue(p)
    BY <1>6 DEF ScanProbe, Request, busVars
  <2>. QED BY <2>1 DEF Queues
<1>7. CASE ScanCancel
  <2>1. /\ UNCHANGED <<controls, nextAction, ticket, cur, sends, Running>>
        /\ \A r \in Request : fut'[r] = fut[r] \/ fut'[r] = "cancelled"
    BY <1>7 DEF ScanCancel, Settle, queueVars, workVars, busVars, Running, closed, TypeOK
  <2>. QED BY <2>1 DEF Settles, Settled
<1>8. CASE \/ \E c \in Connection : RxStep(c) \/ RxEvent(c) \/ RxNoise(c) \/ RxMalformed(c)
           \/ \E c \in Connection, q \in Request, k \in {"ok", "exception", "bad"} : RxAnswer(c, q, k)
           \/ \E c \in Connection, how \in Drops : PeerDrops(c, how)
           \/ OwnerConnect \/ OwnerDisconnect \/ OwnerDiscards \/ OwnerCancelled \/ OwnerStep
           \/ CloseReaped \/ CloseDisconnected
  <2>1. /\ UNCHANGED <<polls, nextAction, ticket, cur, sends, Running>>
        /\ \/ fut' = Discarded(fut) /\ controls' = <<>>
           \/ UNCHANGED <<fut, controls>>
    BY <1>8, OthersDiscard
  <2>2. \A r \in Elems(controls) : Discarded(fut)[r] # "pending"
    <3>1. Elems(controls) \subseteq Request
      BY Items DEF TypeOK, QueueType, Elems
    <3>. QED BY <3>1 DEF Discarded, SettleAll
  <2>. QED BY <2>1, <2>2, DiscardedCalls DEF Settles, Settled
<1>9. CASE Close \/ WorkerCancelled \/ CloseJoined
  <2>1. ~Running' /\ UNCHANGED <<nextAction, ticket, sends>> /\ controls' \in {controls, <<>>}
        /\ cur' \in {cur, NoRequest}
    BY <1>9 DEF Close, CloseQueues, WorkerCancelled, CloseJoined, queueVars, workVars, busVars,
                Running, closed
  <2>2. \A r \in Request : fut'[r] = fut[r] \/ fut'[r] = "cancelled"
    BY <1>9 DEF Close, CloseQueues, WorkerCancelled, CloseJoined, SettleAll, Settle, TypeOK
  <2>. QED BY <2>1, <2>2 DEF Settles, Settled
<1>10. CASE Next
  BY <1>2, <1>3, <1>4, <1>5, <1>6, <1>7, <1>8, <1>9, <1>10, WorkerTurns
     DEF Next, ScanStep, CloseStep
<1>. QED BY <1>1, <1>10

-----------------------------------------------------------------------------
(***************************************************************************)
(* The schedule never exceeds its capacities.                              *)
(***************************************************************************)

KeysDiffer(q) ==
  \A i, j \in DOMAIN q :
     i # j /\ {q[i], q[j]} \subseteq Stateful => KeyOf[q[i]] # KeyOf[q[j]]

Bounded(q) ==
  /\ Cardinality(Places(q, Stateful)) <= StatefulCapacity
  /\ Cardinality(Places(q, Action)) <= ActionCapacity
  /\ KeysDiffer(q)

LEMMA BoundsOfControls == QueueBounds <=> Bounded(controls)
BY DEF QueueBounds, Bounded, KeysDiffer, Places

LEMMA BoundedNone == Bounded(<<>>)
BY NoPlaces, NoItems, BoundAssumption DEF Bounded, KeysDiffer

LEMMA BoundedAfter ==
  ASSUME NEW q \in Seq(Control), Bounded(q), NEW i \in DOMAIN q
  PROVE  Bounded(After(q, i))
<1>1. /\ Cardinality(Places(After(q, i), Stateful)) <= Cardinality(Places(q, Stateful))
      /\ Cardinality(Places(After(q, i), Action)) <= Cardinality(Places(q, Action))
  BY PlacesSuffix DEF After
<1>2. /\ Cardinality(Places(After(q, i), Stateful)) \in Nat
      /\ Cardinality(Places(After(q, i), Action)) \in Nat
      /\ Cardinality(Places(q, Stateful)) \in Nat
      /\ Cardinality(Places(q, Action)) \in Nat
  BY AfterFacts, PlacesFinite
<1>3. KeysDiffer(After(q, i))
  <2>1. /\ DOMAIN q = 1 .. Len(q) /\ Len(q) \in Nat
        /\ DOMAIN After(q, i) = 1 .. (Len(q) - i)
        /\ \A j \in 1 .. (Len(q) - i) : After(q, i)[j] = q[i + j]
    BY AfterFacts
  <2>2. \A j \in DOMAIN After(q, i) : i + j \in DOMAIN q /\ After(q, i)[j] = q[i + j]
    BY <2>1
  <2>3. \A j, k \in DOMAIN After(q, i) : j # k => i + j # i + k
    BY <2>1
  <2>. QED BY <2>2, <2>3 DEF Bounded, KeysDiffer
<1>. QED BY <1>1, <1>2, <1>3, BoundAssumption DEF Bounded

\* A control of a kind that is not full, and whose key does not wait.
LEMMA BoundedAppend ==
  ASSUME NEW q \in Seq(Control), Bounded(q), NEW r \in Control,
         \/ r \in Action /\ Cardinality(Places(q, Action)) < ActionCapacity
         \/ /\ r \in Stateful /\ Cardinality(Places(q, Stateful)) < StatefulCapacity
            /\ \A i \in DOMAIN q : q[i] \in Stateful => KeyOf[q[i]] # KeyOf[r]
  PROVE  Bounded(Append(q, r))
<1>1. /\ DOMAIN q = 1 .. Len(q) /\ Len(q) \in Nat
      /\ DOMAIN Append(q, r) = 1 .. (Len(q) + 1)
      /\ \A i \in 1 .. Len(q) : Append(q, r)[i] = q[i]
      /\ Append(q, r)[Len(q) + 1] = r
  BY AppendFacts
<1>2. /\ Cardinality(Places(Append(q, r), Stateful))
            = IF r \in Stateful THEN Cardinality(Places(q, Stateful)) + 1
                                ELSE Cardinality(Places(q, Stateful))
      /\ Cardinality(Places(Append(q, r), Action))
            = IF r \in Action THEN Cardinality(Places(q, Action)) + 1
                              ELSE Cardinality(Places(q, Action))
      /\ Cardinality(Places(q, Stateful)) \in Nat /\ Cardinality(Places(q, Action)) \in Nat
  BY PlacesAppend, PlacesFinite
<1>3. Stateful \cap Action = {}
  BY RequestAssumption
<1>4. \A i \in DOMAIN Append(q, r) : i \in DOMAIN q \/ i = Len(q) + 1
  BY <1>1
<1>5. KeysDiffer(Append(q, r))
  BY <1>1, <1>3, <1>4 DEF Bounded, KeysDiffer
<1>. QED BY <1>2, <1>3, <1>5, BoundAssumption DEF Bounded

\* A control in the place of the one with its key.
LEMMA BoundedReplace ==
  ASSUME NEW q \in Seq(Control), Bounded(q), NEW r \in Stateful, NEW i \in DOMAIN q,
         q[i] \in Stateful, KeyOf[q[i]] = KeyOf[r]
  PROVE  Bounded(Replace(q, i, r))
<1>1. r \notin Action /\ q[i] \notin Action
  BY RequestAssumption
<1>2. /\ Places(Replace(q, i, r), Stateful) = Places(q, Stateful)
      /\ Places(Replace(q, i, r), Action) = Places(q, Action)
  BY <1>1, PlacesReplace DEF Replace
<1>3. /\ DOMAIN Replace(q, i, r) = DOMAIN q
      /\ \A j \in DOMAIN q : Replace(q, i, r)[j] = IF j = i THEN r ELSE q[j]
  BY DEF Replace
<1>4. KeysDiffer(Replace(q, i, r))
  BY <1>3 DEF Bounded, KeysDiffer
<1>. QED BY <1>2, <1>4 DEF Bounded

LEMMA EnqueueBounds ==
  ASSUME TypeOK, Bounded(controls), NEW r \in Request, Enqueue(r)
  PROVE  Bounded(controls')
<1>1. controls \in Seq(Control)
  BY DEF TypeOK, QueueType
<1>2. /\ Cardinality(Places(controls, Action)) \in Nat
      /\ Cardinality(Places(controls, Stateful)) \in Nat
      /\ \A kind : Depth(kind) = Cardinality(Places(controls, kind))
  BY <1>1, PlacesFinite DEF Depth, Places
<1>3. CASE EnqueueAction(r)
  <2>1. CASE UNCHANGED controls
    BY <2>1
  <2>2. CASE ~ActionsFull /\ controls' = Append(controls, r)
    <3>1. Cardinality(Places(controls, Action)) < ActionCapacity
      BY <1>2, <2>2, BoundAssumption DEF ActionsFull
    <3>. QED BY <1>1, <1>3, <2>2, <3>1, BoundedAppend DEF EnqueueAction, Control
  <2>. QED BY <1>3, <2>1, <2>2 DEF EnqueueAction, Refuse
<1>4. CASE EnqueueStateful(r)
  <2>1. CASE UNCHANGED controls
    BY <2>1
  <2>2. CASE /\ SameKey(r) = {} /\ Depth(Stateful) < StatefulCapacity
             /\ controls' = Append(controls, r)
    <3>1. \A i \in DOMAIN controls : controls[i] \in Stateful => KeyOf[controls[i]] # KeyOf[r]
      BY <2>2 DEF SameKey
    <3>. QED BY <1>1, <1>2, <1>4, <2>2, <3>1, BoundedAppend DEF EnqueueStateful, Control
  <2>3. CASE \E i \in SameKey(r) : controls' = Replace(controls, i, r)
    BY <1>1, <1>4, <2>3, BoundedReplace DEF EnqueueStateful, SameKey
  <2>. QED BY <1>4, <2>1, <2>2, <2>3 DEF EnqueueStateful, Refuse
<1>. QED BY <1>3, <1>4 DEF Enqueue, Refuse, EnqueuePoll

\* What TakeNext leaves of the controls.
LEMMA TakeNextLeaves ==
  ASSUME NEW ctl \in {controls, <<>>}, NEW w, TakeNext(fut', ctl, polls, w)
  PROVE  controls' = <<>> \/ \E i \in DOMAIN controls : controls' = After(controls, i)
BY NoItems DEF TakeNext

\* 256 states and 32 actions at most wait, and one state for each key: neither
\* replacing, nor failing, nor the gate lets a control past the limit.
THEOREM ScheduleIsBounded == Spec => []QueueBounds
<1>1. Init => QueueBounds
  BY BoundsOfControls, BoundedNone DEF Init
<1>2. TypeOK /\ PlacesInv /\ QueueBounds /\ [Next]_vars => QueueBounds'
  <2>. SUFFICES ASSUME TypeOK, PlacesInv, QueueBounds, [Next]_vars
                PROVE  Bounded(controls')
    BY DEF QueueBounds, Bounded, KeysDiffer, Places
  <2>0. Bounded(controls) /\ controls \in Seq(Control)
    BY BoundsOfControls DEF TypeOK, QueueType
  <2>1. CASE Queues
    BY <2>0, <2>1, EnqueueBounds DEF Queues
  <2>2. CASE Settles \/ Connects
    BY <2>0, <2>2, BoundedNone DEF Settles, Connects, WorkerConnects, queueVars
  <2>3. CASE Turns
    BY <2>0, <2>3, TakeNextLeaves, BoundedNone, BoundedAfter DEF Turns
  <2>. QED BY <2>1, <2>2, <2>3, CallSteps
<1>. QED BY <1>1, <1>2, TypeCorrect, CallsAreWhereTheySay, PTL DEF Spec

-----------------------------------------------------------------------------
(***************************************************************************)
(* Actions are written in the order of their tickets.                      *)
(***************************************************************************)

\* The calls at most got an outcome, and no action got a ticket.
NoNewTicket ==
  /\ UNCHANGED <<nextAction, ticket>>
  /\ \A a \in Action :
        /\ fut'[a] \in {"new", "gate"} => fut[a] \in {"new", "gate"}
        /\ fut'[a] = "pending" => fut[a] = "pending"

LEMMA InitFifo == Init => FifoInv
BY NoItems, RequestAssumption DEF Init, FifoInv, FifoActions, Request

\* The actions that wait keep their places, or have their outcome.
LEMMA FifoKept ==
  ASSUME TypeOK, FifoInv, NoNewTicket, sends' = sends,
         cur' \in {cur, NoRequest}, Running' => Running /\ cur' = cur,
         \A i \in DOMAIN controls' :
            controls'[i] \in Action => i \in DOMAIN controls /\ controls'[i] = controls[i],
         Running' => \A a \in Action \cap Elems(controls) :
                        a \in Elems(controls') \/ fut'[a] # "pending"
  PROVE  FifoInv'
<1>1. NoRequest \notin Action
  BY RequestAssumption DEF Request
<1>2. \A a \in Action :
         ticket'[a] <= nextAction' /\ (fut'[a] \in {"new", "gate"} => ticket'[a] = 0)
  BY DEF NoNewTicket, FifoInv
<1>3. \A i, j \in DOMAIN controls' :
         i < j /\ {controls'[i], controls'[j]} \subseteq Action
         => ticket'[controls'[i]] < ticket'[controls'[j]]
  BY DEF NoNewTicket, FifoInv
<1>4. \A i \in DOMAIN controls', b \in Action :
         controls'[i] \in Action /\ (sends'[b] > 0 \/ b = cur')
         => ticket'[b] < ticket'[controls'[i]]
  BY <1>1 DEF NoNewTicket, FifoInv
<1>5. \A b \in Action : cur' \in Action /\ sends'[b] > 0 => ticket'[b] <= ticket'[cur']
  BY <1>1 DEF NoNewTicket, FifoInv
<1>6. Running' => \A a \in Action :
         fut'[a] = "pending" => sends'[a] > 0 \/ a = cur' \/ a \in Elems(controls')
  BY DEF NoNewTicket, FifoInv
<1>7. FifoActions'
  BY DEF NoNewTicket, FifoInv, FifoActions
<1>. QED BY <1>2, <1>3, <1>4, <1>5, <1>6, <1>7 DEF FifoInv

LEMMA ActionAccepted ==
  ASSUME TypeOK, PlacesInv, FifoInv, NEW r \in Action, fut[r] \in {"new", "gate"},
         fut' = [fut EXCEPT ![r] = "pending"], nextAction' = nextAction + 1,
         ticket' = [ticket EXCEPT ![r] = nextAction + 1],
         controls' = Append(controls, r), UNCHANGED <<cur, sends, closer>>
  PROVE  FifoInv'
<1>1. /\ r \in Request /\ sends[r] = 0 /\ r # cur /\ r \notin Elems(controls)
      /\ controls \in Seq(Control) /\ nextAction \in Nat /\ ticket \in [Action -> Nat]
      /\ fut \in FutType
  BY DEF Request, PlacesInv, CallsInv, QueueInv, Elems, TypeOK, QueueType, FutType
<1>2. /\ ticket'[r] = nextAction + 1
      /\ \A a \in Action : a # r => ticket'[a] = ticket[a]
      /\ \A a \in Action : ticket[a] <= nextAction /\ ticket[a] \in Nat
      /\ fut'[r] = "pending" /\ \A a \in Action : a # r => fut'[a] = fut[a]
  BY <1>1 DEF FifoInv, FutType, Request
<1>3. /\ DOMAIN controls = 1 .. Len(controls) /\ Len(controls) \in Nat
      /\ DOMAIN controls' = 1 .. (Len(controls) + 1)
      /\ \A i \in 1 .. Len(controls) : controls'[i] = controls[i]
      /\ controls'[Len(controls) + 1] = r
  BY <1>1, AppendFacts DEF Control
<1>4. /\ \A i \in DOMAIN controls' :
            \/ i \in DOMAIN controls /\ controls'[i] = controls[i] /\ controls[i] # r
               /\ i < Len(controls) + 1
            \/ i = Len(controls) + 1 /\ controls'[i] = r
      /\ \A i, j \in DOMAIN controls' : i < j => i \in DOMAIN controls
  BY <1>1, <1>3 DEF Elems
<1>5. \A a \in Action :
         ticket'[a] <= nextAction' /\ (fut'[a] \in {"new", "gate"} => ticket'[a] = 0)
  BY <1>1, <1>2 DEF FifoInv
<1>6. \A i, j \in DOMAIN controls' :
         i < j /\ {controls'[i], controls'[j]} \subseteq Action
         => ticket'[controls'[i]] < ticket'[controls'[j]]
  <2>. SUFFICES ASSUME NEW i \in DOMAIN controls', NEW j \in DOMAIN controls', i < j,
                       controls'[i] \in Action, controls'[j] \in Action
                PROVE  ticket'[controls'[i]] < ticket'[controls'[j]]
    OBVIOUS
  <2>1. i \in DOMAIN controls /\ controls'[i] = controls[i] /\ controls[i] # r
    BY <1>3, <1>4
  <2>2. CASE j \in DOMAIN controls /\ controls'[j] = controls[j] /\ controls[j] # r
    BY <1>2, <2>1, <2>2 DEF FifoInv
  <2>3. CASE controls'[j] = r
    BY <1>1, <1>2, <2>1, <2>3
  <2>. QED BY <1>4, <2>2, <2>3
<1>7. \A i \in DOMAIN controls', b \in Action :
         controls'[i] \in Action /\ (sends'[b] > 0 \/ b = cur')
         => ticket'[b] < ticket'[controls'[i]]
  <2>. SUFFICES ASSUME NEW i \in DOMAIN controls', NEW b \in Action,
                       controls'[i] \in Action, sends[b] > 0 \/ b = cur
                PROVE  ticket'[b] < ticket'[controls'[i]]
    OBVIOUS
  <2>1. b # r
    BY <1>1
  <2>2. CASE i \in DOMAIN controls /\ controls'[i] = controls[i] /\ controls[i] # r
    BY <1>2, <2>1, <2>2 DEF FifoInv
  <2>3. CASE controls'[i] = r
    BY <1>1, <1>2, <2>1, <2>3
  <2>. QED BY <1>4, <2>2, <2>3
<1>8. \A b \in Action : cur' \in Action /\ sends'[b] > 0 => ticket'[b] <= ticket'[cur']
  BY <1>1, <1>2 DEF FifoInv
<1>9. Running' => \A a \in Action :
         fut'[a] = "pending" => sends'[a] > 0 \/ a = cur' \/ a \in Elems(controls')
  <2>1. Elems(controls) \cup {r} \subseteq Elems(controls')
    BY <1>3 DEF Elems
  <2>. QED BY <1>2, <2>1 DEF FifoInv, Running, closed
<1>10. FifoActions'
  BY <1>1, <1>2 DEF FifoInv, FifoActions
<1>. QED BY <1>5, <1>6, <1>7, <1>8, <1>9, <1>10 DEF FifoInv

LEMMA QueuesFifo ==
  ASSUME TypeOK, PlacesInv, FifoInv, NEW r \in Request, fut[r] \in {"new", "gate"},
         Enqueue(r), UNCHANGED <<cur, sends, closer>>
  PROVE  FifoInv'
<1>1. /\ controls \in Seq(Control) /\ fut \in FutType /\ UNCHANGED Running
      /\ Action \subseteq Request /\ Stateful \cap Action = {}
      /\ (Poll \cup Probe) \cap Action = {}
  BY RequestAssumption DEF TypeOK, QueueType, FutType, Request, Running, closed
<1>2. ASSUME NEW o \in {"full", "offline"}, Refuse(r, o)
      PROVE  FifoInv'
  <2>1. NoNewTicket
    BY <1>1, <1>2 DEF Refuse, NoNewTicket, FutType
  <2>. QED BY <1>1, <1>2, <2>1, FifoKept DEF Refuse
<1>3. ASSUME r \notin Action, UNCHANGED <<nextAction, ticket>>,
             \A q \in Request : q # r => fut'[q] = fut[q] \/ fut'[q] \in Settled
      PROVE  NoNewTicket
  BY <1>1, <1>3 DEF NoNewTicket, Settled
<1>4. CASE EnqueuePoll(r)
  <2>1. NoNewTicket /\ UNCHANGED controls
    BY <1>1, <1>3, <1>4 DEF EnqueuePoll, FutType
  <2>. QED BY <1>1, <2>1, FifoKept
<1>5. CASE EnqueueAction(r)
  BY <1>2, <1>5, ActionAccepted DEF EnqueueAction
<1>6. CASE EnqueueStateful(r)
  <2>1. CASE fut' = [fut EXCEPT ![r] = "pending"] /\ controls' = Append(controls, r)
             /\ UNCHANGED <<nextAction, ticket>>
    <3>1. NoNewTicket
      BY <1>1, <1>3, <1>6, <2>1 DEF EnqueueStateful, FutType
    <3>2. /\ DOMAIN controls = 1 .. Len(controls) /\ Len(controls) \in Nat
          /\ DOMAIN controls' = 1 .. (Len(controls) + 1)
          /\ \A i \in 1 .. Len(controls) : controls'[i] = controls[i]
          /\ controls'[Len(controls) + 1] = r
      BY <1>1, <1>6, <2>1, AppendFacts DEF Control, EnqueueStateful
    <3>3. /\ \A i \in DOMAIN controls' : i \in DOMAIN controls \/ controls'[i] = r
          /\ Elems(controls) \subseteq Elems(controls')
      BY <3>2 DEF Elems
    <3>. QED BY <1>1, <1>6, <3>1, <3>2, <3>3, FifoKept DEF EnqueueStateful
  <2>2. ASSUME NEW i \in SameKey(r), controls' = Replace(controls, i, r),
               fut' = [Settle(fut, controls[i], "superseded") EXCEPT ![r] = "pending"],
               UNCHANGED <<nextAction, ticket>>
        PROVE  FifoInv'
    <3>1. i \in DOMAIN controls /\ controls[i] \in Stateful /\ controls[i] \in Request
      BY <2>2 DEF SameKey, Request
    <3>2. \A q \in Request : q # r => fut'[q] = fut[q] \/ fut'[q] \in Settled
      BY <1>1, <2>2, <3>1 DEF Settle, Settled, FutType
    <3>3. NoNewTicket
      BY <1>1, <1>3, <1>6, <2>2, <3>2 DEF EnqueueStateful
    <3>4. /\ DOMAIN controls' = DOMAIN controls
          /\ \A j \in DOMAIN controls : controls'[j] = IF j = i THEN r ELSE controls[j]
      BY <2>2 DEF Replace
    <3>5. \A a \in Action \cap Elems(controls) : a \in Elems(controls')
      BY <1>1, <3>1, <3>4 DEF Elems
    <3>. QED BY <1>1, <1>6, <3>3, <3>4, <3>5, FifoKept DEF EnqueueStateful
  <2>. QED BY <1>2, <1>6, <2>1, <2>2 DEF EnqueueStateful
<1>. QED BY <1>2, <1>4, <1>5, <1>6 DEF Enqueue

\* The worker's item is the oldest action that waits: nothing is overtaken.
LEMMA ConnectsFifo ==
  ASSUME TypeOK, PlacesInv, FifoInv, NEW c \in Connection, WorkerConnects(c)
  PROVE  FifoInv'
<1>1. /\ UNCHANGED <<fut, controls, nextAction, ticket, cur, Running>> /\ Running
      /\ cur \in Request /\ sends[cur] \in Nat
      /\ sends' \in {sends, [sends EXCEPT ![cur] = @ + 1]}
  BY DEF WorkerConnects, StartOn, queueVars, Running, closed, PlacesInv, WorkerInv, Busy,
         TypeOK, WorkType, BusType
<1>2. \A b \in Request :
         /\ sends[b] > 0 => sends'[b] > 0
         /\ sends'[b] > 0 => sends[b] > 0 \/ b = cur
  BY <1>1 DEF TypeOK, BusType
<1>3. \A a \in Action : a \in Request /\ ticket[a] \in Nat
  BY DEF TypeOK, QueueType, Request
<1>4. \A i \in DOMAIN controls, b \in Action :
         controls[i] \in Action /\ (sends'[b] > 0 \/ b = cur) => ticket[b] < ticket[controls[i]]
  BY <1>2, <1>3 DEF FifoInv
<1>5. \A b \in Action : cur \in Action /\ sends'[b] > 0 => ticket[b] <= ticket[cur]
  BY <1>2, <1>3 DEF FifoInv
<1>6. \A a \in Action :
         fut[a] = "pending" => sends'[a] > 0 \/ a = cur \/ a \in Elems(controls)
  BY <1>1, <1>2, <1>3 DEF FifoInv
<1>7. FifoActions'
  <2>. SUFFICES ASSUME NEW a \in Action, NEW b \in Action, ticket[a] < ticket[b],
                       sends'[b] > 0, ~(sends'[a] > 0), fut[a] = "pending"
                PROVE  FALSE
    BY <1>1 DEF FifoActions
  <2>1. CASE a = cur
    BY <1>3, <1>5, <2>1
  <2>2. CASE a \in Elems(controls)
    BY <1>3, <1>4, <2>2 DEF Elems
  <2>. QED BY <1>6, <2>1, <2>2
<1>. QED BY <1>1, <1>4, <1>5, <1>6, <1>7 DEF FifoInv

\* No action waits any more, and the worker holds none.
LEMMA FifoDrained ==
  ASSUME TypeOK, FifoInv, Turns, controls' = <<>>, cur' \notin Action,
         \A a \in Action : sends'[a] = sends[a],
         \A a \in Elems(controls) \cap Action : fut'[a] # "pending"
  PROVE  FifoInv'
<1>1. \A a \in Action : a \in Request /\ a # NoRequest
  BY RequestAssumption DEF Request
<1>2. NoNewTicket /\ Running /\ \A a \in Action : a = cur => fut'[a] # "pending"
  BY <1>1 DEF Turns, NoNewTicket, Settled
<1>3. \A a \in Action :
         ticket'[a] <= nextAction' /\ (fut'[a] \in {"new", "gate"} => ticket'[a] = 0)
  BY <1>2 DEF NoNewTicket, FifoInv
<1>4. \A a \in Action : fut'[a] = "pending" => sends'[a] > 0
  BY <1>2 DEF NoNewTicket, FifoInv
<1>5. FifoActions'
  BY <1>4 DEF FifoActions
<1>. QED BY <1>3, <1>4, <1>5, NoItems DEF FifoInv

LEMMA TurnsFifo ==
  ASSUME TypeOK, PlacesInv, FifoInv, Turns
  PROVE  FifoInv'
<1>1. PICK ctl \in {controls, <<>>}, w \in {0} \cup Connection :
           /\ TakeNext(fut', ctl, polls, w)
           /\ \A r \in Elems(controls) : r \in Elems(ctl) \/ fut'[r] # "pending"
  BY DEF Turns
<1>2. /\ controls \in Seq(Control) /\ polls \in Seq(Poll \cup Probe)
      /\ Running /\ NoNewTicket
      /\ \A a \in Action : a \in Request /\ a # NoRequest /\ ticket[a] \in Nat
  BY RequestAssumption DEF TypeOK, QueueType, Turns, NoNewTicket, Settled, Request
<1>3. ASSUME AllCancelled(ctl, fut')
      PROVE  \A a \in Elems(controls) \cap Action : fut'[a] # "pending"
  BY <1>1, <1>3 DEF AllCancelled, Elems
<1>4. ASSUME NEW i \in DOMAIN ctl, FirstLive(ctl, fut', i),
             controls' = After(ctl, i), StartOn(ctl[i], w)
      PROVE  FifoInv'
  <2>1. ctl = controls /\ i \in DOMAIN controls /\ cur' = controls[i] /\ controls[i] \in Request
    BY <1>2, <1>4, Items, NoItems DEF StartOn
  <2>2. /\ DOMAIN controls = 1 .. Len(controls) /\ Len(controls) \in Nat
        /\ DOMAIN controls' = 1 .. (Len(controls) - i)
        /\ \A j \in 1 .. (Len(controls) - i) : controls'[j] = controls[i + j]
    BY <1>2, <1>4, <2>1, AfterFacts
  <2>3. /\ \A j \in DOMAIN controls' : /\ i + j \in DOMAIN controls /\ i < i + j
                                     /\ controls'[j] = controls[i + j]
        /\ \A j, k \in DOMAIN controls' : j < k => i + j < i + k
        /\ \A j \in DOMAIN controls : j < i \/ j = i \/ (i < j /\ controls[j] \in Elems(controls'))
    <3>1. \A j \in DOMAIN controls : i < j => j - i \in 1 .. (Len(controls) - i) /\ i + (j - i) = j
      BY <2>2
    <3>. QED BY <2>2, <3>1 DEF Elems
  <2>4. \A b \in Request :
           /\ sends[b] > 0 => sends'[b] > 0
           /\ sends'[b] > 0 => sends[b] > 0 \/ b = controls[i]
    BY <1>4, <2>1 DEF StartOn, TypeOK, BusType
  <2>5. \A a \in Action :
           ticket'[a] <= nextAction' /\ (fut'[a] \in {"new", "gate"} => ticket'[a] = 0)
    BY <1>2 DEF NoNewTicket, FifoInv
  <2>6. \A j, k \in DOMAIN controls' :
           j < k /\ {controls'[j], controls'[k]} \subseteq Action
           => ticket'[controls'[j]] < ticket'[controls'[k]]
    BY <1>2, <2>3 DEF NoNewTicket, FifoInv
  <2>7. \A j \in DOMAIN controls', b \in Action :
           controls'[j] \in Action /\ (sends'[b] > 0 \/ b = cur')
           => ticket'[b] < ticket'[controls'[j]]
    <3>. SUFFICES ASSUME NEW j \in DOMAIN controls', NEW b \in Action, controls'[j] \in Action,
                         sends'[b] > 0 \/ b = cur'
                  PROVE  ticket[b] < ticket[controls[i + j]]
      BY <1>2, <2>3 DEF NoNewTicket
    <3>1. sends[b] > 0 \/ b = controls[i]
      BY <1>2, <2>1, <2>4
    <3>. QED BY <2>1, <2>3, <3>1 DEF FifoInv
  <2>8. \A b \in Action : cur' \in Action /\ sends'[b] > 0 => ticket'[b] <= ticket'[cur']
    <3>. SUFFICES ASSUME NEW b \in Action, controls[i] \in Action, sends'[b] > 0
                  PROVE  ticket[b] <= ticket[controls[i]]
      BY <1>2, <2>1 DEF NoNewTicket
    <3>1. sends[b] > 0 \/ b = controls[i]
      BY <1>2, <2>4
    <3>. QED BY <1>2, <2>1, <3>1 DEF FifoInv
  <2>9. \A a \in Action :
           fut'[a] = "pending" => sends[a] > 0 \/ a = cur' \/ a \in Elems(controls')
    <3>. SUFFICES ASSUME NEW a \in Action, fut'[a] = "pending", ~(sends[a] > 0)
                  PROVE  a = cur' \/ a \in Elems(controls')
      OBVIOUS
    <3>1. a \in Elems(controls)
      BY <1>2 DEF Turns, NoNewTicket, FifoInv
    <3>2. PICK j \in DOMAIN controls : controls[j] = a
      BY <3>1 DEF Elems
    <3>3. ~(j < i)
      <4>1. j < i => j \in 1 .. (i - 1)
        BY <2>1, <2>2
      <4>. QED BY <1>4, <2>1, <3>2, <4>1 DEF FirstLive
    <3>. QED BY <2>1, <2>3, <3>2, <3>3
  <2>10. FifoActions'
    <3>. SUFFICES ASSUME NEW a \in Action, NEW b \in Action, ticket'[a] < ticket'[b],
                         sends'[b] > 0, ~(sends'[a] > 0), fut'[a] = "pending"
                  PROVE  FALSE
      BY DEF FifoActions
    <3>1. a = cur' \/ a \in Elems(controls')
      BY <1>2, <2>4, <2>9
    <3>2. ticket'[b] <= ticket'[a]
      BY <1>2, <2>7, <2>8, <3>1 DEF Elems, NoNewTicket
    <3>. QED BY <1>2, <3>2 DEF NoNewTicket
  <2>11. \A a \in Action :
           fut'[a] = "pending" => sends'[a] > 0 \/ a = cur' \/ a \in Elems(controls')
    BY <1>2, <2>4, <2>9
  <2>. QED BY <2>5, <2>6, <2>7, <2>8, <2>10, <2>11 DEF FifoInv
<1>5. ASSUME AllCancelled(ctl, fut'), NEW i \in DOMAIN polls, controls' = <<>>,
             StartOn(polls[i], w)
      PROVE  FifoInv'
  <2>1. polls[i] \in Poll \cup Probe /\ polls[i] \notin Action
    BY <1>2, Items, RequestAssumption
  <2>2. cur' \notin Action /\ \A a \in Action : sends'[a] = sends[a]
    BY <1>2, <1>5, <2>1 DEF StartOn, TypeOK, BusType
  <2>. QED BY <1>3, <1>5, <2>2, FifoDrained
<1>6. ASSUME AllCancelled(ctl, fut'), controls' = <<>>, cur' = NoRequest, UNCHANGED busVars
      PROVE  FifoInv'
  BY <1>2, <1>3, <1>6, FifoDrained DEF busVars
<1>. QED BY <1>1, <1>4, <1>5, <1>6 DEF TakeNext

LEMMA StepFifo == TypeOK /\ PlacesInv /\ FifoInv /\ [Next]_vars => FifoInv'
<1>. SUFFICES ASSUME TypeOK, PlacesInv, FifoInv, [Next]_vars PROVE FifoInv'
  OBVIOUS
<1>1. CASE Queues
  BY <1>1, QueuesFifo DEF Queues
<1>2. CASE Settles
  <2>1. NoNewTicket
    <3>1. Action \subseteq Request
      BY DEF Request
    <3>. QED BY <1>2, <3>1 DEF Settles, NoNewTicket, Settled
  <2>. QED BY <1>2, <2>1, FifoKept, NoItems DEF Settles
<1>3. CASE Connects
  BY <1>3, ConnectsFifo DEF Connects
<1>4. CASE Turns
  BY <1>4, TurnsFifo
<1>. QED BY <1>1, <1>2, <1>3, <1>4, CallSteps

LEMMA TicketsInOrder == Spec => []FifoInv
BY InitFifo, StepFifo, TypeCorrect, CallsAreWhereTheySay, PTL DEF Spec

\* submit_action() is first in, first out on the wire: no cancellation, failure
\* or reconnection lets an action pass one that was accepted before it.
THEOREM ActionsInOrder == Spec => []FifoActions
<1>1. FifoInv => FifoActions
  BY DEF FifoInv
<1>. QED BY <1>1, TicketsInOrder, PTL

-----------------------------------------------------------------------------
(***************************************************************************)
(* Connections.  Every socket is the writer's or was replaced while it was *)
(* open; close() leaves nothing else behind.  As long as none was replaced *)
(* there is one RX task that reads, and an answer reaches the request it   *)
(* belongs to.                                                             *)
(***************************************************************************)
Live == {"new", "reading"}
OpenSocket == {"up", "eof"}

\* The answers that can still be read belong to the connection of the RX task.
ReadByTask == \A r \in Request : Awaited(r) => owed[r] = task
NoneAwaited == \A r \in Request : ~Awaited(r)

\* The part of SocketsInv that only the connections' own variables matter to.
SocketInv ==
  /\ writer <= opened /\ \A r \in Request : owed[r] <= opened
  /\ \A c \in Connection : peer[c] \in OpenSocket => c = writer \/ c \in replaced
  /\ writer # 0 /\ rx[writer] \in Live => task = writer

LEMMA CloseWriterLinks ==
  ASSUME TypeOK, SocketInv, NEW p, CloseWriter(p), UNCHANGED <<rx, opened, owed, replaced>>
  PROVE  /\ SocketInv' /\ writer' = 0
         /\ \A r \in Request : Awaited(r)' => Awaited(r)
<1>1. /\ opened \in Nat /\ writer' = 0
      /\ \A c \in Connection : peer'[c] # "closed" => c # writer /\ peer'[c] = peer[c]
  BY BoundAssumption DEF CloseWriter, TypeOK, LinkType
<1>2. \A r \in Request : owed[r] # 0 => owed[r] \in Connection
  BY DEF TypeOK, BusType
<1>3. SocketInv'
  BY <1>1 DEF SocketInv, OpenSocket
<1>. QED BY <1>1, <1>2, <1>3 DEF Awaited

\* disconnect() ends the RX task, and with it every answer still to come.
LEMMA BeginDisconnectLinks ==
  ASSUME TypeOK, SocketInv, NEW a \in Agent, NEW p, BeginDisconnect(a, p), owed' = owed
  PROVE  /\ SocketInv' /\ task' = 0 /\ replaced' = replaced
         /\ ReadByTask => NoneAwaited'
         /\ \A b \in Agent : b # a => reaps'[b] = reaps[b]
         /\ ~DisconnectWaits => writer' = 0
         /\ reaps'[a] = 0 => writer' = 0
         /\ pend' \in {p, "gateway"}
         /\ \A r \in Request : Awaited(r)' => Awaited(r)
<1>0. replaced' = replaced /\ opened' = opened /\ task' = 0
  BY DEF BeginDisconnect
<1>1. CASE LiveTask /\ rx' = [rx EXCEPT ![task] = "cancelled"]
                    /\ reaps' = [reaps EXCEPT ![a] = task] /\ pend' = p
                    /\ UNCHANGED <<writer, peer>>
  <2>1. task \in Connection /\ task # 0 /\ \A c \in Connection : rx'[c] \in Live => c # task /\ rx[c] \in Live
    BY <1>1 DEF LiveTask, TypeOK, LinkType, Connection, Live
  <2>2. \A r \in Request : owed[r] # 0 => owed[r] \in Connection
    BY DEF TypeOK, BusType, Connection
  <2>3. \A r \in Request : Awaited(r)' => Awaited(r) /\ owed[r] # task
    BY <1>1, <2>1, <2>2 DEF Awaited, Live
  <2>4. writer # 0 => writer \in Connection
    BY DEF TypeOK, LinkType
  <2>5. SocketInv'
    BY <1>0, <1>1, <2>1, <2>4 DEF SocketInv
  <2>. QED BY <1>0, <1>1, <2>1, <2>3, <2>5
           DEF TypeOK, LinkType, Agent, ReadByTask, NoneAwaited, DisconnectWaits
<1>2. CASE ~LiveTask /\ CloseWriter(p) /\ UNCHANGED <<rx, reaps>>
  <2>1. SocketInv' /\ writer' = 0 /\ \A r \in Request : Awaited(r)' => Awaited(r)
    BY <1>0, <1>2, CloseWriterLinks
  <2>2. \A r \in Request : Awaited(r) => owed[r] # task
    BY <1>2 DEF Awaited, LiveTask
  <2>. QED BY <1>0, <1>2, <2>1, <2>2 DEF ReadByTask, NoneAwaited, CloseWriter
<1>. QED BY <1>1, <1>2 DEF BeginDisconnect

\* connect(): what it finds open is noted as replaced; nothing is awaited on c
\* but what is written to it in the same step.
LEMMA OpensLinks ==
  ASSUME TypeOK, SocketInv, NEW c \in Connection, Opens(c),
         \A r \in Request : owed'[r] \in {owed[r], c}
  PROVE  /\ SocketInv' /\ writer' = c /\ task' = c /\ c # 0
         /\ replaced' = {} => replaced = {} /\ \A r \in Request : Awaited(r)' => owed'[r] = c
         /\ \A r \in Request : owed[r] # c
<1>1. /\ opened \in Nat /\ c = opened + 1 /\ c # 0 /\ c \in Nat
      /\ \A r \in Request : owed[r] \in Nat
      /\ writer \in Nat
  BY BoundAssumption DEF TypeOK, LinkType, BusType, Connection, Opens
<1>2. \A d \in Connection : d # c => rx'[d] = rx[d] /\ peer'[d] = peer[d]
  BY DEF Opens, TypeOK, LinkType
<1>3. \A r \in Request : owed[r] # c /\ (owed[r] # 0 => owed[r] \in Connection)
  BY <1>1 DEF SocketInv, TypeOK, BusType
<1>4. /\ replaced' = {} => replaced = {}
      /\ \A d \in replaced : d \in replaced'
      /\ Connected => writer \in replaced'
  BY DEF Opens
<1>5. \A d \in Connection : peer[d] \in OpenSocket => d \in replaced'
  <2>. SUFFICES ASSUME NEW d \in Connection, peer[d] \in OpenSocket
                PROVE  d \in replaced'
    OBVIOUS
  <2>1. CASE d = writer
    BY <1>4, <2>1 DEF Connected, OpenSocket, Connection
  <2>2. CASE d \in replaced
    BY <1>4, <2>2
  <2>. QED BY <2>1, <2>2 DEF SocketInv
<1>6. SocketInv'
  <2>1. opened' = c /\ writer' = c /\ task' = c
    BY DEF Opens
  <2>2. \A r \in Request : owed'[r] <= c
    BY <1>1 DEF SocketInv
  <2>3. \A d \in Connection : peer'[d] \in OpenSocket => d = c \/ d \in replaced'
    BY <1>2, <1>5
  <2>. QED BY <1>1, <2>1, <2>2, <2>3 DEF SocketInv
<1>7. replaced' = {} => \A r \in Request : Awaited(r)' => owed'[r] = c
  BY <1>2, <1>3, <1>5 DEF Awaited, OpenSocket
<1>. QED BY <1>1, <1>3, <1>4, <1>6, <1>7 DEF Opens

-----------------------------------------------------------------------------
(***************************************************************************)
(* The parts of LinkInv, one step at a time.                               *)
(***************************************************************************)

LEMMA SocketPart == LinkInv => SocketInv
BY DEF LinkInv, SocketsInv, SocketInv, Live, OpenSocket

LEMMA SocketsKept ==
  ASSUME SocketInv', owner' = "connecting" => ~closed'
  PROVE  SocketsInv'
BY DEF SocketsInv, SocketInv, Live, OpenSocket

\* The exchange under way goes on, or its answer has come.
LEMMA AnswersFade ==
  ASSUME AnswersInv, UNCHANGED <<worker, cur>>, Running' => Running,
         pend' = "waiting" => pend = "waiting",
         \A r \in Request : Awaited(r)' =>
            Awaited(r) /\ owed'[r] = owed[r] /\ (owed[r] = task => task' = task),
         worker = "exchange" /\ pend' \in {"ok", "exception"} => owed'[cur] = 0
  PROVE  AnswersInv'
BY DEF AnswersInv

\* No answer can be read any more, and none is waited for.
LEMMA NoAnswers ==
  ASSUME NoneAwaited', worker' = "exchange" => pend' \notin {"ok", "exception"}
  PROVE  AnswersInv'
BY DEF AnswersInv, NoneAwaited

LEMMA AwaitedByTask ==
  ASSUME AnswersInv, Running \/ pend = "waiting"
  PROVE  ReadByTask /\ (worker # "exchange" => NoneAwaited)
BY DEF AnswersInv, ReadByTask, NoneAwaited

\* Callers, the gate and the scan: they leave the connections alone.
LEMMA CallerLinks ==
  ASSUME LinkInv, UNCHANGED <<cur, pend, linkVars, owner, closer, busVars>>,
         worker' = worker \/ (Running /\ worker = "none" /\ worker' = "idle"),
         UNCHANGED <<controls, polls>> \/ Running
  PROVE  LinkInv'
<1>1. SocketsInv'
  BY DEF LinkInv, SocketsInv, linkVars, busVars, closed
<1>2. replaced' = {} => AnswersInv'
  BY DEF LinkInv, AnswersInv, Awaited, linkVars, busVars, Running, closed
<1>3. CloseInv'
  BY DEF LinkInv, CloseInv, linkVars, Running, closed
<1>. QED BY <1>1, <1>2, <1>3 DEF LinkInv

LEMMA EnqueueLinks ==
  ASSUME NEW r \in Request, Enqueue(r)
  PROVE  /\ worker' = worker \/ (Running /\ worker = "none" /\ worker' = "idle")
         /\ UNCHANGED <<controls, polls>> \/ Running
BY DEF Enqueue, EnqueuePoll, EnqueueAction, EnqueueStateful, Refuse, Placed, Running

LEMMA CallersLinks ==
  ASSUME LinkInv, NEW r \in Request, Submit(r) \/ CancelCall(r)
  PROVE  LinkInv'
<1>1. CASE Submit(r)
  <2>1. /\ worker' = worker \/ (Running /\ worker = "none" /\ worker' = "idle")
        /\ UNCHANGED <<controls, polls>> \/ Running
    BY <1>1, EnqueueLinks DEF Submit, queueVars
  <2>. QED BY <1>1, <2>1, CallerLinks DEF Submit
<1>2. CASE CancelCall(r)
  BY <1>2, CallerLinks DEF CancelCall, queueVars, workVars
<1>. QED BY <1>1, <1>2

LEMMA GateLinks ==
  ASSUME TypeOK, LinkInv,
         PassGate \/ ScanBegin \/ ScanEnd \/ ScanCancel \/ \E p \in Probe : ScanProbe(p)
  PROVE  LinkInv'
<1>1. CASE PassGate
  <2>1. Head(gateQ) # NoRequest => Head(gateQ) \in Request
    BY <1>1 DEF PassGate, TypeOK, GateType
  <2>2. /\ worker' = worker \/ (Running /\ worker = "none" /\ worker' = "idle")
        /\ UNCHANGED <<controls, polls>> \/ Running
    BY <1>1, <2>1, EnqueueLinks DEF PassGate, queueVars
  <2>. QED BY <1>1, <2>2, CallerLinks DEF PassGate
<1>2. ASSUME NEW p \in Probe, ScanProbe(p)
      PROVE  LinkInv'
  <2>1. /\ worker' = worker \/ (Running /\ worker = "none" /\ worker' = "idle")
        /\ UNCHANGED <<controls, polls>> \/ Running
    BY <1>2, EnqueueLinks DEF ScanProbe, Request
  <2>. QED BY <1>2, <2>1, CallerLinks DEF ScanProbe
<1>3. CASE ScanBegin \/ ScanEnd \/ ScanCancel
  BY <1>3, CallerLinks DEF ScanBegin, ScanEnd, ScanCancel, queueVars, workVars
<1>. QED BY <1>1, <1>2, <1>3

-----------------------------------------------------------------------------
(***************************************************************************)
(* The worker.                                                             *)
(***************************************************************************)

\* The worker takes its next item or goes idle: either nothing is written, or
\* the item goes to connection w and its answer is waited for.
LEMMA TurnTakes ==
  ASSUME TypeOK, NEW ctl \in {controls, <<>>}, NEW w \in {0} \cup Connection,
         TakeNext(fut', ctl, polls, w)
  PROVE  \/ /\ owed' = owed /\ worker' \in {"connecting", "idle"}
            /\ pend' = "none"
         \/ \E r \in Request :
              /\ w # 0 /\ cur' = r /\ owed' = [owed EXCEPT ![r] = w]
              /\ worker' = "exchange" /\ pend' = "waiting"
<1>0. ctl \in Seq(Control) /\ polls \in Seq(Poll \cup Probe)
  BY EmptySeqType DEF TypeOK, QueueType
<1>1. ASSUME NEW r \in Request, StartOn(r, w)
      PROVE  \/ /\ owed' = owed /\ worker' \in {"connecting", "idle"}
                /\ pend' = "none"
             \/ /\ w # 0 /\ cur' = r /\ owed' = [owed EXCEPT ![r] = w]
                /\ worker' = "exchange" /\ pend' = "waiting"
  BY <1>1 DEF StartOn
<1>2. \A i \in DOMAIN ctl : ctl[i] \in Request
  BY <1>0, Items
<1>3. \A i \in DOMAIN polls : polls[i] \in Request
  BY <1>0, Items
<1>4. CASE \E i \in DOMAIN ctl : StartOn(ctl[i], w)
  BY <1>1, <1>2, <1>4
<1>5. CASE \E i \in DOMAIN polls : StartOn(polls[i], w)
  BY <1>1, <1>3, <1>5
<1>6. CASE worker' = "idle" /\ pend' = "none" /\ UNCHANGED busVars
  BY <1>6 DEF busVars
<1>. QED BY <1>4, <1>5, <1>6 DEF TakeNext

\* A turn of the worker when no answer is left that could be read.
LEMMA TurnLinks ==
  ASSUME TypeOK, LinkInv, Running, UNCHANGED <<owner, closer, replaced>>,
         NEW ctl \in {controls, <<>>}, NEW w \in {0} \cup Connection,
         TakeNext(fut', ctl, polls, w),
         owed' = owed => SocketInv' /\ (replaced = {} => NoneAwaited'),
         w # 0 => /\ w = writer /\ UNCHANGED <<writer, task, rx, peer, opened>>
                  /\ replaced = {} => NoneAwaited
  PROVE  LinkInv'
<1>1. SocketInv /\ CloseInv' /\ (owner' = "connecting" => ~closed')
  BY SocketPart DEF LinkInv, SocketsInv, CloseInv, Running, closed
<1>2. CASE /\ owed' = owed /\ worker' \in {"connecting", "idle"}
           /\ pend' = "none"
  <2>1. SocketsInv'
    BY <1>1, <1>2, SocketsKept
  <2>2. replaced' = {} => AnswersInv'
    BY <1>2, NoAnswers
  <2>. QED BY <1>1, <2>1, <2>2 DEF LinkInv
<1>3. ASSUME NEW r \in Request, w # 0, cur' = r, owed' = [owed EXCEPT ![r] = w],
             worker' = "exchange", pend' = "waiting"
      PROVE  LinkInv'
  <2>1. /\ writer' = writer /\ task' = task /\ rx' = rx /\ peer' = peer /\ opened' = opened
        /\ w = writer /\ (replaced = {} => NoneAwaited)
    BY <1>3
  <2>2. owed'[r] = writer /\ \A q \in Request : q # r => owed'[q] = owed[q]
    BY <1>3, <2>1 DEF TypeOK, BusType
  <2>3. SocketInv'
    BY <1>1, <2>1, <2>2 DEF SocketInv
  <2>4. SocketsInv'
    BY <1>1, <2>3, SocketsKept
  <2>5. replaced = {} => \A q \in Request : Awaited(q)' => q = r /\ owed'[q] = task'
    BY <1>1, <1>3, <2>1, <2>2 DEF Awaited, NoneAwaited, SocketInv, Live
  <2>6. replaced' = {} => AnswersInv'
    BY <1>3, <2>5 DEF AnswersInv
  <2>. QED BY <1>1, <2>4, <2>6 DEF LinkInv
<1>. QED BY <1>2, <1>3, TurnTakes

LEMMA WakesLinks ==
  ASSUME TypeOK, LinkInv, WorkerWakes
  PROVE  LinkInv'
<1>1. /\ Running /\ worker = "idle" /\ TakeNext(fut', controls, polls, Link)
      /\ UNCHANGED <<writer, task, rx, peer, opened, replaced>> /\ UNCHANGED <<owner, closer>>
  BY DEF WorkerWakes, linkVars
<1>2. Link \in {0} \cup Connection /\ (Link # 0 => Link = writer)
  BY LinkInConnection DEF Link
<1>3. SocketInv /\ (replaced = {} => NoneAwaited)
  BY <1>1, AwaitedByTask, SocketPart DEF LinkInv
<1>4. owed' = owed => SocketInv' /\ (replaced = {} => NoneAwaited')
  BY <1>1, <1>3 DEF SocketInv, NoneAwaited, Awaited
<1>. QED BY <1>1, <1>2, <1>3, <1>4, TurnLinks

LEMMA ConnectsLinks ==
  ASSUME TypeOK, PlacesInv, LinkInv, NEW c \in Connection, WorkerConnects(c)
  PROVE  LinkInv'
<1>1. /\ Running /\ worker = "connecting" /\ Opens(c) /\ UNCHANGED <<owner, closer>>
      /\ c # 0 /\ worker' = "exchange" /\ pend' = "waiting" /\ cur' = cur
      /\ owed' = [owed EXCEPT ![cur] = c]
      /\ cur \in Request
  BY DEF WorkerConnects, StartOn, TypeOK, WorkType, PlacesInv, WorkerInv, Busy, Connection
<1>2. \A r \in Request : owed'[r] = IF r = cur THEN c ELSE owed[r]
  BY <1>1 DEF TypeOK, BusType
<1>3. /\ SocketInv' /\ task' = c /\ \A r \in Request : owed[r] # c
      /\ replaced' = {} => \A r \in Request : Awaited(r)' => owed'[r] = c
  BY <1>1, <1>2, SocketPart, OpensLinks
<1>4. SocketsInv'
  BY <1>1, <1>3, SocketsKept DEF LinkInv, SocketsInv, closed
<1>5. replaced' = {} => AnswersInv'
  BY <1>1, <1>2, <1>3 DEF AnswersInv
<1>. QED BY <1>1, <1>4, <1>5 DEF LinkInv, CloseInv, Running, closed

LEMMA FinishLinks ==
  ASSUME TypeOK, LinkInv, NEW o, Running, worker = "exchange",
         pend \in {"ok", "exception"}, Finish(o)
  PROVE  LinkInv'
<1>1. /\ TakeNext(fut', controls, polls, Link)
      /\ UNCHANGED <<writer, task, rx, peer, opened, replaced>> /\ UNCHANGED <<owner, closer>>
  BY DEF Finish, linkVars
<1>2. Link \in {0} \cup Connection /\ (Link # 0 => Link = writer)
  BY LinkInConnection DEF Link
<1>3. SocketInv /\ (replaced = {} => NoneAwaited)
  BY SocketPart DEF LinkInv, AnswersInv, NoneAwaited, Awaited
<1>4. owed' = owed => SocketInv' /\ (replaced = {} => NoneAwaited')
  BY <1>1, <1>3 DEF SocketInv, NoneAwaited, Awaited
<1>. QED BY <1>1, <1>2, <1>3, <1>4, TurnLinks

LEMMA FailLinks ==
  ASSUME TypeOK, LinkInv, NEW e, Running, Fail(e)
  PROVE  LinkInv'
<1>1. /\ BeginDisconnect("worker", "none") /\ UNCHANGED <<owner, closer>>
      /\ "worker" \in Agent /\ replaced' = replaced
  BY DEF Fail, Agent, BeginDisconnect
<1>2. SocketInv /\ (replaced = {} => ReadByTask)
  BY AwaitedByTask, SocketPart DEF LinkInv
<1>3. owed' = owed => SocketInv' /\ (replaced = {} => NoneAwaited')
  BY <1>1, <1>2, BeginDisconnectLinks
<1>4. CASE worker' = "disconnect" /\ UNCHANGED busVars
  <2>1. owed' = owed
    BY <1>4 DEF busVars
  <2>2. SocketsInv'
    BY <1>1, <1>3, <2>1, SocketsKept DEF LinkInv, SocketsInv, closed
  <2>3. replaced' = {} => AnswersInv'
    BY <1>1, <1>3, <1>4, <2>1, NoAnswers
  <2>. QED BY <1>1, <2>2, <2>3 DEF LinkInv, CloseInv, Running, closed
<1>5. CASE TakeNext(fut', <<>>, polls, 0)
  BY <1>1, <1>3, <1>5, TurnLinks
<1>. QED BY <1>4, <1>5 DEF Fail

LEMMA ReapedLinks ==
  ASSUME TypeOK, SocketInv, NEW a \in Agent, NEW p, Reaped(a, p), owed' = owed
  PROVE  /\ SocketInv' /\ writer' = 0
         /\ \A r \in Request : Awaited(r)' => Awaited(r)
         /\ reaps'[a] = 0 /\ \A b \in Agent : b # a => reaps'[b] = reaps[b]
         /\ task' = task /\ pend' \in {p, "gateway"} /\ replaced' = replaced
<1>1. CloseWriter(p) /\ UNCHANGED <<task, rx, opened, replaced>>
      /\ reaps' = [reaps EXCEPT ![a] = 0]
  BY DEF Reaped
<1>. QED BY <1>1, CloseWriterLinks DEF CloseWriter, TypeOK, LinkType

LEMMA WorkerLeavesLinks ==
  ASSUME TypeOK, LinkInv, WorkerReaped \/ WorkerDisconnected
  PROVE  LinkInv'
<1>1. /\ Running /\ worker = "disconnect" /\ UNCHANGED <<owner, closer>>
      /\ "worker" \in Agent /\ replaced' = replaced
  BY DEF WorkerReaped, WorkerDisconnected, Resume, Agent, Reaped, SocketClosed
<1>2. SocketInv /\ (replaced = {} => NoneAwaited)
  BY <1>1, AwaitedByTask, SocketPart DEF LinkInv
<1>3. CASE WorkerReaped
  <2>1. Reaped("worker", pend)
    BY <1>3 DEF WorkerReaped
  <2>2. owed' = owed => SocketInv' /\ (replaced = {} => NoneAwaited')
    BY <1>1, <1>2, <2>1, ReapedLinks DEF NoneAwaited
  <2>3. CASE UNCHANGED <<workVars, busVars>>
    <3>1. owed' = owed /\ worker' = "disconnect"
      BY <1>1, <2>3 DEF workVars, busVars
    <3>2. SocketsInv'
      BY <1>1, <2>2, <3>1, SocketsKept DEF LinkInv, SocketsInv, closed
    <3>3. replaced' = {} => AnswersInv'
      BY <1>1, <2>2, <3>1, NoAnswers
    <3>. QED BY <1>1, <3>2, <3>3 DEF LinkInv, CloseInv, Running, closed
  <2>4. CASE Resume(0)
    <3>1. TakeNext(fut', controls, polls, 0)
      BY <2>4 DEF Resume
    <3>. QED BY <1>1, <2>2, <3>1, TurnLinks
  <2>. QED BY <1>3, <2>3, <2>4 DEF WorkerReaped
<1>4. CASE WorkerDisconnected
  <2>1. /\ TakeNext(fut', controls, polls, Link)
        /\ UNCHANGED <<writer, task, rx, peer, opened>>
    BY <1>4 DEF WorkerDisconnected, Resume, SocketClosed
  <2>2. Link \in {0} \cup Connection /\ (Link # 0 => Link = writer)
    BY LinkInConnection DEF Link
  <2>3. owed' = owed => SocketInv' /\ (replaced = {} => NoneAwaited')
    BY <1>1, <1>2, <2>1 DEF SocketInv, NoneAwaited, Awaited
  <2>. QED BY <1>1, <1>2, <2>1, <2>2, <2>3, TurnLinks
<1>. QED BY <1>3, <1>4

LEMMA WorkerLinks ==
  ASSUME TypeOK, PlacesInv, LinkInv, WorkerStep
  PROVE  LinkInv'
<1>1. CASE WorkerSucceeds \/ WorkerDeviceException
  BY <1>1, FinishLinks DEF WorkerSucceeds, WorkerDeviceException
<1>2. CASE WorkerConnectFails \/ WorkerProtocolError \/ WorkerGatewayError \/ WorkerTimeout
  BY <1>2, FailLinks
     DEF WorkerConnectFails, WorkerProtocolError, WorkerGatewayError, WorkerTimeout
<1>. QED BY <1>1, <1>2, WakesLinks, ConnectsLinks, WorkerLeavesLinks DEF WorkerStep

-----------------------------------------------------------------------------
(***************************************************************************)
(* The RX tasks and the network.                                           *)
(***************************************************************************)

\* An RX task goes on or ends; no other starts to read.
LEMMA RxLeaves ==
  ASSUME TypeOK, SocketInv, NEW c \in Connection, RxLoops(c) \/ RxDone(c),
         rx[c] \in {"new", "reading"}, UNCHANGED <<writer, peer, opened, replaced>>,
         \A r \in Request : owed'[r] \in {0, owed[r]}
  PROVE  /\ SocketInv' /\ task' \in {task, 0}
         /\ \A r \in Request : Awaited(r)' =>
               Awaited(r) /\ owed'[r] = owed[r] /\ (owed[r] = task => task' = task)
<1>0. /\ writer \in Nat /\ opened \in Nat /\ \A r \in Request : owed[r] \in Nat
      /\ writer # 0 => writer \in Connection
      /\ \A r \in Request : owed[r] # 0 => owed[r] \in Connection
  BY BoundAssumption DEF TypeOK, LinkType, BusType, Connection
<1>1. CASE rx' = [rx EXCEPT ![c] = "reading"] /\ UNCHANGED task
  <2>1. \A d \in Connection : rx'[d] \in Live <=> rx[d] \in Live
    BY <1>1 DEF TypeOK, LinkType, Live
  <2>2. SocketInv'
    BY <1>0, <1>1, <2>1 DEF SocketInv
  <2>. QED BY <1>0, <1>1, <2>1, <2>2 DEF Awaited, Live
<1>2. CASE RxDone(c)
  <2>1. \A d \in Connection : rx'[d] \in Live => rx[d] \in Live /\ d # c
    BY <1>2 DEF RxDone, TypeOK, LinkType, Live
  <2>2. SocketInv'
    BY <1>0, <1>2, <2>1 DEF SocketInv, RxDone
  <2>. QED BY <1>0, <1>2, <2>1, <2>2 DEF Awaited, Live, RxDone
<1>. QED BY <1>1, <1>2 DEF RxLoops

\* Steps of the RX task that leave the writer: what they change, they take away.
LEMMA ReadsLinks ==
  ASSUME TypeOK, LinkInv, NEW c \in Connection, RxLoops(c) \/ RxDone(c),
         rx[c] \in {"new", "reading"}, UNCHANGED <<writer, peer, opened, reaps, replaced>>,
         UNCHANGED <<worker, cur, owner, closer, controls, polls>>,
         \A r \in Request : owed'[r] \in {0, owed[r]},
         pend' = "waiting" => pend = "waiting",
         replaced = {} /\ worker = "exchange" /\ pend' \in {"ok", "exception"} => owed'[cur] = 0
  PROVE  LinkInv'
<1>1. /\ SocketInv' /\ task' \in {task, 0}
      /\ \A r \in Request : Awaited(r)' =>
            Awaited(r) /\ owed'[r] = owed[r] /\ (owed[r] = task => task' = task)
  BY RxLeaves, SocketPart
<1>2. SocketsInv'
  BY <1>1, SocketsKept DEF LinkInv, SocketsInv, closed
<1>3. replaced' = {} => AnswersInv'
  BY <1>1, AnswersFade DEF LinkInv, Running, closed
<1>4. CloseInv'
  BY <1>1 DEF LinkInv, CloseInv
<1>. QED BY <1>2, <1>3, <1>4 DEF LinkInv

LEMMA RxReadsLinks ==
  ASSUME TypeOK, LinkInv, NEW c \in Connection, RxStart(c) \/ RxEvent(c) \/ RxNoise(c)
  PROVE  LinkInv'
<1>1. UNCHANGED owed /\ pend' \in {pend, "bad"}
  BY DEF RxStart, RxEvent, RxNoise, busVars
<1>2. /\ \A r \in Request : owed'[r] \in {0, owed[r]}
      /\ pend' = "waiting" => pend = "waiting"
      /\ replaced = {} /\ worker = "exchange" /\ pend' \in {"ok", "exception"} => owed'[cur] = 0
  BY <1>1 DEF LinkInv, AnswersInv
<1>. QED BY <1>2, ReadsLinks DEF RxStart, RxEvent, RxNoise, workVars, queueVars

\* The answer that arrives while one is waited for is the one waited for, as
\* long as no connection was replaced.
LEMMA RxAnswerLinks ==
  ASSUME TypeOK, PlacesInv, LinkInv, NEW c \in Connection, NEW q \in Request,
         NEW k \in {"ok", "exception", "bad"}, RxAnswer(c, q, k)
  PROVE  LinkInv'
<1>1. /\ rx[c] = "reading" /\ peer[c] = "up" /\ owed[q] = c /\ c # 0
      /\ owed' = [owed EXCEPT ![q] = 0]
      /\ pend' = IF pend = "waiting" THEN k ELSE pend
  BY DEF RxAnswer, Connection
<1>2. \A r \in Request : owed'[r] = IF r = q THEN 0 ELSE owed[r]
  BY <1>1 DEF TypeOK, BusType
<1>3. worker = "exchange" => cur \in Request
  BY DEF PlacesInv, WorkerInv, Busy, TypeOK, WorkType
<1>4. replaced = {} /\ pend = "waiting" => q = cur
  BY <1>1 DEF LinkInv, AnswersInv, Awaited
<1>5. replaced = {} /\ worker = "exchange" /\ pend' \in {"ok", "exception"} => owed'[cur] = 0
  BY <1>1, <1>2, <1>3, <1>4 DEF LinkInv, AnswersInv
<1>6. \A r \in Request : owed'[r] \in {0, owed[r]}
  BY <1>2
<1>7. pend' = "waiting" => pend = "waiting"
  BY <1>1
<1>. QED BY <1>1, <1>5, <1>6, <1>7, ReadsLinks DEF RxAnswer, workVars, queueVars

\* An RX task that ends may report its connection as lost.
LEMMA RxLostLinks ==
  ASSUME TypeOK, LinkInv, NEW c \in Connection, RxMalformed(c) \/ RxEnds(c)
  PROVE  LinkInv'
<1>1. /\ rx[c] = "reading" /\ RxDone(c) /\ UNCHANGED <<opened, reaps, owed, replaced>>
      /\ UNCHANGED <<worker, cur, owner, closer, polls>>
  BY DEF RxMalformed, RxEnds, workVars, busVars
<1>2. replaced = {} /\ worker = "exchange" /\ pend \in {"ok", "exception"} => owed[cur] = 0
  BY DEF LinkInv, AnswersInv
<1>3. CASE /\ UNCHANGED <<writer, peer, controls>>
           /\ pend' = pend \/ pend' = "bad"
  BY <1>1, <1>2, <1>3, ReadsLinks
<1>4. CASE CloseWriter(pend) /\ controls' = <<>>
  <2>1. \A d \in Connection : rx'[d] \in Live => rx[d] \in Live /\ d # c
    BY <1>1 DEF RxDone, TypeOK, LinkType, Live
  <2>2. \A r \in Request : owed[r] # 0 => owed[r] \in Connection
    BY DEF TypeOK, BusType
  <2>3. /\ writer' = 0 /\ (pend' = pend \/ pend' = "gateway")
        /\ pend' = "waiting" => pend = "waiting"
        /\ \A d \in Connection : peer'[d] # "closed" => d # writer /\ peer'[d] = peer[d]
    BY <1>4 DEF CloseWriter
  <2>4. SocketInv'
    <3>1. SocketInv /\ opened \in Nat
      BY SocketPart, BoundAssumption DEF TypeOK, LinkType
    <3>. QED BY <1>1, <2>3, <3>1 DEF SocketInv, OpenSocket
  <2>5. SocketsInv'
    BY <1>1, <2>4, SocketsKept DEF LinkInv, SocketsInv, closed
  <2>6. \A r \in Request : Awaited(r)' =>
            Awaited(r) /\ owed'[r] = owed[r] /\ (owed[r] = task => task' = task)
    BY <1>1, <2>1, <2>2, <2>3 DEF Awaited, Live, RxDone
  <2>7. replaced' = {} => AnswersInv'
    BY <1>1, <1>2, <2>3, <2>6, AnswersFade DEF LinkInv, Running, closed
  <2>8. CloseInv'
    BY <1>1, <1>4, <2>3 DEF LinkInv, CloseInv, RxDone
  <2>. QED BY <2>5, <2>7, <2>8 DEF LinkInv
<1>. QED BY <1>3, <1>4 DEF RxMalformed, RxEnds, MarkLost

LEMMA NetworkLinks ==
  ASSUME TypeOK, LinkInv, NEW c \in Connection,
         RxCancelled(c) \/ \E how \in Drops : PeerDrops(c, how)
  PROVE  LinkInv'
<1>1. /\ UNCHANGED <<worker, cur, owner, closer, polls, controls, pend>>
      /\ UNCHANGED <<writer, task, opened, reaps, owed, replaced>>
  BY DEF RxCancelled, PeerDrops, workVars, queueVars, busVars
<1>2. SocketInv
  BY SocketPart
<1>3. /\ \A r \in Request : owed[r] # 0 => owed[r] \in Connection
      /\ writer # 0 => writer \in Connection
  BY DEF TypeOK, LinkType, BusType
<1>4. /\ \A d \in Connection : rx'[d] \in Live => rx[d] \in Live
      /\ \A d \in Connection : peer'[d] = "up" => peer[d] = "up"
      /\ \A d \in Connection : peer'[d] \in OpenSocket => peer[d] \in OpenSocket
  BY BoundAssumption DEF RxCancelled, PeerDrops, TypeOK, LinkType, Live, OpenSocket
<1>5. SocketInv'
  BY <1>1, <1>2, <1>3, <1>4 DEF SocketInv
<1>6. SocketsInv'
  BY <1>1, <1>5, SocketsKept DEF LinkInv, SocketsInv, closed
<1>7. \A r \in Request : Awaited(r)' => Awaited(r)
  BY <1>1, <1>3, <1>4 DEF Awaited, Live
<1>8. replaced' = {} => AnswersInv'
  BY <1>1, <1>7, AnswersFade DEF LinkInv, AnswersInv, Running, closed
<1>9. CloseInv'
  BY <1>1 DEF LinkInv, CloseInv
<1>. QED BY <1>6, <1>8, <1>9 DEF LinkInv

-----------------------------------------------------------------------------
(***************************************************************************)
(* The coordinator and close().                                            *)
(***************************************************************************)

\* A connection is asked for, or the end of a connect() or disconnect() is
\* noted: no connection changes.
LEMMA NotedLinks ==
  ASSUME LinkInv, UNCHANGED <<writer, task, rx, peer, opened, replaced, owed>>,
         UNCHANGED <<cur, pend, worker, closer, polls>>, controls' \in {controls, <<>>},
         owner' = "connecting" => owner = "connecting" \/ ~closed,
         reaps'["closer"] = reaps["closer"]
  PROVE  LinkInv'
<1>1. SocketsInv'
  BY DEF LinkInv, SocketsInv, closed
<1>2. replaced' = {} => AnswersInv'
  BY DEF LinkInv, AnswersInv, Awaited, Running, closed
<1>3. CloseInv'
  BY DEF LinkInv, CloseInv
<1>. QED BY <1>1, <1>2, <1>3 DEF LinkInv

\* disconnect() begins, or goes on, in the coordinator.
LEMMA DisconnectsLinks ==
  ASSUME TypeOK, LinkInv, UNCHANGED <<fut, queueVars, gateVars, workVars, closer, busVars>>,
         owner' # "connecting",
         BeginDisconnect("owner", pend) \/ Reaped("owner", pend)
  PROVE  LinkInv'
<1>1. /\ UNCHANGED <<worker, cur, closer, polls, controls, owed>>
      /\ SocketInv /\ "owner" \in Agent /\ "closer" \in Agent /\ "owner" # "closer"
      /\ replaced = {} /\ (Running \/ pend = "waiting") => ReadByTask
      /\ replaced = {} /\ worker = "exchange" /\ pend \in {"ok", "exception"} => owed[cur] = 0
  BY AwaitedByTask, SocketPart
     DEF LinkInv, AnswersInv, queueVars, workVars, busVars, Agent
<1>2. /\ SocketInv' /\ task' \in {task, 0} /\ pend' \in {pend, "gateway"}
      /\ replaced' = replaced
      /\ reaps'["closer"] = reaps["closer"]
  BY <1>1, BeginDisconnectLinks, ReapedLinks
<1>3. SocketsInv'
  BY <1>2, SocketsKept
<1>4. replaced' = {} => AnswersInv'
  <2>1. CASE BeginDisconnect("owner", pend)
    <3>1. replaced = {} /\ (Running' \/ pend' = "waiting") => NoneAwaited'
      BY <1>1, <1>2, <2>1, BeginDisconnectLinks DEF Running, closed
    <3>. QED BY <1>1, <1>2, <3>1 DEF AnswersInv, NoneAwaited
  <2>2. CASE Reaped("owner", pend)
    <3>1. task' = task /\ \A r \in Request : Awaited(r)' => Awaited(r)
      BY <1>1, <2>2, ReapedLinks
    <3>. QED BY <1>1, <1>2, <3>1, AnswersFade DEF LinkInv, Running, closed
  <2>. QED BY <2>1, <2>2
<1>5. CloseInv'
  <2>1. writer = 0 => writer' = 0
    BY DEF BeginDisconnect, Reaped, CloseWriter
  <2>. QED BY <1>1, <1>2, <2>1 DEF LinkInv, CloseInv
<1>. QED BY <1>3, <1>4, <1>5 DEF LinkInv

\* The coordinator's connection may take the place of the worker's: then it is
\* noted as replaced, else nothing is awaited any more.
LEMMA OwnerConnectsLinks ==
  ASSUME TypeOK, LinkInv, NEW c \in Connection, OwnerConnects(c)
  PROVE  LinkInv'
<1>1. /\ owner = "connecting" /\ owner' = "idle" /\ Opens(c)
      /\ UNCHANGED <<worker, cur, pend, closer, owed>>
  BY DEF OwnerConnects, workVars, busVars
<1>2. /\ SocketInv' /\ \A r \in Request : owed[r] # c
      /\ replaced' = {} => replaced = {} /\ \A r \in Request : Awaited(r)' => owed'[r] = c
  BY <1>1, SocketPart, OpensLinks
<1>3. SocketsInv'
  BY <1>1, <1>2, SocketsKept
<1>4. replaced' = {} => AnswersInv'
  BY <1>1, <1>2 DEF LinkInv, AnswersInv
<1>5. CloseInv'
  BY <1>1 DEF LinkInv, SocketsInv, CloseInv, closed
<1>. QED BY <1>3, <1>4, <1>5 DEF LinkInv

LEMMA OwnerLinks ==
  ASSUME TypeOK, LinkInv,
         OwnerConnect \/ OwnerDisconnect \/ OwnerDiscards \/ OwnerCancelled \/ OwnerStep
  PROVE  LinkInv'
<1>0. "owner" \in Agent /\ "closer" \in Agent /\ "owner" # "closer"
  BY DEF Agent
<1>1. CASE OwnerDisconnect \/ OwnerReaped
  BY <1>1, DisconnectsLinks DEF OwnerDisconnect, OwnerReaped
<1>2. CASE OwnerDisconnected \/ OwnerCancelled \/ OwnerDiscards \/ OwnerConnectFails \/ OwnerConnect
  <2>1. reaps'["closer"] = reaps["closer"]
    BY <1>0, <1>2 DEF OwnerDisconnected, OwnerCancelled, OwnerDiscards, OwnerConnectFails,
                      OwnerConnect, SocketClosed, DisconnectCancelled, linkVars, TypeOK, LinkType
  <2>2. /\ UNCHANGED <<writer, task, rx, peer, opened, replaced, owed>>
        /\ UNCHANGED <<cur, pend, worker, closer, polls>>
    BY <1>2 DEF OwnerDisconnected, OwnerCancelled, OwnerDiscards, OwnerConnectFails, OwnerConnect,
                SocketClosed, DisconnectCancelled, linkVars, queueVars, workVars, busVars
  <2>3. /\ controls' \in {controls, <<>>}
        /\ owner' = "connecting" => owner = "connecting" \/ ~closed
    BY <1>2 DEF OwnerDisconnected, OwnerCancelled, OwnerDiscards, OwnerConnectFails, OwnerConnect,
                queueVars
  <2>. QED BY <2>1, <2>2, <2>3, NotedLinks
<1>. QED BY <1>1, <1>2, OwnerConnectsLinks DEF OwnerStep

\* close() without a worker: the queues are emptied and disconnect() begins.
LEMMA CloseQueuesLinks ==
  ASSUME TypeOK, LinkInv, CloseQueues, worker' = "none", owner # "connecting"
  PROVE  LinkInv'
<1>1. /\ BeginDisconnect("closer", pend) /\ "closer" \in Agent /\ UNCHANGED <<cur, owner, owed>>
      /\ closer' = IF DisconnectWaits THEN "disconnect" ELSE "done"
      /\ SocketInv /\ (replaced = {} /\ pend = "waiting" => ReadByTask)
  BY AwaitedByTask, SocketPart DEF CloseQueues, Agent, LinkInv, busVars
<1>2. /\ SocketInv' /\ task' = 0 /\ pend' \in {pend, "gateway"} /\ replaced' = replaced
      /\ ReadByTask => NoneAwaited'
      /\ ~DisconnectWaits => writer' = 0
      /\ reaps'["closer"] = 0 => writer' = 0
  BY <1>1, BeginDisconnectLinks
<1>3. SocketsInv'
  BY <1>1, <1>2, SocketsKept
<1>4. replaced' = {} => AnswersInv'
  BY <1>1, <1>2 DEF AnswersInv, NoneAwaited, Running, closed
<1>5. CloseInv'
  BY <1>1, <1>2 DEF CloseInv, CloseQueues
<1>. QED BY <1>3, <1>4, <1>5 DEF LinkInv

LEMMA CloseLinks ==
  ASSUME TypeOK, LinkInv, Close \/ CloseStep
  PROVE  LinkInv'
<1>0. closed => owner # "connecting"
  BY DEF LinkInv, SocketsInv
<1>1. CASE Close \/ CloseJoined
  <2>1. CASE CloseQueues /\ worker' = "none" /\ owner # "connecting"
    BY <2>1, CloseQueuesLinks
  <2>2. CASE /\ closer' = "join" /\ owner # "connecting"
             /\ UNCHANGED <<queueVars, gateVars, workVars, pend, linkVars, owner, busVars>>
    <3>1. SocketsInv'
      BY <2>2 DEF LinkInv, SocketsInv, linkVars, busVars
    <3>2. replaced' = {} => AnswersInv'
      BY <2>2 DEF LinkInv, AnswersInv, Awaited, Running, closed, workVars, linkVars, busVars
    <3>. QED BY <2>2, <3>1, <3>2 DEF LinkInv, CloseInv
  <2>. QED BY <1>0, <1>1, <2>1, <2>2 DEF Close, CloseJoined, closed
<1>2. CASE WorkerCancelled
  <2>1. /\ closer = "join" /\ closer' = "join" /\ worker' = "stopped" /\ pend' = "none"
        /\ UNCHANGED <<writer, task, rx, peer, opened, replaced, owner, owed>>
    BY <1>2 DEF WorkerCancelled, DisconnectCancelled, linkVars, busVars
  <2>2. SocketsInv'
    BY <2>1 DEF LinkInv, SocketsInv, closed
  <2>3. AnswersInv'
    BY <2>1 DEF AnswersInv, Running, closed
  <2>. QED BY <2>1, <2>2, <2>3 DEF LinkInv, CloseInv
<1>3. CASE CloseReaped
  <2>1. /\ closer = "disconnect" /\ Reaped("closer", pend) /\ "closer" \in Agent
        /\ UNCHANGED <<worker, cur, controls, polls, owner, owed>>
        /\ closer' \in {"disconnect", "done"}
    BY <1>3 DEF CloseReaped, Agent, workVars, queueVars, busVars
  <2>2. /\ SocketInv' /\ writer' = 0 /\ task' = task /\ pend' \in {pend, "gateway"}
        /\ replaced' = replaced
        /\ \A r \in Request : Awaited(r)' => Awaited(r)
    BY <2>1, SocketPart, ReapedLinks
  <2>3. worker = "none" /\ task = 0 /\ controls = <<>> /\ polls = <<>> /\ owner # "connecting"
    BY <1>0, <2>1 DEF LinkInv, CloseInv, closed
  <2>4. SocketsInv'
    BY <2>1, <2>2, <2>3, SocketsKept
  <2>5. replaced' = {} => AnswersInv'
    BY <2>1, <2>2, <2>3, AnswersFade DEF LinkInv, Running, closed
  <2>. QED BY <2>1, <2>2, <2>3, <2>4, <2>5 DEF LinkInv, CloseInv
<1>4. CASE CloseDisconnected
  <2>1. /\ closer = "disconnect" /\ closer' = "done" /\ reaps["closer"] = 0
        /\ UNCHANGED <<worker, cur, controls, polls, owner, owed, pend>>
        /\ UNCHANGED <<writer, task, rx, peer, opened, replaced>>
    BY <1>4 DEF CloseDisconnected, SocketClosed, workVars, queueVars, busVars
  <2>2. SocketsInv'
    BY <1>0, <2>1 DEF LinkInv, SocketsInv, closed
  <2>3. replaced' = {} => AnswersInv'
    BY <2>1 DEF LinkInv, AnswersInv, Awaited, Running, closed
  <2>. QED BY <2>1, <2>2, <2>3 DEF LinkInv, CloseInv
<1>. QED BY <1>1, <1>2, <1>3, <1>4 DEF CloseStep

-----------------------------------------------------------------------------
(***************************************************************************)
(* The theorems.                                                           *)
(***************************************************************************)

LEMMA InitLinks == Init => LinkInv
<1>. SUFFICES ASSUME Init PROVE LinkInv
  OBVIOUS
<1>1. SocketsInv
  BY DEF Init, SocketsInv, closed
<1>2. AnswersInv
  BY DEF Init, AnswersInv, Awaited
<1>3. CloseInv
  BY DEF Init, CloseInv
<1>. QED BY <1>1, <1>2, <1>3 DEF LinkInv

LEMMA StepLinks ==
  TypeOK /\ PlacesInv /\ LinkInv /\ [Next]_vars => LinkInv'
<1>. SUFFICES ASSUME TypeOK, PlacesInv, LinkInv, [Next]_vars PROVE LinkInv'
  OBVIOUS
<1>1. ASSUME NEW r \in Request, Submit(r) \/ CancelCall(r)
      PROVE  LinkInv'
  BY <1>1, CallersLinks
<1>2. CASE PassGate \/ ScanBegin \/ ScanStep \/ ScanCancel
  BY <1>2, GateLinks DEF ScanStep
<1>3. CASE WorkerStep
  BY <1>3, WorkerLinks
<1>4. ASSUME NEW c \in Connection, RxStep(c) \/ RxEvent(c) \/ RxNoise(c) \/ RxMalformed(c)
      PROVE  LinkInv'
  BY <1>4, RxReadsLinks, RxLostLinks, NetworkLinks DEF RxStep
<1>5. ASSUME NEW c \in Connection, NEW q \in Request, NEW k \in {"ok", "exception", "bad"},
             RxAnswer(c, q, k)
      PROVE  LinkInv'
  BY <1>5, RxAnswerLinks
<1>6. ASSUME NEW c \in Connection, \E how \in Drops : PeerDrops(c, how)
      PROVE  LinkInv'
  BY <1>6, NetworkLinks
<1>7. CASE OwnerConnect \/ OwnerDisconnect \/ OwnerDiscards \/ OwnerCancelled \/ OwnerStep
  BY <1>7, OwnerLinks
<1>8. CASE Close \/ CloseStep
  BY <1>8, CloseLinks
<1>9. CASE UNCHANGED vars
  BY <1>9, CallerLinks
     DEF vars, queueVars, gateVars, workVars
<1>. QED BY <1>1, <1>2, <1>3, <1>4, <1>5, <1>6, <1>7, <1>8, <1>9 DEF Next

\* What is open, who reads it and what is awaited, whatever fails, is cancelled,
\* replaced or closed in between.
LEMMA LinksHold == Spec => []LinkInv
BY InitLinks, StepLinks, TypeCorrect, CallsAreWhereTheySay, PTL DEF Spec

\* The inductive invariant of the transport, whole.
THEOREM TransportInvariant == Spec => []Inv
<1>1. PlacesInv /\ FifoInv /\ LinkInv => Inv
  BY DEF Inv
<1>. QED BY <1>1, CallsAreWhereTheySay, TicketsInOrder, LinksHold, PTL

\* Unless a second connect() has replaced an open connection, a response that is
\* read while one is awaited belongs to the request on the bus, after any
\* time-out, cancellation or reconnection.
THEOREM AnswersReachTheirRequest == Spec => []AnswerIsOwn
<1>1. LinkInv => AnswerIsOwn
  BY DEF LinkInv, AnswersInv, AnswerIsOwn, OneInFlight, Awaited
<1>. QED BY <1>1, LinksHold, PTL

\* After close() the transport has no writer, RX task or queued item, none comes
\* back, and a socket is open only if a second connect() had replaced it.
THEOREM NothingLeftOpen == Spec => []CloseIsFinal
<1>1. LinkInv => CloseIsFinal
  BY DEF LinkInv, SocketsInv, CloseInv, CloseIsFinal, Connection
<1>. QED BY <1>1, LinksHold, PTL

=============================================================================
