--------------------------- MODULE Entities_proofs ---------------------------
(***************************************************************************)
(* Theorems about Entities, for every set of outputs, registers, values    *)
(* and Covers, and every bound.                                            *)
(***************************************************************************)
EXTENDS Entities, SequenceFacts

CoverAction == (Cover \X Action) \cup {None}

\* TypeOK in three parts: what a publication changes, the queues and the bus.
ShowType ==
  /\ gateway \in BOOLEAN /\ avail \in BOOLEAN
  /\ cache \in [Register -> Value \cup {None}] /\ cachedAt \in Time
  /\ shown \in [Register -> Value \cup {None}]
  /\ lastPoll \in [Output -> Time \cup {-1}]
  /\ closed \in [Cover -> {"open", "closed", "unknown"}] /\ wasUp \in BOOLEAN
  /\ retLost \in BOOLEAN /\ lost \in [Cover -> BOOLEAN]
QueueType ==
  /\ queued \in [Register -> Value \cup {None}]
  /\ actions \in Seq(Cover \X Action)
RestType ==
  /\ now \in Time /\ reg \in [Register -> Value]
  /\ fails \in 0 .. 3 /\ scanning \in BOOLEAN
  /\ poll \in {"idle", "queued", "bus", "failed"} /\ pollAt \in Time
  /\ bus \in {"none", "write", "action", "poll", "read"}
  /\ target \in Register \cup {None} /\ payload \in Value \cup {None}
  /\ bus = "write" => target \in Register /\ payload \in Value
  /\ answer \in [Register -> Value \cup {None}]
  /\ act \in CoverAction /\ ret \in CoverAction /\ (bus = "action" => act # None)
  /\ optimisticAt \in [Output -> Time \cup {-1}]
  /\ pressed \subseteq Register /\ during \subseteq Register

LEMMA TypeParts ==
  /\ TypeOK <=> ShowType /\ QueueType /\ RestType
  /\ TypeOK' <=> ShowType' /\ QueueType' /\ RestType'
BY DEF TypeOK, ShowType, QueueType, RestType, CoverAction

-----------------------------------------------------------------------------
(***************************************************************************)
(* What a publication does.                                                *)
(***************************************************************************)

\* Every reading of the clock is a number.
LEMMA TimesAreNumbers ==
  ASSUME TypeOK, EntitiesAssumption
  PROVE  /\ now \in Int /\ pollAt \in Int /\ cachedAt \in Int /\ MaxClock \in Int
         /\ \A e \in Output : optimisticAt[e] \in Int /\ lastPoll[e] \in Int
BY DEF TypeOK, EntitiesAssumption, Time

LEMMA PublishType ==
  ASSUME ShowType, EntitiesAssumption, NEW g \in BOOLEAN, NEW a \in BOOLEAN,
         NEW c \in [Register -> Value \cup {None}], NEW s \in Time, Publish(g, a, c, s)
  PROVE  ShowType'
<1>1. lastPoll' \in [Output -> Time \cup {-1}]
  BY DEF ShowType, Publish
<1>2. shown' \in [Register -> Value \cup {None}]
  BY DEF ShowType, Publish
<1>3. closed' \in [Cover -> {"open", "closed", "unknown"}]
  BY DEF ShowType, Publish
<1>4. lost' \in [Cover -> BOOLEAN]
  BY DEF Publish
<1>5. retLost' \in BOOLEAN /\ wasUp' \in BOOLEAN
  BY DEF Publish
<1>. QED BY <1>1, <1>2, <1>3, <1>4, <1>5 DEF ShowType, Publish

\* Publishing the same registers again shows nothing new, whoever does it.
LEMMA RepublishKeeps ==
  ASSUME TypeOK, EntitiesAssumption, Published,
         NEW g \in BOOLEAN, NEW a \in BOOLEAN, Publish(g, a, cache, cachedAt)
  PROVE  /\ shown' = shown /\ lastPoll' = lastPoll
         /\ cache' = cache /\ cachedAt' = cachedAt
<1>1. \A e \in Output : ~Accepts(e, cachedAt)
  <2>. TAKE e \in Output
  <2>1. cachedAt \in Int /\ optimisticAt[e] \in Int /\ lastPoll[e] \in Int
    BY TimesAreNumbers
  <2>2. cachedAt = 0 \/ cachedAt <= lastPoll[e] \/ cachedAt < optimisticAt[e]
    BY DEF Published
  <2>. QED BY <2>1, <2>2 DEF Accepts
<1>2. lastPoll' = lastPoll
  BY <1>1 DEF Publish, TypeOK
<1>3. \A r \in Register : Owner[r] \in Output
  BY DEF EntitiesAssumption
<1>4. shown' = shown
  BY <1>1, <1>3 DEF Publish, TypeOK
<1>. QED BY <1>2, <1>4 DEF Publish

\* A publication leaves no Cover with an assumption from before a loss.
LEMMA PublishCovers ==
  ASSUME TypeOK, LossInv, AssumedIsCurrent, NEW g \in BOOLEAN, NEW a \in BOOLEAN,
         NEW c, NEW s, Publish(g, a, c, s), ret' = ret,
         (g /\ a) => ret = None
  PROVE  LossInv' /\ AssumedIsCurrent'
<1>1. wasUp' = Available' /\ Available' = (g /\ a)
  BY DEF Publish, Available
<1>2. retLost' => ret' # None /\ ~Available'
  BY <1>1 DEF Publish, LossInv
<1>3. ASSUME Available', NEW k \in Cover, closed'[k] # "unknown"
      PROVE  ~lost'[k]
  <2>1. g /\ a
    BY <1>1, <1>3
  <2>2. wasUp /\ closed'[k] = closed[k]
    BY <1>3, <2>1 DEF Publish, Keeps
  <2>3. ~lost[k]
    BY <1>3, <2>2 DEF LossInv, AssumedIsCurrent
  <2>. QED BY <2>1, <2>3 DEF Publish
<1>. QED BY <1>1, <1>2, <1>3 DEF LossInv, AssumedIsCurrent

-----------------------------------------------------------------------------
(***************************************************************************)
(* Types.                                                                  *)
(***************************************************************************)

LEMMA EmptyQueues ==
  Empty \in [Register -> Value \cup {None}] /\ <<>> \in Seq(Cover \X Action)
<1>1. Empty \in [Register -> Value \cup {None}]
  BY DEF Empty
<1>2. <<>> \in Seq(Cover \X Action)
  OBVIOUS
<1>. QED BY <1>1, <1>2

LEMMA QueuesDrop ==
  ASSUME QueueType, KeptQueued \/ Discarded
  PROVE  QueueType'
<1>1. CASE KeptQueued
  BY <1>1 DEF QueueType, KeptQueued
<1>2. CASE Discarded
  BY <1>2, EmptyQueues DEF QueueType, Discarded
<1>. QED BY <1>1, <1>2

LEMMA PublishersType ==
  ASSUME TypeOK, EntitiesAssumption,
         GatewayLost \/ GatewayRestored \/ PollAnswered \/ PollFails \/ PollLosesGateway
  PROVE  TypeOK'
<1>. USE DEF Available
<1>1. ShowType /\ QueueType /\ RestType
  BY TypeParts
<1>2. Empty \in [Register -> Value \cup {None}] /\ <<>> \in Seq(Cover \X Action)
  BY EmptyQueues
<1>3. CASE GatewayLost
  <2>1. ShowType'
    BY <1>1, <1>3, PublishType DEF GatewayLost, ShowType
  <2>. QED BY <1>1, <1>2, <1>3, <2>1, TypeParts
           DEF GatewayLost, Discarded, QueueType, RestType, pollVars, busVars
<1>4. CASE GatewayRestored
  <2>1. PICK a \in BOOLEAN : Publish(TRUE, a, cache, cachedAt)
    BY <1>1, <1>4 DEF GatewayRestored, ShowType
  <2>2. ShowType'
    BY <1>1, <2>1, PublishType DEF ShowType
  <2>. QED BY <1>1, <1>4, <2>2, TypeParts
           DEF GatewayRestored, QueueType, RestType, pollVars, busVars
<1>5. CASE PollAnswered
  <2>1. ShowType'
    BY <1>1, <1>5, PublishType DEF PollAnswered, Started, ShowType, RestType
  <2>. QED BY <1>1, <1>2, <1>5, <2>1, TypeParts DEF PollAnswered, QueueType, RestType
<1>6. CASE PollFails
  <2>1. ShowType'
    BY <1>1, <1>6, PublishType DEF PollFails, ShowType
  <2>2. QueueType'
    BY <1>1, <1>2, <1>6 DEF PollFails, Discarded, KeptQueued, QueueType
  <2>. QED BY <1>1, <1>2, <1>6, <2>1, <2>2, TypeParts DEF PollFails, RestType
<1>7. CASE PollLosesGateway
  <2>1. ShowType'
    BY <1>1, <1>7, PublishType DEF PollLosesGateway, ShowType
  <2>. QED BY <1>1, <1>2, <1>7, <2>1, TypeParts
           DEF PollLosesGateway, Discarded, QueueType, RestType, busVars
<1>. QED BY <1>3, <1>4, <1>5, <1>6, <1>7

LEMMA ShowUnchanged ==
  ASSUME ShowType, UNCHANGED <<gateway, avail, showVars>>
  PROVE  ShowType'
BY DEF ShowType, showVars

LEMMA PollsType ==
  ASSUME TypeOK, EntitiesAssumption,
         \/ PollStarts \/ PollTaken \/ DeviceReads \/ PollBreaks \/ ScanBegins \/ ScanEnds
         \/ \E r \in Register : \E v \in Value : Press(r, v)
  PROVE  TypeOK'
<1>. USE DEF healthVars, pollVars, busVars
<1>1. ShowType /\ QueueType /\ RestType
  BY TypeParts
<1>2. ShowType'
  BY <1>1, ShowUnchanged
     DEF PollStarts, PollTaken, DeviceReads, PollBreaks, ScanBegins, ScanEnds, Press
<1>3. QueueType'
  <2>. QED BY <1>1, EmptyQueues
           DEF PollStarts, PollTaken, DeviceReads, PollBreaks, ScanBegins, ScanEnds, Press,
               Discarded, QueueType
<1>4. RestType'
  <2>. USE <1>1 DEF RestType
  <2>1. CASE PollStarts
    <3>1. now + 1 \in Time
      BY <2>1 DEF PollStarts, Time, EntitiesAssumption
    <3>. QED BY <2>1, <3>1 DEF PollStarts
  <2>2. CASE PollTaken
    BY <2>2 DEF PollTaken
  <2>3. CASE DeviceReads
    BY <2>3 DEF DeviceReads
  <2>4. CASE PollBreaks
    BY <2>4 DEF PollBreaks, Empty
  <2>5. CASE ScanBegins
    BY <2>5 DEF ScanBegins
  <2>6. CASE ScanEnds
    BY <2>6 DEF ScanEnds
  <2>7. CASE \E r \in Register : \E v \in Value : Press(r, v)
    <3>. PICK r \in Register, v \in Value : Press(r, v)
      BY <2>7
    <3>. QED BY DEF Press
  <2>. QED BY <2>1, <2>2, <2>3, <2>4, <2>5, <2>6, <2>7
<1>. QED BY <1>2, <1>3, <1>4, TypeParts

LEMMA CommandsType ==
  ASSUME TypeOK, EntitiesAssumption,
         \/ \E e \in Output : Command(e)
         \/ \E r \in Register : CommandCancelled(r) \/ WriteTaken(r)
         \/ WriteEnds
  PROVE  TypeOK'
<1>. USE DEF healthVars, pollVars, busVars
<1>1. ShowType /\ QueueType /\ RestType
  BY TypeParts
<1>2. CASE \E e \in Output : Command(e)
  <2>. PICK e \in Output : Command(e)
    BY <1>2
  <2>1. now + 1 \in Time
    BY <1>1 DEF RestType, Command, Time, EntitiesAssumption
  <2>. PICK W \in SUBSET {r \in Register : Owner[r] = e} : \E v \in [W -> Value] :
          /\ shown' = [r \in Register |-> IF r \in W THEN v[r] ELSE shown[r]]
          /\ CommandQueues(W, v)
    BY DEF Command
  <2>. PICK v \in [W -> Value] :
          /\ shown' = [r \in Register |-> IF r \in W THEN v[r] ELSE shown[r]]
          /\ CommandQueues(W, v)
    OBVIOUS
  <2>2. ShowType'
    BY <1>1 DEF ShowType, Command
  <2>3. QueueType'
    BY <1>1 DEF QueueType, CommandQueues, Command
  <2>4. RestType'
    BY <1>1, <2>1 DEF RestType, Command, Commanded
  <2>. QED BY <2>2, <2>3, <2>4, TypeParts
<1>3. CASE \E r \in Register : CommandCancelled(r) \/ WriteTaken(r)
  <2>1. PICK r \in Register : CommandCancelled(r) \/ WriteTaken(r)
    BY <1>3
  <2>2. ShowType'
    BY <1>1, <2>1, ShowUnchanged DEF CommandCancelled, WriteTaken
  <2>3. QueueType'
    BY <1>1, <2>1 DEF QueueType, CommandCancelled, WriteTaken
  <2>4. CASE CommandCancelled(r)
    <3>1. RestType'
      BY <1>1, <2>4 DEF RestType, CommandCancelled
    <3>. QED BY <2>2, <2>3, <3>1, TypeParts
  <2>5. CASE WriteTaken(r)
    <3>1. queued[r] \in Value
      BY <1>1, <2>5 DEF QueueType, WriteTaken
    <3>2. RestType'
      BY <1>1, <2>5, <3>1 DEF RestType, WriteTaken
    <3>. QED BY <2>2, <2>3, <3>2, TypeParts
  <2>. QED BY <2>1, <2>4, <2>5
<1>4. CASE WriteEnds
  <2>1. ShowType'
    BY <1>1, <1>4, ShowUnchanged DEF WriteEnds
  <2>2. QueueType'
    BY <1>1, <1>4, QueuesDrop DEF WriteEnds
  <2>3. reg' \in [Register -> Value]
    BY <1>1, <1>4 DEF RestType, WriteEnds
  <2>4. RestType'
    BY <1>1, <1>4, <2>3 DEF RestType, WriteEnds
  <2>. QED BY <2>1, <2>2, <2>4, TypeParts
<1>. QED BY <1>2, <1>3, <1>4

LEMMA ActionsType ==
  ASSUME TypeOK, EntitiesAssumption,
         \/ \E k \in Cover : \E a \in Action : CoverAsks(k, a)
         \/ ActionTaken \/ ActionAnswered \/ ActionFails \/ CoverReturns
  PROVE  TypeOK'
<1>. USE DEF healthVars, pollVars, busVars, CoverAction
<1>1. ShowType /\ QueueType /\ RestType
  BY TypeParts
<1>2. CASE \E k \in Cover : \E a \in Action : CoverAsks(k, a)
  <2>1. ShowType'
    BY <1>1, <1>2, ShowUnchanged DEF CoverAsks
  <2>2. QueueType' /\ RestType'
    BY <1>1, <1>2 DEF QueueType, RestType, CoverAsks
  <2>. QED BY <2>1, <2>2, TypeParts
<1>3. CASE ActionTaken
  <2>1. ShowType'
    BY <1>1, <1>3, ShowUnchanged DEF ActionTaken
  <2>2. Head(actions) \in Cover \X Action /\ Tail(actions) \in Seq(Cover \X Action)
    BY <1>1, <1>3 DEF QueueType, ActionTaken
  <2>3. QueueType' /\ RestType'
    BY <1>1, <1>3, <2>2 DEF QueueType, RestType, ActionTaken, EntitiesAssumption
  <2>. QED BY <2>1, <2>3, TypeParts
<1>4. CASE ActionAnswered
  <2>1. ShowType'
    BY <1>1, <1>4 DEF ShowType, ActionAnswered, Available
  <2>2. QueueType' /\ RestType'
    BY <1>1, <1>4 DEF QueueType, RestType, ActionAnswered
  <2>. QED BY <2>1, <2>2, TypeParts
<1>5. CASE ActionFails
  <2>1. ShowType'
    BY <1>1, <1>5, ShowUnchanged DEF ActionFails
  <2>2. QueueType'
    BY <1>1, <1>5, QueuesDrop DEF ActionFails
  <2>3. RestType'
    BY <1>1, <1>5 DEF RestType, ActionFails
  <2>. QED BY <2>1, <2>2, <2>3, TypeParts
<1>6. CASE CoverReturns
  <2>1. ret \in Cover \X Action
    BY <1>1, <1>6 DEF RestType, CoverReturns
  <2>2. Shape[ret[2]] \in {"open", "closed", "unknown"}
    BY <2>1 DEF Shape, Action
  <2>3. closed' \in [Cover -> {"open", "closed", "unknown"}]
    BY <1>1, <1>6, <2>2 DEF ShowType, CoverReturns
  <2>4. lost' \in [Cover -> BOOLEAN]
    BY <1>1, <1>6 DEF ShowType, CoverReturns
  <2>5. ShowType'
    BY <1>1, <1>6, <2>3, <2>4 DEF ShowType, CoverReturns
  <2>6. QueueType' /\ RestType'
    BY <1>1, <1>6 DEF QueueType, RestType, CoverReturns
  <2>. QED BY <2>5, <2>6, TypeParts
<1>. QED BY <1>2, <1>3, <1>4, <1>5, <1>6

\* A Light and a Switch keep numbers, a Cover one of its three shapes (light.py,
\* switch.py, cover.py), through every order of polls, commands and losses.
THEOREM EntitiesTypeCorrect == Spec => []TypeOK
<1>. USE EntitiesAssumption
<1>1. Init => TypeOK
  <2>. SUFFICES ASSUME Init PROVE TypeOK
    OBVIOUS
  <2>1. 0 \in Time /\ 1 \in Time
    BY DEF Time, EntitiesAssumption
  <2>2. cache \in [Register -> Value \cup {None}]
    BY DEF Init, Empty
  <2>3. ShowType
    BY <2>1, <2>2 DEF Init, ShowType
  <2>4. QueueType
    BY EmptyQueues DEF Init, QueueType
  <2>5. now \in Time /\ fails \in 0 .. 3 /\ pollAt \in Time
    BY <2>1 DEF Init
  <2>6. optimisticAt \in [Output -> Time \cup {-1}]
    BY DEF Init
  <2>7. RestType
    BY <2>5, <2>6, EmptyQueues DEF Init, RestType, CoverAction
  <2>. QED BY <2>3, <2>4, <2>7, TypeParts
<1>2. TypeOK /\ [Next]_vars => TypeOK'
  <2>. SUFFICES ASSUME TypeOK, [Next]_vars PROVE TypeOK'
    OBVIOUS
  <2>1. CASE UNCHANGED vars
    <3>1. ShowType' /\ QueueType' /\ RestType'
      BY <2>1, TypeParts
         DEF ShowType, QueueType, RestType, vars, healthVars, pollVars, busVars, showVars
    <3>. QED BY <3>1, TypeParts
  <2>2. CASE Next
    BY <2>2, PublishersType, PollsType, CommandsType, ActionsType DEF Next
  <2>. QED BY <2>1, <2>2
<1>. QED BY <1>1, <1>2, PTL DEF Spec

-----------------------------------------------------------------------------
(***************************************************************************)
(* Covers.                                                                 *)
(***************************************************************************)

LEMMA CoversStep ==
  ASSUME TypeOK, LossInv, AssumedIsCurrent, EntitiesAssumption, [Next]_vars
  PROVE  LossInv' /\ AssumedIsCurrent'
<1>1. gateway \in BOOLEAN /\ avail \in BOOLEAN /\ fails \in 0 .. 3
  BY DEF TypeOK
<1>2. CASE GatewayLost
  BY <1>2, PublishCovers DEF GatewayLost
<1>3. CASE GatewayRestored
  <2>1. PICK a \in BOOLEAN : Publish(TRUE, a, cache, cachedAt)
    BY <1>1, <1>3 DEF GatewayRestored
  <2>2. ret = None /\ ret' = ret
    BY <1>3 DEF GatewayRestored, Resumed
  <2>. QED BY <2>1, <2>2, PublishCovers
<1>4. CASE PollAnswered
  BY <1>1, <1>4, PublishCovers DEF PollAnswered, Resumed
<1>5. CASE PollFails
  <2>1. (avail /\ fails' < 3) \in BOOLEAN
    BY <1>1
  <2>2. Publish(gateway, avail /\ fails' < 3, cache, cachedAt) /\ ret = None /\ ret' = ret
    BY <1>5 DEF PollFails, Resumed
  <2>. QED BY <1>1, <2>1, <2>2, PublishCovers
<1>6. CASE PollLosesGateway
  BY <1>6, PublishCovers DEF PollLosesGateway, busVars
<1>7. CASE ActionAnswered
  <2>1. ret' # None
    BY <1>7 DEF ActionAnswered, TypeOK
  <2>. QED BY <1>7, <2>1 DEF ActionAnswered, LossInv, AssumedIsCurrent, Available, healthVars
<1>8. CASE CoverReturns
  <2>1. UNCHANGED <<gateway, avail, wasUp>> /\ ~retLost'
    BY <1>8 DEF CoverReturns, healthVars
  <2>2. ASSUME Available', NEW k \in Cover, closed'[k] # "unknown"
        PROVE  ~lost'[k]
    <3>1. ~retLost /\ (closed[k] # "unknown" => ~lost[k])
      BY <2>1, <2>2 DEF LossInv, AssumedIsCurrent, Available
    <3>2. /\ closed'[k] = IF k = ret[1] THEN Shape[ret[2]] ELSE closed[k]
          /\ lost'[k] = IF k = ret[1] THEN retLost /\ ret[2] # "stop" ELSE lost[k]
      BY <1>8, <2>2 DEF CoverReturns, TypeOK
    <3>. QED BY <2>2, <3>1, <3>2
  <2>. QED BY <2>1, <2>2 DEF LossInv, AssumedIsCurrent, Available
<1>9. CASE UNCHANGED <<gateway, avail, closed, wasUp, ret, retLost, lost>>
  BY <1>9 DEF LossInv, AssumedIsCurrent, Available
<1>10. CASE UNCHANGED vars
  BY <1>9, <1>10 DEF vars, healthVars, showVars
<1>11. CASE \/ PollStarts \/ PollTaken \/ DeviceReads \/ PollBreaks \/ ScanBegins \/ ScanEnds
            \/ \E r \in Register : \E v \in Value : Press(r, v)
  BY <1>9, <1>11 DEF PollStarts, PollTaken, DeviceReads, PollBreaks, ScanBegins, ScanEnds,
     Press, healthVars, showVars
<1>12. CASE \/ \E e \in Output : Command(e)
            \/ \E r \in Register : CommandCancelled(r) \/ WriteTaken(r)
            \/ WriteEnds
  BY <1>9, <1>12 DEF Command, CommandCancelled, WriteTaken, WriteEnds, healthVars, showVars
<1>13. CASE \/ \E k \in Cover : \E a \in Action : CoverAsks(k, a)
            \/ ActionTaken \/ ActionFails
  BY <1>9, <1>13 DEF CoverAsks, ActionTaken, ActionFails, healthVars, showVars
<1>. QED BY <1>2, <1>3, <1>4, <1>5, <1>6, <1>7, <1>8, <1>10, <1>11, <1>12, <1>13 DEF Next

\* A Cover that is available never shows an action from before the device may
\* have been out of reach, also when the loss falls between the answer and the
\* caller that receives it (cover.py, _send and _handle_coordinator_update).
THEOREM CoverForgetsLosses == Spec => []AssumedIsCurrent
<1>. USE EntitiesAssumption
<1>1. Init => LossInv /\ AssumedIsCurrent
  BY DEF Init, LossInv, AssumedIsCurrent, Available
<1>2. TypeOK /\ LossInv /\ AssumedIsCurrent /\ [Next]_vars => LossInv' /\ AssumedIsCurrent'
  BY CoversStep
<1>. QED BY <1>1, <1>2, EntitiesTypeCorrect, PTL DEF Spec

-----------------------------------------------------------------------------
(***************************************************************************)
(* Lights and Switches.                                                    *)
(***************************************************************************)

LEMMA OwnersAreOutputs ==
  ASSUME EntitiesAssumption
  PROVE  \A r \in Register : Owner[r] \in Output
BY DEF EntitiesAssumption

\* A step that shows nothing new, queues nothing and begins no poll.
QuietStep ==
  /\ UNCHANGED <<now, cachedAt, pollAt, optimisticAt, lastPoll, shown, pressed>>
  /\ \A r \in Register : queued'[r] \in {None, queued[r]}
  /\ \A r \in Register : reg'[r] = reg[r] \/ ~Corrected(Owner[r])
  /\ bus' = "write" => target' \in Register /\ ~Corrected(Owner[target'])
  /\ bus' \in {"poll", "read"} <=> poll' = "bus"
  /\ bus' \in {"poll", "read"} => bus \in {"poll", "read"}
  /\ bus' = "read" => bus = "read" /\ UNCHANGED <<answer, during, reg>>
  /\ poll' = "queued" => poll = "queued"

LEMMA QuietKeepsOutputs ==
  ASSUME TypeOK, OutputInv, EntitiesAssumption, QuietStep
  PROVE  OutputInv'
<1>. USE DEF QuietStep, OutputInv
<1>1. \A e \in Output : Corrected(e)' = Corrected(e)
  BY DEF Corrected
<1>2. \A r \in Register : Corrected(Owner[r])' = Corrected(Owner[r])
  BY <1>1, OwnersAreOutputs
<1>3. ClockInv'
  BY DEF ClockInv
<1>4. Published'
  BY DEF Published
<1>5. PollIsLast'
  BY DEF PollIsLast
<1>6. CorrectedIsQuiet'
  BY <1>2, OwnersAreOutputs DEF CorrectedIsQuiet, Corrected
<1>7. ShowsQueued'
  BY DEF ShowsQueued
<1>8. Truthful'
  BY <1>2 DEF Truthful
<1>. QED BY <1>3, <1>4, <1>5, <1>6, <1>7, <1>8

LEMMA PollStartsKeepsOutputs ==
  ASSUME TypeOK, OutputInv, EntitiesAssumption, PollStarts
  PROVE  OutputInv'
<1>. USE DEF PollStarts, OutputInv, healthVars, busVars, showVars
<1>1. /\ now \in Int /\ cachedAt \in Int /\ pollAt \in Int
      /\ \A e \in Output : optimisticAt[e] \in Int /\ lastPoll[e] \in Int
  BY TimesAreNumbers
<1>2. ClockInv'
  BY <1>1 DEF ClockInv
<1>3. PollIsLast'
  BY DEF PollIsLast, ClockInv
<1>4. Published' /\ CorrectedIsQuiet' /\ ShowsQueued' /\ Truthful'
  BY DEF Published, CorrectedIsQuiet, ShowsQueued, Truthful, Corrected
<1>. QED BY <1>2, <1>3, <1>4

LEMMA PollTakenKeepsOutputs ==
  ASSUME TypeOK, OutputInv, EntitiesAssumption, PollTaken \/ DeviceReads
  PROVE  OutputInv'
<1>. USE DEF OutputInv, PollTaken, DeviceReads, healthVars, pollVars, showVars
<1>1. ClockInv'
  BY DEF ClockInv
<1>2. PollIsLast'
  BY DEF PollIsLast, NoneWaits, Empty
<1>3. CorrectedIsQuiet'
  BY DEF CorrectedIsQuiet, Corrected
<1>4. Published' /\ ShowsQueued' /\ Truthful'
  BY DEF Published, ShowsQueued, Truthful, Corrected
<1>. QED BY <1>1, <1>2, <1>3, <1>4

\* The poll counts for an output just when it began after the output's last
\* command; what that command queued has then been sent.
LEMMA PollAnsweredKeepsOutputs ==
  ASSUME TypeOK, OutputInv, EntitiesAssumption, PollAnswered
  PROVE  OutputInv'
<1>. USE DEF OutputInv
<1>1. /\ now \in Int /\ cachedAt \in Int /\ cachedAt >= 0 /\ pollAt \in Int
      /\ \A e \in Output : optimisticAt[e] \in Int /\ lastPoll[e] \in Int
  BY TimesAreNumbers DEF TypeOK, Time
<1>2. /\ cachedAt < pollAt /\ pollAt <= now
      /\ \A e \in Output : optimisticAt[e] # pollAt /\ lastPoll[e] <= cachedAt
      /\ \A e \in Output : optimisticAt[e] <= now
  BY DEF PollAnswered, ClockInv
<1>3. \A e \in Output : Accepts(e, pollAt) <=> optimisticAt[e] < pollAt
  <2>. TAKE e \in Output
  <2>1. /\ pollAt # 0 /\ pollAt > lastPoll[e]
        /\ (pollAt >= optimisticAt[e] <=> optimisticAt[e] < pollAt)
    BY <1>1, <1>2
  <2>. QED BY <2>1 DEF Accepts
<1>4. /\ UNCHANGED <<now, pollAt, queued, optimisticAt, reg>>
      /\ cachedAt' = pollAt /\ bus' = "none" /\ poll' = "idle" /\ pressed' = during
  BY DEF PollAnswered, Publish, Started
<1>5. /\ \A e \in Output :
           lastPoll'[e] = IF optimisticAt[e] < pollAt THEN pollAt ELSE lastPoll[e]
      /\ \A r \in Register :
           shown'[r] = IF optimisticAt[Owner[r]] < pollAt THEN answer[r] ELSE shown[r]
  BY <1>3, OwnersAreOutputs DEF PollAnswered, Publish, Started
<1>6. \A e \in Output : Corrected(e)' <=> optimisticAt[e] < pollAt
  BY <1>1, <1>2, <1>4, <1>5 DEF Corrected
<1>7. \A r \in Register : optimisticAt[Owner[r]] < pollAt => queued[r] = None
  BY DEF PollAnswered, PollIsLast
<1>8. ClockInv'
  BY <1>1, <1>2, <1>4, <1>5 DEF ClockInv
<1>9. Published'
  BY <1>1, <1>2, <1>4, <1>5 DEF Published
<1>10. PollIsLast'
  BY <1>4 DEF PollIsLast
<1>11. CorrectedIsQuiet'
  BY <1>4, <1>6, <1>7, OwnersAreOutputs DEF CorrectedIsQuiet, Corrected
<1>12. ShowsQueued'
  BY <1>4, <1>5, <1>7 DEF ShowsQueued
<1>13. Truthful'
  <2>1. \A r \in Register : r \notin during => answer[r] = reg[r]
    BY DEF PollAnswered, PollIsLast
  <2>2. \A r \in Register : Corrected(Owner[r])' <=> optimisticAt[Owner[r]] < pollAt
    BY <1>4, <1>6, OwnersAreOutputs DEF Corrected
  <2>. QED BY <1>4, <1>5, <2>1, <2>2 DEF Truthful
<1>. QED BY <1>8, <1>9, <1>10, <1>11, <1>12, <1>13

LEMMA CommandKeepsOutputs ==
  ASSUME TypeOK, OutputInv, EntitiesAssumption, NEW e \in Output, Command(e)
  PROVE  OutputInv'
<1>. USE DEF OutputInv
<1>1. /\ now \in Int /\ cachedAt \in Int /\ pollAt \in Int
      /\ \A o \in Output : optimisticAt[o] \in Int /\ lastPoll[o] \in Int
  BY TimesAreNumbers
<1>2. /\ now' = now + 1 /\ optimisticAt' = [optimisticAt EXCEPT ![e] = now + 1]
      /\ UNCHANGED <<reg, poll, pollAt, bus, target, answer, cachedAt, lastPoll, pressed, during>>
  BY DEF Command, Commanded, pollVars, busVars
<1>3. \A o \in Output : optimisticAt'[o] = IF o = e THEN now + 1 ELSE optimisticAt[o]
  BY <1>2 DEF TypeOK
<1>4. ~Corrected(e)'
  BY <1>1, <1>2, <1>3 DEF Corrected, ClockInv
<1>5. \A o \in Output : o # e => Corrected(o)' = Corrected(o)
  BY <1>2, <1>3 DEF Corrected
<1>6. PICK W \in SUBSET {r \in Register : Owner[r] = e} : \E v \in [W -> Value] :
        /\ shown' = [r \in Register |-> IF r \in W THEN v[r] ELSE shown[r]]
        /\ CommandQueues(W, v)
  BY DEF Command
<1>7. PICK v \in [W -> Value] :
        /\ shown' = [r \in Register |-> IF r \in W THEN v[r] ELSE shown[r]]
        /\ CommandQueues(W, v)
  BY <1>6
<1>8. \A r \in Register :
        \/ queued'[r] = queued[r] /\ (r \in W => queued[r] = None)
        \/ r \in W /\ queued'[r] = v[r]
  BY <1>7 DEF CommandQueues
<1>9. \A r \in Register : Owner[r] # e => queued'[r] = queued[r] /\ shown'[r] = shown[r]
  BY <1>7, <1>8
<1>10. ClockInv'
  BY <1>1, <1>2, <1>3 DEF ClockInv
<1>11. Published'
  BY <1>1, <1>2, <1>3 DEF Published, ClockInv
<1>12. PollIsLast'
  <2>1. \A r \in Register : optimisticAt'[Owner[r]] < pollAt =>
          Owner[r] # e /\ optimisticAt[Owner[r]] < pollAt
    BY <1>1, <1>3, OwnersAreOutputs DEF ClockInv
  <2>. QED BY <1>2, <1>9, <2>1 DEF PollIsLast
<1>13. \A r \in Register : Corrected(Owner[r])' => Owner[r] # e /\ Corrected(Owner[r])
  BY <1>4, <1>5, OwnersAreOutputs
<1>14. CorrectedIsQuiet'
  BY <1>2, <1>9, <1>13 DEF CorrectedIsQuiet, TypeOK
<1>15. ShowsQueued'
  BY <1>7, <1>8 DEF ShowsQueued
<1>16. Truthful'
  BY <1>2, <1>9, <1>13 DEF Truthful
<1>. QED BY <1>10, <1>11, <1>12, <1>14, <1>15, <1>16

LEMMA PressKeepsOutputs ==
  ASSUME TypeOK, OutputInv, EntitiesAssumption, NEW p \in Register, NEW v \in Value, Press(p, v)
  PROVE  OutputInv'
<1>. USE DEF OutputInv, Press, healthVars, pollVars, busVars, showVars
<1>1. \A r \in Register : r # p => reg'[r] = reg[r]
  BY DEF TypeOK
<1>2. ClockInv' /\ Published' /\ CorrectedIsQuiet' /\ ShowsQueued'
  BY DEF ClockInv, Published, CorrectedIsQuiet, ShowsQueued, Corrected
<1>3. PollIsLast'
  BY <1>1 DEF PollIsLast
<1>4. Truthful'
  BY <1>1 DEF Truthful, Corrected
<1>. QED BY <1>2, <1>3, <1>4

\* What the transport does to the queues while nothing is shown.
LEMMA QueuesQuiet ==
  ASSUME TypeOK, KeptQueued \/ Discarded
  PROVE  \A r \in Register : queued'[r] \in {None, queued[r]}
BY DEF KeptQueued, Discarded, Empty

LEMMA PublishersAreQuiet ==
  ASSUME TypeOK, OutputInv, EntitiesAssumption,
         GatewayLost \/ GatewayRestored \/ PollFails \/ PollLosesGateway
  PROVE  QuietStep
<1>. USE DEF OutputInv
<1>1. gateway \in BOOLEAN /\ avail \in BOOLEAN /\ fails \in 0 .. 3
  BY DEF TypeOK
<1>2. PICK g \in BOOLEAN, a \in BOOLEAN : Publish(g, a, cache, cachedAt)
  <2>1. CASE GatewayRestored
    BY <1>1, <2>1 DEF GatewayRestored
  <2>2. CASE GatewayLost
    BY <2>2 DEF GatewayLost
  <2>3. CASE PollFails
    <3>1. (avail /\ fails' < 3) \in BOOLEAN
      BY <1>1
    <3>. QED BY <1>1, <2>3, <3>1 DEF PollFails
  <2>4. CASE PollLosesGateway
    BY <2>4 DEF PollLosesGateway
  <2>. QED BY <2>1, <2>2, <2>3, <2>4
<1>3. UNCHANGED <<shown, lastPoll, cachedAt>>
  BY <1>2, RepublishKeeps
<1>4. UNCHANGED <<now, pollAt, optimisticAt, pressed, reg>>
  BY DEF GatewayLost, GatewayRestored, PollFails, PollLosesGateway, pollVars
<1>5. \A r \in Register : queued'[r] \in {None, queued[r]}
  BY QueuesQuiet DEF GatewayLost, GatewayRestored, PollFails, PollLosesGateway, KeptQueued
<1>6. CASE GatewayLost \/ GatewayRestored
  <2>1. UNCHANGED <<poll, bus, target, answer, during>>
    BY <1>6 DEF GatewayLost, GatewayRestored, pollVars, busVars
  <2>2. /\ bus = "write" => target \in Register /\ ~Corrected(Owner[target])
        /\ bus \in {"poll", "read"} <=> poll = "bus"
    BY DEF ClockInv, CorrectedIsQuiet, TypeOK
  <2>. QED BY <1>3, <1>4, <1>5, <2>1, <2>2 DEF QuietStep
<1>7. CASE PollFails
  BY <1>3, <1>4, <1>5, <1>7 DEF PollFails, QuietStep
<1>8. CASE PollLosesGateway
  BY <1>3, <1>4, <1>5, <1>8
     DEF PollLosesGateway, QuietStep, ClockInv, CorrectedIsQuiet, busVars, TypeOK
<1>. QED BY <1>6, <1>7, <1>8

LEMMA ControlsAreQuiet ==
  ASSUME TypeOK, OutputInv, EntitiesAssumption,
         \/ PollBreaks \/ WriteEnds
         \/ \E r \in Register : CommandCancelled(r) \/ WriteTaken(r)
  PROVE  QuietStep
<1>. USE DEF OutputInv, healthVars, pollVars, busVars, showVars
<1>1. CASE PollBreaks
  BY <1>1, QueuesQuiet DEF PollBreaks, QuietStep
<1>2. CASE WriteEnds
  <2>1. \A r \in Register : reg'[r] = reg[r] \/ ~Corrected(Owner[r])
    BY <1>2 DEF WriteEnds, CorrectedIsQuiet, TypeOK
  <2>2. poll # "bus"
    BY <1>2 DEF WriteEnds, ClockInv
  <2>. QED BY <1>2, <2>1, <2>2, QueuesQuiet DEF WriteEnds, QuietStep
<1>3. CASE \E r \in Register : CommandCancelled(r)
  BY <1>3 DEF CommandCancelled, QuietStep, ClockInv, CorrectedIsQuiet, TypeOK
<1>4. CASE \E r \in Register : WriteTaken(r)
  <2>1. PICK r \in Register : WriteTaken(r)
    BY <1>4
  <2>2. ~Corrected(Owner[r])
    BY <2>1 DEF WriteTaken, CorrectedIsQuiet
  <2>3. \A q \in Register : queued'[q] \in {None, queued[q]}
    BY <2>1 DEF WriteTaken, TypeOK
  <2>4. poll # "bus"
    BY <2>1 DEF WriteTaken, ClockInv
  <2>. QED BY <2>1, <2>2, <2>3, <2>4 DEF WriteTaken, QuietStep
<1>. QED BY <1>1, <1>2, <1>3, <1>4

LEMMA CoversAreQuiet ==
  ASSUME TypeOK, OutputInv, EntitiesAssumption,
         \/ \E k \in Cover : \E a \in Action : CoverAsks(k, a)
         \/ ActionTaken \/ ActionAnswered \/ ActionFails \/ CoverReturns
         \/ ScanBegins \/ ScanEnds
  PROVE  QuietStep
<1>. USE DEF OutputInv, healthVars, pollVars, busVars, showVars, ClockInv, CorrectedIsQuiet
<1>1. CASE CoverReturns \/ ScanBegins \/ ScanEnds
           \/ \E k \in Cover : \E a \in Action : CoverAsks(k, a)
  BY <1>1 DEF CoverReturns, ScanBegins, ScanEnds, CoverAsks, QuietStep, TypeOK
<1>2. CASE ActionTaken \/ ActionAnswered
  BY <1>2 DEF ActionTaken, ActionAnswered, QuietStep
<1>3. CASE ActionFails
  BY <1>3, QueuesQuiet DEF ActionFails, QuietStep
<1>. QED BY <1>1, <1>2, <1>3

LEMMA OutputsStep ==
  ASSUME TypeOK, OutputInv, EntitiesAssumption, [Next]_vars
  PROVE  OutputInv'
<1>1. CASE UNCHANGED vars
  <2>1. QuietStep
    BY <1>1 DEF OutputInv, ClockInv, CorrectedIsQuiet, TypeOK, QuietStep, vars, pollVars,
                busVars, showVars
  <2>. QED BY <2>1, QuietKeepsOutputs
<1>2. CASE \E r \in Register : \E v \in Value : Press(r, v)
  BY <1>2, PressKeepsOutputs
<1>3. CASE \E e \in Output : Command(e)
  BY <1>3, CommandKeepsOutputs
<1>4. CASE \/ GatewayLost \/ GatewayRestored \/ PollFails \/ PollLosesGateway \/ PollBreaks
           \/ WriteEnds \/ \E r \in Register : CommandCancelled(r) \/ WriteTaken(r)
  BY <1>4, PublishersAreQuiet, ControlsAreQuiet, QuietKeepsOutputs
<1>5. CASE \/ \E k \in Cover : \E a \in Action : CoverAsks(k, a)
           \/ ActionTaken \/ ActionAnswered \/ ActionFails \/ CoverReturns
           \/ ScanBegins \/ ScanEnds
  BY <1>5, CoversAreQuiet, QuietKeepsOutputs
<1>6. CASE PollStarts \/ PollTaken \/ DeviceReads \/ PollAnswered
  BY <1>6, PollStartsKeepsOutputs, PollTakenKeepsOutputs, PollAnsweredKeepsOutputs
<1>. QED BY <1>1, <1>2, <1>3, <1>4, <1>5, <1>6 DEF Next

\* The invariant behind the three theorems on what entities show.
THEOREM EntitiesKeepInv == Spec => []EntitiesInv
<1>. USE EntitiesAssumption
<1>1. Init => OutputInv
  <2>. SUFFICES ASSUME Init PROVE OutputInv
    OBVIOUS
  <2>1. ClockInv
    BY DEF Init, ClockInv
  <2>2. \A r \in Register : queued[r] = None
    BY DEF Init, Empty
  <2>3. Published
    <3>1. cachedAt = 0 \/ (cachedAt = 1 /\ \A e \in Output : lastPoll[e] = 1)
      BY DEF Init
    <3>2. ASSUME NEW e \in Output, cachedAt # 0 PROVE cachedAt <= lastPoll[e]
      <4>1. cachedAt = 1 /\ lastPoll[e] = 1
        BY <3>1, <3>2
      <4>. QED BY <4>1
    <3>. QED BY <3>2 DEF Published
  <2>4. Truthful
    BY OwnersAreOutputs DEF Init, Truthful, Corrected
  <2>. QED BY <2>1, <2>2, <2>3, <2>4
           DEF Init, OutputInv, PollIsLast, CorrectedIsQuiet, ShowsQueued
<1>2. Init => LossInv /\ AssumedIsCurrent
  BY DEF Init, LossInv, AssumedIsCurrent, Available
<1>3. TypeOK /\ EntitiesInv /\ [Next]_vars => EntitiesInv'
  BY OutputsStep, CoversStep DEF EntitiesInv
<1>4. Init => EntitiesInv
  BY <1>1, <1>2 DEF EntitiesInv
<1>. QED BY <1>3, <1>4, EntitiesTypeCorrect, PTL DEF Spec

\* A slider never jumps back while its command waits: no state that a poll, a
\* failed poll, a recovery or another device's poll publishes is older than the
\* command and shown (_apply_poll of light.py and switch.py).
THEOREM QueuedIsShown == Spec => []ShowsQueued
<1>1. EntitiesInv => ShowsQueued
  BY DEF EntitiesInv, OutputInv
<1>. QED BY <1>1, EntitiesKeepInv, PTL

\* An output corrected by a poll since its last command shows what the device
\* holds: the reading of the clock taken before the request and the order
\* "controls before polls" are enough to know which answer to believe.
THEOREM CorrectedIsTrue == Spec => []Truthful
<1>1. EntitiesInv => Truthful
  BY DEF EntitiesInv, OutputInv
<1>. QED BY <1>1, EntitiesKeepInv, PTL
=============================================================================
