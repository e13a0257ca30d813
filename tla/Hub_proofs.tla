------------------------------ MODULE Hub_proofs ------------------------------
(***************************************************************************)
(* Theorems about Hub, for every number of devices, set of callers, bound  *)
(* of the backoff and choice of events.                                    *)
(***************************************************************************)
EXTENDS Hub, SequenceFacts

CallState == {"idle", "pending"} \cup Outcome

\* TypeOK in two parts: what a round changes, and the rest.
RoundType ==
  /\ hub \in {"new", "polling", "up", "stopping", "stopped"}
  /\ loop \in {"off", "new", "backoff", "lock", "connect", "wait", "turn", "round", "pace", "done"}
  /\ lock \in User \cup {"free"} /\ refresh \in {"idle", "lock", "round"}
  /\ at \in 0 .. (Slaves + 1) /\ won \in BOOLEAN
  /\ backoff \in 0 .. MaxBackoff
RestType ==
  /\ gateway \in BOOLEAN /\ avail \subseteq Device /\ populated \subseteq Device
  /\ fails \in [Device -> 0 .. 3]
  /\ interval \in BOOLEAN /\ paused \in BOOLEAN /\ wake \in BOOLEAN
  /\ waiters \in Seq(User) /\ scan \in {"off", "lock", "drain", "bus"}
  /\ call \in [Caller -> CallState]
  /\ bus \in Caller \cup {"nobody", "orphan"}
  /\ phase \in {"idle", "connecting", "exchange", "failed"}
  /\ link \in BOOLEAN

LEMMA TypeParts ==
  /\ TypeOK <=> RoundType /\ RestType
  /\ TypeOK' <=> RoundType' /\ RestType'
BY DEF TypeOK, RoundType, RestType, CallState

-----------------------------------------------------------------------------
(***************************************************************************)
(* What the parts of a step do that several actions share.                 *)
(***************************************************************************)

LEMMA WaitersFacts ==
  ASSUME waiters \in Seq(User), NEW who \in User
  PROVE  /\ Append(waiters, who) \in Seq(User)
         /\ Leave(who) => waiters' \in Seq(User)
BY AppendFacts, RemoveAtFacts DEF Leave

LEMMA LoopTopFacts ==
  ASSUME TypeOK, NEW g \in BOOLEAN, NEW w \in BOOLEAN, NEW b \in 0 .. MaxBackoff,
         g => b = 0, LoopTop(g, w, b)
  PROVE  /\ loop' \in {"backoff", "wait", "turn"}
         /\ backoff' \in 0 .. MaxBackoff /\ (g => backoff' = 0)
         /\ wake' \in BOOLEAN
         /\ waiters' \in Seq(User)
<1>1. loop' \in {"backoff", "wait", "turn"}
  BY DEF LoopTop
<1>2. backoff' \in 0 .. MaxBackoff /\ (g => backoff' = 0)
  BY HubAssumption DEF LoopTop, NextBackoff
<1>3. wake' \in BOOLEAN
  BY DEF LoopTop
<1>4. waiters' \in Seq(User)
  BY WaitersFacts DEF LoopTop, TypeOK, User
<1>. QED BY <1>1, <1>2, <1>3, <1>4

LEMMA SettledFacts ==
  ASSUME TypeOK, BusHasCall, NEW o \in Outcome
  PROVE  /\ Settled(o) \in [Caller -> CallState]
         /\ \A c \in Caller \ {bus} : Settled(o)[c] = call[c]
         /\ bus \in Caller => Settled(o)[bus] # "pending" /\ call[bus] = "pending"
BY DEF TypeOK, BusHasCall, Settled, Told, CallState, Outcome

LEMMA DiscardsFacts ==
  ASSUME NEW calls \in [Caller -> CallState]
  PROVE  /\ Discards(calls) \in [Caller -> CallState]
         /\ \A c \in Caller \ Control : Discards(calls)[c] = calls[c]
         /\ \A c \in Control \ {bus} : Discards(calls)[c] # "pending"
         /\ bus \in Caller => Discards(calls)[bus] = calls[bus]
BY DEF Discards, Told, CallState, Outcome, Caller

LEMMA TakeNextFacts ==
  ASSUME NEW calls, NEW up, TakeNext(calls, up)
  PROVE  /\ call' = calls
         /\ bus' \in Caller \cup {"nobody"}
         /\ phase' \in {"idle", "connecting", "exchange"}
         /\ bus' \in Caller => calls[bus'] = "pending"
BY HubAssumption DEF TakeNext, Start, Caller

LEMMA LostFacts ==
  ASSUME NEW calls \in [Caller -> CallState], GatewayLost(calls), bus' = bus
  PROVE  /\ call' \in [Caller -> CallState] /\ gateway' = FALSE /\ wake' = TRUE
         /\ avail' = {}
         /\ \A c \in Caller \ Control : call'[c] = calls[c]
         /\ LostHoldsNoControl' /\ HealthFollowsPolls' /\ BackoffUnused'
         /\ (bus \in Caller => calls[bus] = "pending") => BusHasCall'
<1>1. call' = Discards(calls) /\ gateway' = FALSE /\ wake' = TRUE /\ avail' = {}
  BY DEF GatewayLost
<1>2. LostHoldsNoControl'
  BY <1>1, DiscardsFacts DEF LostHoldsNoControl
<1>3. HealthFollowsPolls' /\ BackoffUnused'
  BY <1>1 DEF HealthFollowsPolls, BackoffUnused
<1>4. (bus \in Caller => calls[bus] = "pending") => BusHasCall'
  BY <1>1, DiscardsFacts DEF BusHasCall
<1>. QED BY <1>1, <1>2, <1>3, <1>4, DiscardsFacts

LEMMA RoundEndsFacts ==
  ASSUME TypeOK, OneBusUser, BackoffUnused, at # 0, NEW g \in BOOLEAN, RoundEnds(g)
  PROVE  /\ at' = 0 /\ lock' = "free" /\ loop' # "connect" /\ ~Scanning
         /\ RoundType'
         /\ g /\ gateway => backoff' = 0
<1>1. lock \in {"start", "loop", "refresh"} /\ loop # "connect" /\ ~Scanning
  BY DEF OneBusUser
<1>2. at' = 0 /\ won' = FALSE /\ lock' = "free"
  BY DEF RoundEnds
<1>3. backoff' \in 0 .. MaxBackoff
  BY HubAssumption DEF RoundEnds, NextBackoff, TypeOK
<1>4. g /\ gateway => backoff' = 0
  BY DEF RoundEnds, BackoffUnused
<1>5. /\ hub' \in {"new", "polling", "up", "stopping", "stopped"}
      /\ loop' \in {"off", "new", "backoff", "lock", "wait", "turn", "round", "pace", "done"}
      /\ refresh' \in {"idle", "lock", "round"}
  BY <1>1 DEF RoundEnds, TypeOK
<1>6. at' \in 0 .. (Slaves + 1)
  BY <1>2, HubAssumption
<1>7. RoundType'
  BY <1>2, <1>3, <1>5, <1>6 DEF RoundType
<1>. QED BY <1>1, <1>2, <1>4, <1>5, <1>7

LEMMA NextSlaveFacts ==
  ASSUME TypeOK, OneBusUser, BusHasCall, BackoffUnused,
         call["poll"] \in Outcome, NEW w \in BOOLEAN, NextSlave(w),
         UNCHANGED <<gateway, scan, bus>>
  PROVE  /\ RoundType'
         /\ link' \in BOOLEAN /\ phase' \in {"idle", "connecting", "exchange", "failed"}
         /\ call' \in [Caller -> CallState]
         /\ \A c \in Control : call'[c] = call[c]
         /\ OneBusUser' /\ BackoffUnused' /\ BusHasCall'
<1>1. /\ at \in Device /\ at # 0 /\ lock \in {"start", "loop", "refresh"}
      /\ loop # "connect" /\ ~Scanning /\ bus # "poll" /\ gateway \in BOOLEAN
      /\ at \in Nat /\ Slaves \in Nat /\ call["probe"] = "idle"
  <2>1. "poll" \in Caller /\ "probe" \in Caller /\ call["poll"] \notin {"idle", "pending"}
    BY DEF Caller, Outcome
  <2>2. at \in Device /\ at # 0 /\ at \in Nat /\ Slaves \in Nat
    BY <2>1, HubAssumption DEF OneBusUser, Device
  <2>. QED BY <2>1, <2>2 DEF OneBusUser, BusHasCall, Scanning, TypeOK
<1>2. /\ call' = [call EXCEPT !["poll"] = "idle"] /\ call' \in [Caller -> CallState]
      /\ call'["poll"] = "idle" /\ \A c \in Caller \ {"poll"} : call'[c] = call[c]
  BY DEF NextSlave, TypeOK, CallState, Caller
<1>3. "poll" \notin Control /\ "poll" \in Caller /\ "probe" \in Caller
      /\ \A c \in Control : call'[c] = call[c]
  BY <1>2, HubAssumption DEF Caller
<1>4. BusHasCall'
  BY <1>1, <1>2 DEF BusHasCall
<1>5. CASE at < Slaves \/ (at = Slaves /\ ~w)
  <2>1. /\ at' = at + 1 /\ won' = w
        /\ UNCHANGED <<hub, backoff, loop, lock, refresh>>
    BY <1>1, <1>5 DEF NextSlave
  <2>2. link' \in BOOLEAN /\ phase' \in {"idle", "connecting", "exchange", "failed"}
    BY <1>1, <1>5 DEF NextSlave, Disconnects, TypeOK
  <2>3. at' \in 1 .. (Slaves + 1)
    BY <1>1, <1>5, <2>1
  <2>4. OneBusUser' /\ BackoffUnused'
    BY <1>1, <1>2, <1>3, <2>1, <2>3 DEF OneBusUser, BackoffUnused, Scanning
  <2>5. RoundType'
    BY <2>1, <2>3, TypeParts DEF RoundType
  <2>. QED BY <1>2, <1>3, <1>4, <2>2, <2>4, <2>5
<1>6. CASE at = Slaves /\ w
  <2>1. ~(at < Slaves)
    BY <1>1, <1>6
  <2>2. RoundEnds(gateway) /\ UNCHANGED <<link, phase>>
    BY <1>6, <2>1 DEF NextSlave
  <2>3. /\ at' = 0 /\ lock' = "free" /\ loop' # "connect" /\ RoundType'
        /\ gateway => backoff' = 0
    BY <1>1, <2>2, RoundEndsFacts
  <2>4. OneBusUser' /\ BackoffUnused'
    BY <1>1, <1>2, <1>3, <2>3 DEF OneBusUser, BackoffUnused, Scanning
  <2>. QED BY <1>2, <1>3, <1>4, <2>2, <2>3, <2>4 DEF TypeOK
<1>. QED BY <1>1, <1>5, <1>6 DEF Device

LEMMA AbortFacts ==
  ASSUME TypeOK, HubInv, NEW who \in User, NEW own \in {"poll", "probe"}, Abort(who, own)
  PROVE  /\ waiters' \in Seq(User) /\ lock' \in User \cup {"free"}
         /\ at' \in 0 .. (Slaves + 1) /\ won' \in BOOLEAN
         /\ call' \in [Caller -> CallState] /\ bus' \in Caller \cup {"nobody", "orphan"}
         /\ HealthFollowsPolls' /\ LostHoldsNoControl' /\ BackoffUnused' /\ BusHasCall'
         /\ lock = who => /\ at' = 0 /\ call'[own] = "idle"
                          /\ \A c \in Caller \ {own} : call'[c] = call[c]
         /\ lock # who => UNCHANGED <<lock, at, call>>
<1>1. waiters' \in Seq(User)
  BY WaitersFacts DEF Abort, TypeOK
<1>2. own \in Caller /\ own \notin Control /\ "orphan" \notin Caller /\ Control \subseteq Caller
  BY HubAssumption DEF Caller
<1>3. HealthFollowsPolls' /\ BackoffUnused'
  BY DEF Abort, HubInv, HealthFollowsPolls, BackoffUnused, healthVars
<1>4. CASE lock = who
  <2>1. /\ lock' = "free" /\ at' = 0 /\ won' = FALSE
        /\ call' = [call EXCEPT ![own] = "idle"]
        /\ bus' = (IF bus = own THEN "orphan" ELSE bus)
        /\ gateway' = gateway
    BY <1>4 DEF Abort
  <2>2. /\ call' \in [Caller -> CallState] /\ call'[own] = "idle"
        /\ \A c \in Caller \ {own} : call'[c] = call[c]
    BY <1>2, <2>1 DEF TypeOK, CallState
  <2>3. bus' \in Caller \cup {"nobody", "orphan"} /\ at' \in 0 .. (Slaves + 1)
    BY <2>1, HubAssumption DEF TypeOK
  <2>4. LostHoldsNoControl'
    BY <1>2, <2>1, <2>2 DEF HubInv, LostHoldsNoControl
  <2>5. BusHasCall'
    BY <1>2, <2>1, <2>2 DEF HubInv, BusHasCall
  <2>. QED BY <1>1, <1>3, <1>4, <2>1, <2>2, <2>3, <2>4, <2>5
<1>5. CASE lock # who
  <2>1. UNCHANGED <<lock, at, won, call, bus, gateway>>
    BY <1>5 DEF Abort
  <2>2. LostHoldsNoControl' /\ BusHasCall'
    BY <2>1 DEF HubInv, LostHoldsNoControl, BusHasCall
  <2>. QED BY <1>1, <1>3, <1>5, <2>1, <2>2 DEF TypeOK, CallState
<1>. QED BY <1>4, <1>5

-----------------------------------------------------------------------------
(***************************************************************************)
(* TypeOK and HubInv: they hold at first, and every step keeps them.       *)
(***************************************************************************)

LEMMA Initially == Init => TypeOK /\ HubInv
<1>. SUFFICES ASSUME Init PROVE TypeOK /\ HubInv
  OBVIOUS
<1>1. TypeOK
  <2>1. waiters \in Seq(User)
    BY EmptySeqType DEF Init
  <2>2. bus \in Caller \cup {"nobody", "orphan"} /\ at \in 0 .. (Slaves + 1)
        /\ backoff \in 0 .. MaxBackoff
    BY HubAssumption DEF Init
  <2>3. fails \in [Device -> 0 .. 3] /\ call \in [Caller -> {"idle", "pending"} \cup Outcome]
    BY DEF Init
  <2>. QED BY <2>1, <2>2, <2>3 DEF Init, TypeOK
<1>2. HubInv
  BY HubAssumption DEF Init, HubInv, HealthFollowsPolls, LostHoldsNoControl, OneBusUser,
     BackoffUnused, BusHasCall, Scanning, Caller
<1>. QED BY <1>1, <1>2

\* The worker settles calls and takes the next: what is left waiting.
LEMMA TakenKeeps ==
  ASSUME TypeOK, HubInv, NEW calls \in [Caller -> CallState], NEW up, TakeNext(calls, up),
         UNCHANGED <<hub, gateway, backoff, avail, healthVars, pollVars, wake, waiters, loop,
                     roundVars, scan>>,
         link' \in BOOLEAN,
         \A c \in {"poll", "probe"} : calls[c] # "idle" => call[c] # "idle",
         calls # call => \A c \in Control : calls[c] = "pending" => gateway
  PROVE  TypeOK' /\ HubInv'
<1>1. TypeOK'
  BY TakeNextFacts DEF TypeOK, healthVars, pollVars, roundVars, CallState
<1>2. /\ HealthFollowsPolls' /\ OneBusUser' /\ BackoffUnused'
  BY TakeNextFacts DEF HubInv, HealthFollowsPolls, OneBusUser, BackoffUnused, Scanning,
     healthVars, pollVars, roundVars
<1>3. LostHoldsNoControl'
  <2>. SUFFICES ASSUME ~gateway, NEW c \in Control, calls[c] = "pending"
                PROVE  c = bus'
    BY TakeNextFacts DEF LostHoldsNoControl
  <2>1. calls = call /\ c = bus
    BY DEF HubInv, LostHoldsNoControl
  <2>2. \A d \in Control : calls[d] = "pending" => d = bus
    BY <2>1 DEF HubInv, LostHoldsNoControl
  <2>. QED BY <2>1, <2>2 DEF TakeNext, Start, Caller
<1>4. BusHasCall'
  BY TakeNextFacts DEF BusHasCall
<1>. QED BY <1>1, <1>2, <1>3, <1>4 DEF HubInv

LEMMA WorkerKeeps ==
  ASSUME TypeOK, HubInv, WorkerStep
  PROVE  TypeOK' /\ HubInv'
<1>0. BusHasCall /\ call \in [Caller -> CallState] /\ link \in BOOLEAN
      /\ {"poll", "probe"} \subseteq Caller \ Control
  BY HubAssumption DEF HubInv, TypeOK, CallState, Caller
<1>1. CASE WorkerWakes
  BY <1>0, <1>1, TakenKeeps DEF WorkerWakes
<1>2. CASE WorkerConnects
  <2>1. TypeOK'
    BY <1>2 DEF WorkerConnects, TypeOK, healthVars, pollVars, roundVars
  <2>2. HubInv'
    BY <1>2 DEF WorkerConnects, HubInv, HealthFollowsPolls, LostHoldsNoControl, OneBusUser,
       BackoffUnused, BusHasCall, Scanning, healthVars, pollVars, roundVars
  <2>. QED BY <2>1, <2>2
<1>3. ASSUME NEW o \in {"result", "refused"}, WorkerAnswered(o)
      PROVE  TypeOK' /\ HubInv'
  <2>1. Settled(o) \in [Caller -> CallState]
    BY <1>0, SettledFacts DEF Outcome
  <2>2. \A c \in Caller : Settled(o)[c] # "idle" => call[c] # "idle"
    BY <1>0, SettledFacts DEF Outcome
  <2>3. \A c \in Control : Settled(o)[c] = "pending" => gateway
    BY <1>0, SettledFacts DEF HubInv, LostHoldsNoControl, Outcome, Caller
  <2>. QED BY <1>0, <1>3, <2>1, <2>2, <2>3, TakenKeeps DEF WorkerAnswered
<1>4. CASE WorkerFails
  <2>1. PICK o \in {"failed", "gateway"} :
           TakeNext(Discards(Settled(o)), FALSE)
    BY <1>0, <1>4 DEF WorkerFails
  <2>. DEFINE calls == Discards(Settled(o))
  <2>2. Settled(o) \in [Caller -> CallState]
    BY <1>0, SettledFacts DEF Outcome
  <2>3. calls \in [Caller -> CallState]
    BY <2>2, DiscardsFacts
  <2>4. \A c \in {"poll", "probe"} : calls[c] # "idle" => call[c] # "idle"
    BY <1>0, <2>2, DiscardsFacts, SettledFacts DEF Outcome
  <2>5. \A c \in Control : calls[c] # "pending"
    BY <1>0, <2>2, DiscardsFacts, SettledFacts DEF Outcome, Caller
  <2>. HIDE DEF calls
  <2>6. TakeNext(calls, FALSE)
    BY <2>1 DEF calls
  <2>. QED BY <1>0, <1>4, <2>1, <2>3, <2>4, <2>5, <2>6, TakenKeeps DEF WorkerFails
<1>. QED BY <1>1, <1>2, <1>3, <1>4 DEF WorkerStep

LEMMA LinkLostKeeps ==
  ASSUME TypeOK, HubInv, LinkLost
  PROVE  TypeOK' /\ HubInv'
<1>1. GatewayLost(call) /\ call \in [Caller -> CallState] /\ bus' = bus
  BY DEF LinkLost, TypeOK, CallState
<1>2. TypeOK'
  <2>1. link' \in BOOLEAN /\ phase' \in {"idle", "connecting", "exchange", "failed"}
    BY DEF LinkLost, TypeOK, Disconnects
  <2>2. /\ call' \in [Caller -> {"idle", "pending"} \cup Outcome]
        /\ gateway' \in BOOLEAN /\ wake' \in BOOLEAN /\ avail' \subseteq Device
    BY <1>1, LostFacts DEF CallState
  <2>. QED BY <2>1, <2>2 DEF LinkLost, TypeOK, healthVars, pollVars, roundVars
<1>3. LostHoldsNoControl' /\ HealthFollowsPolls' /\ BackoffUnused' /\ BusHasCall'
  BY <1>1, LostFacts DEF HubInv, BusHasCall
<1>4. OneBusUser'
  <2>1. call'["poll"] = call["poll"] /\ call'["probe"] = call["probe"]
    BY <1>1, LostFacts, HubAssumption DEF Caller
  <2>. QED BY <2>1 DEF LinkLost, HubInv, OneBusUser, Scanning, roundVars
<1>. QED BY <1>2, <1>3, <1>4 DEF HubInv

LEMMA LoopKeeps ==
  ASSUME TypeOK, HubInv, LoopStep
  PROVE  TypeOK' /\ HubInv'
<1>0. TypeOK /\ HealthFollowsPolls /\ LostHoldsNoControl /\ OneBusUser /\ BackoffUnused
      /\ BusHasCall
  BY DEF HubInv
<1>1. CASE LoopWakes
  <2>1. PICK w \in {FALSE, wake} : LoopTop(gateway, w, backoff)
    BY <1>1 DEF LoopWakes
  <2>2. /\ loop' \in {"backoff", "wait", "turn"} /\ backoff' \in 0 .. MaxBackoff
        /\ gateway => backoff' = 0
        /\ wake' \in BOOLEAN /\ waiters' \in Seq(User)
    BY <1>0, <2>1, LoopTopFacts DEF TypeOK, BackoffUnused
  <2>3. TypeOK'
    BY <1>1, <2>2 DEF LoopWakes, TypeOK, healthVars, pollVars, roundVars, busVars
  <2>4. HubInv'
    BY <1>0, <1>1, <2>2 DEF LoopWakes, HubInv, HealthFollowsPolls, LostHoldsNoControl, OneBusUser,
       BackoffUnused, BusHasCall, Scanning, healthVars, pollVars, roundVars, busVars
  <2>. QED BY <2>3, <2>4
<1>2. CASE BackoffOver
  <2>1. waiters' \in Seq(User)
    BY <1>2, WaitersFacts DEF BackoffOver, TypeOK, User
  <2>2. TypeOK'
    BY <1>2, <2>1 DEF BackoffOver, TypeOK, healthVars, pollVars, roundVars, busVars
  <2>3. HubInv'
    BY <1>0, <1>2 DEF BackoffOver, HubInv, HealthFollowsPolls, LostHoldsNoControl, OneBusUser,
       BackoffUnused, BusHasCall, Scanning, healthVars, pollVars, roundVars, busVars
  <2>. QED BY <2>2, <2>3
<1>3. CASE LoopConnects
  <2>1. lock = "loop" /\ at = 0 /\ ~Scanning
    BY <1>0, <1>3 DEF LoopConnects, OneBusUser, Scanning
  <2>2. /\ loop' \in {"backoff", "wait", "turn"} /\ backoff' = 0
        /\ wake' \in BOOLEAN /\ waiters' \in Seq(User)
    <3>1. loop' \in {"wait", "turn"} /\ backoff' = 0 /\ wake' \in BOOLEAN
      BY <1>3 DEF LoopConnects, LoopTop, TypeOK
    <3>2. waiters' \in Seq(User)
      BY <1>3, WaitersFacts DEF LoopConnects, LoopTop, TypeOK, User
    <3>. QED BY <3>1, <3>2
  <2>3. Restored \subseteq Device /\ \A d \in Restored : d \in populated /\ fails[d] < 3
    BY <1>0 DEF Restored, TypeOK, HealthFollowsPolls
  <2>4. TypeOK'
    <3>1. backoff' \in 0 .. MaxBackoff
      BY <2>2, HubAssumption
    <3>2. /\ lock' = "free" /\ avail' \subseteq Device
          /\ link' \in BOOLEAN /\ gateway' \in BOOLEAN
      BY <1>3, <2>3 DEF LoopConnects
    <3>3. UNCHANGED <<hub, healthVars, pollVars, at, won, refresh, scan, call, bus, phase>>
      BY <1>3 DEF LoopConnects
    <3>. QED BY <2>2, <3>1, <3>2, <3>3 DEF TypeOK, healthVars, pollVars
  <2>5. HubInv'
    BY <1>0, <1>3, <2>1, <2>2, <2>3 DEF LoopConnects, HubInv, HealthFollowsPolls,
       LostHoldsNoControl, OneBusUser, BackoffUnused, BusHasCall, Scanning, healthVars, pollVars
  <2>. QED BY <2>4, <2>5
<1>4. CASE LoopConnectFails
  <2>1. lock = "loop" /\ at = 0 /\ ~Scanning
    BY <1>0, <1>4 DEF LoopConnectFails, OneBusUser, Scanning
  <2>2. /\ loop' \in {"backoff", "wait", "turn"} /\ backoff' \in 0 .. MaxBackoff
        /\ gateway => backoff' = 0
        /\ wake' \in BOOLEAN /\ waiters' \in Seq(User)
    BY <1>0, <1>4, LoopTopFacts DEF LoopConnectFails, TypeOK, BackoffUnused
  <2>3. TypeOK'
    BY <1>4, <2>2 DEF LoopConnectFails, TypeOK, healthVars, pollVars, busVars
  <2>4. HubInv'
    BY <1>0, <1>4, <2>1, <2>2 DEF LoopConnectFails, HubInv, HealthFollowsPolls,
       LostHoldsNoControl, OneBusUser, BackoffUnused, BusHasCall, Scanning, healthVars, pollVars,
       busVars
  <2>. QED BY <2>3, <2>4
<1>. QED BY <1>1, <1>2, <1>3, <1>4 DEF LoopStep

LEMMA GrantKeeps ==
  ASSUME TypeOK, HubInv, Grant
  PROVE  TypeOK' /\ HubInv'
<1>1. lock' \in User /\ waiters' \in Seq(User)
  BY TailFacts DEF Grant, TypeOK
<1>2. /\ OneBusUser /\ lock = "free" /\ at = 0 /\ ~Scanning /\ loop # "connect"
      /\ call["poll"] = "idle" /\ call["probe"] = "idle"
  BY DEF Grant, LockFree, HubInv, OneBusUser, Scanning, Device
<1>3. TypeOK'
  <2>1. at' \in 0 .. (Slaves + 1)
    BY HubAssumption DEF Grant
  <2>2. /\ loop' \in {"off", "new", "backoff", "lock", "connect", "wait", "turn", "round", "pace",
                      "done"}
        /\ refresh' \in {"idle", "lock", "round"} /\ scan' \in {"off", "lock", "drain", "bus"}
        /\ won' \in BOOLEAN
    BY DEF Grant, TypeOK
  <2>. QED BY <1>1, <2>1, <2>2 DEF Grant, TypeOK, healthVars, pollVars, busVars
<1>4. OneBusUser'
  BY <1>1, <1>2 DEF Grant, OneBusUser, Scanning, User, busVars
<1>5. HealthFollowsPolls' /\ LostHoldsNoControl' /\ BackoffUnused' /\ BusHasCall'
  BY DEF Grant, HubInv, HealthFollowsPolls, LostHoldsNoControl, BackoffUnused, BusHasCall,
     healthVars, busVars
<1>. QED BY <1>3, <1>4, <1>5 DEF HubInv

LEMMA RoundKeeps ==
  ASSUME TypeOK, HubInv, RoundStep
  PROVE  TypeOK' /\ HubInv'
<1>0. /\ HealthFollowsPolls /\ LostHoldsNoControl /\ OneBusUser /\ BackoffUnused
      /\ BusHasCall /\ gateway \in BOOLEAN /\ Slaves \in Nat
      /\ "poll" \in Caller \ Control /\ "probe" \in Caller \ Control
  BY HubAssumption DEF HubInv, TypeOK, Caller
<1>1. CASE PollSlave
  <2>0. call' \in [Caller -> {"idle", "pending"} \cup Outcome]
    BY <1>0, <1>1 DEF PollSlave, TypeOK
  <2>1. TypeOK'
    BY <1>1, <2>0 DEF PollSlave, TypeOK, healthVars, pollVars, roundVars, busVars
  <2>2. HubInv'
    BY <1>0, <1>1 DEF PollSlave, AskPoll, HubInv, HealthFollowsPolls, LostHoldsNoControl,
       OneBusUser, BackoffUnused, BusHasCall, Scanning, TypeOK,
       healthVars, pollVars, roundVars, busVars
  <2>. QED BY <2>1, <2>2
<1>2. ASSUME at # 0, call["poll"] \notin {"pending"}, RoundEnds(gateway),
             call' \in [Caller -> CallState], call'["poll"] = "idle",
             \A c \in Caller \ {"poll"} : call'[c] = call[c],
             UNCHANGED <<gateway, avail, healthVars, pollVars, wake, waiters, scan, busVars>>
      PROVE  TypeOK' /\ HubInv'
  <2>1. /\ at' = 0 /\ lock' = "free" /\ loop' # "connect" /\ ~Scanning
        /\ RoundType' /\ (gateway => backoff' = 0)
    BY <1>0, <1>2, RoundEndsFacts
  <2>2. RestType'
    BY <1>2, TypeParts DEF RestType, healthVars, pollVars, busVars
  <2>3. HealthFollowsPolls' /\ BackoffUnused'
    BY <1>0, <1>2, <2>1 DEF HealthFollowsPolls, BackoffUnused, healthVars
  <2>4. LostHoldsNoControl' /\ BusHasCall'
    BY <1>0, <1>2 DEF LostHoldsNoControl, BusHasCall, busVars, Caller
  <2>5. OneBusUser'
    BY <1>0, <1>2, <2>1 DEF OneBusUser, Scanning
  <2>. QED BY <2>1, <2>2, <2>3, <2>4, <2>5, TypeParts DEF HubInv
<1>3. CASE RoundCut
  <2>1. at # 0 /\ call["poll"] = "idle" /\ RoundEnds(gateway)
    BY <1>3 DEF RoundCut, AskPoll, Device
  <2>2. UNCHANGED <<gateway, avail, healthVars, pollVars, wake, waiters, scan, call, busVars>>
    BY <1>3 DEF RoundCut
  <2>. QED BY <1>2, <2>1, <2>2 DEF TypeOK, CallState
<1>4. CASE RoundOver
  <2>1. at # 0 /\ at \notin Device
    BY <1>0, <1>4 DEF RoundOver, Device
  <2>2. call["poll"] = "idle"
    BY <1>0, <2>1 DEF OneBusUser
  <2>3. /\ RoundEnds(gateway)
        /\ UNCHANGED <<gateway, avail, healthVars, pollVars, wake, waiters, scan, call, busVars>>
    BY <1>4 DEF RoundOver
  <2>. QED BY <1>2, <2>1, <2>2, <2>3 DEF TypeOK, CallState
<1>5. ASSUME call["poll"] \in Outcome, NEW w \in BOOLEAN, NextSlave(w),
             UNCHANGED <<gateway, pollVars, wake, waiters, scan, bus>>,
             avail' \subseteq Device, populated' \subseteq Device, fails' \in [Device -> 0 .. 3],
             HealthFollowsPolls'
      PROVE  TypeOK' /\ HubInv'
  <2>1. UNCHANGED <<gateway, scan, bus>>
    BY <1>5
  <2>2. /\ RoundType'
        /\ link' \in BOOLEAN /\ phase' \in {"idle", "connecting", "exchange", "failed"}
        /\ call' \in [Caller -> CallState]
        /\ \A c \in Control : call'[c] = call[c]
        /\ OneBusUser' /\ BackoffUnused' /\ BusHasCall'
    BY <1>0, <1>5, <2>1, NextSlaveFacts
  <2>3. RestType'
    BY <1>5, <2>2, TypeParts DEF RestType, pollVars
  <2>4. LostHoldsNoControl'
    BY <1>0, <1>5, <2>2 DEF LostHoldsNoControl
  <2>. QED BY <1>5, <2>2, <2>3, <2>4, TypeParts DEF HubInv
<1>6. CASE PollSucceeds
  <2>1. call["poll"] \in Outcome /\ at \in Device
    BY <1>0, <1>6 DEF PollSucceeds, OneBusUser, Outcome
  <2>2. avail' \subseteq Device /\ populated' \subseteq Device /\ fails' \in [Device -> 0 .. 3]
    BY <1>6, <2>1 DEF PollSucceeds, TypeOK
  <2>3. HealthFollowsPolls'
    BY <1>0, <1>6, <2>1 DEF PollSucceeds, HealthFollowsPolls, TypeOK
  <2>4. NextSlave(TRUE) /\ UNCHANGED <<gateway, pollVars, wake, waiters, scan, bus>>
    BY <1>6 DEF PollSucceeds
  <2>. QED BY <1>5, <2>1, <2>2, <2>3, <2>4
<1>7. CASE PollFails
  <2>1. call["poll"] \in Outcome /\ at \in Device
    BY <1>0, <1>7 DEF PollFails, OneBusUser, Outcome
  <2>2. fails' = [fails EXCEPT ![at] = IF @ < 3 THEN @ + 1 ELSE @]
        /\ fails' \in [Device -> 0 .. 3]
    BY <1>7, <2>1 DEF PollFails, TypeOK
  <2>3. avail' \subseteq Device /\ populated' \subseteq Device
    BY <1>7 DEF PollFails, TypeOK
  <2>4. HealthFollowsPolls'
    <3>. SUFFICES ASSUME NEW d \in avail' PROVE d \in populated /\ fails'[d] < 3
      BY <1>7 DEF PollFails, HealthFollowsPolls
    <3>1. d \in avail /\ d \in Device /\ d \in populated /\ fails[d] < 3
      BY <1>0, <1>7 DEF PollFails, HealthFollowsPolls, TypeOK
    <3>2. CASE d = at
      BY <1>7, <2>1, <2>2, <3>1, <3>2 DEF PollFails, TypeOK
    <3>3. CASE d # at
      BY <2>1, <2>2, <3>1, <3>3 DEF TypeOK
    <3>. QED BY <3>1, <3>2, <3>3
  <2>5. NextSlave(won) /\ UNCHANGED <<gateway, pollVars, wake, waiters, scan, bus>>
        /\ won \in BOOLEAN
    BY <1>7 DEF PollFails, TypeOK
  <2>. QED BY <1>5, <2>1, <2>2, <2>3, <2>4, <2>5
<1>8. CASE PollLosesGateway
  <2>. DEFINE calls == [call EXCEPT !["poll"] = "idle"]
  <2>1. GatewayLost(calls) /\ bus' = bus /\ calls \in [Caller -> CallState]
    BY <1>8 DEF PollLosesGateway, TypeOK, CallState, busVars
  <2>2. bus \in Caller => calls[bus] = "pending"
    BY <1>0, <1>8 DEF PollLosesGateway, BusHasCall, TypeOK
  <2>3. at # 0
    <3>1. at \in Device
      BY <1>0, <1>8 DEF PollLosesGateway, OneBusUser
    <3>. QED BY <3>1 DEF Device
  <2>4. calls["poll"] = "idle" /\ calls["probe"] = call["probe"]
    BY <1>0 DEF TypeOK
  <2>. HIDE DEF calls
  <2>5. /\ call' \in [Caller -> CallState] /\ gateway' = FALSE /\ wake' = TRUE /\ avail' = {}
        /\ call'["poll"] = "idle" /\ call'["probe"] = call["probe"]
        /\ LostHoldsNoControl' /\ HealthFollowsPolls' /\ BackoffUnused' /\ BusHasCall'
    BY <1>0, <2>1, <2>2, <2>4, LostFacts
  <2>6. /\ at' = 0 /\ lock' = "free" /\ loop' # "connect" /\ ~Scanning /\ RoundType'
    BY <1>0, <1>8, <2>3, RoundEndsFacts DEF PollLosesGateway
  <2>7. RestType'
    BY <1>8, <2>5, TypeParts DEF PollLosesGateway, RestType, healthVars, pollVars, busVars
  <2>8. OneBusUser'
    BY <1>0, <1>8, <2>5, <2>6 DEF PollLosesGateway, OneBusUser, Scanning
  <2>. QED BY <2>5, <2>6, <2>7, <2>8, TypeParts DEF HubInv
<1>9. CASE PollClosed
  <2>1. at # 0 /\ call["poll"] # "pending" /\ RoundEnds(gateway)
    <3>1. at \in Device
      BY <1>0, <1>9 DEF PollClosed, OneBusUser
    <3>. QED BY <1>9, <3>1 DEF PollClosed, Device
  <2>2. /\ call' \in [Caller -> CallState] /\ call'["poll"] = "idle"
        /\ \A c \in Caller \ {"poll"} : call'[c] = call[c]
    BY <1>0, <1>9 DEF PollClosed, TypeOK, CallState
  <2>3. UNCHANGED <<gateway, avail, healthVars, pollVars, wake, waiters, scan, busVars>>
    BY <1>9 DEF PollClosed
  <2>. QED BY <1>2, <2>1, <2>2, <2>3
<1>. QED BY <1>1, <1>3, <1>4, <1>6, <1>7, <1>8, <1>9 DEF RoundStep

\* A step that touches neither the calls nor the bus nor who runs.
LEMMA QuietKeeps ==
  ASSUME TypeOK, HubInv,
         UNCHANGED <<gateway, backoff, avail, healthVars, loop, lock, at, won, call, busVars>>,
         hub' \in {"new", "polling", "up", "stopping", "stopped"},
         interval' \in BOOLEAN, paused' \in BOOLEAN, wake' \in BOOLEAN, waiters' \in Seq(User),
         refresh' \in {"idle", "lock", "round"}, scan' \in {"off", "lock", "drain", "bus"},
         scan' # "bus" => call["probe"] = "idle",
         scan' \in {"drain", "bus"} => Scanning
  PROVE  TypeOK' /\ HubInv'
<1>1. TypeOK'
  BY DEF TypeOK, healthVars, busVars
<1>2. HubInv'
  BY DEF HubInv, HealthFollowsPolls, LostHoldsNoControl, OneBusUser, BackoffUnused,
     BusHasCall, Scanning, healthVars, busVars
<1>. QED BY <1>1, <1>2

LEMMA ControlKeeps ==
  ASSUME TypeOK, HubInv, NEW c \in Control, ControlAsks(c) \/ ControlReturns(c)
  PROVE  TypeOK' /\ HubInv'
<1>0. c \in Caller /\ c \notin {"poll", "probe"}
      /\ "poll" \in Caller \ Control /\ "probe" \in Caller \ Control
  BY HubAssumption DEF Caller
<1>1. CASE ControlAsks(c)
  <2>1. /\ call' = [call EXCEPT ![c] = "pending"] /\ call' \in [Caller -> CallState]
        /\ call'["poll"] = call["poll"] /\ call'["probe"] = call["probe"]
        /\ gateway
    BY <1>0, <1>1 DEF ControlAsks, ControlChecked, TypeOK, CallState
  <2>2. TypeOK'
    BY <1>1, <2>1 DEF ControlAsks, TypeOK, CallState, healthVars, pollVars, roundVars, busVars
  <2>3. HubInv'
    BY <1>0, <1>1, <2>1 DEF ControlAsks, HubInv, HealthFollowsPolls, LostHoldsNoControl,
       OneBusUser, BackoffUnused, BusHasCall, Scanning, TypeOK,
       healthVars, pollVars, roundVars, busVars
  <2>. QED BY <2>2, <2>3
<1>2. CASE ControlReturns(c)
  <2>. DEFINE calls == [call EXCEPT ![c] = "idle"]
  <2>1. GatewayLost(calls) /\ bus' = bus /\ calls \in [Caller -> CallState]
    BY <1>2 DEF ControlReturns, TypeOK, CallState, busVars
  <2>2. bus \in Caller => calls[bus] = "pending"
    BY <1>0, <1>2 DEF ControlReturns, HubInv, BusHasCall, TypeOK
  <2>3. calls["poll"] = call["poll"] /\ calls["probe"] = call["probe"]
    BY <1>0 DEF TypeOK
  <2>. HIDE DEF calls
  <2>4. /\ call' \in [Caller -> CallState] /\ gateway' = FALSE /\ wake' = TRUE /\ avail' = {}
        /\ call'["poll"] = call["poll"] /\ call'["probe"] = call["probe"]
        /\ LostHoldsNoControl' /\ HealthFollowsPolls' /\ BackoffUnused' /\ BusHasCall'
    BY <1>0, <2>1, <2>2, <2>3, LostFacts
  <2>5. TypeOK'
    <3>1. UNCHANGED <<hub, backoff, healthVars, pollVars, waiters, loop, roundVars, scan, busVars>>
      BY <1>2 DEF ControlReturns
    <3>2. RoundType'
      BY <3>1, TypeParts DEF RoundType, roundVars
    <3>3. RestType'
      BY <2>4, <3>1, TypeParts DEF RestType, healthVars, pollVars, busVars
    <3>. QED BY <3>2, <3>3, TypeParts
  <2>6. OneBusUser'
    BY <1>2, <2>4 DEF ControlReturns, HubInv, OneBusUser, Scanning, roundVars
  <2>. QED BY <2>4, <2>5, <2>6 DEF HubInv
<1>. QED BY <1>1, <1>2

LEMMA RefreshKeeps ==
  ASSUME TypeOK, HubInv, RefreshAsks \/ RefreshCancelled
  PROVE  TypeOK' /\ HubInv'
<1>1. CASE RefreshAsks
  <2>1. waiters' \in Seq(User)
    BY <1>1, WaitersFacts DEF RefreshAsks, TypeOK, User
  <2>. QED BY <1>1, <2>1, QuietKeeps DEF RefreshAsks, TypeOK, HubInv, OneBusUser, Scanning, pollVars
<1>2. CASE RefreshCancelled
  <2>1. Abort("refresh", "poll") /\ refresh' = "idle" /\ UNCHANGED <<hub, wake, loop, scan>>
    BY <1>2 DEF RefreshCancelled
  <2>2. /\ waiters' \in Seq(User) /\ lock' \in User \cup {"free"}
        /\ at' \in 0 .. (Slaves + 1) /\ won' \in BOOLEAN
        /\ call' \in [Caller -> CallState] /\ bus' \in Caller \cup {"nobody", "orphan"}
        /\ HealthFollowsPolls' /\ LostHoldsNoControl' /\ BackoffUnused' /\ BusHasCall'
        /\ lock = "refresh" => /\ at' = 0 /\ call'["poll"] = "idle"
                               /\ \A c \in Caller \ {"poll"} : call'[c] = call[c]
        /\ lock # "refresh" => UNCHANGED <<lock, at, call>>
    BY <2>1, AbortFacts DEF User
  <2>3. TypeOK'
    BY <2>1, <2>2 DEF Abort, TypeOK, CallState, healthVars, pollVars
  <2>4. OneBusUser'
    BY <2>1, <2>2 DEF HubInv, OneBusUser, Scanning, Caller
  <2>. QED BY <2>2, <2>3, <2>4 DEF HubInv
<1>. QED BY <1>1, <1>2

LEMMA ScanKeeps ==
  ASSUME TypeOK, HubInv, ScanAsks \/ ScanProbes \/ ScanEnds \/ ScanCancelled
  PROVE  TypeOK' /\ HubInv'
<1>0. OneBusUser /\ BusHasCall /\ "probe" \in Caller \ Control /\ "poll" \in Caller \ Control
  BY HubAssumption DEF HubInv, Caller
<1>1. CASE ScanAsks
  <2>1. waiters' \in Seq(User)
    BY <1>1, WaitersFacts DEF ScanAsks, TypeOK, User
  <2>. QED BY <1>0, <1>1, <2>1, QuietKeeps
           DEF ScanAsks, TypeOK, OneBusUser, Scanning, pollVars, roundVars
<1>2. CASE ScanProbes
  <2>1. /\ call' = [call EXCEPT !["probe"] = "pending"] /\ call' \in [Caller -> CallState]
        /\ call'["poll"] = call["poll"] /\ \A c \in Control : call'[c] = call[c]
        /\ \A c \in Caller \ {"probe"} : call'[c] = call[c]
        /\ Scanning
    BY <1>0, <1>2 DEF ScanProbes, Scanning, TypeOK, CallState, Caller
  <2>2. TypeOK'
    BY <1>2, <2>1 DEF ScanProbes, TypeOK, CallState, healthVars, pollVars, roundVars, busVars
  <2>3. HubInv'
    BY <1>0, <1>2, <2>1 DEF ScanProbes, HubInv, HealthFollowsPolls, LostHoldsNoControl,
       OneBusUser, BackoffUnused, BusHasCall, Scanning, TypeOK,
       healthVars, pollVars, roundVars, busVars
  <2>. QED BY <2>2, <2>3
<1>3. CASE ScanEnds
  <2>. DEFINE calls == [call EXCEPT !["probe"] = "idle"]
  <2>1. Scanning /\ lock = "scan" /\ at = 0 /\ call["poll"] = "idle" /\ bus # "probe"
        /\ loop # "connect"
    BY <1>0, <1>3 DEF ScanEnds, Scanning, OneBusUser, BusHasCall, Outcome, Device
  <2>2. /\ calls \in [Caller -> CallState] /\ calls["probe"] = "idle" /\ calls["poll"] = "idle"
        /\ \A c \in Caller \ {"probe"} : calls[c] = call[c]
    BY <1>0, <2>1 DEF TypeOK, CallState
  <2>3. bus \in Caller => calls[bus] = "pending"
    BY <1>0, <2>1, <2>2 DEF BusHasCall
  <2>. HIDE DEF calls
  <2>4. /\ call' \in [Caller -> CallState] /\ call'["probe"] = "idle" /\ call'["poll"] = "idle"
        /\ gateway' \in BOOLEAN /\ avail' \subseteq Device
        /\ LostHoldsNoControl' /\ HealthFollowsPolls' /\ BackoffUnused' /\ BusHasCall'
    <3>1. CASE GatewayLost(calls) /\ bus' = bus
      BY <1>0, <2>2, <2>3, <3>1, LostFacts
    <3>2. CASE call' = calls /\ UNCHANGED <<gateway, avail, backoff, healthVars, bus>>
      BY <2>2, <2>3, <3>2 DEF HubInv, LostHoldsNoControl, HealthFollowsPolls, BackoffUnused,
         BusHasCall, TypeOK, Caller, healthVars
    <3>. QED BY <1>3, <3>1, <3>2 DEF ScanEnds, calls, busVars
  <2>5. TypeOK'
    BY <1>3, <2>4 DEF ScanEnds, TypeOK, CallState, healthVars, pollVars, busVars
  <2>6. OneBusUser'
    BY <1>3, <2>1, <2>4 DEF ScanEnds, OneBusUser, Scanning
  <2>. QED BY <2>4, <2>5, <2>6 DEF HubInv
<1>4. CASE ScanCancelled
  <2>1. /\ Abort("scan", "probe") /\ scan' = "off" /\ wake' \in BOOLEAN
        /\ UNCHANGED <<hub, loop, refresh>>
    BY <1>4 DEF ScanCancelled, TypeOK, Scanning
  <2>2. /\ waiters' \in Seq(User) /\ lock' \in User \cup {"free"}
        /\ at' \in 0 .. (Slaves + 1) /\ won' \in BOOLEAN
        /\ call' \in [Caller -> CallState] /\ bus' \in Caller \cup {"nobody", "orphan"}
        /\ HealthFollowsPolls' /\ LostHoldsNoControl' /\ BackoffUnused' /\ BusHasCall'
        /\ lock = "scan" => /\ at' = 0 /\ call'["probe"] = "idle"
                            /\ \A c \in Caller \ {"probe"} : call'[c] = call[c]
        /\ lock # "scan" => UNCHANGED <<lock, at, call>>
    BY <2>1, AbortFacts DEF User
  <2>3. TypeOK'
    BY <2>1, <2>2 DEF Abort, TypeOK, CallState, healthVars, pollVars
  <2>4. OneBusUser'
    BY <1>0, <2>1, <2>2 DEF OneBusUser, Scanning, Device
  <2>. QED BY <2>2, <2>3, <2>4 DEF HubInv
<1>. QED BY <1>1, <1>2, <1>3, <1>4

LEMMA OwnerKeeps ==
  ASSUME TypeOK, HubInv, SetSchedule \/ StartConnects \/ StopBegins \/ StopStep
  PROVE  TypeOK' /\ HubInv'
<1>0. OneBusUser /\ Control \subseteq Caller /\ "nobody" \notin Caller
      /\ "poll" \in Caller \ Control /\ "probe" \in Caller \ Control
  BY HubAssumption DEF HubInv, Caller
<1>1. CASE SetSchedule
  BY <1>0, <1>1, QuietKeeps DEF SetSchedule, TypeOK, OneBusUser, Scanning, roundVars
<1>2. CASE StartConnects
  <2>1. waiters' \in Seq(User)
    BY <1>2, WaitersFacts DEF StartConnects, TypeOK, User
  <2>2. TypeOK'
    BY <1>2, <2>1 DEF StartConnects, TypeOK, healthVars, pollVars, roundVars
  <2>3. HubInv'
    BY <1>2 DEF StartConnects, HubInv, HealthFollowsPolls, LostHoldsNoControl, OneBusUser,
       BackoffUnused, BusHasCall, Scanning, healthVars, roundVars
  <2>. QED BY <2>2, <2>3
<1>3. CASE StopBegins
  <2>1. CASE UNCHANGED <<gateway, backoff, avail, healthVars, pollVars, waiters, lock, at, won,
                         call, busVars>>
    BY <1>0, <1>3, <2>1, QuietKeeps DEF StopBegins, TypeOK, OneBusUser, Scanning, pollVars
  <2>2. CASE Abort("start", "poll")
    <3>1. /\ waiters' \in Seq(User) /\ lock' \in User \cup {"free"}
          /\ at' \in 0 .. (Slaves + 1) /\ won' \in BOOLEAN
          /\ call' \in [Caller -> CallState] /\ bus' \in Caller \cup {"nobody", "orphan"}
          /\ HealthFollowsPolls' /\ LostHoldsNoControl' /\ BackoffUnused' /\ BusHasCall'
          /\ lock = "start" => /\ at' = 0 /\ call'["poll"] = "idle"
                               /\ \A c \in Caller \ {"poll"} : call'[c] = call[c]
          /\ lock # "start" => UNCHANGED <<lock, at, call>>
      BY <2>2, AbortFacts DEF User
    <3>2. hub' = "stopping" /\ UNCHANGED <<wake, loop, refresh, scan>>
      BY <1>3 DEF StopBegins
    <3>3. TypeOK'
      BY <2>2, <3>1, <3>2 DEF Abort, TypeOK, CallState, healthVars, pollVars
    <3>4. OneBusUser'
      BY <1>0, <3>1, <3>2 DEF OneBusUser, Scanning
    <3>. QED BY <3>1, <3>3, <3>4 DEF HubInv
  <2>. QED BY <1>3, <2>1, <2>2 DEF StopBegins
<1>4. CASE LoopCancelled
  <2>1. Abort("loop", "poll") /\ loop' = "done" /\ UNCHANGED <<hub, wake, refresh, scan>>
    BY <1>4 DEF LoopCancelled
  <2>2. /\ waiters' \in Seq(User) /\ lock' \in User \cup {"free"}
        /\ at' \in 0 .. (Slaves + 1) /\ won' \in BOOLEAN
        /\ call' \in [Caller -> CallState] /\ bus' \in Caller \cup {"nobody", "orphan"}
        /\ HealthFollowsPolls' /\ LostHoldsNoControl' /\ BackoffUnused' /\ BusHasCall'
        /\ lock = "loop" => /\ at' = 0 /\ call'["poll"] = "idle"
                            /\ \A c \in Caller \ {"poll"} : call'[c] = call[c]
        /\ lock # "loop" => UNCHANGED <<lock, at, call>>
    BY <2>1, AbortFacts DEF User
  <2>3. TypeOK'
    BY <2>1, <2>2 DEF Abort, TypeOK, CallState, healthVars, pollVars
  <2>4. OneBusUser'
    BY <1>0, <2>1, <2>2 DEF OneBusUser, Scanning
  <2>. QED BY <2>2, <2>3, <2>4 DEF HubInv
<1>5. CASE CloseTransport
  <2>1. /\ call' \in [Caller -> CallState]
        /\ \A c \in Caller : call'[c] # "pending" /\ (call'[c] # "idle" => call[c] # "idle")
    BY <1>5 DEF CloseTransport, Told, TypeOK, CallState, Outcome
  <2>2. TypeOK'
    <3>1. /\ hub' = "stopped" /\ bus' = "nobody" /\ phase' = "idle" /\ link' = FALSE
          /\ UNCHANGED <<gateway, backoff, avail, healthVars, pollVars, wake, waiters, loop,
                         roundVars, scan>>
      BY <1>5 DEF CloseTransport
    <3>2. RoundType'
      BY <3>1, TypeParts DEF RoundType, roundVars
    <3>3. RestType'
      BY <2>1, <3>1, TypeParts DEF RestType, healthVars, pollVars
    <3>. QED BY <3>2, <3>3, TypeParts
  <2>3. HubInv'
    BY <1>0, <1>5, <2>1 DEF CloseTransport, HubInv, HealthFollowsPolls, LostHoldsNoControl,
       OneBusUser, BackoffUnused, BusHasCall, Scanning, healthVars, roundVars
  <2>. QED BY <2>2, <2>3
<1>. QED BY <1>1, <1>2, <1>3, <1>4, <1>5 DEF StopStep

LEMMA StepKeeps == TypeOK /\ HubInv /\ [Next]_vars => TypeOK' /\ HubInv'
<1>. SUFFICES ASSUME TypeOK, HubInv, [Next]_vars PROVE TypeOK' /\ HubInv'
  OBVIOUS
<1>1. CASE UNCHANGED vars
  BY <1>1, QuietKeeps
     DEF vars, TypeOK, HubInv, OneBusUser, Scanning, healthVars, pollVars, roundVars
<1>2. CASE Next
  BY <1>2, WorkerKeeps, LinkLostKeeps, LoopKeeps, GrantKeeps, RoundKeeps, ControlKeeps,
     RefreshKeeps, ScanKeeps, OwnerKeeps DEF Next
<1>. QED BY <1>1, <1>2

-----------------------------------------------------------------------------
(***************************************************************************)
(* The theorems.                                                           *)
(***************************************************************************)

\* The hub keeps its types and its inductive invariant: who has the round lock,
\* what the transport holds of it, and what it believes of its devices.
THEOREM HubKeepsInv == Spec => [](TypeOK /\ HubInv)
BY Initially, StepKeeps, PTL DEF Spec

\* Every variable of the hub keeps its type.
THEOREM HubTypeCorrect == Spec => []TypeOK
BY HubKeepsInv, PTL

\* A slave is available only when a poll confirmed it and fewer than three
\* polls failed since, on each path: the round, the loss, the reconnection.
THEOREM HealthIsConfirmed == Spec => []HealthFollowsPolls
<1>1. HubInv => HealthFollowsPolls
  BY DEF HubInv
<1>. QED BY <1>1, HubKeepsInv, PTL

\* While the gateway is lost the transport holds no control but the one it has
\* taken, so the reconnection replays none.
THEOREM NoControlReplayed == Spec => []LostHoldsNoControl
<1>1. HubInv => LostHoldsNoControl
  BY DEF HubInv
<1>. QED BY <1>1, HubKeepsInv, PTL

\* The round lock keeps reconnection, rounds and scans apart.
THEOREM RoundLockExcludes == Spec => []OneBusUser
<1>1. HubInv => OneBusUser
  BY DEF HubInv
<1>. QED BY <1>1, HubKeepsInv, PTL

\* Only the loop moves the backoff: up by one before it waits, to the start when
\* it has connected.
LEMMA BackoffMoves ==
  ASSUME TypeOK, HubInv, [Next]_vars
  PROVE  /\ backoff' \in {backoff, NextBackoff(backoff)} \/ gateway'
         /\ loop = "connect" /\ loop' = "backoff"
               => backoff' = NextBackoff(backoff) /\ ~gateway'
<1>. DEFINE Moved == /\ backoff' \in {backoff, NextBackoff(backoff)} \/ gateway'
                     /\ loop = "connect" /\ loop' = "backoff"
                           => backoff' = NextBackoff(backoff) /\ ~gateway'
<1>1. CASE UNCHANGED vars
  BY <1>1 DEF vars
<1>2. CASE LoopStep
  BY <1>2 DEF LoopStep, LoopWakes, BackoffOver, LoopConnects, LoopConnectFails, LoopTop
<1>3. CASE RoundStep
  <2>1. ASSUME loop # "connect", NEW g, RoundEnds(g) PROVE Moved
    BY <2>1 DEF RoundEnds
  <2>2. at # 0 => loop # "connect"
    BY DEF HubInv, OneBusUser
  <2>3. at \in Device \/ at = Slaves + 1
    BY <1>3 DEF RoundStep, PollSlave, RoundCut, AskPoll, PollSucceeds, PollFails,
       PollLosesGateway, PollClosed, RoundOver, HubInv, OneBusUser
  <2>4. loop # "connect"
    BY <2>2, <2>3, HubAssumption DEF Device
  <2>. QED BY <1>3, <2>1, <2>4
           DEF RoundStep, PollSlave, RoundCut, PollSucceeds, PollFails, PollLosesGateway,
               PollClosed, RoundOver, NextSlave
<1>4. CASE WorkerStep \/ LinkLost \/ StartConnects \/ StopBegins \/ StopStep
  BY <1>4 DEF WorkerStep, WorkerWakes, WorkerConnects, WorkerAnswered, WorkerFails, LinkLost,
     StartConnects, StopBegins, StopStep, LoopCancelled, CloseTransport, Abort
<1>5. CASE Grant
  BY <1>5 DEF Grant
<1>6. CASE \/ \E c \in Control : ControlAsks(c) \/ ControlReturns(c)
           \/ RefreshAsks \/ RefreshCancelled
           \/ ScanAsks \/ ScanProbes \/ ScanEnds \/ ScanCancelled \/ SetSchedule
  BY <1>6 DEF ControlAsks, ControlReturns, RefreshAsks, RefreshCancelled, ScanAsks, ScanProbes,
     ScanEnds, ScanCancelled, SetSchedule, Abort
<1>. QED BY <1>1, <1>2, <1>3, <1>4, <1>5, <1>6 DEF Next

\* Across losses, wake-ups, rounds and refused connections the delays only grow,
\* every refused connection takes the next one, and connecting starts them over.
THEOREM BackoffReset == Spec => BackoffStartsOver
<1>. DEFINE Over == /\ IF gateway' THEN backoff' = 0 ELSE backoff' >= backoff
                    /\ loop = "connect" /\ loop' = "backoff"
                          => backoff' > backoff \/ backoff' = MaxBackoff
<1>1. ASSUME TypeOK, HubInv, [Next]_vars
      PROVE  Over
  <2>1. TypeOK' /\ HubInv'
    BY <1>1, StepKeeps
  <2>2. backoff \in 0 .. MaxBackoff /\ backoff' \in 0 .. MaxBackoff
    BY <1>1, <2>1 DEF TypeOK
  <2>3. gateway' => backoff' = 0
    BY <2>1 DEF HubInv, BackoffUnused
  <2>4. ~gateway' => Over
    BY <1>1, <2>2, BackoffMoves, HubAssumption DEF NextBackoff
  <2>5. gateway' => ~(loop = "connect" /\ loop' = "backoff")
    BY <1>1, BackoffMoves
  <2>. QED BY <2>3, <2>4, <2>5
<1>2. TypeOK /\ HubInv /\ [Next]_vars => [Over]_vars
  BY <1>1
<1>. QED BY <1>2, HubKeepsInv, PTL DEF Spec, BackoffStartsOver

-----------------------------------------------------------------------------
(***************************************************************************)
(* Two theorems on top of the inductive invariant: a scan has the bus to   *)
(* itself, and stop() is final.                                            *)
(***************************************************************************)

-----------------------------------------------------------------------------
(***************************************************************************)
(* The scan.                                                               *)
(***************************************************************************)

\* Steps after which no call waits that did not wait before.
LEMMA FewerCalls ==
  ASSUME ScanAlone, UNCHANGED scan,
         \A c \in Caller : call'[c] = "pending" => call[c] = "pending",
         scan = "bus" => bus' \in {"probe", "nobody"}
  PROVE  ScanAlone'
BY DEF ScanAlone

LEMMA WorkerKeepsScan ==
  ASSUME TypeOK, HubInv, ScanAlone, WorkerStep
  PROVE  ScanAlone'
<1>0. BusHasCall /\ call \in [Caller -> CallState] /\ Control \subseteq Caller \ {"probe"}
      /\ "poll" \in Caller \ {"probe"}
  BY HubAssumption DEF HubInv, TypeOK, CallState, Caller
<1>1. ASSUME NEW calls, NEW up, TakeNext(calls, up), UNCHANGED scan,
             \A c \in Caller : calls[c] = "pending" => call[c] = "pending"
      PROVE  ScanAlone'
  <2>1. call' = calls /\ (bus' = "nobody" \/ (bus' \in Caller /\ calls[bus'] = "pending"))
    BY <1>1, TakeNextFacts
  <2>2. scan = "bus" => bus' \in {"probe", "nobody"}
    BY <1>1, <2>1 DEF ScanAlone
  <2>. QED BY <1>1, <2>1, <2>2, FewerCalls
<1>2. CASE WorkerWakes
  BY <1>1, <1>2 DEF WorkerWakes
<1>3. CASE WorkerConnects
  BY <1>3, FewerCalls DEF WorkerConnects, ScanAlone
<1>4. ASSUME NEW o \in {"result", "refused"}, WorkerAnswered(o)
      PROVE  ScanAlone'
  <2>1. \A c \in Caller : Settled(o)[c] = "pending" => call[c] = "pending"
    BY <1>0, SettledFacts DEF Outcome
  <2>. QED BY <1>1, <1>4, <2>1 DEF WorkerAnswered
<1>5. CASE WorkerFails
  <2>1. PICK o \in {"failed", "gateway"} : TakeNext(Discards(Settled(o)), FALSE)
    BY <1>5 DEF WorkerFails
  <2>2. /\ Settled(o) \in [Caller -> CallState]
        /\ \A c \in Caller : Settled(o)[c] = "pending" => call[c] = "pending"
    BY <1>0, SettledFacts DEF Outcome
  <2>3. \A c \in Caller : Discards(Settled(o))[c] = "pending" => Settled(o)[c] = "pending"
    BY <2>2, DiscardsFacts
  <2>. QED BY <1>1, <1>5, <2>1, <2>2, <2>3 DEF WorkerFails
<1>. QED BY <1>2, <1>3, <1>4, <1>5 DEF WorkerStep

\* A round takes no step while a scan has the lock.
LEMMA NoRoundInScan ==
  ASSUME TypeOK, HubInv, RoundStep
  PROVE  ~Scanning /\ UNCHANGED scan
<1>1. at # 0
  <2>1. OneBusUser /\ Slaves \in Nat
    BY HubAssumption DEF HubInv
  <2>2. at \in Device \/ at = Slaves + 1
    BY <2>1 DEF RoundStep, PollSlave, RoundCut, AskPoll, PollSucceeds, PollFails, PollLosesGateway,
       PollClosed, RoundOver, OneBusUser
  <2>. QED BY <2>1, <2>2 DEF Device
<1>2. ~Scanning
  BY <1>1 DEF HubInv, OneBusUser
<1>3. UNCHANGED scan
  BY DEF RoundStep, PollSlave, RoundCut, PollSucceeds, PollFails, PollLosesGateway, PollClosed,
     RoundOver
<1>. QED BY <1>2, <1>3

\* The task of somebody else is cancelled: the scan does not notice.
LEMMA AbortKeepsScan ==
  ASSUME TypeOK, HubInv, ScanAlone, NEW who \in User \ {"scan"}, Abort(who, "poll"),
         UNCHANGED scan
  PROVE  ScanAlone'
<1>. SUFFICES ASSUME scan = "bus" PROVE ScanAlone'
  BY DEF ScanAlone
<1>1. lock # who
  BY DEF HubInv, OneBusUser, Scanning
<1>2. UNCHANGED <<call, bus>>
  BY <1>1 DEF Abort
<1>. QED BY <1>2 DEF ScanAlone

LEMMA NextKeepsScan ==
  ASSUME TypeOK, HubInv, ScanAlone, [Next]_vars
  PROVE  ScanAlone'
<1>0. call \in [Caller -> CallState] /\ Control \subseteq Caller \ {"probe"} /\ "probe" \in Caller
  BY HubAssumption DEF TypeOK, CallState, Caller
<1>1. CASE UNCHANGED vars
  BY <1>1 DEF vars, busVars, ScanAlone
<1>2. CASE WorkerStep
  BY <1>2, WorkerKeepsScan
<1>3. ASSUME NEW calls \in [Caller -> CallState], GatewayLost(calls), UNCHANGED <<scan, bus>>,
             \A c \in Caller : calls[c] = "pending" => call[c] = "pending"
      PROVE  ScanAlone'
  <2>1. \A c \in Caller : call'[c] = "pending" => call[c] = "pending"
    BY <1>3, DiscardsFacts DEF GatewayLost
  <2>. QED BY <1>3, <2>1, FewerCalls DEF ScanAlone
<1>4. CASE LinkLost
  BY <1>0, <1>3, <1>4 DEF LinkLost
<1>5. CASE LoopStep
  BY <1>5 DEF LoopStep, LoopWakes, BackoffOver, LoopConnects, LoopConnectFails, busVars, roundVars,
     ScanAlone
<1>6. CASE Grant
  BY <1>6 DEF Grant, busVars, ScanAlone
<1>7. CASE RoundStep
  BY <1>7, NoRoundInScan DEF Scanning, ScanAlone
<1>8. ASSUME NEW c \in Control, ControlAsks(c)
      PROVE  ScanAlone'
  BY <1>8 DEF ControlAsks, ControlChecked, Scanning, ScanAlone
<1>9. ASSUME NEW c \in Control, ControlReturns(c)
      PROVE  ScanAlone'
  <2>. DEFINE calls == [call EXCEPT ![c] = "idle"]
  <2>1. calls \in [Caller -> CallState]
        /\ \A d \in Caller : calls[d] = "pending" => call[d] = "pending"
    BY <1>0 DEF CallState
  <2>2. GatewayLost(calls) /\ UNCHANGED <<scan, bus>>
    BY <1>9 DEF ControlReturns, busVars
  <2>. HIDE DEF calls
  <2>. QED BY <1>3, <2>1, <2>2
<1>10. CASE RefreshAsks \/ SetSchedule \/ StartConnects
  BY <1>10 DEF RefreshAsks, SetSchedule, StartConnects, roundVars, busVars, ScanAlone
<1>16. CASE StopBegins
  <2>1. CASE Abort("start", "poll")
    BY <1>16, <2>1, AbortKeepsScan DEF StopBegins, User
  <2>. QED BY <1>16, <2>1 DEF StopBegins, busVars, ScanAlone
<1>11. CASE RefreshCancelled
  BY <1>11, AbortKeepsScan DEF RefreshCancelled, User
<1>12. CASE LoopCancelled
  BY <1>12, AbortKeepsScan DEF LoopCancelled, User
<1>13. CASE CloseTransport
  <2>1. \A c \in Caller : call'[c] # "pending"
    BY <1>0, <1>13 DEF CloseTransport, Told
  <2>. QED BY <1>13, <2>1 DEF CloseTransport, ScanAlone
<1>14. CASE ScanAsks \/ ScanEnds \/ ScanCancelled
  BY <1>14 DEF ScanAsks, ScanEnds, ScanCancelled, ScanAlone
<1>15. CASE ScanProbes
  <2>1. /\ bus' = bus /\ \A c \in Caller \ {"probe"} : call'[c] = call[c]
        /\ \/ bus = "nobody" /\ \A c \in Caller : call[c] # "pending"
           \/ scan = "bus"
    BY <1>0, <1>15 DEF ScanProbes, BusIdle, busVars
  <2>. QED BY <2>1 DEF ScanAlone
<1>. QED
  BY <1>1, <1>2, <1>4, <1>5, <1>6, <1>7, <1>8, <1>9, <1>10, <1>11, <1>12, <1>13, <1>14, <1>15, <1>16
  DEF Next, StopStep

\* While a scan probes, no control and no poll waits or is under way, for any
\* number of callers and devices and whatever is cancelled.
THEOREM ScanHasTheHub == Spec => []ScanAlone
<1>1. Init => ScanAlone
  BY DEF Init, ScanAlone
<1>2. TypeOK /\ HubInv /\ ScanAlone /\ [Next]_vars => ScanAlone'
  BY NextKeepsScan
<1>. QED BY <1>1, <1>2, HubKeepsInv, PTL DEF Spec

-----------------------------------------------------------------------------
(***************************************************************************)
(* stop().  It is final because nobody can start the loop again: neither   *)
(* Hub.start nor the loop waits for the lock or has it then.               *)
(***************************************************************************)

Waits(who) == \E i \in DOMAIN waiters : waiters[i] = who
Once(who) == \A i, j \in DOMAIN waiters : waiters[i] = who /\ waiters[j] = who => i = j

\* Where start() and the loop are, as the lock and its queue have it.
Turns ==
  /\ Once("start") /\ Once("loop")
  /\ Waits("start") => hub = "polling"
  /\ lock = "start" => hub = "polling" /\ ~Waits("start")
  /\ hub \in {"new", "polling"} => loop = "off"
  /\ Waits("loop") => loop \in {"turn", "lock"}
  /\ lock = "loop" => loop \in {"connect", "round"}

Final ==
  hub = "stopped" => /\ loop \in {"off", "done"} /\ ~link
                     /\ bus = "nobody" /\ phase = "idle"
                     /\ \A c \in Caller : call[c] # "pending"

LEMMA JoinFacts ==
  ASSUME waiters \in Seq(User), NEW who \in User, waiters' = Append(waiters, who), NEW u
  PROVE  /\ u # who => (Waits(u)' => Waits(u)) /\ (Once(u) => Once(u)')
         /\ ~Waits(who) => Once(who)'
<1>1. /\ DOMAIN waiters = 1 .. Len(waiters) /\ Len(waiters) \in Nat
      /\ DOMAIN waiters' = 1 .. (Len(waiters) + 1)
      /\ \A i \in 1 .. Len(waiters) : waiters'[i] = waiters[i]
      /\ waiters'[Len(waiters) + 1] = who
  BY AppendFacts
<1>2. \A i \in DOMAIN waiters' : i \in DOMAIN waiters \/ i = Len(waiters) + 1
  BY <1>1
<1>. QED BY <1>1, <1>2 DEF Waits, Once

LEMMA LeaveFacts ==
  ASSUME waiters \in Seq(User), NEW who, Leave(who), NEW u
  PROVE  /\ Waits(u)' => Waits(u)
         /\ Once(u) => Once(u)'
         /\ Once(who) => ~Waits(who)'
<1>1. CASE (\A i \in DOMAIN waiters : waiters[i] # who) /\ waiters' = waiters
  BY <1>1 DEF Waits, Once
<1>2. ASSUME NEW i \in DOMAIN waiters, waiters[i] = who, waiters' = RemoveAt(waiters, i)
      PROVE  /\ Waits(u)' => Waits(u)
             /\ Once(u) => Once(u)'
             /\ Once(who) => ~Waits(who)'
  <2>. DEFINE From(j) == IF j < i THEN j ELSE j + 1
  <2>1. /\ DOMAIN waiters = 1 .. Len(waiters) /\ Len(waiters) \in Nat
        /\ DOMAIN waiters' = 1 .. (Len(waiters) - 1)
        /\ \A j \in 1 .. (Len(waiters) - 1) : waiters'[j] = waiters[From(j)]
    BY <1>2, RemoveAtFacts
  <2>2. \A j \in DOMAIN waiters' : From(j) \in DOMAIN waiters /\ From(j) # i
    BY <2>1
  <2>3. \A j, k \in DOMAIN waiters' : From(j) = From(k) => j = k
    BY <2>1
  <2>4. \A j \in DOMAIN waiters' : waiters'[j] = waiters[From(j)]
    BY <2>1
  <2>. HIDE DEF From
  <2>. QED BY <1>2, <2>2, <2>3, <2>4 DEF Waits, Once
<1>. QED BY <1>1, <1>2 DEF Leave

LEMMA TailTurns ==
  ASSUME waiters \in Seq(User), waiters # <<>>, waiters' = Tail(waiters), NEW u
  PROVE  /\ Waits(u)' => Waits(u)
         /\ Once(u) => Once(u)'
         /\ Waits(Head(waiters))
         /\ u = Head(waiters) /\ Once(u) => ~Waits(u)'
<1>1. /\ Head(waiters) = waiters[1]
      /\ DOMAIN waiters = 1 .. Len(waiters) /\ Len(waiters) \in Nat \ {0}
      /\ DOMAIN waiters' = 1 .. (Len(waiters) - 1)
      /\ \A j \in 1 .. (Len(waiters) - 1) : waiters'[j] = waiters[j + 1]
  BY TailFacts
<1>2. 1 \in DOMAIN waiters /\ \A j \in DOMAIN waiters' : j + 1 \in DOMAIN waiters /\ j + 1 # 1
  BY <1>1
<1>3. \A j, k \in DOMAIN waiters' : j + 1 = k + 1 => j = k
  BY <1>1
<1>. QED BY <1>1, <1>2, <1>3 DEF Waits, Once

\* Steps that leave the queue of the lock and the loop alone.
LEMMA QuietTurns ==
  ASSUME Turns, UNCHANGED <<waiters, loop>>, lock' \in {lock, "free"},
         hub' = hub \/ (hub # "polling" /\ hub' \notin {"new", "polling"})
  PROVE  Turns'
BY DEF Turns, Waits, Once

LEMMA RoundTurns ==
  ASSUME Turns, NEW g, RoundEnds(g), UNCHANGED waiters
  PROVE  Turns'
<1>1. CASE lock = "loop"
  BY <1>1 DEF RoundEnds, Turns, Waits, Once
<1>2. CASE lock = "refresh"
  BY <1>2 DEF RoundEnds, Turns, Waits, Once
<1>3. CASE lock = "start"
  BY <1>3 DEF RoundEnds, Turns, Waits, Once
<1>. QED BY <1>1, <1>2, <1>3 DEF RoundEnds

LEMMA RoundStepTurns ==
  ASSUME Turns, RoundStep
  PROVE  Turns'
<1>1. CASE PollSlave
  BY <1>1, QuietTurns DEF PollSlave, roundVars
<1>2. CASE RoundCut \/ PollLosesGateway \/ PollClosed \/ RoundOver
  BY <1>2, RoundTurns DEF RoundCut, PollLosesGateway, PollClosed, RoundOver
<1>3. ASSUME NEW w, NextSlave(w), UNCHANGED waiters
      PROVE  Turns'
  <2>1. RoundEnds(gateway) \/ UNCHANGED <<hub, loop, lock>>
    BY <1>3 DEF NextSlave
  <2>. QED BY <1>3, <2>1, RoundTurns, QuietTurns
<1>4. CASE PollSucceeds \/ PollFails
  BY <1>3, <1>4 DEF PollSucceeds, PollFails
<1>. QED BY <1>1, <1>2, <1>4 DEF RoundStep

\* The loop is not in the queue before its own step; it joins for its turn.
LEMMA LoopStepTurns ==
  ASSUME TypeOK, Turns, LoopStep
  PROVE  Turns'
<1>1. /\ loop \in {"new", "wait", "pace", "backoff", "connect"}
      /\ loop' \in {"backoff", "wait", "turn", "lock"}
      /\ loop' \in {"turn", "lock"} => waiters' = Append(waiters, "loop")
      /\ loop' \notin {"turn", "lock"} => waiters' = waiters
      /\ hub' = hub
      /\ lock' = (IF loop = "connect" THEN "free" ELSE lock)
  BY DEF LoopStep, LoopWakes, BackoffOver, LoopConnects, LoopConnectFails, LoopTop, roundVars
<1>2. ~Waits("loop") /\ hub \notin {"new", "polling"} /\ ~Waits("start") /\ lock # "start"
      /\ lock' # "loop"
  BY <1>1 DEF Turns
<1>3. ~Waits("start")' /\ Once("start")' /\ Once("loop")'
  <2>1. CASE waiters' = waiters
    BY <1>2, <2>1 DEF Turns, Waits, Once
  <2>2. CASE waiters' = Append(waiters, "loop")
    BY <1>2, <2>2, JoinFacts DEF Turns, TypeOK, User
  <2>. QED BY <1>1, <2>1, <2>2
<1>4. Waits("loop")' => loop' \in {"turn", "lock"}
  BY <1>1, <1>2 DEF Waits
<1>. QED BY <1>1, <1>2, <1>3, <1>4 DEF Turns

LEMMA GrantTurns ==
  ASSUME TypeOK, Turns, Grant
  PROVE  Turns'
<1>1. /\ waiters \in Seq(User) /\ waiters # <<>> /\ waiters' = Tail(waiters)
      /\ lock' = Head(waiters) /\ hub' = hub
      /\ loop' = (IF lock' # "loop" THEN loop ELSE IF loop = "lock" THEN "connect" ELSE "round")
  BY DEF Grant, TypeOK
<1>2. /\ Waits("start")' => Waits("start")
      /\ Waits("loop")' => Waits("loop")
      /\ Once("start")' /\ Once("loop")'
      /\ lock' = "start" => Waits("start") /\ ~Waits("start")'
      /\ lock' = "loop" => Waits("loop") /\ ~Waits("loop")'
  BY <1>1, TailTurns DEF Turns
<1>3. CASE lock' = "loop"
  BY <1>1, <1>2, <1>3 DEF Turns
<1>4. CASE lock' # "loop"
  BY <1>1, <1>2, <1>4 DEF Turns
<1>. QED BY <1>3, <1>4

LEMMA AbortTurns ==
  ASSUME TypeOK, Turns, NEW who, NEW own, Abort(who, own),
         loop' = (IF who = "loop" THEN "done" ELSE loop),
         who = "loop" => hub \notin {"new", "polling"},
         hub' = hub \/ (who = "start" /\ hub = "polling" /\ hub' = "stopping")
  PROVE  Turns'
<1>1. /\ Leave(who) /\ waiters \in Seq(User)
      /\ lock' = (IF lock = who THEN "free" ELSE lock)
  BY DEF Abort, TypeOK
<1>2. /\ Waits("start")' => Waits("start")
      /\ Waits("loop")' => Waits("loop")
      /\ Once("start")' /\ Once("loop")'
      /\ who = "loop" => ~Waits("loop")'
      /\ who = "start" => ~Waits("start")'
  BY <1>1, LeaveFacts DEF Turns
<1>. QED BY <1>1, <1>2 DEF Turns

LEMMA NextKeepsTurns ==
  ASSUME TypeOK, Turns, [Next]_vars
  PROVE  Turns'
<1>1. CASE UNCHANGED vars \/ WorkerStep \/ LinkLost \/ SetSchedule \/ CloseTransport
  BY <1>1, QuietTurns
  DEF vars, WorkerStep, WorkerWakes, WorkerConnects, WorkerAnswered, WorkerFails, LinkLost,
      SetSchedule, CloseTransport, roundVars
<1>2. ASSUME NEW c \in Control, ControlAsks(c) \/ ControlReturns(c)
      PROVE  Turns'
  BY <1>2, QuietTurns DEF ControlAsks, ControlReturns, roundVars
<1>3. CASE ScanProbes \/ ScanEnds
  BY <1>3, QuietTurns DEF ScanProbes, ScanEnds, roundVars
<1>4. CASE LoopStep
  BY <1>4, LoopStepTurns
<1>5. CASE Grant
  BY <1>5, GrantTurns
<1>6. CASE RoundStep
  BY <1>6, RoundStepTurns
<1>7. ASSUME NEW who \in {"refresh", "scan"}, waiters' = Append(waiters, who),
             UNCHANGED <<hub, loop, lock>>
      PROVE  Turns'
  <2>1. \A u \in {"start", "loop"} : (Waits(u)' => Waits(u)) /\ (Once(u) => Once(u)')
    BY <1>7, JoinFacts DEF TypeOK, User
  <2>. QED BY <1>7, <2>1 DEF Turns
<1>8. CASE RefreshAsks \/ ScanAsks
  BY <1>7, <1>8 DEF RefreshAsks, ScanAsks, roundVars
<1>9. CASE RefreshCancelled \/ ScanCancelled \/ LoopCancelled
  BY <1>9, AbortTurns DEF RefreshCancelled, ScanCancelled, LoopCancelled
<1>11. CASE StopBegins
  <2>1. CASE hub # "polling" /\ UNCHANGED <<waiters, lock>>
    BY <1>11, <2>1, QuietTurns DEF StopBegins
  <2>2. CASE hub = "polling" /\ Abort("start", "poll")
    BY <1>11, <2>2, AbortTurns DEF StopBegins
  <2>. QED BY <1>11, <2>1, <2>2 DEF StopBegins
<1>10. CASE StartConnects
  <2>1. /\ hub = "new" /\ hub' = "polling" /\ waiters' = Append(waiters, "start")
        /\ UNCHANGED <<loop, lock>>
    BY <1>10 DEF StartConnects, roundVars
  <2>2. ~Waits("start") /\ lock # "start" /\ ~Waits("loop") /\ lock # "loop" /\ loop = "off"
    BY <2>1 DEF Turns
  <2>3. Once("start")' /\ Once("loop")' /\ ~Waits("loop")'
    BY <2>1, <2>2, JoinFacts DEF Turns, TypeOK, User
  <2>. QED BY <2>1, <2>2, <2>3 DEF Turns
<1>. QED BY <1>1, <1>2, <1>3, <1>4, <1>5, <1>6, <1>8, <1>9, <1>10, <1>11 DEF Next, StopStep

\* Steps after which nothing is under way that was not before.
LEMMA QuietFinal ==
  ASSUME Final, UNCHANGED <<hub, loop, bus>>, link' => link, phase' = phase \/ phase = "exchange",
         \A c \in Caller : call'[c] = "pending" => call[c] = "pending"
  PROVE  Final'
BY DEF Final

LEMMA NextKeepsFinal ==
  ASSUME TypeOK, HubInv, Turns, Final, [Next]_vars
  PROVE  Final'
<1>0. call \in [Caller -> CallState] /\ Control \subseteq Caller
      /\ "poll" \in Caller /\ "probe" \in Caller
  BY HubAssumption DEF TypeOK, CallState, Caller
<1>1. CASE CloseTransport
  <2>1. /\ loop' \in {"off", "done"} /\ ~link' /\ bus' = "nobody" /\ phase' = "idle"
    BY <1>1 DEF CloseTransport, LoopGone
  <2>2. \A c \in Caller : call'[c] # "pending"
    BY <1>0, <1>1 DEF CloseTransport, Told
  <2>. QED BY <2>1, <2>2 DEF Final
<1>2. CASE hub # "stopped" /\ ~CloseTransport
  <2>1. hub' # "stopped"
    BY <1>2
    DEF vars, Next, StartConnects, StopBegins, StopStep, LoopCancelled, Abort,
        WorkerStep, WorkerWakes, WorkerConnects, WorkerAnswered, WorkerFails, LinkLost,
        LoopStep, LoopWakes, BackoffOver, LoopConnects, LoopConnectFails, Grant,
        RoundStep, PollSlave, RoundCut, PollSucceeds, PollFails, PollLosesGateway, PollClosed,
        RoundOver, NextSlave, RoundEnds, ControlAsks, ControlReturns, RefreshAsks,
        RefreshCancelled, ScanAsks, ScanProbes, ScanEnds, ScanCancelled, SetSchedule
  <2>. QED BY <2>1 DEF Final
<1>3. CASE hub = "stopped"
  <2>0. /\ loop \in {"off", "done"} /\ ~link /\ bus = "nobody" /\ phase = "idle"
        /\ \A c \in Caller : call[c] # "pending"
        /\ lock \notin {"start", "loop"} /\ ~Waits("loop")
    BY <1>3 DEF Final, Turns
  <2>1. CASE UNCHANGED vars
    BY <2>1, QuietFinal DEF vars, busVars
  <2>2. ~WorkerStep /\ ~LinkLost /\ ~LoopStep /\ ~StartConnects /\ ~StopBegins /\ ~StopStep
    BY <1>3, <2>0
    DEF WorkerStep, WorkerWakes, BusIdle, WorkerConnects, WorkerAnswered, WorkerFails, LinkLost,
        LoopStep, LoopWakes, BackoffOver, LoopConnects, LoopConnectFails,
        StartConnects, StopBegins, StopStep, LoopCancelled, CloseTransport
  <2>3. CASE Grant
    <3>1. lock' # "loop"
      BY <2>0, <2>3, TailTurns DEF Grant, TypeOK
    <3>. QED BY <2>3, <3>1, QuietFinal DEF Grant, busVars
  <2>4. CASE RoundStep
    <3>1. ASSUME NEW g, RoundEnds(g) PROVE hub' = hub /\ loop' = loop
      BY <2>0, <3>1 DEF RoundEnds
    <3>2. ~PollSlave
      BY <1>3 DEF PollSlave, Closed
    <3>3. CASE RoundCut \/ RoundOver
      BY <3>1, <3>3, QuietFinal DEF RoundCut, RoundOver, busVars
    <3>4. ASSUME call' = [call EXCEPT !["poll"] = "idle"]
          PROVE  \A c \in Caller : call'[c] # "pending"
      BY <1>0, <2>0, <3>4
    <3>5. CASE PollClosed
      BY <3>1, <3>4, <3>5, QuietFinal DEF PollClosed, busVars
    <3>6. ASSUME NEW w, NextSlave(w), UNCHANGED bus
          PROVE  Final'
      <4>0. /\ RoundEnds(gateway) \/ UNCHANGED <<hub, loop>>
            /\ UNCHANGED <<link, phase>> \/ Disconnects
        BY <3>6 DEF NextSlave
      <4>1. hub' = hub /\ loop' = loop
        BY <3>1, <4>0
      <4>3. (link' => link) /\ phase' = phase
        BY <2>0, <4>0 DEF Disconnects
      <4>2. \A c \in Caller : call'[c] # "pending"
        BY <3>4, <3>6 DEF NextSlave
      <4>. QED BY <3>6, <4>1, <4>2, <4>3, QuietFinal
    <3>7. CASE PollSucceeds \/ PollFails
      BY <3>6, <3>7 DEF PollSucceeds, PollFails
    <3>8. CASE PollLosesGateway
      <4>. DEFINE calls == [call EXCEPT !["poll"] = "idle"]
      <4>1. calls \in [Caller -> CallState] /\ \A c \in Caller : calls[c] # "pending"
        BY <1>0, <2>0 DEF CallState
      <4>2. GatewayLost(calls) /\ UNCHANGED busVars /\ hub' = hub /\ loop' = loop
        BY <3>1, <3>8 DEF PollLosesGateway
      <4>. HIDE DEF calls
      <4>3. \A c \in Caller : call'[c] # "pending"
        BY <4>1, <4>2, DiscardsFacts DEF GatewayLost
      <4>. QED BY <4>2, <4>3, QuietFinal DEF busVars
    <3>. QED BY <2>4, <3>2, <3>3, <3>5, <3>7, <3>8 DEF RoundStep
  <2>5. ASSUME NEW c \in Caller, GatewayLost([call EXCEPT ![c] = "idle"]),
               UNCHANGED <<hub, loop, busVars>>
        PROVE  Final'
    <3>. DEFINE calls == [call EXCEPT ![c] = "idle"]
    <3>1. calls \in [Caller -> CallState] /\ \A d \in Caller : calls[d] # "pending"
      BY <1>0, <2>0 DEF CallState
    <3>2. GatewayLost(calls)
      BY <2>5
    <3>. HIDE DEF calls
    <3>3. \A d \in Caller : call'[d] # "pending"
      BY <3>1, <3>2, DiscardsFacts DEF GatewayLost
    <3>. QED BY <2>5, <3>3, QuietFinal DEF busVars
  <2>6. ASSUME NEW c \in Control, ControlAsks(c) \/ ControlReturns(c)
        PROVE  Final'
    <3>1. ~ControlAsks(c)
      BY <1>3 DEF ControlAsks
    <3>2. GatewayLost([call EXCEPT ![c] = "idle"]) /\ UNCHANGED <<hub, loop, busVars>>
      BY <2>6, <3>1 DEF ControlReturns
    <3>. QED BY <1>0, <2>5, <3>2
  <2>7. CASE RefreshAsks \/ ScanAsks \/ SetSchedule
    BY <2>7, QuietFinal DEF RefreshAsks, ScanAsks, SetSchedule, busVars
  <2>8. ASSUME NEW who, NEW own \in Caller, Abort(who, own), UNCHANGED <<hub, loop>>
        PROVE  Final'
    <3>1. \A c \in Caller : call'[c] # "pending"
      BY <1>0, <2>0, <2>8 DEF Abort
    <3>2. UNCHANGED <<bus, link, phase>>
      BY <2>0, <2>8, HubAssumption DEF Abort, Caller
    <3>. QED BY <2>8, <3>1, <3>2, QuietFinal
  <2>9. CASE RefreshCancelled \/ ScanCancelled
    BY <1>0, <2>8, <2>9 DEF RefreshCancelled, ScanCancelled
  <2>10. ~ScanProbes
    BY <1>3 DEF ScanProbes, Closed
  <2>11. CASE ScanEnds
    <3>1. UNCHANGED <<hub, loop, busVars>>
      BY <2>11 DEF ScanEnds
    <3>2. CASE GatewayLost([call EXCEPT !["probe"] = "idle"])
      BY <1>0, <2>5, <3>1, <3>2
    <3>3. CASE call' = [call EXCEPT !["probe"] = "idle"]
      <4>1. \A c \in Caller : call'[c] # "pending"
        BY <1>0, <2>0, <3>3
      <4>. QED BY <3>1, <4>1, QuietFinal DEF busVars
    <3>. QED BY <2>11, <3>2, <3>3 DEF ScanEnds
  <2>. QED BY <2>1, <2>2, <2>3, <2>4, <2>6, <2>7, <2>9, <2>10, <2>11 DEF Next
<1>. QED BY <1>1, <1>2, <1>3

\* After stop() the loop, the connection and every call are gone for good, in
\* whatever state setup, polling, a scan or a refresh was when it came.
THEOREM StopIsFinal == Spec => []StoppedIsFinal
<1>1. Init => Turns /\ Final
  BY DEF Init, Turns, Final, Waits, Once
<1>2. TypeOK /\ HubInv /\ Turns /\ Final /\ [Next]_vars => Turns' /\ Final'
  BY NextKeepsTurns, NextKeepsFinal
<1>3. Final => StoppedIsFinal
  BY DEF Final, StoppedIsFinal
<1>. QED BY <1>1, <1>2, <1>3, HubKeepsInv, PTL DEF Spec

=============================================================================
