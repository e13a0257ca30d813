--------------------------- MODULE Options_proofs ---------------------------
(***************************************************************************)
(* Configured devices, the config entry and its options flows: what is     *)
(* proved of them for all slaves, Covers, S402 and open dialogs.           *)
(***************************************************************************)
EXTENDS OptionsFlow, TLAPS

-----------------------------------------------------------------------------
(***************************************************************************)
(* Devices and the entities made of them.                                  *)
(***************************************************************************)

LEMMA DeviceFacts ==
  ASSUME NEW d \in Device
  PROVE  d.model \in Model /\ d.mode \in [Groups(d.model) -> GroupMode]
BY DEF Device

LEMMA FreshDevice ==
  ASSUME NEW m \in Model
  PROVE  Fresh(m) \in Device /\ Fresh(m).model = m
<1>1. Fresh(m) \in [model : {m}, mode : [Groups(m) -> GroupMode]]
  BY DEF Fresh, GroupMode
<1>. QED BY <1>1 DEF Device, Fresh

\* A list is one of its type when its keys and values are.
LEMMA DeviceListIs ==
  ASSUME NEW S \in SUBSET Slave, NEW d \in [S -> Device]
  PROVE  d \in DeviceLists
BY DEF DeviceLists

LEMMA DeviceListHas ==
  ASSUME NEW d \in DeviceLists
  PROVE  DOMAIN d \subseteq Slave /\ \A s \in DOMAIN d : d[s] \in Device
BY DEF DeviceLists

LEMMA S402ListIs ==
  ASSUME NEW I \in SUBSET S402Id, NEW l \in [I -> {"once", "again"}]
  PROVE  l \in S402Lists
BY DEF S402Lists

LEMMA S402ListHas ==
  ASSUME NEW l \in S402Lists
  PROVE  DOMAIN l \subseteq S402Id /\ \A i \in DOMAIN l : l[i] \in {"once", "again"}
BY DEF S402Lists

LEMMA CoverListIs ==
  ASSUME NEW C \in SUBSET CoverId, NEW l \in [C -> [slave : Slave, relays : RelaySets]]
  PROVE  l \in CoverLists
BY DEF CoverLists

LEMMA CoverListHas ==
  ASSUME NEW l \in CoverLists
  PROVE  /\ DOMAIN l \subseteq CoverId
         /\ \A c \in DOMAIN l : l[c].slave \in Slave /\ l[c].relays \in RelaySets
                                /\ l[c] \in [slave : Slave, relays : RelaySets]
BY DEF CoverLists

LEMMA OptionsFields ==
  ASSUME NEW o \in Options
  PROVE  /\ o.devices \in DeviceLists /\ o.s402 \in S402Lists /\ o.covers \in CoverLists
         /\ o # None
BY NoneAssumption DEF Options

\* The identities of what is created depend on the lists alone, and are among
\* those that pruning keeps.
LEMMA CreatedSame ==
  ASSUME NEW o, NEW p, SameLists(o, p)
  PROVE  CreatedIds(o) = CreatedIds(p) /\ Expected(o) = Expected(p) /\ (Loadable(o) <=> Loadable(p))
<1>1. Lights(o) = Lights(p)
  BY DEF Lights, SameLists
<1>2. Switches(o) = Switches(p)
  BY DEF Switches, SameLists, FreeRelay
<1>3. CoverEntities(o) = CoverEntities(p) /\ Inputs(o) = Inputs(p)
  BY DEF CoverEntities, Inputs, SameLists
<1>. QED BY <1>1, <1>2, <1>3 DEF CreatedIds, Created, Expected, SameLists, Loadable

LEMMA CreatedExpected ==
  ASSUME NEW o
  PROVE  CreatedIds(o) \subseteq Expected(o)
<1>1. Ids(Lights(o)) \subseteq PhysicalIds(o.devices)
  BY DEF Lights, Ids, PhysicalIds
<1>2. Ids(Switches(o)) \subseteq PhysicalIds(o.devices)
  BY DEF Switches, Ids, PhysicalIds
<1>3. CreatedIds(o) = Ids(Lights(o)) \cup Ids(Switches(o)) \cup Inputs(o) \cup Ids(CoverEntities(o))
  BY DEF CreatedIds, Created
<1>. QED BY <1>1, <1>2, <1>3 DEF Expected

-----------------------------------------------------------------------------
(***************************************************************************)
(* One entity drives each register.                                        *)
(***************************************************************************)

\* The groups of a dimmer do not overlap and leave no channel out.
LEMMA DimmerOutput ==
  ASSUME NEW s, NEW d \in Device, ~IsRelay(d.model), NEW r \in Registers(d.model)
  PROVE  \E out \in Outputs(s, d) :
            r \in out.registers /\ \A u \in Outputs(s, d) : r \in u.registers => u = out
<1>1. PICK g \in Groups(d.model) : r \in {2 * g, 2 * g + 1}
  <2>1. CASE d.model = "p404"
    <3>1. r \in 0 .. 3 /\ Groups(d.model) = {0, 1}
      BY <2>1 DEF Registers, Groups
    <3>. QED BY <3>1
  <2>2. CASE d.model = "p210"
    <3>1. r \in 0 .. 1 /\ Groups(d.model) = {0}
      BY <2>2 DEF Registers, Groups
    <3>. QED BY <3>1
  <2>. QED BY <2>1, <2>2, DeviceFacts DEF Model, IsRelay
<1>2. \A h \in Groups(d.model) : h \in Int /\ d.mode[h] \in GroupMode
  BY DeviceFacts DEF Groups, Model
<1>3. Outputs(s, d) = UNION {GroupOutputs(s, d, h) : h \in Groups(d.model)}
  BY DEF Outputs
<1>4. \A h \in Groups(d.model) : \A u \in GroupOutputs(s, d, h) : r \in u.registers => h = g
  <2>. SUFFICES ASSUME NEW h \in Groups(d.model), NEW u \in GroupOutputs(s, d, h), r \in u.registers
                PROVE  h = g
    OBVIOUS
  <2>1. r \in {2 * h, 2 * h + 1}
    BY DEF GroupOutputs
  <2>. QED BY <1>1, <1>2, <2>1
<1>5. \E out \in GroupOutputs(s, d, g) :
        r \in out.registers /\ \A u \in GroupOutputs(s, d, g) : r \in u.registers => u = out
  <2>1. CASE d.mode[g] = "cct"
    BY <1>1, <2>1 DEF GroupOutputs
  <2>2. CASE d.mode[g] # "cct"
    <3>1. GroupOutputs(s, d, g) =
             {[id |-> <<"ch", s, c + 1>>, registers |-> {c}] : c \in {2 * g, 2 * g + 1}}
      BY <2>2 DEF GroupOutputs
    <3>2. [id |-> <<"ch", s, r + 1>>, registers |-> {r}] \in GroupOutputs(s, d, g)
      BY <1>1, <3>1
    <3>3. \A u \in GroupOutputs(s, d, g) :
             r \in u.registers => u = [id |-> <<"ch", s, r + 1>>, registers |-> {r}]
      BY <3>1
    <3>. QED BY <3>2, <3>3
  <2>. QED BY <2>1, <2>2
<1>. QED BY <1>3, <1>4, <1>5

LEMMA RelayOutput ==
  ASSUME NEW s, NEW d \in Device, IsRelay(d.model)
  PROVE  /\ Outputs(s, d) = {[id |-> <<"relay", s, r + 1>>, registers |-> {r}] : r \in 0 .. 3}
         /\ Registers(d.model) = 0 .. 3
BY DEF Outputs, Registers, IsRelay

\* Which entities can be at a slave.
LEMMA DriversAt ==
  ASSUME NEW o, NEW e \in Drivers(o)
  PROVE  \/ /\ e.slave \in DOMAIN o.devices /\ ~IsRelay(o.devices[e.slave].model)
            /\ \E out \in Outputs(e.slave, o.devices[e.slave]) :
                  e = [id |-> out.id, slave |-> e.slave, registers |-> out.registers]
         \/ /\ e.slave \in DOMAIN o.devices /\ IsRelay(o.devices[e.slave].model)
            /\ \E out \in Outputs(e.slave, o.devices[e.slave]) :
                  /\ FreeRelay(o, e.slave, out)
                  /\ e = [id |-> out.id, slave |-> e.slave, registers |-> out.registers]
         \/ \E c \in OnSlave(o.covers, e.slave) :
                  e = [id |-> <<"cover", e.slave, c>>, slave |-> e.slave,
                       registers |-> {r - 1 : r \in o.covers[c].relays}]
<1>1. CASE e \in Lights(o)
  <2>1. PICK s \in {t \in DOMAIN o.devices : ~IsRelay(o.devices[t].model)} :
          \E out \in Outputs(s, o.devices[s]) :
             e = [id |-> out.id, slave |-> s, registers |-> out.registers]
    BY <1>1 DEF Lights
  <2>. QED BY <2>1
<1>2. CASE e \in Switches(o)
  <2>1. PICK s \in {t \in DOMAIN o.devices : IsRelay(o.devices[t].model)} :
          \E out \in {u \in Outputs(s, o.devices[s]) : FreeRelay(o, s, u)} :
             e = [id |-> out.id, slave |-> s, registers |-> out.registers]
    BY <1>2 DEF Switches
  <2>. QED BY <2>1
<1>3. CASE e \in CoverEntities(o)
  <2>1. PICK c \in DOMAIN o.covers :
          e = [id |-> <<"cover", o.covers[c].slave, c>>, slave |-> o.covers[c].slave,
               registers |-> {r - 1 : r \in o.covers[c].relays}]
    BY <1>3 DEF CoverEntities
  <2>. QED BY <2>1 DEF OnSlave
<1>. QED BY <1>1, <1>2, <1>3 DEF Drivers

\* A channel of a dimmer.
LEMMA DimmerDriver ==
  ASSUME NEW o, ValidCovers(o.covers, o.devices), NEW s \in DOMAIN o.devices,
         o.devices[s] \in Device, ~IsRelay(o.devices[s].model),
         NEW r \in Registers(o.devices[s].model)
  PROVE  \E d \in Drivers(o) : \A e \in Drivers(o) :
            (e.slave = s /\ r \in e.registers) <=> e = d
<1>1. PICK out \in Outputs(s, o.devices[s]) :
        r \in out.registers /\ \A u \in Outputs(s, o.devices[s]) : r \in u.registers => u = out
  BY DimmerOutput
<1>. DEFINE d == [id |-> out.id, slave |-> s, registers |-> out.registers]
<1>2. d \in Drivers(o)
  BY DEF Drivers, Lights
<1>3. ASSUME NEW e \in Drivers(o), e.slave = s, r \in e.registers
      PROVE  e = d
  <2>1. ~\E c \in OnSlave(o.covers, s) : TRUE
    BY DEF OnSlave, ValidCovers
  <2>2. PICK u \in Outputs(s, o.devices[s]) :
          e = [id |-> u.id, slave |-> s, registers |-> u.registers]
    BY <1>3, <2>1, DriversAt
  <2>. QED BY <1>1, <1>3, <2>2
<1>. QED BY <1>1, <1>2, <1>3

LEMMA SwitchIs ==
  ASSUME NEW o, NEW s \in DOMAIN o.devices, IsRelay(o.devices[s].model),
         NEW out \in Outputs(s, o.devices[s]), FreeRelay(o, s, out)
  PROVE  [id |-> out.id, slave |-> s, registers |-> out.registers] \in Switches(o)
<1>. DEFINE Here == {u \in Outputs(s, o.devices[s]) : FreeRelay(o, s, u)}
<1>1. out \in Here
  OBVIOUS
<1>2. s \in {t \in DOMAIN o.devices : IsRelay(o.devices[t].model)}
  OBVIOUS
<1>. QED BY <1>1, <1>2 DEF Switches

\* A relay: the Cover that owns it, or its Switch.
LEMMA RelayDriver ==
  ASSUME NEW o, ValidCovers(o.covers, o.devices), NEW s \in DOMAIN o.devices,
         o.devices[s] \in Device, IsRelay(o.devices[s].model),
         NEW r \in Registers(o.devices[s].model)
  PROVE  \E d \in Drivers(o) : \A e \in Drivers(o) :
            (e.slave = s /\ r \in e.registers) <=> e = d
<1>1. /\ Outputs(s, o.devices[s]) = {[id |-> <<"relay", s, q + 1>>, registers |-> {q}] : q \in 0 .. 3}
      /\ r \in 0 .. 3
  BY RelayOutput
<1>2. \A c \in OnSlave(o.covers, s) : o.covers[c].relays \subseteq 1 .. 4
  BY DEF OnSlave, ValidCovers, RelaySets
<1>3. \A c \in OnSlave(o.covers, s) :
        r \in {q - 1 : q \in o.covers[c].relays} <=> r + 1 \in o.covers[c].relays
  <2>. SUFFICES ASSUME NEW c \in OnSlave(o.covers, s)
                PROVE  r \in {q - 1 : q \in o.covers[c].relays} <=> r + 1 \in o.covers[c].relays
    OBVIOUS
  <2>1. \A q \in o.covers[c].relays : q \in Int /\ (q - 1 = r <=> q = r + 1)
    BY <1>1, <1>2
  <2>. QED BY <2>1
<1>4. ASSUME NEW e \in Drivers(o), e.slave = s, r \in e.registers
      PROVE  \/ /\ r + 1 \notin Occupied(o.covers, s)
                /\ e = [id |-> <<"relay", s, r + 1>>, slave |-> s, registers |-> {r}]
             \/ \E c \in OnSlave(o.covers, s) :
                   /\ r + 1 \in o.covers[c].relays
                   /\ e = [id |-> <<"cover", s, c>>, slave |-> s,
                           registers |-> {q - 1 : q \in o.covers[c].relays}]
  <2>1. CASE \E out \in Outputs(s, o.devices[s]) :
                /\ FreeRelay(o, s, out)
                /\ e = [id |-> out.id, slave |-> s, registers |-> out.registers]
    <3>1. PICK q \in 0 .. 3 :
             LET out == [id |-> <<"relay", s, q + 1>>, registers |-> {q}]
             IN  /\ FreeRelay(o, s, out)
                 /\ e = [id |-> out.id, slave |-> s, registers |-> out.registers]
      BY <1>1, <2>1
    <3>2. e = [id |-> <<"relay", s, q + 1>>, slave |-> s, registers |-> {q}] /\ q = r
      BY <1>4, <3>1
    <3>. QED BY <3>1, <3>2 DEF FreeRelay
  <2>2. CASE \E c \in OnSlave(o.covers, s) :
                e = [id |-> <<"cover", s, c>>, slave |-> s,
                     registers |-> {q - 1 : q \in o.covers[c].relays}]
    <3>1. PICK c \in OnSlave(o.covers, s) :
             e = [id |-> <<"cover", s, c>>, slave |-> s,
                  registers |-> {q - 1 : q \in o.covers[c].relays}]
      BY <2>2
    <3>2. r \in {q - 1 : q \in o.covers[c].relays}
      BY <1>4, <3>1
    <3>3. r + 1 \in o.covers[c].relays
      BY <1>3, <3>2
    <3>. QED BY <3>1, <3>3
  <2>. QED BY <1>4, <2>1, <2>2, DriversAt
<1>5. CASE r + 1 \in Occupied(o.covers, s)
  <2>1. PICK c \in OnSlave(o.covers, s) : r + 1 \in o.covers[c].relays
    BY <1>5 DEF Occupied
  <2>. DEFINE d == [id |-> <<"cover", s, c>>, slave |-> s,
                    registers |-> {q - 1 : q \in o.covers[c].relays}]
  <2>2. d \in Drivers(o)
    BY DEF Drivers, CoverEntities, OnSlave
  <2>3. \A b \in OnSlave(o.covers, s) : r + 1 \in o.covers[b].relays => b = c
    BY <2>1 DEF OnSlave, ValidCovers
  <2>4. d.slave = s /\ r \in d.registers
    BY <1>3, <2>1
  <2>5. \A e \in Drivers(o) : e.slave = s /\ r \in e.registers => e = d
    BY <1>4, <1>5, <2>3
  <2>. QED BY <2>2, <2>4, <2>5
<1>6. CASE r + 1 \notin Occupied(o.covers, s)
  <2>. DEFINE out == [id |-> <<"relay", s, r + 1>>, registers |-> {r}]
              d == [id |-> <<"relay", s, r + 1>>, slave |-> s, registers |-> {r}]
  <2>1. out \in Outputs(s, o.devices[s]) /\ FreeRelay(o, s, out)
    BY <1>1, <1>6 DEF FreeRelay
  <2>2. d \in Drivers(o) /\ d.slave = s /\ r \in d.registers
    BY <2>1, SwitchIs DEF Drivers
  <2>3. \A e \in Drivers(o) : e.slave = s /\ r \in e.registers => e = d
    <3>1. \A c \in OnSlave(o.covers, s) : r + 1 \notin o.covers[c].relays
      BY <1>6 DEF Occupied
    <3>. QED BY <1>4, <3>1
  <2>. HIDE DEF d
  <2>. QED BY <2>2, <2>3
<1>. QED BY <1>5, <1>6

LEMMA LoadableDrives ==
  ASSUME NEW o \in Options, Loadable(o), NEW s \in DOMAIN o.devices,
         NEW r \in Registers(o.devices[s].model)
  PROVE  \E d \in Drivers(o) : \A e \in Drivers(o) :
            (e.slave = s /\ r \in e.registers) <=> e = d
<1>1. o.devices[s] \in Device /\ ValidCovers(o.covers, o.devices)
  BY OptionsFields, DeviceListHas DEF Loadable
<1>. QED BY <1>1, DimmerDriver, RelayDriver

-----------------------------------------------------------------------------
(***************************************************************************)
(* What a step of one dialog does to the dialogs.                          *)
(***************************************************************************)
Fields == {"step", "snap", "managed", "original", "draft"}

\* Dialog f moves, everything else stays.
Moved(f) ==
  /\ UNCHANGED entryVars
  /\ DOMAIN flow' = Flow /\ \A g \in Flow : g # f => flow'[g] = flow[g]

\* ... and keeps what it holds but its draft, on the way to step.
Onward(f, step) ==
  /\ Moved(f) /\ DOMAIN flow'[f] = Fields
  /\ flow'[f].step = step /\ flow'[f].snap = flow[f].snap

Ready == DOMAIN flow = Flow /\ \A f \in Flow : DOMAIN flow[f] = Fields

LEMMA DialogsReady == TypeOK /\ DialogInv => Ready
BY DEF TypeOK, DialogInv, Coherent, Ready, Fields

LEMMA GotoGives ==
  ASSUME Ready, NEW f \in Flow, NEW step, Goto(f, step)
  PROVE  Onward(f, step) /\ flow'[f].managed = flow[f].managed /\ flow'[f].draft = flow[f].draft
BY DEF Ready, Goto, Onward, Moved, Fields

LEMMA FillGives ==
  ASSUME Ready, NEW f \in Flow, NEW step, NEW draft, Fill(f, step, draft)
  PROVE  Onward(f, step) /\ flow'[f].managed = flow[f].managed /\ flow'[f].draft = draft
BY DEF Ready, Fill, Onward, Moved, Fields

LEMMA ManageGives ==
  ASSUME Ready, NEW f \in Flow, NEW thing, NEW step, Manage(f, thing, step)
  PROVE  Onward(f, step) /\ flow'[f].managed = thing /\ flow'[f].draft = flow[f].draft
BY DEF Ready, Manage, Onward, Moved, Fields

\* A dialog that is closed, or that has read the options in store.
LEMMA ClosedIsCoherent == Coherent(Closed)
BY DEF Coherent, Closed, ListSteps, ManagedSteps, CoverSteps

\* Dialog f takes a step after which it is coherent; its snapshot stays, or is
\* of what is in store.
Moves(f) ==
  /\ Moved(f) /\ Coherent(flow'[f])
  /\ flow'[f].snap # None => flow'[f].snap = flow[f].snap \/ SameLists(flow'[f].snap, stored)

\* Dialog f ends and stores options.  If what it has read is still in store and
\* loads, what it stores loads as well.
Loads(o) == Loadable(o) /\ (DOMAIN o.s402 # {} => Reserved \notin DOMAIN o.devices)

Stores(f) ==
  \E options \in Options, changed \in BOOLEAN :
     /\ Store(options, changed) /\ options.interval = stored.interval
     /\ ~changed => options = stored
     /\ SameLists(flow[f].snap, stored) /\ Loads(stored) => Loads(options)
     /\ flow' = [flow EXCEPT ![f] = Closed]

\* What f holds before its step.
LEMMA Holds ==
  ASSUME TypeOK, DialogInv, NEW f \in Flow, ~At(f, "closed")
  PROVE  /\ Ready /\ Coherent(flow[f]) /\ flow[f].snap # None /\ flow[f].snap \in Options
         /\ flow[f].snap.devices \in DeviceLists /\ flow[f].snap.s402 \in S402Lists
         /\ flow[f].snap.covers \in CoverLists
         /\ stored \in Options /\ stored.devices \in DeviceLists /\ stored.s402 \in S402Lists
         /\ stored.covers \in CoverLists /\ stored.interval \in Interval
BY DialogsReady, OptionsFields DEF TypeOK, DialogInv, Coherent, At

LEMMA OpenMoves ==
  ASSUME TypeOK, DialogInv, NEW f \in Flow, Open(f) \/ Close(f)
  PROVE  Moves(f)
<1>1. Ready /\ stored \in Options
  BY DialogsReady DEF TypeOK
<1>. DEFINE Fresher == [Closed EXCEPT !.step = "init", !.snap = [stored EXCEPT !.interval = None]]
<1>2. [stored EXCEPT !.interval = None] \in Options
  BY <1>1 DEF Options
<1>3. Coherent(Fresher)
  BY <1>2 DEF Coherent, Closed, ListSteps, ManagedSteps, CoverSteps
<1>4. SameLists(Fresher.snap, stored)
  BY <1>1 DEF SameLists, Closed, Options
<1>5. Moved(f) /\ (flow'[f] = Fresher \/ flow'[f] = Closed)
  BY <1>1 DEF Open, Close, Moved, Ready
<1>6. Closed.snap = None
  BY DEF Closed
<1>. HIDE DEF Fresher
<1>. QED BY <1>3, <1>4, <1>5, <1>6, ClosedIsCoherent DEF Moves

\* Menus do not lead to a form that has a draft, nor to a device that is not
\* the one the dialog manages.
LEMMA Menus ==
  ASSUME NEW m \in Menu
  PROVE  /\ m[1] # "closed"
         /\ m[2] \notin {"closed", "scan_result", "s402_summary"} \cup ListSteps \cup CoverSteps
         /\ m[2] \in ManagedSteps => m[1] \in ManagedSteps
<1>1. CASE m \in InitMenus
  BY <1>1 DEF InitMenus, ListSteps, CoverSteps, ManagedSteps
<1>2. CASE m \in ScanMenus
  BY <1>2 DEF ScanMenus, ListSteps, CoverSteps, ManagedSteps
<1>3. CASE m \in CancelMenus
  BY <1>3 DEF CancelMenus, ListSteps, CoverSteps, ManagedSteps
<1>4. CASE m \in DeviceMenus
  BY <1>4 DEF DeviceMenus, ListSteps, CoverSteps, ManagedSteps
<1>5. CASE m \in CoverMenus
  BY <1>5 DEF CoverMenus, ListSteps, CoverSteps, ManagedSteps
<1>6. CASE m \in BackMenus
  BY <1>6 DEF BackMenus, ListSteps, CoverSteps, ManagedSteps
<1>. QED BY <1>1, <1>2, <1>3, <1>4, <1>5, <1>6 DEF Menu

LEMMA NavigateMoves ==
  ASSUME TypeOK, DialogInv, NEW f \in Flow, Navigate(f)
  PROVE  Moves(f)
<1>1. PICK m \in Menu : At(f, m[1]) /\ Goto(f, m[2])
  BY DEF Navigate
<1>2. ~At(f, "closed")
  BY <1>1, Menus DEF At
<1>3. Ready /\ Coherent(flow[f]) /\ flow[f].snap \in Options
  BY <1>2, Holds
<1>4. Onward(f, m[2]) /\ flow'[f].managed = flow[f].managed
  BY <1>1, <1>3, GotoGives
<1>5. Coherent(flow'[f])
  <2>1. m[2] \in ManagedSteps => flow[f].managed \in DOMAIN flow[f].snap.devices
    BY <1>1, <1>3, Menus DEF Coherent, At
  <2>. QED BY <1>3, <1>4, <2>1, Menus DEF Coherent, Onward, Fields, ListSteps, CoverSteps
<1>. QED BY <1>4, <1>5 DEF Moves, Onward

\* Adding devices and S402.
LEMMA AddMoves ==
  ASSUME TypeOK, DialogInv, NEW f \in Flow,
         Scan(f) \/ SelectDevices(f) \/ ChooseGroups(f) \/ EnterS402(f)
  PROVE  Moves(f)
<1>1. ~At(f, "closed")
  BY DEF Scan, SelectDevices, ChooseGroups, EnterS402, At
<1>2. /\ Ready /\ Coherent(flow[f]) /\ flow[f].snap \in Options
      /\ flow[f].snap.devices \in DeviceLists
  BY <1>1, Holds
<1>3. CASE Scan(f)
  <2>1. PICK found \in SUBSET Slave, failed \in BOOLEAN :
           Fill(f, Scanned(f, found, failed), NewSlaves(f, found))
    BY <1>3 DEF Scan
  <2>2. /\ Onward(f, Scanned(f, found, failed))
        /\ flow'[f].managed = flow[f].managed /\ flow'[f].draft = NewSlaves(f, found)
    BY <1>2, <2>1, FillGives
  <2>3. Scanned(f, found, failed) \in {"scan_failed", "scan_no_new", "scan_result"}
    BY DEF Scanned
  <2>4. NewSlaves(f, found) \subseteq Slave \ DOMAIN flow[f].snap.devices
    BY DEF NewSlaves
  <2>5. Coherent(flow'[f])
    BY <1>2, <2>2, <2>3, <2>4 DEF Coherent, Onward, Fields, ListSteps, CoverSteps, ManagedSteps
  <2>. QED BY <2>2, <2>5 DEF Moves, Onward
<1>4. CASE SelectDevices(f)
  <2>0. PICK chosen \in (SUBSET Selectable(f)) \ {{}} : \E model \in [chosen -> Model] :
           LET made == [s \in chosen |-> Fresh(model[s])]
           IN Fill(f, IF NeedsGroups(made) THEN "groups" ELSE "add_summary", made)
    BY <1>4 DEF SelectDevices
  <2>1. PICK model \in [chosen -> Model] :
           LET made == [s \in chosen |-> Fresh(model[s])]
           IN Fill(f, IF NeedsGroups(made) THEN "groups" ELSE "add_summary", made)
    BY <2>0
  <2>. DEFINE made == [s \in chosen |-> Fresh(model[s])]
  <2>2. flow[f].draft \subseteq Slave \ DOMAIN flow[f].snap.devices
    BY <1>2, <1>4 DEF SelectDevices, At, Coherent
  <2>3. /\ chosen \subseteq Slave \ DOMAIN flow[f].snap.devices /\ chosen # {}
        /\ DOMAIN flow[f].snap.s402 # {} => Reserved \notin chosen
    BY <2>2 DEF Selectable
  <2>4. made \in DeviceLists /\ DOMAIN made = chosen
    <3>1. chosen \in SUBSET Slave /\ made \in [chosen -> Device]
      BY <2>3, FreshDevice
    <3>. QED BY <3>1, DeviceListIs
  <2>5. PICK step \in {"groups", "add_summary"} : Fill(f, step, made)
    BY <2>1
  <2>. HIDE DEF made
  <2>6. Onward(f, step) /\ flow'[f].managed = flow[f].managed /\ flow'[f].draft = made
    BY <1>2, <2>5, FillGives
  <2>7. ListDraft(made, flow[f].snap) /\ ~(DOMAIN made \subseteq DOMAIN flow[f].snap.devices)
    BY <2>3, <2>4 DEF ListDraft
  <2>8. Coherent(flow'[f])
    BY <1>2, <2>6, <2>7 DEF Coherent, Onward, Fields, ListSteps, CoverSteps, ManagedSteps
  <2>. QED BY <2>6, <2>8 DEF Moves, Onward
<1>5. CASE ChooseGroups(f)
  <2>1. PICK made \in [DOMAIN flow[f].draft -> Device] :
           /\ \A s \in DOMAIN made : made[s].model = flow[f].draft[s].model
           /\ Fill(f, IF DOMAIN made \subseteq DOMAIN flow[f].snap.devices
                      THEN "edit_summary" ELSE "add_summary", made)
    BY <1>5 DEF ChooseGroups
  <2>2. ListDraft(flow[f].draft, flow[f].snap)
    BY <1>2, <1>5 DEF ChooseGroups, At, Coherent, ListSteps
  <2>3. ListDraft(made, flow[f].snap) /\ DOMAIN made = DOMAIN flow[f].draft
    <3>1. DOMAIN flow[f].draft \subseteq Slave
      BY <2>2, DeviceListHas DEF ListDraft
    <3>2. made \in DeviceLists
      BY <2>1, <3>1, DeviceListIs
    <3>. QED BY <2>1, <2>2, <3>2 DEF ListDraft
  <2>4. DOMAIN made \subseteq DOMAIN flow[f].snap.devices
           => flow[f].managed \in DOMAIN flow[f].snap.devices
    BY <1>2, <1>5, <2>3 DEF ChooseGroups, At, Coherent
  <2>5. PICK step \in {"edit_summary", "add_summary"} :
           /\ Fill(f, step, made)
           /\ step = "edit_summary" => DOMAIN made \subseteq DOMAIN flow[f].snap.devices
    BY <2>1
  <2>6. Onward(f, step) /\ flow'[f].managed = flow[f].managed /\ flow'[f].draft = made
    BY <1>2, <2>5, FillGives
  <2>7. Coherent(flow'[f])
    BY <1>2, <2>3, <2>4, <2>5, <2>6
       DEF Coherent, Onward, Fields, ListSteps, CoverSteps, ManagedSteps
  <2>. QED BY <2>6, <2>7 DEF Moves, Onward
<1>6. CASE EnterS402(f)
  <2>1. PICK id \in S402Id :
           /\ id \notin DOMAIN flow[f].snap.s402 /\ Reserved \notin DOMAIN flow[f].snap.devices
           /\ Fill(f, "s402_summary", id)
    BY <1>6 DEF EnterS402
  <2>2. Onward(f, "s402_summary") /\ flow'[f].draft = id
    BY <1>2, <2>1, FillGives
  <2>3. Coherent(flow'[f])
    BY <1>2, <2>1, <2>2 DEF Coherent, Onward, Fields, ListSteps, CoverSteps, ManagedSteps
  <2>. QED BY <2>2, <2>3 DEF Moves, Onward
<1>. QED BY <1>3, <1>4, <1>5, <1>6

\* Finding the device to manage, and the output mode of a dimmer.
LEMMA DeviceMoves ==
  ASSUME TypeOK, DialogInv, NEW f \in Flow, ListDevices(f) \/ SelectManaged(f) \/ OutputMode(f)
  PROVE  Moves(f)
<1>1. ~At(f, "closed")
  BY DEF ListDevices, SelectManaged, OutputMode, At
<1>2. /\ Ready /\ Coherent(flow[f]) /\ flow[f].snap \in Options
      /\ flow[f].snap.devices \in DeviceLists
  BY <1>1, Holds
<1>3. CASE ListDevices(f)
  <2>1. PICK step \in {"manage_devices_empty", "manage_devices"} : Goto(f, step)
    BY <1>3 DEF ListDevices
  <2>2. Onward(f, step)
    BY <1>2, <2>1, GotoGives
  <2>3. Coherent(flow'[f])
    BY <1>2, <2>2 DEF Coherent, Onward, Fields, ListSteps, CoverSteps, ManagedSteps
  <2>. QED BY <2>2, <2>3 DEF Moves, Onward
<1>4. CASE SelectManaged(f)
  <2>1. CASE \E s \in DOMAIN flow[f].snap.devices : Manage(f, s, "device_menu")
    <3>1. PICK s \in DOMAIN flow[f].snap.devices : Manage(f, s, "device_menu")
      BY <2>1
    <3>2. Onward(f, "device_menu") /\ flow'[f].managed = s
      BY <1>2, <3>1, ManageGives
    <3>3. Coherent(flow'[f])
      BY <1>2, <3>2 DEF Coherent, Onward, Fields, ListSteps, CoverSteps, ManagedSteps
    <3>. QED BY <3>2, <3>3 DEF Moves, Onward
  <2>2. CASE \E id \in DOMAIN flow[f].snap.s402 : Manage(f, id, "s402_device_management")
    <3>1. Onward(f, "s402_device_management")
      BY <1>2, <2>2, ManageGives
    <3>2. Coherent(flow'[f])
      BY <1>2, <3>1 DEF Coherent, Onward, Fields, ListSteps, CoverSteps, ManagedSteps
    <3>. QED BY <3>1, <3>2 DEF Moves, Onward
  <2>. QED BY <1>4, <2>1, <2>2 DEF SelectManaged
<1>5. CASE OutputMode(f)
  <2>. DEFINE draft == [s \in {flow[f].managed} |-> Managed(f)]
  <2>1. flow[f].managed \in DOMAIN flow[f].snap.devices
    BY <1>2, <1>5 DEF OutputMode, At, Coherent, ManagedSteps
  <2>2. flow[f].managed \in Slave /\ Managed(f) \in Device
    BY <1>2, <2>1, DeviceListHas DEF Managed
  <2>3. draft \in DeviceLists /\ DOMAIN draft = {flow[f].managed}
    <3>1. {flow[f].managed} \in SUBSET Slave /\ draft \in [{flow[f].managed} -> Device]
      BY <2>2
    <3>. QED BY <3>1, DeviceListIs
  <2>4. ListDraft(draft, flow[f].snap)
    BY <2>1, <2>3 DEF ListDraft, Managed
  <2>5. Fill(f, "groups", draft)
    BY <1>5 DEF OutputMode
  <2>. HIDE DEF draft
  <2>6. Onward(f, "groups") /\ flow'[f].managed = flow[f].managed /\ flow'[f].draft = draft
    BY <1>2, <2>5, FillGives
  <2>7. Coherent(flow'[f])
    BY <1>2, <2>1, <2>4, <2>6 DEF Coherent, Onward, Fields, ListSteps, CoverSteps, ManagedSteps
  <2>. QED BY <2>6, <2>7 DEF Moves, Onward
<1>. QED BY <1>3, <1>4, <1>5

\* The Covers of an R410, up to their confirmation.
LEMMA CoverMenuMoves ==
  ASSUME TypeOK, DialogInv, NEW f \in Flow,
         OutputConfiguration(f) \/ ManageCovers(f) \/ CancelCover(f) \/ RemoveCover(f)
         \/ CancelRemoveCover(f)
  PROVE  Moves(f)
<1>1. ~At(f, "closed")
  BY DEF OutputConfiguration, ManageCovers, CancelCover, RemoveCover, CancelRemoveCover, At
<1>2. Ready /\ Coherent(flow[f]) /\ flow[f].snap \in Options
  BY <1>1, Holds
<1>3. flow[f].managed \in DOMAIN flow[f].snap.devices
  BY <1>2 DEF OutputConfiguration, ManageCovers, CancelCover, RemoveCover, CancelRemoveCover,
              At, Coherent, ManagedSteps, CoverSteps
<1>4. \E step \in {"r410_output_configuration", "manage_r410_covers", "remove_cover_summary"} :
         Onward(f, step) /\ flow'[f].managed = flow[f].managed
  <2>1. CASE OutputConfiguration(f)
    <3>1. Goto(f, "r410_output_configuration")
      BY <2>1 DEF OutputConfiguration
    <3>. QED BY <1>2, <3>1, GotoGives
  <2>2. CASE ManageCovers(f)
    <3>1. Goto(f, "manage_r410_covers")
      BY <2>2 DEF ManageCovers
    <3>. QED BY <1>2, <3>1, GotoGives
  <2>3. CASE CancelCover(f)
    <3>1. CASE flow[f].draft.add
      BY <1>2, <2>3, <3>1 DEF CancelCover, Ready, Onward, Moved, Fields
    <3>2. CASE ~flow[f].draft.add
      BY <1>2, <2>3, <3>2 DEF CancelCover, Ready, Onward, Moved, Fields
    <3>. QED BY <3>1, <3>2
  <2>4. CASE RemoveCover(f)
    BY <1>2, <2>4 DEF RemoveCover, Ready, Onward, Moved, Fields
  <2>5. CASE CancelRemoveCover(f)
    BY <1>2, <2>5 DEF CancelRemoveCover, Ready, Onward, Moved, Fields
  <2>. QED BY <2>1, <2>2, <2>3, <2>4, <2>5
<1>5. PICK step \in {"r410_output_configuration", "manage_r410_covers", "remove_cover_summary"} :
         Onward(f, step) /\ flow'[f].managed = flow[f].managed
  BY <1>4
<1>6. Coherent(flow'[f])
  BY <1>2, <1>3, <1>5 DEF Coherent, Onward, Fields, ListSteps, CoverSteps
<1>. QED BY <1>5, <1>6 DEF Moves, Onward

LEMMA CoverDraftMoves ==
  ASSUME TypeOK, DialogInv, NEW f \in Flow,
         AddCover(f) \/ EditCover(f) \/ DescribeCover(f) \/ CoverMode(f) \/ CoverMapping(f)
         \/ CoverSummary(f)
  PROVE  Moves(f)
<1>1. ~At(f, "closed")
  BY DEF AddCover, EditCover, DescribeCover, CoverMode, CoverMapping, CoverSummary, At
<1>2. /\ Ready /\ Coherent(flow[f]) /\ flow[f].snap \in Options
      /\ flow[f].snap.covers \in CoverLists
  BY <1>1, Holds
<1>3. flow[f].managed \in DOMAIN flow[f].snap.devices
  BY <1>2 DEF AddCover, EditCover, DescribeCover, CoverMode, CoverMapping, CoverSummary,
              At, Coherent, ManagedSteps, CoverSteps
<1>4. flow[f].step \in CoverSteps => flow[f].draft \in CoverDraft
  BY <1>2 DEF Coherent
\* It is enough that the draft is one of a Cover, with relays after their form.
<1>5. ASSUME NEW step \in CoverSteps, Onward(f, step), flow'[f].managed = flow[f].managed,
             flow'[f].draft \in CoverDraft,
             step \in {"cover_pulse", "cover_summary"} => flow'[f].draft.relays \in RelaySets
      PROVE  Moves(f)
  <2>1. Coherent(flow'[f])
    BY <1>2, <1>3, <1>5 DEF Coherent, Onward, Fields, ListSteps, CoverSteps
  <2>. QED BY <1>5, <2>1 DEF Moves, Onward
<1>6. CASE AddCover(f)
  <2>1. PICK c \in CoverId :
           flow' = [flow EXCEPT ![f].step = "cover_name", ![f].original = None,
                      ![f].draft = [id |-> c, add |-> TRUE, size |-> 0, relays |-> {}]]
    BY <1>6 DEF AddCover, UnusedIds
  <2>2. [id |-> c, add |-> TRUE, size |-> 0, relays |-> {}] \in CoverDraft
    BY DEF CoverDraft
  <2>3. Onward(f, "cover_name") /\ flow'[f].managed = flow[f].managed
        /\ flow'[f].draft = [id |-> c, add |-> TRUE, size |-> 0, relays |-> {}]
    BY <1>2, <1>6, <2>1 DEF AddCover, Ready, Onward, Moved, Fields
  <2>. QED BY <1>5, <2>2, <2>3 DEF CoverSteps
<1>7. CASE EditCover(f)
  <2>1. PICK c \in CoversHere(f) :
           flow' = [flow EXCEPT ![f].step = "cover_name", ![f].original = c,
                      ![f].draft = [id |-> c, add |-> FALSE,
                                   size |-> 0, relays |-> flow[f].snap.covers[c].relays]]
    BY <1>7 DEF EditCover
  <2>2. c \in CoverId /\ flow[f].snap.covers[c].relays \in RelaySets
    BY <1>2, CoverListHas DEF CoversHere, OnSlave
  <2>3. [id |-> c, add |-> FALSE, size |-> 0, relays |-> flow[f].snap.covers[c].relays] \in CoverDraft
    BY <2>2 DEF CoverDraft
  <2>4. Onward(f, "cover_name") /\ flow'[f].managed = flow[f].managed
        /\ flow'[f].draft = [id |-> c, add |-> FALSE,
                             size |-> 0, relays |-> flow[f].snap.covers[c].relays]
    BY <1>2, <1>7, <2>1 DEF EditCover, Ready, Onward, Moved, Fields
  <2>. QED BY <1>5, <2>3, <2>4 DEF CoverSteps
<1>8. CASE DescribeCover(f)
  <2>1. Onward(f, "cover_mode") /\ flow'[f].managed = flow[f].managed
        /\ flow'[f].draft = flow[f].draft
    BY <1>2, <1>8, GotoGives DEF DescribeCover
  <2>. QED BY <1>4, <1>5, <1>8, <2>1 DEF DescribeCover, At, CoverSteps
<1>9. CASE CoverMode(f)
  <2>1. PICK size \in {2, 3} : Fill(f, "cover_mapping", [flow[f].draft EXCEPT !.size = size])
    BY <1>9 DEF CoverMode
  <2>2. [flow[f].draft EXCEPT !.size = size] \in CoverDraft
    BY <1>4, <1>9 DEF CoverMode, At, CoverSteps, CoverDraft
  <2>3. Onward(f, "cover_mapping") /\ flow'[f].managed = flow[f].managed
        /\ flow'[f].draft = [flow[f].draft EXCEPT !.size = size]
    BY <1>2, <2>1, FillGives
  <2>. QED BY <1>5, <2>2, <2>3 DEF CoverSteps
<1>10. CASE CoverMapping(f)
  <2>1. PICK relays \in RelaySets :
           Fill(f, "cover_pulse", [flow[f].draft EXCEPT !.relays = relays])
    BY <1>10, OptionsAssumption DEF CoverMapping
  <2>2. /\ [flow[f].draft EXCEPT !.relays = relays] \in CoverDraft
        /\ [flow[f].draft EXCEPT !.relays = relays].relays = relays
    BY <1>4, <1>10 DEF CoverMapping, At, CoverSteps, CoverDraft
  <2>3. Onward(f, "cover_pulse") /\ flow'[f].managed = flow[f].managed
        /\ flow'[f].draft = [flow[f].draft EXCEPT !.relays = relays]
    BY <1>2, <2>1, FillGives
  <2>. QED BY <1>5, <2>2, <2>3 DEF CoverSteps
<1>11. CASE CoverSummary(f)
  <2>1. PICK step \in {"cover_summary", "cover_mapping"} : Goto(f, step)
    BY <1>11 DEF CoverSummary
  <2>2. Onward(f, step) /\ flow'[f].managed = flow[f].managed /\ flow'[f].draft = flow[f].draft
    BY <1>2, <2>1, GotoGives
  <2>3. flow[f].draft \in CoverDraft /\ flow[f].draft.relays \in RelaySets
    BY <1>2, <1>11 DEF CoverSummary, At, Coherent, CoverSteps
  <2>. QED BY <1>5, <2>2, <2>3 DEF CoverSteps
<1>. QED BY <1>6, <1>7, <1>8, <1>9, <1>10, <1>11

-----------------------------------------------------------------------------
(***************************************************************************)
(* What a step of one dialog stores.                                       *)
(***************************************************************************)

LEMMA FinishStores ==
  ASSUME TypeOK, DialogInv, NEW f \in Flow, NEW options \in Options, NEW changed \in BOOLEAN,
         Finish(f, options, changed), options.interval = stored.interval,
         ~changed => options = stored,
         SameLists(flow[f].snap, stored) /\ Loads(stored) => Loads(options)
  PROVE  Stores(f)
BY DEF Finish, Stores

\* One list of the options in store is replaced.
LEMMA Replaced ==
  ASSUME NEW o \in Options
  PROVE  /\ \A d \in DeviceLists :
              /\ [o EXCEPT !.devices = d] \in Options
              /\ [o EXCEPT !.devices = d].devices = d
              /\ [o EXCEPT !.devices = d].s402 = o.s402
              /\ [o EXCEPT !.devices = d].covers = o.covers
              /\ [o EXCEPT !.devices = d].interval = o.interval
         /\ \A l \in S402Lists :
              /\ [o EXCEPT !.s402 = l] \in Options
              /\ [o EXCEPT !.s402 = l].devices = o.devices
              /\ [o EXCEPT !.s402 = l].s402 = l
              /\ [o EXCEPT !.s402 = l].covers = o.covers
              /\ [o EXCEPT !.s402 = l].interval = o.interval
         /\ \A c \in CoverLists :
              /\ [o EXCEPT !.covers = c] \in Options
              /\ [o EXCEPT !.covers = c].devices = o.devices
              /\ [o EXCEPT !.covers = c].s402 = o.s402
              /\ [o EXCEPT !.covers = c].covers = c
              /\ [o EXCEPT !.covers = c].interval = o.interval
BY DEF Options

\* Covers stay valid when no device they are on changes its model, and when
\* some of them go.
LEMMA CoversStayValid ==
  ASSUME NEW covers, NEW devices, ValidCovers(covers, devices), NEW more,
         \A s \in DOMAIN devices : s \in DOMAIN more /\ more[s].model = devices[s].model
  PROVE  ValidCovers(covers, more)
BY DEF ValidCovers

LEMMA FewerCoversValid ==
  ASSUME NEW covers, NEW devices, ValidCovers(covers, devices), NEW gone
  PROVE  ValidCovers(Without(covers, gone), devices)
BY DEF ValidCovers, Without

LEMMA FewerCovers ==
  ASSUME NEW covers \in CoverLists, NEW gone
  PROVE  Without(covers, gone) \in CoverLists
<1>1. DOMAIN covers \ gone \in SUBSET CoverId
  BY CoverListHas
<1>2. Without(covers, gone) \in [DOMAIN covers \ gone -> [slave : Slave, relays : RelaySets]]
  BY CoverListHas DEF Without
<1>. QED BY <1>1, <1>2, CoverListIs

LEMMA ConfirmAddStores ==
  ASSUME TypeOK, DialogInv, NEW f \in Flow, ConfirmAdd(f)
  PROVE  Stores(f)
<1>1. At(f, "add_summary") /\ ~At(f, "closed")
  BY DEF ConfirmAdd, At
<1>2. /\ Coherent(flow[f]) /\ flow[f].snap.devices \in DeviceLists
      /\ stored \in Options /\ stored.interval \in Interval
  BY <1>1, Holds
<1>3. ListDraft(flow[f].draft, flow[f].snap)
  BY <1>1, <1>2 DEF Coherent, At, ListSteps
<1>. DEFINE old == flow[f].snap.devices
            devices == Extended(old, flow[f].draft)
            options == [stored EXCEPT !.devices = devices]
<1>4. devices \in DeviceLists /\ DOMAIN devices = DOMAIN old \cup DOMAIN flow[f].draft
      /\ \A s \in DOMAIN old : devices[s] = old[s]
  <2>1. flow[f].draft \in DeviceLists
    BY <1>3 DEF ListDraft
  <2>2. DOMAIN old \cup DOMAIN flow[f].draft \in SUBSET Slave
    BY <1>2, <2>1, DeviceListHas
  <2>3. devices \in [DOMAIN old \cup DOMAIN flow[f].draft -> Device]
    BY <1>2, <2>1, DeviceListHas DEF Extended
  <2>. QED BY <2>2, <2>3, DeviceListIs DEF Extended
<1>5. PICK ranged \in BOOLEAN : Finish(f, options, options # stored \/ ranged)
  BY DEF ConfirmAdd
<1>. HIDE DEF devices
<1>6. /\ options \in Options /\ options.devices = devices /\ options.s402 = stored.s402
      /\ options.covers = stored.covers /\ options.interval = stored.interval
  BY <1>2, <1>4, Replaced
<1>7. ASSUME SameLists(flow[f].snap, stored), Loads(stored)
      PROVE  Loads(options)
  <2>1. ValidCovers(stored.covers, devices)
    BY <1>4, <1>7, CoversStayValid DEF Loads, Loadable, SameLists
  <2>2. DOMAIN stored.s402 # {} => Reserved \notin DOMAIN devices
    BY <1>3, <1>4, <1>7 DEF ListDraft, Loads, SameLists
  <2>. QED BY <1>6, <1>7, <2>1, <2>2 DEF Loads, Loadable
<1>. HIDE DEF options
<1>. QED BY <1>5, <1>6, <1>7, FinishStores

LEMMA ConfirmEditStores ==
  ASSUME TypeOK, DialogInv, NEW f \in Flow, ConfirmEdit(f)
  PROVE  Stores(f)
<1>1. At(f, "edit_summary") /\ ~At(f, "closed")
  BY DEF ConfirmEdit, At
<1>2. /\ Coherent(flow[f]) /\ flow[f].snap.devices \in DeviceLists
      /\ stored \in Options /\ stored.interval \in Interval
  BY <1>1, Holds
<1>3. ListDraft(flow[f].draft, flow[f].snap)
  BY <1>1, <1>2 DEF Coherent, At, ListSteps
<1>. DEFINE old == flow[f].snap.devices
            devices == [s \in DOMAIN old |->
                          IF s \in DOMAIN flow[f].draft THEN flow[f].draft[s] ELSE old[s]]
            options == [stored EXCEPT !.devices = devices]
<1>4. devices \in DeviceLists /\ DOMAIN devices = DOMAIN old
      /\ \A s \in DOMAIN old : devices[s].model = old[s].model
  <2>1. flow[f].draft \in DeviceLists
    BY <1>3 DEF ListDraft
  <2>2. DOMAIN old \in SUBSET Slave
    BY <1>2, DeviceListHas
  <2>3. devices \in [DOMAIN old -> Device]
    BY <1>2, <2>1, DeviceListHas
  <2>. QED BY <1>3, <2>2, <2>3, DeviceListIs DEF ListDraft
<1>5. Finish(f, options, options # stored)
  BY DEF ConfirmEdit
<1>. HIDE DEF devices
<1>6. /\ options \in Options /\ options.devices = devices /\ options.s402 = stored.s402
      /\ options.covers = stored.covers /\ options.interval = stored.interval
  BY <1>2, <1>4, Replaced
<1>7. ASSUME SameLists(flow[f].snap, stored), Loads(stored)
      PROVE  Loads(options)
  <2>1. ValidCovers(stored.covers, devices)
    BY <1>4, <1>7, CoversStayValid DEF Loads, Loadable, SameLists
  <2>. QED BY <1>4, <1>6, <1>7, <2>1 DEF Loads, Loadable, SameLists
<1>. HIDE DEF options
<1>. QED BY <1>5, <1>6, <1>7, FinishStores

LEMMA ConfirmRemoveStores ==
  ASSUME TypeOK, DialogInv, NEW f \in Flow, ConfirmRemove(f)
  PROVE  Stores(f)
<1>1. At(f, "remove_summary") /\ ~At(f, "closed")
  BY DEF ConfirmRemove, At
<1>2. /\ flow[f].snap.devices \in DeviceLists /\ stored \in Options
      /\ stored.covers \in CoverLists /\ stored.interval \in Interval
  BY <1>1, Holds
<1>. DEFINE old == flow[f].snap.devices
            devices == Without(old, {flow[f].managed})
            covers == Without(stored.covers, OnSlave(stored.covers, flow[f].managed))
            options == [stored EXCEPT !.devices = devices, !.covers = covers]
<1>3. devices \in DeviceLists /\ DOMAIN devices = DOMAIN old \ {flow[f].managed}
      /\ \A s \in DOMAIN devices : devices[s] = old[s]
  <2>1. DOMAIN old \ {flow[f].managed} \in SUBSET Slave
    BY <1>2, DeviceListHas
  <2>2. devices \in [DOMAIN old \ {flow[f].managed} -> Device]
    BY <1>2, DeviceListHas DEF Without
  <2>. QED BY <2>1, <2>2, DeviceListIs DEF Without
<1>4. covers \in CoverLists
  BY <1>2, FewerCovers
<1>5. Finish(f, options, options # stored)
  BY DEF ConfirmRemove
<1>6. ValidCovers(stored.covers, old) => ValidCovers(covers, devices)
  BY <1>3 DEF ValidCovers, Without, OnSlave
<1>. HIDE DEF devices, covers
<1>7. /\ options \in Options /\ options.devices = devices /\ options.s402 = stored.s402
      /\ options.covers = covers /\ options.interval = stored.interval
  BY <1>2, <1>3, <1>4 DEF Options
<1>8. ASSUME SameLists(flow[f].snap, stored), Loads(stored)
      PROVE  Loads(options)
  BY <1>3, <1>6, <1>7, <1>8 DEF Loads, Loadable, SameLists
<1>. HIDE DEF options
<1>. QED BY <1>5, <1>7, <1>8, FinishStores

LEMMA S402Stores ==
  ASSUME TypeOK, DialogInv, NEW f \in Flow, ConfirmS402(f) \/ ConfirmS402Remove(f)
  PROVE  Stores(f)
<1>1. ~At(f, "closed")
  BY DEF ConfirmS402, ConfirmS402Remove, At
<1>2. /\ Coherent(flow[f]) /\ stored \in Options /\ stored.s402 \in S402Lists
      /\ stored.interval \in Interval
  BY <1>1, Holds
<1>3. CASE ConfirmS402(f)
  <2>. DEFINE s402 == Appended(stored.s402, flow[f].draft)
              options == [stored EXCEPT !.s402 = s402]
  <2>1. flow[f].draft \in S402Id \ DOMAIN flow[f].snap.s402
        /\ Reserved \notin DOMAIN flow[f].snap.devices
    BY <1>2, <1>3 DEF ConfirmS402, Coherent, At
  <2>2. s402 \in S402Lists
    <3>1. DOMAIN stored.s402 \cup {flow[f].draft} \in SUBSET S402Id
      BY <1>2, <2>1, S402ListHas
    <3>2. s402 \in [DOMAIN stored.s402 \cup {flow[f].draft} -> {"once", "again"}]
      BY <1>2, S402ListHas DEF Appended
    <3>. QED BY <3>1, <3>2, S402ListIs
  <2>3. flow[f].draft \notin DOMAIN stored.s402 /\ ValidS402(stored.s402) => ValidS402(s402)
    BY DEF ValidS402, Appended
  <2>4. Finish(f, options, TRUE)
    BY <1>3 DEF ConfirmS402
  <2>. HIDE DEF s402
  <2>5. /\ options \in Options /\ options.devices = stored.devices /\ options.s402 = s402
        /\ options.covers = stored.covers /\ options.interval = stored.interval
    BY <1>2, <2>2, Replaced
  <2>6. SameLists(flow[f].snap, stored) /\ Loads(stored) => Loads(options)
    BY <2>1, <2>3, <2>5 DEF Loads, Loadable, SameLists
  <2>. HIDE DEF options
  <2>. QED BY <2>4, <2>5, <2>6, FinishStores
<1>4. CASE ConfirmS402Remove(f)
  <2>. DEFINE s402 == Without(stored.s402, {flow[f].managed})
              options == [stored EXCEPT !.s402 = s402]
  <2>1. s402 \in S402Lists
    <3>1. DOMAIN stored.s402 \ {flow[f].managed} \in SUBSET S402Id
      BY <1>2, S402ListHas
    <3>2. s402 \in [DOMAIN stored.s402 \ {flow[f].managed} -> {"once", "again"}]
      BY <1>2, S402ListHas DEF Without
    <3>. QED BY <3>1, <3>2, S402ListIs
  <2>2. DOMAIN s402 \subseteq DOMAIN stored.s402 /\ (ValidS402(stored.s402) => ValidS402(s402))
    BY DEF ValidS402, Without
  <2>3. Finish(f, options, options # stored)
    BY <1>4 DEF ConfirmS402Remove
  <2>. HIDE DEF s402
  <2>4. /\ options \in Options /\ options.devices = stored.devices /\ options.s402 = s402
        /\ options.covers = stored.covers /\ options.interval = stored.interval
    BY <1>2, <2>1, Replaced
  <2>5. Loads(stored) => Loads(options)
    BY <2>2, <2>4 DEF Loads, Loadable
  <2>. HIDE DEF options
  <2>. QED BY <2>3, <2>4, <2>5, FinishStores
<1>. QED BY <1>3, <1>4

\* A Cover is stored after it was checked with what is in store by then.
LEMMA ConfirmCoverSteps ==
  ASSUME TypeOK, DialogInv, NEW f \in Flow, ConfirmCover(f)
  PROVE  Moves(f) \/ Stores(f)
<1>1. At(f, "cover_summary") /\ ~At(f, "closed")
  BY DEF ConfirmCover, At
<1>2. /\ Ready /\ Coherent(flow[f]) /\ flow[f].snap \in Options /\ flow[f].snap.devices \in DeviceLists
      /\ stored \in Options /\ stored.covers \in CoverLists /\ stored.interval \in Interval
  BY <1>1, Holds
<1>3. /\ flow[f].managed \in DOMAIN flow[f].snap.devices
      /\ flow[f].draft \in CoverDraft /\ flow[f].draft.relays \in RelaySets
  BY <1>1, <1>2 DEF Coherent, At, ManagedSteps, CoverSteps
<1>. DEFINE covers == WithDraft(f, stored.covers)
            options == [stored EXCEPT !.covers = covers]
<1>4. covers \in CoverLists
  <2>1. flow[f].managed \in Slave /\ flow[f].draft.id \in CoverId
    BY <1>2, <1>3, DeviceListHas DEF CoverDraft
  <2>2. DOMAIN stored.covers \cup {flow[f].draft.id} \in SUBSET CoverId
    BY <1>2, <2>1, CoverListHas
  <2>3. covers \in [DOMAIN stored.covers \cup {flow[f].draft.id} -> [slave : Slave, relays : RelaySets]]
    BY <1>2, <1>3, <2>1, CoverListHas DEF WithDraft
  <2>. QED BY <2>2, <2>3, CoverListIs
<1>5. CASE \E step \in {"r410_output_configuration", "cover_mapping"} : Goto(f, step)
  <2>1. PICK step \in {"r410_output_configuration", "cover_mapping"} : Goto(f, step)
    BY <1>5
  <2>2. Onward(f, step) /\ flow'[f].managed = flow[f].managed /\ flow'[f].draft = flow[f].draft
    BY <1>2, <2>1, GotoGives
  <2>3. Coherent(flow'[f])
    BY <1>2, <1>3, <2>2 DEF Coherent, Onward, Fields, ListSteps, CoverSteps
  <2>. QED BY <2>2, <2>3 DEF Moves, Onward
<1>6. CASE /\ ValidCovers(options.covers, options.devices)
           /\ \E described \in BOOLEAN : Finish(f, options, options # stored \/ described)
  <2>. HIDE DEF covers
  <2>1. /\ options \in Options /\ options.devices = stored.devices /\ options.s402 = stored.s402
        /\ options.covers = covers /\ options.interval = stored.interval
    BY <1>2, <1>4, Replaced
  <2>2. Loads(stored) => Loads(options)
    BY <1>6, <2>1 DEF Loads, Loadable
  <2>. HIDE DEF options
  <2>. QED BY <1>6, <2>1, <2>2, FinishStores
<1>. QED BY <1>5, <1>6 DEF ConfirmCover

LEMMA RemoveCoverStores ==
  ASSUME TypeOK, DialogInv, NEW f \in Flow, ConfirmRemoveCover(f) \/ ScanRange(f)
  PROVE  Stores(f)
<1>1. ~At(f, "closed")
  BY DEF ConfirmRemoveCover, ScanRange, At
<1>2. stored \in Options /\ stored.covers \in CoverLists /\ stored.interval \in Interval
  BY <1>1, Holds
<1>3. CASE ConfirmRemoveCover(f)
  <2>. DEFINE covers == Without(stored.covers, {flow[f].original})
              options == [stored EXCEPT !.covers = covers]
  <2>1. covers \in CoverLists
    BY <1>2, FewerCovers
  <2>2. ValidCovers(stored.covers, stored.devices) => ValidCovers(covers, stored.devices)
    BY FewerCoversValid
  <2>3. Finish(f, options, options # stored)
    BY <1>3 DEF ConfirmRemoveCover
  <2>. HIDE DEF covers
  <2>4. /\ options \in Options /\ options.devices = stored.devices /\ options.s402 = stored.s402
        /\ options.covers = covers /\ options.interval = stored.interval
    BY <1>2, <2>1, Replaced
  <2>5. Loads(stored) => Loads(options)
    BY <2>2, <2>4 DEF Loads, Loadable
  <2>. HIDE DEF options
  <2>. QED BY <2>3, <2>4, <2>5, FinishStores
<1>4. CASE ScanRange(f)
  BY <1>2, <1>4, FinishStores DEF ScanRange
<1>. QED BY <1>3, <1>4

-----------------------------------------------------------------------------
(***************************************************************************)
(* Every step, and what the dialogs and the entry keep.                    *)
(***************************************************************************)

\* A step of a dialog moves it, ends it with what it stores, or stores an
\* interval.
LEMMA FlowSteps ==
  ASSUME TypeOK, DialogInv, NEW f \in Flow, FlowStep(f)
  PROVE  Moves(f) \/ (Stores(f) /\ ~At(f, "closed")) \/ Polling(f)
<1>1. Open(f) \/ Close(f) \/ Navigate(f) => Moves(f)
  BY OpenMoves, NavigateMoves
<1>2. AddStep(f) => Moves(f) \/ (Stores(f) /\ ~At(f, "closed"))
  BY AddMoves, ConfirmAddStores, S402Stores DEF AddStep, ConfirmAdd, ConfirmS402, At
<1>3. DeviceStep(f) => Moves(f) \/ (Stores(f) /\ ~At(f, "closed"))
  BY DeviceMoves, ConfirmEditStores, ConfirmRemoveStores, S402Stores
     DEF DeviceStep, ConfirmEdit, ConfirmRemove, ConfirmS402Remove, At
<1>4. CoverStep(f) \/ ScanRange(f) => Moves(f) \/ (Stores(f) /\ ~At(f, "closed"))
  BY CoverMenuMoves, CoverDraftMoves, ConfirmCoverSteps, RemoveCoverStores
     DEF CoverStep, ConfirmCover, ConfirmRemoveCover, ScanRange, At
<1>. QED BY <1>1, <1>2, <1>3, <1>4 DEF FlowStep

\* A dialog has a snapshot when it is open.
LEMMA OpenHasRead ==
  ASSUME NEW w, Coherent(w)
  PROVE  w.snap = None <=> w.step = "closed"
BY NoneAssumption DEF Coherent

\* A new entry has the devices of a scan or one S402, and no Cover.
LEMMA FirstOptionsLoad ==
  ASSUME NEW o \in FirstOptions
  PROVE  o \in Options /\ o.interval \in Interval /\ Loads(o)
<1>. DEFINE Empty == [x \in {} |-> None]
            Scans == {d \in UNION {[S -> Device] : S \in (SUBSET Slave) \ {{}}} :
                        \A s \in DOMAIN d : d[s].model \in Kind[s]}
            Of(devices, s402) == {[devices |-> devices, s402 |-> s402, covers |-> Empty,
                                   interval |-> i] : i \in Interval}
<1>1. /\ Empty \in DeviceLists /\ Empty \in S402Lists /\ Empty \in CoverLists
      /\ DOMAIN Empty = {}
  <2>1. Empty \in [{} -> Device] /\ Empty \in [{} -> {"once", "again"}]
        /\ Empty \in [{} -> [slave : Slave, relays : RelaySets]]
    OBVIOUS
  <2>2. {} \in SUBSET Slave /\ {} \in SUBSET S402Id /\ {} \in SUBSET CoverId
    OBVIOUS
  <2>. QED BY <2>1, <2>2, DeviceListIs, S402ListIs, CoverListIs
<1>2. \A devices : ValidCovers(Empty, devices)
  BY <1>1 DEF ValidCovers
<1>3. ValidS402(Empty)
  BY <1>1 DEF ValidS402
<1>4. \A id \in S402Id : /\ Appended(Empty, id) \in S402Lists
                         /\ ValidS402(Appended(Empty, id))
  <2>. SUFFICES ASSUME NEW id \in S402Id
                PROVE  Appended(Empty, id) \in S402Lists /\ ValidS402(Appended(Empty, id))
    OBVIOUS
  <2>1. Appended(Empty, id) = [i \in {id} |-> "once"]
    BY DEF Appended
  <2>2. Appended(Empty, id) \in [{id} -> {"once", "again"}] /\ {id} \in SUBSET S402Id
    BY <2>1
  <2>. QED BY <2>1, <2>2, S402ListIs DEF ValidS402
<1>5. Scans \subseteq DeviceLists
  BY DEF DeviceLists
<1>6. (\E d \in Scans : o \in Of(d, Empty))
      \/ (\E id \in S402Id : o \in Of(Empty, Appended(Empty, id)))
  BY DEF FirstOptions
<1>. HIDE DEF Empty, Scans
<1>7. CASE \E d \in Scans : o \in Of(d, Empty)
  <2>1. PICK d \in Scans, i \in Interval :
           o = [devices |-> d, s402 |-> Empty, covers |-> Empty, interval |-> i]
    BY <1>7
  <2>2. o \in Options
    BY <1>1, <1>5, <2>1 DEF Options
  <2>. QED BY <1>1, <1>2, <1>3, <2>1, <2>2 DEF Loads, Loadable
<1>8. CASE \E id \in S402Id : o \in Of(Empty, Appended(Empty, id))
  <2>1. PICK id \in S402Id, i \in Interval :
           o = [devices |-> Empty, s402 |-> Appended(Empty, id), covers |-> Empty, interval |-> i]
    BY <1>8
  <2>2. o \in Options
    BY <1>1, <1>4, <2>1 DEF Options
  <2>. QED BY <1>1, <1>2, <1>4, <2>1, <2>2 DEF Loads, Loadable
<1>. QED BY <1>6, <1>7, <1>8

LEMMA InitDialogs == Init => TypeOK /\ DialogInv
<1>. SUFFICES ASSUME Init PROVE TypeOK /\ DialogInv
  OBVIOUS
<1>1. stored \in Options /\ stored.interval \in Interval
  BY FirstOptionsLoad DEF Init
<1>2. DOMAIN flow = Flow /\ \A f \in Flow : flow[f] = Closed
  BY DEF Init
<1>3. DialogInv
  BY <1>2, ClosedIsCoherent DEF DialogInv
<1>4. \A f \in Flow : flow[f].snap = None <=> At(f, "closed")
  BY <1>2 DEF At, Closed
<1>5. 0 \in 0 .. MaxReloads /\ 0 \in 0 .. MaxChanges
  BY ConfigEntryAssumption
<1>. QED BY <1>1, <1>2, <1>3, <1>4, <1>5 DEF Init, TypeOK

\* What the entry does by itself, apart from what it leaves alone.
EntryTypes ==
  /\ stored \in Options /\ stored.interval \in Interval
  /\ entry \in {"unloaded", "starting", "forwarding", "loaded", "retry", "error", "failed_unload"}
  /\ IF entry \in {"starting", "forwarding", "loaded", "failed_unload"}
     THEN hub \in Options ELSE hub = None
  /\ reloads \in 0 .. MaxReloads /\ missed \in BOOLEAN /\ changes \in 0 .. MaxChanges

LEMMA EntryStepTypes == EntryTypes /\ (EntryStep \/ Restart) => EntryTypes'
<1>. SUFFICES ASSUME EntryTypes, EntryStep \/ Restart PROVE EntryTypes'
  OBVIOUS
<1>. USE ConfigEntryAssumption DEF EntryTypes
<1>1. CASE SetupBegins
  BY <1>1 DEF SetupBegins
<1>2. CASE SetupFails
  BY <1>2 DEF SetupFails
<1>3. CASE SetupRuns
  BY <1>3 DEF SetupRuns
<1>4. CASE PlatformsReady
  BY <1>4 DEF PlatformsReady
<1>5. CASE PlatformsFail
  BY <1>5 DEF PlatformsFail
<1>6. CASE Reload
  BY <1>6 DEF Reload
<1>7. CASE Reconfigure
  BY <1>7 DEF Reconfigure
<1>8. CASE Restart
  BY <1>8 DEF Restart
<1>. QED BY <1>1, <1>2, <1>3, <1>4, <1>5, <1>6, <1>7, <1>8 DEF EntryStep

\* The dialogs decide about TypeOK with what they hold.
LEMMA Typed ==
  ASSUME EntryTypes, DOMAIN flow = Flow, DialogInv
  PROVE  TypeOK
BY OpenHasRead DEF TypeOK, EntryTypes, DialogInv, At

LEMMA EntryKeepsDialogs ==
  TypeOK /\ DialogInv /\ ((EntryStep /\ UNCHANGED flow) \/ (Restart /\ flow' = [f \in Flow |-> Closed]))
    => (TypeOK /\ DialogInv)'
<1>. SUFFICES ASSUME TypeOK, DialogInv,
                     (EntryStep /\ UNCHANGED flow) \/ (Restart /\ flow' = [f \in Flow |-> Closed])
              PROVE  (TypeOK /\ DialogInv)'
  OBVIOUS
<1>1. EntryTypes'
  BY EntryStepTypes DEF TypeOK, EntryTypes
<1>2. (DOMAIN flow = Flow)' /\ DialogInv'
  BY ClosedIsCoherent DEF TypeOK, DialogInv
<1>3. (EntryTypes /\ DOMAIN flow = Flow /\ DialogInv => TypeOK)'
  BY Typed, PTL
<1>. QED BY <1>1, <1>2, <1>3

LEMMA DialogsKeepDialogs ==
  ASSUME TypeOK, DialogInv, NEW f \in Flow, FlowStep(f)
  PROVE  (TypeOK /\ DialogInv)'
<1>1. DOMAIN flow = Flow /\ EntryTypes /\ \A g \in Flow : Coherent(flow[g])
  BY DEF TypeOK, EntryTypes, DialogInv
<1>2. ASSUME Moves(f)
      PROVE  EntryTypes' /\ DOMAIN flow' = Flow /\ \A g \in Flow : Coherent(flow'[g])
  BY <1>1, <1>2 DEF Moves, Moved, entryVars, EntryTypes
<1>3. ASSUME Stores(f)
      PROVE  EntryTypes' /\ DOMAIN flow' = Flow /\ \A g \in Flow : Coherent(flow'[g])
  <2>1. DOMAIN flow' = Flow /\ \A g \in Flow : flow'[g] = Closed \/ flow'[g] = flow[g]
    BY <1>1, <1>3 DEF Stores
  <2>2. PICK options \in Options, changed \in BOOLEAN :
           Store(options, changed) /\ options.interval = stored.interval
    BY <1>3 DEF Stores
  <2>3. /\ reloads' \in 0 .. MaxReloads /\ changes' \in 0 .. MaxChanges
        /\ stored' = options /\ UNCHANGED <<entry, hub, registry, missed>>
    BY <1>1, <2>2, ConfigEntryAssumption DEF Store, EntryTypes
  <2>4. EntryTypes'
    BY <1>1, <2>2, <2>3 DEF EntryTypes
  <2>. QED BY <1>1, <2>1, <2>4, ClosedIsCoherent
<1>4. ASSUME Polling(f)
      PROVE  EntryTypes' /\ DOMAIN flow' = Flow /\ \A g \in Flow : Coherent(flow'[g])
  <2>1. DOMAIN flow' = Flow /\ \A g \in Flow : flow'[g] = Closed \/ flow'[g] = flow[g]
    BY <1>1, <1>4 DEF Polling
  <2>2. PICK interval \in Interval :
          /\ stored' = [stored EXCEPT !.interval = interval]
          /\ hub' = IF HasRuntime THEN [hub EXCEPT !.interval = interval] ELSE hub
          /\ missed' = (entry = "starting" /\ hub.interval # interval)
    BY <1>4 DEF Polling
  <2>3. \A o \in Options : [o EXCEPT !.interval = interval] \in Options
    BY DEF Options
  <2>4. stored' \in Options /\ stored'.interval = interval
    BY <1>1, <2>2, <2>3 DEF EntryTypes, Options
  <2>5. changes' \in 0 .. MaxChanges /\ UNCHANGED <<entry, reloads, registry>>
    BY <1>1, <1>4, ConfigEntryAssumption DEF Polling, EntryTypes
  <2>6. IF entry \in {"starting", "forwarding", "loaded", "failed_unload"}
        THEN hub' \in Options ELSE hub' = None
    BY <1>1, <2>2, <2>3 DEF EntryTypes, HasRuntime
  <2>7. missed' \in BOOLEAN
    BY <2>2
  <2>8. EntryTypes'
    BY <1>1, <2>4, <2>5, <2>6, <2>7 DEF EntryTypes
  <2>. QED BY <1>1, <2>1, <2>8, ClosedIsCoherent
<1>5. EntryTypes' /\ (DOMAIN flow = Flow)' /\ DialogInv'
  BY <1>2, <1>3, <1>4, FlowSteps DEF DialogInv
<1>6. (EntryTypes /\ DOMAIN flow = Flow /\ DialogInv => TypeOK)'
  BY Typed, PTL
<1>. QED BY <1>5, <1>6

LEMMA StutterKeepsDialogs ==
  TypeOK /\ DialogInv /\ UNCHANGED vars => (TypeOK /\ DialogInv)'
BY DEF TypeOK, DialogInv, vars, entryVars, At

LEMMA DialogsAreCoherent == Spec => [](TypeOK /\ DialogInv)
<1>1. TypeOK /\ DialogInv /\ [Next]_vars => (TypeOK /\ DialogInv)'
  <2>. SUFFICES ASSUME TypeOK, DialogInv, [Next]_vars
                PROVE  (TypeOK /\ DialogInv)'
    OBVIOUS
  <2>1. CASE (EntryStep /\ UNCHANGED flow) \/ (Restart /\ flow' = [f \in Flow |-> Closed])
    BY <2>1, EntryKeepsDialogs
  <2>2. CASE \E f \in Flow : FlowStep(f)
    BY <2>2, DialogsKeepDialogs
  <2>3. CASE UNCHANGED vars
    BY <2>3, StutterKeepsDialogs
  <2>4. Next \/ UNCHANGED vars
    OBVIOUS
  <2>. QED BY <2>1, <2>2, <2>3, <2>4, Zenon DEF Next
<1>. QED BY <1>1, InitDialogs, PTL DEF Spec

\* The values of the entry's variables, and what each open dialog holds: it
\* has read options, and a draft that the form it shows can have.
THEOREM OptionsTyped == Spec => []TypeOK
BY DialogsAreCoherent, PTL

-----------------------------------------------------------------------------
(***************************************************************************)
(* The entry runs what is stored.                                          *)
(***************************************************************************)

\* What a step of a dialog does to the entry: nothing, or it stores options
\* with a reload ahead of it, or it stores an interval.
FlowStores == \E options \in Options, changed \in BOOLEAN :
  /\ Store(options, changed) /\ options.interval = stored.interval
  /\ ~changed => options = stored

IntervalStored == \E interval \in Interval :
  /\ stored' = [stored EXCEPT !.interval = interval]
  /\ hub' = IF HasRuntime THEN [hub EXCEPT !.interval = interval] ELSE hub
  /\ missed' = (entry = "starting" /\ hub.interval # interval)
  /\ UNCHANGED <<entry, reloads, registry>>

LEMMA EntrySees ==
  ASSUME TypeOK, DialogInv, [Next]_vars
  PROVE  EntryStep \/ Restart \/ UNCHANGED entryVars \/ FlowStores \/ IntervalStored
<1>1. ASSUME NEW f \in Flow, FlowStep(f)
      PROVE  UNCHANGED entryVars \/ FlowStores \/ IntervalStored
  <2>1. Moves(f) => UNCHANGED entryVars
    BY DEF Moves, Moved
  <2>2. Stores(f) => FlowStores
    BY DEF Stores, FlowStores
  <2>3. Polling(f) => IntervalStored
    BY DEF Polling, IntervalStored
  <2>. QED BY <1>1, <2>1, <2>2, <2>3, FlowSteps
<1>2. UNCHANGED vars => UNCHANGED entryVars
  BY DEF vars
<1>. QED BY <1>1, <1>2 DEF Next

\* An interval changes nothing of the lists.
LEMMA OtherInterval ==
  ASSUME NEW o \in Options, NEW interval
  PROVE  /\ SameLists([o EXCEPT !.interval = interval], o)
         /\ SameLists(o, [o EXCEPT !.interval = interval])
         /\ [o EXCEPT !.interval = interval].interval = interval
BY DEF Options, SameLists

LEMMA InitEntry == Init => EntryInv
BY DEF Init, EntryInv

LEMMA EntryStepEntry ==
  ASSUME TypeOK, EntryInv, EntryStep \/ Restart
  PROVE  EntryInv'
<1>0. hub = None <=> entry \notin {"starting", "forwarding", "loaded", "failed_unload"}
  BY NoneAssumption DEF TypeOK
<1>1. CASE SetupBegins
  <2>1. UNCHANGED <<stored, reloads, registry>>
    BY <1>1 DEF SetupBegins
  <2>2. CASE entry' = "starting" /\ hub' = stored /\ Loadable(stored)
    BY <2>1, <2>2 DEF EntryInv, SameLists
  <2>3. CASE entry' = "error" /\ UNCHANGED hub
    BY <2>1, <2>3 DEF EntryInv
  <2>. QED BY <1>1, <2>2, <2>3 DEF SetupBegins
<1>2. CASE SetupFails
  BY <1>2 DEF SetupFails, EntryInv
<1>3. CASE SetupRuns
  <2>1. UNCHANGED <<stored, reloads, missed>> /\ entry = "starting"
    BY <1>3 DEF SetupRuns
  <2>2. CASE entry' = "forwarding" /\ registry' = registry \cap Expected(stored) /\ UNCHANGED hub
    BY <2>1, <2>2 DEF EntryInv
  <2>3. CASE entry' = "error" /\ hub' = None
    BY <2>1, <2>3 DEF EntryInv
  <2>. QED BY <1>3, <2>2, <2>3 DEF SetupRuns
<1>4. CASE PlatformsReady
  <2>1. /\ UNCHANGED <<stored, hub, reloads, missed>> /\ entry = "forwarding" /\ entry' = "loaded"
        /\ registry' = registry \cup CreatedIds(hub)
    BY <1>4 DEF PlatformsReady
  <2>2. reloads = 0 => CreatedIds(hub) \subseteq Expected(stored)
    BY <2>1, CreatedSame, CreatedExpected DEF EntryInv
  <2>. QED BY <2>1, <2>2 DEF EntryInv
<1>5. CASE PlatformsFail
  BY <1>5 DEF PlatformsFail, EntryInv
<1>6. CASE Reload
  BY <1>6 DEF Reload, EntryInv
<1>7. CASE Reconfigure
  <2>1. UNCHANGED <<stored, entry, hub, registry, missed>> /\ reloads' # 0
    BY <1>7 DEF Reconfigure, TypeOK
  <2>. QED BY <2>1 DEF EntryInv
<1>8. CASE Restart
  BY <1>8 DEF Restart, EntryInv
<1>. QED BY <1>1, <1>2, <1>3, <1>4, <1>5, <1>6, <1>7, <1>8 DEF EntryStep

LEMMA StoreEntry ==
  ASSUME TypeOK, EntryInv, FlowStores
  PROVE  EntryInv'
<1>1. PICK options \in Options, changed \in BOOLEAN :
        /\ Store(options, changed) /\ options.interval = stored.interval
        /\ ~changed => options = stored
  BY DEF FlowStores
<1>2. stored' = options /\ UNCHANGED <<entry, hub, registry, missed>>
  BY <1>1 DEF Store
<1>3. CASE changed
  <2>1. reloads' # 0
    BY <1>1, <1>3 DEF Store, TypeOK
  <2>. QED BY <1>1, <1>2, <2>1 DEF EntryInv
<1>4. CASE ~changed
  <2>1. UNCHANGED <<stored, reloads>>
    BY <1>1, <1>2, <1>4 DEF Store
  <2>. QED BY <1>2, <2>1 DEF EntryInv
<1>. QED BY <1>3, <1>4

LEMMA IntervalEntry ==
  ASSUME TypeOK, EntryInv, IntervalStored
  PROVE  EntryInv'
<1>1. PICK interval \in Interval :
        /\ stored' = [stored EXCEPT !.interval = interval]
        /\ hub' = IF HasRuntime THEN [hub EXCEPT !.interval = interval] ELSE hub
        /\ missed' = (entry = "starting" /\ hub.interval # interval)
        /\ UNCHANGED <<entry, reloads, registry>>
  BY DEF IntervalStored
<1>2. SameLists(stored', stored) /\ SameLists(stored, stored') /\ stored'.interval = interval
  BY <1>1, OtherInterval DEF TypeOK
<1>3. Expected(stored') = Expected(stored)
  BY <1>2, CreatedSame
<1>4. ASSUME hub # None
      PROVE  SameLists(hub', hub)
  <2>1. hub \in Options
    BY <1>4 DEF TypeOK
  <2>. QED BY <1>1, <2>1, OtherInterval DEF SameLists
<1>5. hub = None => hub' = None
  BY <1>1, NoneAssumption DEF TypeOK, HasRuntime
<1>6. hub # None => (Loadable(hub') <=> Loadable(hub)) /\ CreatedIds(hub') = CreatedIds(hub)
  BY <1>4, CreatedSame
<1>7. entry \in {"starting", "forwarding", "loaded"} => hub # None
  BY NoneAssumption DEF TypeOK
<1>8. entry \in {"forwarding", "loaded"} => hub'.interval = interval
  BY <1>1, <1>7, OtherInterval DEF TypeOK, HasRuntime
<1>9. entry = "starting" => hub' = hub
  BY <1>1 DEF HasRuntime
<1>. QED BY <1>1, <1>2, <1>3, <1>4, <1>5, <1>6, <1>7, <1>8, <1>9 DEF EntryInv, SameLists

LEMMA EntryRunsStored == Spec => []EntryInv
<1>1. TypeOK /\ DialogInv /\ EntryInv /\ [Next]_vars => EntryInv'
  <2>. SUFFICES ASSUME TypeOK, DialogInv, EntryInv, [Next]_vars PROVE EntryInv'
    OBVIOUS
  <2>1. UNCHANGED entryVars => EntryInv'
    BY DEF entryVars, EntryInv
  <2>. QED BY <2>1, EntrySees, EntryStepEntry, StoreEntry, IntervalEntry
<1>. QED BY <1>1, InitEntry, DialogsAreCoherent, PTL DEF Spec

\* A loaded entry with no reload ahead runs what is in store, however its
\* dialogs, reloads and the awaits of its set-up fell.
THEOREM LoadedRunsStored == Spec => []RunsStored
<1>1. EntryInv => RunsStored
  BY CreatedSame DEF EntryInv, RunsStored, SameLists
<1>. QED BY <1>1, EntryRunsStored, PTL

\* Whatever devices, groups and Covers: a loaded hub has one entity for every
\* register of every device.
THEOREM OneEntityDrives == Spec => []OneDriver
<1>1. TypeOK /\ EntryInv => OneDriver
  <2>. SUFFICES ASSUME TypeOK, EntryInv, entry = "loaded"
                PROVE  hub \in Options /\ Loadable(hub)
    BY LoadableDrives DEF OneDriver
  <2>. QED BY NoneAssumption DEF TypeOK, EntryInv
<1>. QED BY <1>1, EntryRunsStored, OptionsTyped, PTL

\* Pruning never takes the registry entry of an output that is still in the
\* options.
THEOREM OutputsKeepIdentity == Spec => IdentityKept
<1>. DEFINE Kept == \A id \in registry \ registry' : \A s \in DOMAIN stored.devices :
                      \A out \in Outputs(s, stored.devices[s]) : out.id # id
<1>1. TypeOK /\ DialogInv /\ [Next]_vars => [Kept]_entryVars
  <2>. SUFFICES ASSUME TypeOK, DialogInv, [Next]_vars PROVE Kept \/ UNCHANGED entryVars
    OBVIOUS
  <2>1. registry \subseteq registry' => Kept
    OBVIOUS
  <2>2. SetupRuns => Kept
    <3>1. \A s \in DOMAIN stored.devices : \A out \in Outputs(s, stored.devices[s]) :
            out.id \in Expected(stored)
      BY DEF Expected, PhysicalIds, Ids
    <3>2. SetupRuns => registry \cap Expected(stored) \subseteq registry'
      BY DEF SetupRuns
    <3>. QED BY <3>1, <3>2
  <2>3. EntryStep \/ Restart => SetupRuns \/ registry \subseteq registry'
    BY DEF EntryStep, SetupBegins, SetupFails, PlatformsReady, PlatformsFail, Reload,
           Reconfigure, Restart
  <2>4. FlowStores \/ IntervalStored => registry \subseteq registry'
    BY DEF FlowStores, IntervalStored, Store
  <2>. HIDE DEF Kept
  <2>. QED BY <2>1, <2>2, <2>3, <2>4, EntrySees
<1>. QED BY <1>1, DialogsAreCoherent, PTL DEF Spec, IdentityKept

-----------------------------------------------------------------------------
(***************************************************************************)
(* One dialog at a time: nobody else stores options while it is open.      *)
(***************************************************************************)
OneDialog == \A f, g \in Flow : f = g

LEMMA InitSnap == Init => SnapInv /\ Loads(stored)
BY FirstOptionsLoad DEF Init, SnapInv, Closed

LEMMA StepSnap ==
  ASSUME OneDialog, TypeOK, DialogInv, SnapInv, Loads(stored), [Next]_vars
  PROVE  SnapInv' /\ Loads(stored')
<1>1. CASE (EntryStep /\ UNCHANGED flow) \/ (Restart /\ flow' = [f \in Flow |-> Closed])
  <2>1. stored' = stored
    BY <1>1 DEF EntryStep, SetupBegins, SetupFails, SetupRuns, PlatformsReady, PlatformsFail,
                Reload, Reconfigure, Restart
  <2>. QED BY <1>1, <2>1 DEF SnapInv, Closed
<1>2. ASSUME NEW f \in Flow, FlowStep(f)
      PROVE  SnapInv' /\ Loads(stored')
  <2>0. DOMAIN flow = Flow /\ \A g \in Flow : g = f
    BY DEF OneDialog, TypeOK
  <2>1. CASE Moves(f)
    BY <2>0, <2>1 DEF Moves, Moved, entryVars, SnapInv
  <2>2. CASE Stores(f) /\ ~At(f, "closed")
    <3>1. SameLists(flow[f].snap, stored)
      BY <2>2, OpenHasRead DEF SnapInv, DialogInv, At
    <3>2. flow' = [flow EXCEPT ![f] = Closed] /\ Loads(stored')
      BY <2>2, <3>1 DEF Stores, Store
    <3>. QED BY <2>0, <3>2 DEF SnapInv, Closed
  <2>3. CASE Polling(f)
    <3>1. flow' = [flow EXCEPT ![f] = Closed] /\ SameLists(stored', stored)
      BY <2>3, OtherInterval DEF Polling, TypeOK
    <3>2. Loads(stored')
      BY <3>1, CreatedSame DEF Loads, SameLists
    <3>. QED BY <2>0, <3>1, <3>2 DEF SnapInv, Closed
  <2>. QED BY <1>2, <2>1, <2>2, <2>3, FlowSteps
<1>3. CASE UNCHANGED vars
  BY <1>3 DEF vars, entryVars, SnapInv
<1>. QED BY <1>1, <1>2, <1>3 DEF Next

LEMMA OnlyDialogReadsStored == Spec => [](OneDialog => SnapInv /\ Loads(stored))
<1>1. Init => (OneDialog => SnapInv /\ Loads(stored))
  BY InitSnap
<1>2. TypeOK /\ DialogInv /\ (OneDialog => SnapInv /\ Loads(stored)) /\ [Next]_vars
        => (OneDialog => SnapInv /\ Loads(stored))'
  BY StepSnap DEF OneDialog
<1>. QED BY <1>1, <1>2, DialogsAreCoherent, PTL DEF Spec

\* With one dialog at a time, what is stored can be set up again, and slave 1
\* stays free next to an S402.
THEOREM OneDialogStoresLoadable ==
  ASSUME OneDialog
  PROVE  Spec => []OptionsLoadable
<1>1. (OneDialog => SnapInv /\ Loads(stored)) => OptionsLoadable
  BY DEF Loads, OptionsLoadable
<1>. QED BY <1>1, OnlyDialogReadsStored, PTL

=============================================================================
