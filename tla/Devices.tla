------------------------------- MODULE Devices -------------------------------
(***************************************************************************)
(* Configured devices and what is made of them, as pure operators: the     *)
(* profiles of the models (profiles.py), the device records (models.py),   *)
(* the Covers of an R410 (r410_cover.py), the list of S402 (s402.py), the  *)
(* entities the four platforms create and the identities that pruning      *)
(* expects (__init__.py).                                                  *)
(*                                                                         *)
(* Options are a record [devices, s402, covers, interval].  A device list  *)
(* is a function from its slaves, a Cover list one from its ids: the flows *)
(* never put a slave or an id twice into a list.  Two flows can append one *)
(* S402 id twice: that list is a function that says of each id whether it  *)
(* is there once or again.  Registers are counted from the first one a     *)
(* model has.  Of a Cover only the slave and the set of relays are kept:   *)
(* roles, name, class and pulse choose the value a command carries and     *)
(* nothing here.                                                           *)
(***************************************************************************)
EXTENDS Integers, FiniteSets

Model == {"p404", "p210", "r410"}
GroupMode == {"single", "cct"}
Reserved == 1                  \* the slave whose address S402 frames carry

IsRelay(m) == m = "r410"                                        \* family
Groups(m) == CASE m = "p404" -> {0, 1} [] m = "p210" -> {0} [] OTHER -> {}
Registers(m) == 0 .. (IF m = "p210" THEN 1 ELSE 3)

Device == UNION {[model : {m}, mode : [Groups(m) -> GroupMode]] : m \in Model}
Fresh(m) == [model |-> m, mode |-> [g \in Groups(m) |-> "single"]]

\* DeviceProfile.outputs: one output for a CCT group, one for each channel
\* of a single group, one for each relay.
GroupOutputs(s, d, g) ==
  IF d.mode[g] = "cct"
  THEN {[id |-> <<"group", s, g>>, registers |-> {2 * g, 2 * g + 1}]}
  ELSE {[id |-> <<"ch", s, c + 1>>, registers |-> {c}] : c \in {2 * g, 2 * g + 1}}

Outputs(s, d) ==
  IF IsRelay(d.model)
  THEN {[id |-> <<"relay", s, r + 1>>, registers |-> {r}] : r \in Registers(d.model)}
  ELSE UNION {GroupOutputs(s, d, g) : g \in Groups(d.model)}

-----------------------------------------------------------------------------
RelaySets == {R \in SUBSET (1 .. 4) : Cardinality(R) \in {2, 3}}

OnSlave(covers, s) == {c \in DOMAIN covers : covers[c].slave = s}
Occupied(covers, s) == UNION {covers[c].relays : c \in OnSlave(covers, s)}

\* r410_covers_from_options and s402_devices_from_options: what they accept.
ValidCovers(covers, devices) ==
  /\ \A c \in DOMAIN covers :
       /\ covers[c].slave \in DOMAIN devices
       /\ IsRelay(devices[covers[c].slave].model)
       /\ covers[c].relays \in RelaySets
  /\ \A c, d \in DOMAIN covers :
       c # d /\ covers[c].slave = covers[d].slave => covers[c].relays \cap covers[d].relays = {}

ValidS402(s402) == \A id \in DOMAIN s402 : s402[id] = "once"

Loadable(o) == ValidCovers(o.covers, o.devices) /\ ValidS402(o.s402)

-----------------------------------------------------------------------------
\* What the platforms create for a hub: each entity with the register it
\* drives.  A relay that a Cover owns has no Switch; addresses count from 0
\* and relays from 1.
Lights(o) ==
  UNION {{[id |-> out.id, slave |-> s, registers |-> out.registers] : out \in Outputs(s, o.devices[s])}
         : s \in {t \in DOMAIN o.devices : ~IsRelay(o.devices[t].model)}}

\* Mutant: the address is taken for the number of the relay.
FreeRelayByAddress(o, s, out) == out.registers \cap Occupied(o.covers, s) = {}

FreeRelay(o, s, out) == \A r \in out.registers : r + 1 \notin Occupied(o.covers, s)

Switches(o) ==
  UNION {{[id |-> out.id, slave |-> s, registers |-> out.registers]
          : out \in {u \in Outputs(s, o.devices[s]) : FreeRelay(o, s, u)}}
         : s \in {t \in DOMAIN o.devices : IsRelay(o.devices[t].model)}}

CoverEntities(o) ==
  {[id |-> <<"cover", o.covers[c].slave, c>>, slave |-> o.covers[c].slave,
    registers |-> {r - 1 : r \in o.covers[c].relays}] : c \in DOMAIN o.covers}

Inputs(o) == {<<"di", id, di>> : id \in DOMAIN o.s402, di \in 1 .. 4}

Drivers(o) == Lights(o) \cup Switches(o) \cup CoverEntities(o)
Ids(entities) == {e.id : e \in entities}
Created(o) == [light |-> Ids(Lights(o)), switch |-> Ids(Switches(o)),
               event |-> Inputs(o), cover |-> Ids(CoverEntities(o))]
CreatedIds(o) == UNION {Created(o)[p] : p \in DOMAIN Created(o)}

\* The identities prune_registries keeps: every physical output, a relay that
\* a Cover owns included, every Cover, every input of an S402.
PhysicalIds(devices) == UNION {Ids(Outputs(s, devices[s])) : s \in DOMAIN devices}
\* Mutant: a relay that a Cover owns loses its identity.
ExpectedCreated(o) == CreatedIds(o)

Expected(o) == PhysicalIds(o.devices) \cup Ids(CoverEntities(o)) \cup Inputs(o)
=============================================================================
