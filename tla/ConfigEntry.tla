----------------------------- MODULE ConfigEntry -----------------------------
(***************************************************************************)
(* The config entry of one gateway: set up, unloaded, reloaded             *)
(* (__init__.py), reconfigured (config_flow.py), with the options it has   *)
(* in store and the identities it has in the registry.  Home Assistant's   *)
(* part (the lock that keeps setups and unloads apart, the queue of        *)
(* reloads, the retry timer, the states of an entry) is external.          *)
(*                                                                         *)
(* Setting up is three actions, for hub.start() and the set-up of the      *)
(* platforms are awaited and options can change during both.               *)
(***************************************************************************)
EXTENDS Devices

CONSTANTS
  None,          \* model value: no hub, nothing chosen
  MaxReloads,    \* bound: how many reloads wait at once
  MaxChanges     \* bound: how often new options are stored

VARIABLES
  stored,        \* entry.options
  entry,         \* the state of the entry
  hub,           \* the options its hub runs with, None without a hub
  reloads,       \* the number of reloads scheduled and not begun
  registry,      \* the unique ids in the entity registry
  missed,        \* history: an interval was stored that the hub was not told
  changes        \* bounded by MaxChanges

entryVars == <<stored, entry, hub, reloads, registry, missed, changes>>

ASSUME ConfigEntryAssumption == {MaxReloads, MaxChanges} \subseteq Nat \ {0}

\* Mutant: runtime_data is set after the platforms.
HasRuntimeLate == entry \in {"loaded", "failed_unload"}

\* entry.runtime_data is the running hub.
HasRuntime == entry \in {"forwarding", "loaded", "failed_unload"}

\* async_setup_entry to the await of hub.start(): options that cannot be read
\* end it.  The timer of a retry comes back here.
SetupBegins ==
  /\ entry \in {"unloaded", "retry"}
  /\ IF Loadable(stored)
     THEN entry' = "starting" /\ hub' = stored
     ELSE entry' = "error" /\ UNCHANGED hub
  /\ missed' = FALSE
  /\ UNCHANGED <<stored, reloads, registry, changes>>

\* Mutant: a failed start() leaves the hub running.
SetupFailsRunning ==
  /\ entry = "starting"
  /\ entry' \in {"retry", "error"}
  /\ UNCHANGED <<stored, hub, reloads, registry, missed, changes>>

\* hub.start() raises: the hub is stopped.  HA retries if the gateway could
\* not be reached.
SetupFails ==
  /\ entry = "starting"
  /\ entry' \in {"retry", "error"} /\ hub' = None
  /\ UNCHANGED <<stored, reloads, registry, missed, changes>>

\* hub.start() returned: prune_registries reads the options as they are now,
\* before it removes anything.
SetupRuns ==
  /\ entry = "starting"
  /\ IF Loadable(stored)
     THEN /\ entry' = "forwarding" /\ registry' = registry \cap Expected(stored)
          /\ UNCHANGED hub
     ELSE entry' = "error" /\ hub' = None /\ UNCHANGED registry
  /\ UNCHANGED <<stored, reloads, missed, changes>>

PlatformsReady ==
  /\ entry = "forwarding"
  /\ entry' = "loaded" /\ registry' = registry \cup CreatedIds(hub)
  /\ UNCHANGED <<stored, hub, reloads, missed, changes>>

\* A platform cannot be set up: others may have registered their entities.
PlatformsFail ==
  /\ entry = "forwarding"
  /\ \E done \in SUBSET DOMAIN Created(hub) :
       registry' = registry \cup UNION {Created(hub)[p] : p \in done}
  /\ entry' = "error" /\ hub' = None
  /\ UNCHANGED <<stored, reloads, missed, changes>>

\* A reload that was scheduled begins.  Without a running hub there is
\* nothing to unload.  After a failed unload HA refuses every reload: it stays
\* in the count until the restart.
Reload ==
  /\ reloads > 0 /\ reloads' = reloads - 1
  /\ \/ /\ entry = "loaded" /\ entry' = "unloaded" /\ hub' = None
     \/ /\ entry = "loaded" /\ entry' = "failed_unload" /\ UNCHANGED hub
     \/ /\ entry \in {"retry", "error"} /\ entry' = "unloaded" /\ UNCHANGED hub
  /\ UNCHANGED <<stored, registry, missed, changes>>

\* async_step_reconfigure has reached the new gateway: the entry is reloaded.
Reconfigure ==
  /\ reloads < MaxReloads /\ reloads' = reloads + 1
  /\ UNCHANGED <<stored, entry, hub, registry, missed, changes>>

\* Home Assistant restarts: options and registry are in its storage.
Restart ==
  /\ entry # "unloaded" /\ entry' = "unloaded" /\ hub' = None /\ reloads' = 0
  /\ UNCHANGED <<stored, registry, missed, changes>>

EntryStep == SetupBegins \/ SetupFails \/ SetupRuns \/ PlatformsReady \/ PlatformsFail
             \/ Reload \/ Reconfigure

\* A flow is finished: its options are stored and a changed entry is reloaded.
Store(options, changed) ==
  /\ stored' = options
  /\ IF changed
     THEN /\ reloads < MaxReloads /\ reloads' = reloads + 1
          /\ changes < MaxChanges /\ changes' = changes + 1
     ELSE UNCHANGED <<reloads, changes>>
  /\ UNCHANGED <<entry, hub, registry, missed>>

-----------------------------------------------------------------------------
(***************************************************************************)
(* Every register of every device a loaded hub has, coils included, is     *)
(* driven by exactly one entity (light.py, switch.py, cover.py set-up):    *)
(* groups do not overlap, a relay is a Switch or belongs to one Cover.     *)
(***************************************************************************)
OneDriver ==
  entry = "loaded" =>
    \A s \in DOMAIN hub.devices : \A r \in Registers(hub.devices[s].model) :
      \E d \in Drivers(hub) : \A e \in Drivers(hub) :
        (e.slave = s /\ r \in e.registers) <=> e = d

(***************************************************************************)
(* An entry that is loaded and has no reload ahead runs what it has in     *)
(* store: no change that a flow confirmed is forgotten, whatever setup was *)
(* doing meanwhile, and the registry holds the entities of the hub and     *)
(* none that the options no longer name (prune_registries).  The interval  *)
(* stored while hub.start() is awaited is the exception the code makes.    *)
(***************************************************************************)
RunsStored ==
  entry = "loaded" /\ reloads = 0 =>
    /\ hub.devices = stored.devices /\ hub.s402 = stored.s402 /\ hub.covers = stored.covers
    /\ ~missed => hub.interval = stored.interval
    /\ CreatedIds(hub) \subseteq registry /\ registry \subseteq Expected(stored)

(***************************************************************************)
(* The registry entry of a register's output, with what the user made of   *)
(* it, is removed only when the options have no such output: a relay keeps *)
(* its entry while a Cover owns it, and a change to one device or group    *)
(* leaves the entries of the others (prune_registries, r410_cover.py).     *)
(***************************************************************************)
IdentityKept ==
  [][\A id \in registry \ registry' : \A s \in DOMAIN stored.devices :
       \A out \in Outputs(s, stored.devices[s]) : out.id # id]_entryVars
=============================================================================
