----------------------------- MODULE OptionsFlow -----------------------------
(***************************************************************************)
(* The options flows of one entry (config_flow.py, CoseligOptionsFlow),    *)
(* next to its config entry.  A flow reads the options when its first menu *)
(* is shown (snap), lets the user walk its menus, and stores a new set of  *)
(* options at a confirmation, which ends it.  What it stores is partly its *)
(* snapshot and partly the options as they are by then.  Several flows may *)
(* be open.                                                                *)
(*                                                                         *)
(* Menus that only lead on are tables; forms that follow each other and    *)
(* only fill in the draft are one action.  A refused form comes back       *)
(* unchanged and is no step.  The scan range is left out of the options.   *)
(***************************************************************************)
EXTENDS ConfigEntry

CONSTANTS
  Flow,          \* the flows that can be open at once
  Slave, Kind,   \* slaves, and the models a scan may take each for
  S402Id, CoverId, Interval,
  Layout         \* the sets of relays a user gives to a Cover

VARIABLE flow    \* of each flow: where it is and what it holds

vars == <<entryVars, flow>>

ASSUME OptionsAssumption ==
  /\ Slave \subseteq 1 .. 247 /\ Kind \in [Slave -> SUBSET Model]
  /\ Layout \subseteq RelaySets /\ S402Id \subseteq 0 .. 255

\* What is in store, and what a dialog has read: there an interval is None.
DeviceLists == UNION {[S -> Device] : S \in SUBSET Slave}
S402Lists == UNION {[I -> {"once", "again"}] : I \in SUBSET S402Id}
CoverLists == UNION {[C -> [slave : Slave, relays : RelaySets]] : C \in SUBSET CoverId}
Options == [devices : DeviceLists, s402 : S402Lists, covers : CoverLists,
            interval : Interval \cup {None}]

ASSUME NoneAssumption == None \notin Options

Closed == [step |-> "closed", snap |-> None, managed |-> None, original |-> None, draft |-> None]

InitMenus == {
  <<"init", "device_management">>, <<"init", "communication">>,
  <<"device_management", "add_device">>, <<"manage_devices_empty", "device_management">>,
  <<"add_device", "scan_range">>, <<"add_device", "add_s402">>}

ScanMenus == {<<"scan_no_new", "scan_range">>, <<"scan_no_new", "add_device">>}

CancelMenus == {
  <<"add_summary", "add_device">>, <<"edit_summary", "device_menu">>,
  <<"scan_failed", "scan_range">>, <<"scan_failed", "add_device">>}

DeviceMenus == {
  <<"device_menu", "remove_summary">>, <<"remove_summary", "device_menu">>,
  <<"s402_device_management", "s402_remove_summary">>}

CoverMenus == {
  <<"manage_r410_covers", "edit_r410_cover">>, <<"manage_r410_covers", "remove_r410_cover">>}

BackMenus == {
  <<"s402_summary", "add_device">>, <<"s402_remove_summary", "s402_device_management">>,
  <<"add_device", "device_management">>,
  <<"device_menu", "manage_devices">>, <<"s402_device_management", "manage_devices">>,
  <<"r410_output_configuration", "device_menu">>,
  <<"manage_r410_covers", "r410_output_configuration">>,
  <<"communication", "polling">>, <<"communication", "communication_scan_range">>}

Menu == InitMenus \cup ScanMenus \cup CancelMenus \cup DeviceMenus \cup CoverMenus \cup BackMenus

At(f, step) == flow[f].step = step
Goto(f, step) == flow' = [flow EXCEPT ![f].step = step] /\ UNCHANGED entryVars
Fill(f, step, draft) ==
  /\ flow' = [flow EXCEPT ![f].step = step, ![f].draft = draft]
  /\ UNCHANGED entryVars

Managed(f) == flow[f].snap.devices[flow[f].managed]

\* _cover_relay_pool: the relays no other Cover of the snapshot has.
Pool(f) ==
  (1 .. 4) \ UNION {flow[f].snap.covers[c].relays :
                      c \in OnSlave(flow[f].snap.covers, flow[f].managed) \ {flow[f].original}}
CoversHere(f) == OnSlave(flow[f].snap.covers, flow[f].managed)

NewSlaves(f, found) == found \ DOMAIN flow[f].snap.devices

-----------------------------------------------------------------------------
\* async_step_init, by opening the dialog or by going back to the options.
\* Options that cannot be read abort it.
Open(f) ==
  /\ flow[f].step \in {"closed", "device_management", "communication"}
  /\ flow' = [flow EXCEPT ![f] =
                IF Loadable(stored)
                THEN [Closed EXCEPT !.step = "init", !.snap = [stored EXCEPT !.interval = None]]
                ELSE Closed]
  /\ UNCHANGED entryVars

\* The dialog is closed; a scan that runs is cancelled (async_remove).
Close(f) == ~At(f, "closed") /\ flow' = [flow EXCEPT ![f] = Closed] /\ UNCHANGED entryVars

Navigate(f) == \E m \in Menu : At(f, m[1]) /\ Goto(f, m[2])

\* Adding devices.  A scan finds any of the slaves, or fails.
Scanned(f, found, failed) ==
  IF failed \/ (found = {} /\ DOMAIN flow[f].snap.devices = {}) THEN "scan_failed"
  ELSE IF NewSlaves(f, found) = {} THEN "scan_no_new" ELSE "scan_result"

Scan(f) ==
  /\ At(f, "scan_range")
  /\ \E found \in SUBSET Slave, failed \in BOOLEAN :
       Fill(f, Scanned(f, found, failed), NewSlaves(f, found))

\* async_step_scan_result: slave 1 cannot be chosen next to an S402.
Selectable(f) ==
  IF DOMAIN flow[f].snap.s402 # {} THEN flow[f].draft \ {Reserved} ELSE flow[f].draft

NeedsGroups(devices) == \E s \in DOMAIN devices : Groups(devices[s].model) # {}

\* ... and the model form of each, which one with a single candidate has not.
SelectDevices(f) ==
  /\ At(f, "scan_result")
  /\ \E chosen \in (SUBSET Selectable(f)) \ {{}} : \E model \in [chosen -> Model] :
       LET made == [s \in chosen |-> Fresh(model[s])]
       IN /\ \A s \in chosen : model[s] \in Kind[s]
          /\ Fill(f, IF NeedsGroups(made) THEN "groups" ELSE "add_summary", made)

\* The groups form of each dimmer, for devices that are added or for the one
\* that is edited, which the snapshot has.
ChooseGroups(f) ==
  /\ At(f, "groups")
  /\ \E made \in [DOMAIN flow[f].draft -> Device] :
       /\ \A s \in DOMAIN made : made[s].model = flow[f].draft[s].model
       /\ Fill(f, IF DOMAIN made \subseteq DOMAIN flow[f].snap.devices
                  THEN "edit_summary" ELSE "add_summary", made)

\* _persist_add: the devices of the snapshot and the new ones.
Extended(devices, additions) ==
  [s \in DOMAIN devices \cup DOMAIN additions |->
     IF s \in DOMAIN devices THEN devices[s] ELSE additions[s]]

Finish(f, options, changed) ==
  Store(options, changed) /\ flow' = [flow EXCEPT ![f] = Closed]

ConfirmAdd(f) ==
  /\ At(f, "add_summary")
  /\ LET options == [stored EXCEPT !.devices = Extended(flow[f].snap.devices, flow[f].draft)]
     IN \E ranged \in BOOLEAN :              \* the scan range is stored with them
          Finish(f, options, options # stored \/ ranged)

EnterS402(f) ==
  /\ At(f, "add_s402")
  /\ \E id \in S402Id :
       /\ id \notin DOMAIN flow[f].snap.s402
       /\ Reserved \notin DOMAIN flow[f].snap.devices
       /\ Fill(f, "s402_summary", id)

Appended(s402, id) ==
  [i \in DOMAIN s402 \cup {id} |->
     IF i \notin DOMAIN s402 THEN "once" ELSE IF i = id THEN "again" ELSE s402[i]]

ConfirmS402(f) ==
  /\ At(f, "s402_summary")
  /\ Finish(f, [stored EXCEPT !.s402 = Appended(@, flow[f].draft)], TRUE)

-----------------------------------------------------------------------------
\* Managing a device: the list holds what the snapshot holds.
ListDevices(f) ==
  /\ At(f, "device_management")
  /\ Goto(f, IF DOMAIN flow[f].snap.devices \cup DOMAIN flow[f].snap.s402 = {}
             THEN "manage_devices_empty" ELSE "manage_devices")

Manage(f, thing, step) ==
  /\ flow' = [flow EXCEPT ![f].managed = thing, ![f].step = step]
  /\ UNCHANGED entryVars

SelectManaged(f) ==
  /\ At(f, "manage_devices")
  /\ \/ \E s \in DOMAIN flow[f].snap.devices : Manage(f, s, "device_menu")
     \/ \E id \in DOMAIN flow[f].snap.s402 : Manage(f, id, "s402_device_management")

OutputMode(f) ==
  /\ At(f, "device_menu") /\ ~IsRelay(Managed(f).model)
  /\ Fill(f, "groups", [s \in {flow[f].managed} |-> Managed(f)])

\* _persist_edit: the devices of the snapshot with this one replaced.
ConfirmEdit(f) ==
  /\ At(f, "edit_summary")
  /\ LET options == [stored EXCEPT !.devices =
           [s \in DOMAIN flow[f].snap.devices |->
              IF s \in DOMAIN flow[f].draft THEN flow[f].draft[s] ELSE flow[f].snap.devices[s]]]
     IN Finish(f, options, options # stored)

\* async_step_confirm_remove: the devices of the snapshot without this one,
\* the Covers in store without those it had.
Without(function, keys) == [k \in DOMAIN function \ keys |-> function[k]]

\* Mutant: the Covers of a removed R410 stay in the options.
ConfirmRemoveKeeping(f) ==
  /\ At(f, "remove_summary")
  /\ LET options == [stored EXCEPT !.devices = Without(flow[f].snap.devices, {flow[f].managed})]
     IN Finish(f, options, options # stored)

ConfirmRemove(f) ==
  /\ At(f, "remove_summary")
  /\ LET options == [stored EXCEPT
           !.devices = Without(flow[f].snap.devices, {flow[f].managed}),
           !.covers = Without(@, OnSlave(@, flow[f].managed))]
     IN Finish(f, options, options # stored)

ConfirmS402Remove(f) ==
  /\ At(f, "s402_remove_summary")
  /\ LET options == [stored EXCEPT !.s402 = Without(@, {flow[f].managed})]
     IN Finish(f, options, options # stored)

-----------------------------------------------------------------------------
\* The Covers of an R410.
OutputConfiguration(f) ==
  /\ At(f, "device_menu") /\ IsRelay(Managed(f).model) /\ Goto(f, "r410_output_configuration")

\* uuid4: an id nobody has.
UnusedIds ==
  CoverId \ (DOMAIN stored.covers
             \cup (UNION {DOMAIN flow[f].snap.covers : f \in {g \in Flow : flow[g].snap # None}})
             \cup {flow[f].draft.id : f \in {g \in Flow : flow[g].step \in
                {"cover_name", "cover_mode", "cover_mapping", "cover_pulse", "cover_summary"}}})

AddCover(f) ==
  /\ At(f, "r410_output_configuration") /\ Cardinality(Pool(f)) >= 2
  /\ \E c \in UnusedIds :
       flow' = [flow EXCEPT ![f].step = "cover_name", ![f].original = None,
                  ![f].draft = [id |-> c, add |-> TRUE, size |-> 0, relays |-> {}]]
  /\ UNCHANGED entryVars

ManageCovers(f) ==
  /\ At(f, "r410_output_configuration") /\ CoversHere(f) # {} /\ Goto(f, "manage_r410_covers")

EditCover(f) ==
  /\ At(f, "edit_r410_cover")
  /\ \E c \in CoversHere(f) :
       flow' = [flow EXCEPT ![f].step = "cover_name", ![f].original = c,
                  ![f].draft = [id |-> c, add |-> FALSE,
                               size |-> 0, relays |-> flow[f].snap.covers[c].relays]]
  /\ UNCHANGED entryVars

\* The forms for name and class, which choose nothing kept here.
DescribeCover(f) == At(f, "cover_name") /\ Goto(f, "cover_mode")

\* Two or three relays.  With too few for three the form is refused; with
\* too few for two the next form cannot be built.  The flow stays either way.
CoverMode(f) ==
  /\ At(f, "cover_mode")
  /\ \E size \in {2, 3} :
       /\ Cardinality(Pool(f)) >= size
       /\ Fill(f, "cover_mapping", [flow[f].draft EXCEPT !.size = size])

CoverMapping(f) ==
  /\ At(f, "cover_mapping")
  /\ \E relays \in Layout :
       /\ relays \subseteq Pool(f) /\ Cardinality(relays) = flow[f].draft.size
       /\ Fill(f, "cover_pulse", [flow[f].draft EXCEPT !.relays = relays])

\* The records with the Cover of the flow's draft in them.
WithDraft(f, covers) ==
  [c \in DOMAIN covers \cup {flow[f].draft.id} |->
     IF c = flow[f].draft.id
     THEN [slave |-> flow[f].managed, relays |-> flow[f].draft.relays] ELSE covers[c]]

\* The pulse is entered and the summary checks the draft with the snapshot.
CoverSummary(f) ==
  /\ At(f, "cover_pulse")
  /\ Goto(f, IF ValidCovers(WithDraft(f, flow[f].snap.covers), flow[f].snap.devices)
             THEN "cover_summary" ELSE "cover_mapping")

\* async_step_confirm_cover: the id must be new, or for an edit still there,
\* and the draft must fit the options as they are now.
ConfirmCover(f) ==
  /\ At(f, "cover_summary")
  /\ LET options == [stored EXCEPT !.covers = WithDraft(f, @)]
     IN IF flow[f].draft.add = (flow[f].draft.id \in DOMAIN stored.covers)
        THEN Goto(f, "r410_output_configuration")
        ELSE IF ValidCovers(options.covers, options.devices)
        THEN \E described \in BOOLEAN : Finish(f, options, options # stored \/ described)
        ELSE Goto(f, "cover_mapping")

CancelCover(f) ==
  /\ At(f, "cover_summary")
  /\ flow' = [flow EXCEPT ![f].draft = None, ![f].original = None, ![f].step =
                IF flow[f].draft.add THEN "r410_output_configuration" ELSE "manage_r410_covers"]
  /\ UNCHANGED entryVars

RemoveCover(f) ==
  /\ At(f, "remove_r410_cover")
  /\ \E c \in CoversHere(f) :
       flow' = [flow EXCEPT ![f].step = "remove_cover_summary", ![f].original = c]
  /\ UNCHANGED entryVars

ConfirmRemoveCover(f) ==
  /\ At(f, "remove_cover_summary")
  /\ LET options == [stored EXCEPT !.covers = Without(@, {flow[f].original})]
     IN Finish(f, options, options # stored)

CancelRemoveCover(f) ==
  /\ At(f, "remove_cover_summary")
  /\ flow' = [flow EXCEPT ![f].step = "manage_r410_covers", ![f].original = None]
  /\ UNCHANGED entryVars

-----------------------------------------------------------------------------
\* async_step_polling: the running hub is told, the entry is not reloaded.
Polling(f) ==
  /\ At(f, "polling") /\ changes < MaxChanges /\ changes' = changes + 1
  /\ \E interval \in Interval :
       /\ stored' = [stored EXCEPT !.interval = interval]
       /\ hub' = IF HasRuntime THEN [hub EXCEPT !.interval = interval] ELSE hub
       /\ missed' = (entry = "starting" /\ hub.interval # interval)
  /\ flow' = [flow EXCEPT ![f] = Closed]
  /\ UNCHANGED <<entry, reloads, registry>>

\* The scan range alone: nothing of what is kept here changes, no reload.
ScanRange(f) == At(f, "communication_scan_range") /\ Finish(f, stored, FALSE)

-----------------------------------------------------------------------------
\* What the config flow stores for a new entry: the devices of one scan, or
\* one S402 (ConfigFlow._persist_add, async_step_confirm_s402).
FirstOptions ==
  LET Empty == [x \in {} |-> None]
      Of(devices, s402) == {[devices |-> devices, s402 |-> s402, covers |-> Empty, interval |-> i] : i \in Interval}
      Scans == {d \in UNION {[S -> Device] : S \in (SUBSET Slave) \ {{}}} : \A s \in DOMAIN d : d[s].model \in Kind[s]}
  IN (UNION {Of(d, Empty) : d \in Scans})
     \cup (UNION {Of(Empty, Appended(Empty, id)) : id \in S402Id})

Init ==
  /\ stored \in FirstOptions /\ entry = "unloaded" /\ hub = None /\ reloads = 0
  /\ registry = {} /\ missed = FALSE /\ changes = 0
  /\ flow = [f \in Flow |-> Closed]

AddStep(f) == Scan(f) \/ SelectDevices(f) \/ ChooseGroups(f) \/ ConfirmAdd(f)
              \/ EnterS402(f) \/ ConfirmS402(f)
DeviceStep(f) == ListDevices(f) \/ SelectManaged(f) \/ OutputMode(f) \/ ConfirmEdit(f)
                 \/ ConfirmRemove(f) \/ ConfirmS402Remove(f)
CoverStep(f) == OutputConfiguration(f) \/ AddCover(f) \/ ManageCovers(f) \/ EditCover(f)
                \/ DescribeCover(f) \/ CoverMode(f) \/ CoverMapping(f) \/ CoverSummary(f)
                \/ ConfirmCover(f) \/ CancelCover(f) \/ RemoveCover(f) \/ ConfirmRemoveCover(f)
                \/ CancelRemoveCover(f)
FlowStep(f) == Open(f) \/ Close(f) \/ Navigate(f) \/ AddStep(f) \/ DeviceStep(f) \/ CoverStep(f)
               \/ Polling(f) \/ ScanRange(f)

Next ==
  \/ EntryStep /\ UNCHANGED flow
  \/ Restart /\ flow' = [f \in Flow |-> Closed]
  \/ \E f \in Flow : FlowStep(f)

Spec == Init /\ [][Next]_vars

-----------------------------------------------------------------------------
TypeOK ==
  /\ stored \in Options /\ stored.interval \in Interval
  /\ entry \in {"unloaded", "starting", "forwarding", "loaded", "retry", "error", "failed_unload"}
  /\ IF entry \in {"starting", "forwarding", "loaded", "failed_unload"}
     THEN hub \in Options ELSE hub = None
  /\ reloads \in 0 .. MaxReloads /\ missed \in BOOLEAN /\ changes \in 0 .. MaxChanges
  /\ DOMAIN flow = Flow /\ \A f \in Flow : flow[f].snap = None <=> At(f, "closed")

(***************************************************************************)
(* What one dialog at a time can store, in any order of its menus and      *)
(* whatever the entry does meanwhile, can be loaded again (setup raises    *)
(* ConfigEntryError otherwise) and keeps slave 1 free next to an S402      *)
(* (config_flow.py: reserved_slave_one).                                   *)
(***************************************************************************)
OptionsLoadable ==
  Loadable(stored) /\ (DOMAIN stored.s402 # {} => Reserved \notin DOMAIN stored.devices)

(***************************************************************************)
(* An S402 is configured once in an entry (docs/development.md:80: the ids *)
(* of one entry do not repeat), or the entry cannot be set up again and    *)
(* its options cannot be opened to mend it.                                *)
(***************************************************************************)
S402Distinct == ValidS402(stored.s402)

-----------------------------------------------------------------------------
(***************************************************************************)
(* The inductive invariant: what a dialog holds at each of its steps, what *)
(* a running entry knows of the options in store, and that the only dialog *)
(* has read what is still in store.                                        *)
(***************************************************************************)
CoverSteps == {"cover_name", "cover_mode", "cover_mapping", "cover_pulse", "cover_summary"}
ManagedSteps == CoverSteps \cup
  {"device_menu", "remove_summary", "edit_summary", "r410_output_configuration",
   "manage_r410_covers", "edit_r410_cover", "remove_r410_cover", "remove_cover_summary"}
ListSteps == {"groups", "add_summary", "edit_summary"}

CoverDraft == [id : CoverId, add : BOOLEAN, size : {0, 2, 3}, relays : RelaySets \cup {{}}]

\* The devices in a draft: those it shares with the snapshot keep their model,
\* and slave 1 is not new next to an S402.
ListDraft(draft, snap) ==
  /\ draft \in DeviceLists
  /\ \A s \in DOMAIN draft \cap DOMAIN snap.devices : draft[s].model = snap.devices[s].model
  /\ DOMAIN snap.s402 # {} /\ Reserved \in DOMAIN draft => Reserved \in DOMAIN snap.devices

Coherent(w) ==
  /\ DOMAIN w = {"step", "snap", "managed", "original", "draft"}
  /\ IF w.step = "closed" THEN w.snap = None ELSE w.snap \in Options
  /\ w.step = "scan_result" => w.draft \subseteq Slave \ DOMAIN w.snap.devices
  /\ w.step \in ListSteps => ListDraft(w.draft, w.snap)
  /\ w.step = "groups" /\ DOMAIN w.draft \subseteq DOMAIN w.snap.devices
        => w.managed \in DOMAIN w.snap.devices
  /\ w.step \in ManagedSteps => w.managed \in DOMAIN w.snap.devices
  /\ w.step = "s402_summary" =>
        w.draft \in S402Id \ DOMAIN w.snap.s402 /\ Reserved \notin DOMAIN w.snap.devices
  /\ w.step \in CoverSteps => w.draft \in CoverDraft
  /\ w.step \in {"cover_pulse", "cover_summary"} => w.draft.relays \in RelaySets

DialogInv == \A f \in Flow : Coherent(flow[f])

SameLists(o, p) == o.devices = p.devices /\ o.s402 = p.s402 /\ o.covers = p.covers

\* From the moment set-up has read the options on: without a reload ahead the
\* hub has what is in store.
EntryInv ==
  /\ hub # None => Loadable(hub)
  /\ entry \in {"starting", "forwarding", "loaded"} =>
       /\ reloads = 0 => SameLists(hub, stored)
       /\ ~missed => hub.interval = stored.interval
  /\ entry \in {"forwarding", "loaded"} /\ reloads = 0 => registry \subseteq Expected(stored)
  /\ entry = "loaded" => CreatedIds(hub) \subseteq registry

\* With one dialog at a time nothing changes under it.
SnapInv == \A f \in Flow : flow[f].snap # None => SameLists(flow[f].snap, stored)
=============================================================================
