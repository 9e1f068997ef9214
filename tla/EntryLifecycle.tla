----------------------------- MODULE EntryLifecycle -----------------------------
(***************************************************************************)
(* The life of a config entry: Home Assistant sets it up, retries, unloads *)
(* and reloads it; async_setup_entry takes inventory of the bridge, starts *)
(* push, polls telemetry for the first time and creates the entities.      *)
(* Every step is what happens up to the next await.  What Home Assistant   *)
(* does with an exception, and with callbacks registered for unload, is    *)
(* external.                                                               *)
(***************************************************************************)
EXTENDS Telemetry

CONSTANTS
  Things,      \* what the bridge may list
  KindOf,      \* "device", "group" or "scene"
  MaxChanges,  \* bound: things added or deleted on the bridge
  MaxRevokes,  \* bound: the bridge gets a new token
  MaxUnloads   \* bound: unloads

ASSUME ThingsAssumption == KindOf \in [Things -> {"device", "group", "scene"}]

VARIABLES
  isBridge,   \* by its serial number; a Smart by Bond product is not one
  reported,   \* what the bridge lists
  entry,      \* ConfigEntry.state
  stage,      \* the await async_setup_entry is in
  inventory,  \* BondHub: devices, groups and scenes
  named,      \* BondHub._bridge has been fetched
  channels,   \* endpoints of BPUP open
  onUnload,   \* stop callbacks registered with the entry
  registry,   \* devices and groups in the device registry
  entities,   \* optional keys with an entity
  reauth,     \* a reauth flow waits for the user
  changes, revokes, unloads,   \* what is left of the bounds
  crashed,    \* history: the last setup ended in an exception nobody expects
  leaked      \* history: those that did so with push started, since callbacks last ran

hubVars   == <<isBridge, reported, inventory, named>>
entryVars == <<entry, stage, channels, onUnload, entities, reauth, crashed, leaked>>
boundVars == <<changes, revokes, unloads>>
vars == <<telemetryVars, hubVars, entryVars, registry, boundVars>>

Of(kind)   == {t \in Things : KindOf[t] = kind}
(* entity_sources. *)
Sources(S) == S \ Of("scene")
Stages == <<"version", "device", "group", "scene", "bridge", "push", "telemetry", "none">>

Init ==
  /\ authorised \in BOOLEAN /\ product \in SUBSET Keys /\ level \in Levels
  /\ optional = Keys /\ refresh = Idle /\ payload = NoData /\ success = TRUE
  /\ faults = MaxFaults /\ writes = MaxWrites
  /\ isBridge \in BOOLEAN /\ reported \in SUBSET Things
  /\ entry = "not_loaded" /\ stage = "none"
  /\ inventory = {} /\ named = FALSE
  /\ channels = 0 /\ onUnload = 0
  /\ registry = {} /\ entities = {} /\ reauth = FALSE
  /\ changes = MaxChanges /\ revokes = MaxRevokes /\ unloads = MaxUnloads
  /\ crashed = FALSE /\ leaked = 0

(***************************************************************************)
(* How a setup ends, short of success.                                     *)
(***************************************************************************)
(* The callbacks registered for unload: each stops one endpoint. *)
ProcessOnUnload ==
  /\ channels' = channels - onUnload /\ onUnload' = 0
  /\ crashed' = FALSE /\ leaked' = 0

(* ConfigEntryNotReady. *)
NotReady ==
  /\ entry' = "setup_retry" /\ stage' = "none" /\ ProcessOnUnload
  /\ UNCHANGED <<entities, reauth>>

(* ConfigEntryAuthFailed. *)
AuthFailed ==
  /\ entry' = "setup_error" /\ stage' = "none" /\ ProcessOnUnload
  /\ reauth' = TRUE
  /\ UNCHANGED entities

(* Any other exception: logged, not retried, no callback run. *)
Crash(open) ==
  /\ entry' = "setup_error" /\ stage' = "none"
  /\ channels' = channels + open /\ onUnload' = onUnload + open
  /\ crashed' = TRUE /\ leaked' = leaked + open
  /\ UNCHANGED <<entities, reauth>>

Proceed(next) == stage' = next /\ UNCHANGED <<entry, channels, onUnload, entities, reauth, crashed, leaked>>

(***************************************************************************)
(* hub.setup().                                                            *)
(***************************************************************************)
(* Home Assistant starts, the user enables or reloads the entry, or the    *)
(* retry is due. *)
Setup ==
  /\ entry \in {"not_loaded", "setup_retry"}
  /\ entry' = "setup_in_progress" /\ stage' = "version"
  /\ inventory' = {} /\ named' = FALSE
  /\ crashed' = FALSE
  /\ UNCHANGED <<telemetryVars, isBridge, reported, channels, onUnload, registry, entities,
                 reauth, boundVars, leaked>>

Version ==
  /\ stage = "version" /\ authorised
  /\ Proceed("device")
  /\ UNCHANGED <<telemetryVars, hubVars, registry, boundVars>>

NextStage(kind) ==
  CASE kind = "device" -> "group" [] kind = "group" -> "scene" [] kind = "scene" -> "bridge"

(* The list, then the details of each, all at once. *)
Inventory(kind) ==
  /\ stage = kind /\ authorised
  /\ inventory' = inventory \cup (reported \cap Of(kind))
  /\ Proceed(NextStage(kind))
  /\ UNCHANGED <<telemetryVars, isBridge, reported, named, registry, boundVars>>

(* ClientResponseError for the list of groups or scenes: taken for a       *)
(* product without them, whatever the status. *)
NoSuchList(kind) ==
  /\ stage = kind /\ kind # "device"
  /\ \/ ~authorised /\ UNCHANGED faults
     \/ authorised /\ Fault
  /\ Proceed(NextStage(kind))
  /\ UNCHANGED <<bridgeVars, pollVars, writes, hubVars, registry, boundVars>>

(* Smart by Bond products have no /v2/bridge; any error counts as that. *)
Bridge ==
  /\ stage = "bridge"
  /\ \/ authorised /\ isBridge /\ named' = TRUE /\ UNCHANGED faults
     \/ ~(authorised /\ isBridge) /\ named' = FALSE /\ UNCHANGED faults
     \/ isBridge /\ Fault /\ named' = FALSE
  /\ Proceed("push")
  /\ UNCHANGED <<bridgeVars, pollVars, writes, isBridge, reported, inventory, registry, boundVars>>

(* ClientError, TimeoutError or OSError anywhere in hub.setup(). *)
Unreachable ==
  /\ stage \in {"version", "device", "group", "scene", "bridge"} /\ Fault
  /\ NotReady
  /\ UNCHANGED <<bridgeVars, pollVars, writes, hubVars, registry, boundVars>>

(* Mutant: setup returns False. *)
ReturnsFalse ==
  /\ stage \in {"version", "device", "group", "scene"} /\ ~authorised
  /\ stage \in {"group", "scene"} => reported \cap Of(stage) # {}
  /\ entry' = "setup_error" /\ stage' = "none"
  /\ UNCHANGED <<telemetryVars, hubVars, channels, onUnload, entities, reauth, crashed, leaked,
                 registry, boundVars>>

(* ClientResponseError 401: for the version, the devices, or the details   *)
(* of groups or scenes whose list the old token still got.                 *)
Unauthorized ==
  /\ stage \in {"version", "device", "group", "scene"} /\ ~authorised
  /\ stage \in {"group", "scene"} => reported \cap Of(stage) # {}
  /\ AuthFailed
  /\ UNCHANGED <<telemetryVars, hubVars, registry, boundVars>>

(***************************************************************************)
(* The rest of async_setup_entry.                                          *)
(***************************************************************************)
(* BondHub.name: the first device of a Smart by Bond product, or a key of  *)
(* the bridge's answer that may not be there. *)
HasName == named \/ (~isBridge /\ inventory \cap Of("device") # {})

(* Mutant: the stop callback is not registered for unload. *)
PushUnregistered ==
  /\ stage = "push" /\ HasName
  /\ channels' = channels + 1 /\ UNCHANGED onUnload
  /\ stage' = "telemetry" /\ UNCHANGED <<entry, entities, reauth, crashed, leaked>>
  /\ Fresh
  /\ UNCHANGED <<bridgeVars, faults, writes, hubVars, registry, boundVars>>

(* start_bpup() opens the endpoint; its stop callback is registered, the   *)
(* hub gets its device and the coordinators are created.                   *)
StartPush ==
  /\ stage = "push" /\ HasName
  /\ channels' = channels + 1 /\ onUnload' = onUnload + 1
  /\ stage' = "telemetry" /\ UNCHANGED <<entry, entities, reauth, crashed, leaked>>
  /\ Fresh
  /\ UNCHANGED <<bridgeVars, faults, writes, hubVars, registry, boundVars>>

(* hub.name raises KeyError, after push has been started. *)
Nameless ==
  /\ stage = "push" /\ ~HasName
  /\ Crash(1)
  /\ UNCHANGED <<telemetryVars, hubVars, registry, boundVars>>

(* start_bpup() raises OSError, outside of every handler. *)
PushFails ==
  /\ stage = "push" /\ Fault
  /\ Crash(0)
  /\ UNCHANGED <<bridgeVars, pollVars, writes, hubVars, registry, boundVars>>

(* Mutant: an entity for every optional endpoint. *)
SupportsAll == Keys
(* BondTelemetryCoordinator.supports, when the platforms are set up. *)
Supported == optional

(* The first refresh succeeds: services, platforms, entities; the refresh  *)
(* is over and the next one scheduled. *)
Load ==
  /\ stage = "telemetry" /\ Fetched
  /\ entry' = "loaded" /\ stage' = "none"
  /\ entities' = Supported
  /\ registry' = registry \cup Sources(inventory)
  /\ UNCHANGED <<hubVars, channels, onUnload, reauth, boundVars, crashed, leaked>>

FirstRefreshFails ==
  /\ stage = "telemetry" /\ UpdateFailed
  /\ NotReady
  /\ UNCHANGED <<hubVars, registry, boundVars>>

FirstRefresh ==
  /\ stage = "telemetry" /\ (FetchBridge \/ NotFound \/ FetchOptional)
  /\ UNCHANGED <<hubVars, entryVars, registry, boundVars>>

(***************************************************************************)
(* A loaded entry.                                                         *)
(***************************************************************************)
Poll ==
  /\ entry = "loaded" /\ Polls
  /\ UNCHANGED <<hubVars, entryVars, registry, boundVars>>

ScheduledPoll ==
  /\ entry = "loaded" /\ ~Refreshing /\ Refresh
  /\ UNCHANGED <<bridgeVars, optional, payload, success, faults, writes>>
  /\ UNCHANGED <<hubVars, entryVars, registry, boundVars>>

Write ==
  /\ entry = "loaded" /\ SetLevel
  /\ UNCHANGED <<hubVars, entryVars, registry, boundVars>>

(* Mutant: groups are forgotten. *)
DevicesOnly == inventory \cap Of("device")
(* What async_remove_config_entry_device keeps. *)
ValidIds == Sources(inventory)

(* The user deletes a device of the registry; without runtime_data the     *)
(* handler raises and nothing is deleted. *)
RemoveDevice ==
  /\ entry = "loaded"
  /\ \E t \in registry \ ValidIds : registry' = registry \ {t}
  /\ UNCHANGED <<telemetryVars, hubVars, entryVars, boundVars>>

(* The user disables the entry, or the first half of a reload.  An entry   *)
(* that is not loaded has no platforms to unload, and keeps its callbacks. *)
Unload ==
  /\ entry \in {"loaded", "setup_retry", "setup_error"} /\ unloads > 0
  /\ unloads' = unloads - 1
  /\ entry' = "not_loaded" /\ entities' = {} /\ refresh' = Idle
  /\ IF entry = "loaded" THEN ProcessOnUnload ELSE UNCHANGED <<channels, onUnload, crashed, leaked>>
  /\ UNCHANGED <<bridgeVars, optional, payload, success, faults, writes, hubVars, stage, registry,
                 reauth, changes, revokes>>

(***************************************************************************)
(* The user and the bridge.                                                *)
(***************************************************************************)
(* The reauth flow stores a token that works and reloads the entry. *)
Reauth ==
  /\ reauth /\ reauth' = FALSE
  /\ entry \in {"setup_error", "setup_retry", "not_loaded"}
  /\ authorised' = TRUE /\ entry' = "not_loaded"
  /\ UNCHANGED <<product, level, pollVars, faults, writes, hubVars, stage, channels, onUnload,
                 entities, registry, boundVars, crashed, leaked>>

Revoke ==
  /\ revokes > 0 /\ revokes' = revokes - 1
  /\ authorised' = FALSE
  /\ UNCHANGED <<product, level, pollVars, faults, writes, hubVars, entryVars, registry, changes, unloads>>

BridgeChange ==
  /\ changes > 0 /\ changes' = changes - 1
  /\ \E t \in Things : reported' = IF t \in reported THEN reported \ {t} ELSE reported \cup {t}
  /\ UNCHANGED <<telemetryVars, isBridge, inventory, named, entryVars, registry, revokes, unloads>>

SomeoneWrites ==
  /\ LevelChanged
  /\ UNCHANGED <<hubVars, entryVars, registry, boundVars>>

HubStep ==
  \/ Version \/ Bridge \/ Unauthorized
  \/ \E kind \in {"device", "group", "scene"} : Inventory(kind) \/ NoSuchList(kind)
SetupStep == HubStep \/ Unreachable \/ StartPush \/ Nameless \/ PushFails

Next ==
  \/ Setup \/ SetupStep \/ FirstRefresh \/ FirstRefreshFails \/ Load
  \/ Poll \/ ScheduledPoll \/ Write \/ RemoveDevice \/ Unload
  \/ Reauth \/ Revoke \/ BridgeChange \/ SomeoneWrites

SafeSpec == Init /\ [][Next]_vars

(* Requests end, the retry timer and the telemetry interval run out.       *)
(* Nobody is bound to unload, to answer the reauth flow or to write.       *)
Fairness ==
  /\ WF_vars(Setup) /\ WF_vars(SetupStep)
  /\ WF_vars(FirstRefresh \/ FirstRefreshFails \/ Load)
  /\ WF_vars(Poll) /\ WF_vars(ScheduledPoll)
Spec == SafeSpec /\ Fairness

(***************************************************************************)
(* Properties.                                                             *)
(***************************************************************************)
(* A loaded entry has one endpoint and an entry that is not has none, on   *)
(* whatever way a setup failed; except that a setup which ended in an      *)
(* exception nobody expects leaves its endpoint open until the next unload *)
(* of a loaded entry (__init__.py:71-86).                                  *)
EndpointsAccounted ==
  entry # "setup_in_progress" =>
    channels = leaked + (IF entry = "loaded" THEN 1 ELSE 0)

(* A device or group whose entities are loaded cannot be removed from the  *)
(* registry, while devices and groups the bridge no longer had at the last *)
(* setup can (__init__.py:126-139).                                        *)
LoadedDevicesKept == entry = "loaded" => Sources(inventory) \subseteq registry

(* What is polled has an entity, and what has an entity exists: platforms  *)
(* ask supports() after the first refresh has dropped what is not there    *)
(* (coordinator.py:144-170, __init__.py:107-116).                          *)
EntitiesAnswered == entry = "loaded" => optional \subseteq entities /\ entities \subseteq product

(* Unless the user unloads it, an entry ends up loaded, or waiting for the *)
(* user's token, or in a setup that crashed: no failure of the bridge, at  *)
(* whatever request, parks it anywhere else (__init__.py:60-69).           *)
EndsUpServing ==
  <>[](entry = "loaded" \/ reauth \/ crashed)

(* Whatever refreshes are dropped, overtaken by writes or fail, a loaded   *)
(* entry whose token works ends up showing the control as it is, with the  *)
(* keys it still asks for (light.py:307-316, coordinator.py:151-171).      *)
TelemetrySettles ==
  <>[](entry = "loaded" /\ authorised => payload = [level |-> level, keys |-> optional])
================================================================================
