# Formal model of the Bond Pro integration

TLA+ modules, TLC configurations and TLAPS proofs for `custom_components/bond_pro`,
the Home Assistant integration that drives Olibra Bond bridges over their local
HTTP API and their push protocol (BPUP, UDP 30007). Paths below are relative to
`src/custom_components/bond_pro/` unless they start with `src/`.

## 1. The system

| Component | State it keeps | Operations | Talks to |
|---|---|---|---|
| **BPUP push client** `bond_async_pro/bpup.py` | liveness stamp and callbacks (`BPUPSubscriptions`), transport and keep-alive timer (`BPUProtocol`), current protocol, reconnect task, watchdog, `_stopped`, backoff (`BPUPClient`) | start, keep-alive, datagram, connection lost, reconnect, watchdog check, stop | bridge (UDP), entities (`notify`), coordinator (`alive`), entry (`start`/`stop`) |
| **Fallback coordinator** `coordinator.py:26-105` | payload of the last good sweep, success flag, interval, scheduled refresh | sweep all sources, adjust the interval | HTTP client, `BondDevice.state`, entities, `alive` |
| **Entities** `entity.py` | shown attributes, availability; the `BondDevice.state` they share with their siblings | added to hass, coordinator update, push callback, manual update | coordinator, push client, HTTP client |
| **Telemetry coordinator** `coordinator.py:108-171` | supported endpoints, payload | poll `sys/*` endpoints, drop one that answers 404 | HTTP client, sensors |
| **Hub inventory** `utils.py` | version, bridge record, devices, groups, scenes | `setup` | HTTP client, entry setup |
| **Entry setup/unload** `__init__.py`, `models.py` | `runtime_data`: hub, subscriptions, coordinators, stop callable | setup, unload, device removal | all of the above |
| **HTTP client** `bond_async_pro/bond.py`, `action.py` | host, token, session | requests with one transparent retry | bridge |
| **Entity commands** `light.py`, `fan.py`, `cover.py`, `switch.py`, `button.py`, `number.py`, `scene.py`, `services.py` | assumed state, last direction or brightness | turn on/off, speed, position, belief services | HTTP client |
| **Schedules** `services.py:125-239`, `bond_async_pro/bond.py:288-313` | none: the bridge keeps them | list, create, update, delete | HTTP client, config entries (which are loaded) |
| **Config flow** `config_flow.py` | discovered host, token, name | user, zeroconf/dhcp, confirm, reauth, reconfigure | HTTP client, config entries |
| Diagnostics, type tables, release scripts, blueprints | none while running | – | – |

Everything runs on one asyncio loop: there are no threads, and the hard
behaviours are what happens between two awaits, and between the callbacks the
loop runs in whatever order they become ready:

* three sources ask for a reconnect (`connection_lost`, the watchdog, a failed
  attempt), and `stop()` may overtake any of them at any await;
* the push protocol is UDP without sequence numbers: frames are lost, come late,
  or come before anybody subscribed;
* a push, a sweep answer and a manual update for one device race: each was true
  when the bridge sent it, and the one applied last wins;
* a sweep fails in part, as a whole, or half-way through its loop;
* timers with their own phases (30 s keep-alive, 60 s session, 70 s alive timeout,
  5..90 s backoff, 30 s / 5 min sweep) have to add up;
* multi-request commands are interleaved with other commands, and one of their
  requests may fail; a request may be replayed by the HTTP client, or run by the
  bridge after its command has raised;
* a setup fails at any of its requests, in ways the code expects or not, after some of
  its resources are already held;
* a callback that raises ends the loop it was called from, for those after it too;
* a list that takes several requests is read while others write;
* config flows wait for a bridge or for a user while bridges move, tokens change and
  other flows write the same entry.

What makes each component correct:

* *push client*: one live endpoint, none leaked, `stop()` final, `alive` true only
  with an endpoint, a session kept up unless two keep-alives in a row are lost,
  silence noticed in bounded time, push healed after every fault;
* *coordinator and entities*: an entity is wrong about a quiet device for a bounded
  time only; the entities of one device agree; availability tells the truth; the
  interval follows push; everything converges once the bridge is quiet;
* *HTTP client and commands*: a read survives a dropped idle connection, a command
  is not run twice, the requests of a command run in their order, a command that
  returns undisturbed has been obeyed;
* *entities*: a service that is offered sends what the device can do, in the bridge's
  range; what is shown is what was asked, and setting it again changes nothing;
* *hub, entry, telemetry*: a setup that fails is retried or waits for a token; every
  push endpoint is accounted for; what is polled has an entity and exists; a write is
  shown in the end;
* *schedules*: a list has the schedules of one moment, although it takes many requests;
* *config flow*: one entry per bridge, what is stored was true of the bridge while the flow
  ran, and an entry follows its bridge.

## 2. Modules

| Module | Models | Uses |
|---|---|---|
| `PushChannel` | abstract: what the push client promises to its users | – |
| `BpupClient` | `bond_async_pro/bpup.py`, all of it, with its asyncio environment | `PushChannel` (refinement) |
| `MCBpupClient` | instance of it for TLC | `BpupClient` |
| `BpupClientProofs` | theorems about it and about its timers | `BpupClient`, `TLAPS` |
| `Delivery` | abstract: what the HTTP client promises to those who await it | – |
| `BondCall` | `Bond.__call` and the verbs around it (`bond_async_pro/bond.py:366-449`) | `Delivery` (refinement) |
| `MCBondCall` | instance of it for TLC: two calls of a shared session, one with its own | `BondCall` |
| `BondCallProofs` | theorems about it, and about `Schedules` | `BondCall`, `Schedules`, `TLAPS` |
| `Schedules`, `MCSchedules` | the schedule services of `services.py` and the methods of `Bond` they call | – |
| `StateSync` | `coordinator.py:26-105` and the state handling of `entity.py` | `PushChannel` (as a component) |
| `MCStateSync` | instance of it for TLC: the fan and the light of a group that has a null state, and a device without entities | `StateSync` |
| `StateSyncProofs` | theorems about it | `StateSync`, `TLAPS` |
| `Conversions` | the arithmetic of `light.py`, `cover.py`, `fan.py` | – |
| `DeviceModel` | `BondDevice`, `BondGroup` (`utils.py`), `device_type.py` | `Conversions` |
| `Platforms` | the entities of a device, the services they offer, the requests of each, what they show, and the bridge's side of a request | `DeviceModel` |
| `PlatformsProofs` | lemmas about the scales, the requests and the bridge's side of them | `Platforms`, `TLAPS` |
| `Controls`, `MCControls` | one entity, one call at a time, a remote and a user who sets again what is shown; a catalogue of devices | `Platforms` |
| `ControlsProofs` | theorems about it | `Controls`, `PlatformsProofs` |
| `Commands`, `MCCommands` | several calls in flight | `Platforms`, `Delivery` (as a component) |
| `CommandsProofs` | theorems about it | `Commands`, `PlatformsProofs` |
| `Telemetry` | `coordinator.py:108-171` and the hub entities that write | – |
| `EntryLifecycle`, `MCEntryLifecycle` | `BondHub.setup`, `__init__.py` | `Telemetry` |
| `EntryLifecycleProofs` | theorems about it | `EntryLifecycle`, `TLAPS` |
| `ConfigFlow`, `MCConfigFlow` | `config_flow.py`, with `BondHub.setup` of `utils.py` as it validates | – |
| `ConfigFlowProofs` | theorems about it | `ConfigFlow`, `TLAPS` |

`StateSync` does not repeat the push client: it composes the coordinator and the
entities with the abstract `PushChannel`, and `BpupClient` is shown to implement
that channel, by the run `bpup` and by the theorem `ImplementsChannel`. `Commands`
likewise takes its requests from the abstract `Delivery`, which `BondCall` is shown to
implement (run `call`, theorem `ImplementsDelivery`).

### PushChannel

Two flags. `alive` is `BPUPSubscriptions.alive`; `ended` says that the stop
callable of `start_bpup` was called. `Hear` raises the flag, `Fall` drops it,
`End` is `stop()`. `SafeSpec` says that an ended channel is never alive again;
`Spec` adds that a channel that is not ended does not stay down.

### BpupClient

| Code | Model |
|---|---|
| `_reconnect` and `start()` coroutines at their awaits | `pc[c]`, `wake[c]`, `got[c]`; actions `WakeUp`, `ConnectOk`, `ConnectRaises`, `Handover`, `CancelledResumes` |
| `BPUPClient` fields | `reconnectTask`, `protocol`, `watchdog`, `stopped`, `delay` |
| a `BPUProtocol` and its transport | one `Endpoint`: `sock`, `keepAlive`, `linked` |
| `BPUPSubscriptions.last_message_time` | `age` (its value `BPUP_ALIVE_TIMEOUT` stands for "never") |
| `send_keep_alive` | `SendKeepAlive` inside `ConnectOk` and `KeepAliveFires` |
| `datagram_received`, `notify` | `DatagramReceived` |
| `connection_lost` | `ConnectionLost` |
| `_check_alive`, `_schedule_watchdog` | `CheckAlive`, `ScheduleWatchdog` |
| `_schedule_reconnect` | `ScheduleReconnect` |
| `stop()` | `Stop` |
| bridge and network | `net`, `mute`, `mail`, `session`, `missed`; `NetDown`, `NetUp`, `AddressGone`, `TransportFails`, `BridgePush` |

One asyncio callback, or one stretch of a coroutine between two awaits, is one
action. asyncio's own behaviour matters in three places and is modelled:
`transport.close()` calls `connection_lost` in a later iteration; a task
cancelled while `create_datagram_endpoint` is awaiting a transport it has already
made closes that transport when it resumes; a task is not "done" while it runs.
The clock is discrete, and moves only when nothing is due.

Frames that are malformed change nothing and count as lost. What a state frame
does to the entities is `StateSync`'s part.

### StateSync

A device's state is a version number that the bridge counts up (`truth`) and the
program copies about. A device stands for a group as well: both are
`entity_sources` and are swept and pushed alike.

| Code | Model |
|---|---|
| `BondDevice.state`, shared by the entities of a device | `devState` |
| `_apply_state` attributes, `_attr_available` | `shown`, `available` |
| `DataUpdateCoordinator.data`, `last_update_success`, `update_interval`, scheduled refresh | `data`, `lastSuccess`, `interval`, `timer` |
| `_async_update_data`: the gather, then the loop | `SweepStart`, `SweepAnswered`, then `SweepSucceeds` or `SweepRaises` |
| `_adjust_interval` | `AdjustedInterval` |
| `_apply_state` of an entity, which raises on some states | `Readable` |
| the loops over listeners and over callbacks, up to the first that raises | `Told` |
| `_handle_coordinator_update` of every listener | `Notify`, `Availability` |
| `_async_bpup_callback` of every subscriber | `PushReceived` |
| `async_update` | `ManualAnswered`, `ManualApplied` |
| `async_added_to_hass` | `AddToHass` |

Entities are numbered in the order the platforms add them, which is the order in which they are
told; any order is possible, and `DeviceOf` says whose they are. `Unreadable` are the pairs of an
entity and a version on which its `_apply_state` raises: a group whose members differ in their
breeze reports null, and `BondFan` takes the first element of it (`fan.py:79`). By then the state
has been assigned to the device and the entity is available; the loop ends there.

An answer of the bridge is read by one action (`SweepAnswered`, `ManualAnswered`)
and applied by a later one, so that pushes and changes fall in between. A request
fails with an exception the code expects (`Failed`) or with another one
(`Broken`), which ends the loop half-way and leaves the devices before it
assigned. Home Assistant's `DataUpdateCoordinator` is modelled from how
`coordinator.py` uses it: after a failure it keeps its data, reschedules with the
current interval, and notifies listeners only when success turns into failure.

### BondCall

`Call` is a set of calls of `Bond` methods; `Read` are those of `__get`, `Own` those of
a `Bond` without a shared session.

| Code | Model |
|---|---|
| entering `__call` | `Begin` |
| the `try`/`except` of `__call` | `Handle`, with the guard `Replayed` |
| `session.get(...)` and its siblings | `Reuse`, `Connect` or `ConnectFails`, then `Answered`, `Refused` or `ConnectionBreaks` |
| `ClientTimeout(total=...)` of a request | `TimedOut` |
| aiohttp's pool of keep-alive connections | `good`, `closed`; `IdleClosed`, `CloseNoticed` |
| the bridge | `BridgeRuns`, also for requests the client gave up (`orphans`) |

Three things can be true of a request whose connection broke: the bridge had closed the
connection before and got nothing, it ran the request and the answer was lost, or the
request still waits in the bridge and will be run later. The client cannot tell them
apart; the model has all three. Newer versions of aiohttp may replay a request on a broken
keep-alive connection by themselves; that would be below this code and is not modelled.

`Delivery` is the view of a caller: a call is open, returned or raised, and the bridge runs
a write once at most, possibly after it raised. `Commands` is modelled over `Delivery`.

### Conversions, DeviceModel, Platforms

Pure definitions. A device is a record of its types, its actions, its properties and
whether it is a group; a call is a record of its service and arguments; a state is a function
from the variables that the bridge reports. A request is the name of an action with its optional
argument. Numbers are computed as the code computes them: `Round` is Python's `round` (half to
even), `Ceiling` is `math.ceil`.

| Code | Model |
|---|---|
| `has_action`, `supports_*`, `open_action`, `close_action` | the same names in `DeviceModel` |
| `async_setup_entry` of the platforms | `LightClasses`, `Buttons`, `LAYERS`, ..., joined in `Entities` |
| supported features, service registrations | `FanFeatures`, `CoverFeatures`, ..., joined in `Offered` |
| the service handlers | `LightRequests`, `FanRequests`, `CoverRequests`, ..., joined in `Requests` |
| `_apply_state` and the properties over it | `ShownLight`, `ShownFan`, `ShownCover`, `ShownFlame`, `ShownHeat` |
| `group_action` raising `ValueError` | `Sendable` |
| what Home Assistant lets through to a service | `Callable` |
| the bridge | `Effect` of one request, `Ran` and `Final` of several |

`Effect` is the bridge as the code and its comments rely on it: setting a level or a speed turns
on, heat, flame and breeze are remembered while power is off. `Null` stands for what the members of a
group do not agree on; it is an integer that no device reports.

### Controls

Picks a device of the catalogue and one of its entities; then the user calls any service it
offers with any value (`Call`), the remote sets any variable (`Remote`), or an automation sets
what the entity shows (`Echo`, Home Assistant's `reproduce_state`, as a scene does). A call runs
to its end before the next: what happens in between is `Commands`. `asked` is the user's last call if
nothing has happened since, `echoed` the services that have set again since what is shown: nothing
bounds how often they do.

### Commands

| Code | Model |
|---|---|
| a service call starts, with what the entity shows at that time | `Begin` |
| the next `await self._bond.action(...)` | `Send`, or `Refuse` for a group's belief |
| it returns, or raises | `Answer`, `Fail` |
| the bridge runs a request, even one that was given up | `BridgeRuns` |
| a push or a sweep reaches the entity | `Shown` |

`alone` remembers which command nothing has interfered with: no other command was running when it
began, none was started or run since, no given-up request is left, and the remote was not used.

### Telemetry and EntryLifecycle

`stage` names the await that `async_setup_entry` is in; `entry` is `ConfigEntry.state`. An
inventory kind (devices, groups, scenes) is one step, though the code fetches a list and then
the details: things that disappear in between fail the setup, as other faults do.

| Code | Model |
|---|---|
| `BondHub.setup` | `Version`, `Inventory`, `NoSuchList`, `Bridge`, `Unreachable`, `Unauthorized` |
| `start_bpup`, `entry.async_on_unload` | `StartPush`, `PushFails`, `Nameless` (`hub.name` without a name) |
| `async_config_entry_first_refresh`, forwarding to platforms | `FirstRefresh`, `FirstRefreshFails`, `Load` |
| `async_unload_entry`, callbacks on unload | `Unload`, `ProcessOnUnload` |
| `async_remove_config_entry_device` | `RemoveDevice`, `ValidIds` |
| `_async_update_data` of the telemetry coordinator | `FetchBridge`, `NotFound`, `FetchOptional`, `Fetched`, `UpdateFailed` |
| blue light, broadcast switch, clear-faults button | `SetLevel` |
| `DataUpdateCoordinator`: schedule, debounced requests | `ScheduledPoll`, `Refresh` |

What Home Assistant does with an exception of a setup is external: `ConfigEntryNotReady` and
`ConfigEntryAuthFailed` run the callbacks registered so far; any other exception is logged, and
neither retried nor followed by the callbacks.

A 401 fails the setup at the version and at the devices. Lists of groups and scenes that are refused count
as empty, but a token that is revoked after such a list has succeeded fails its details (`Unauthorized`).

### Schedules

Schedules are kept by the bridges alone (`skeds`); an owner is a device, group, scene or channel. A
call is `idle`, makes its requests, and ends in one of the ways the code knows.

| Code | Model |
|---|---|
| the schema of a service call | `Ask` |
| `_async_get_entry` | `Target` |
| the checks of `_async_create_sked` | `Unfit` |
| a service handler up to its first request | `Called` |
| `Bond.skeds`: the ids, then one request for each | `Listed`, `ReadOne` |
| `create_sked`, `update_sked`, `delete_sked` | `Written` |
| a request that fails, or is run after it was given up | `Fails`, `RunsLate` |
| the bridge, other clients of it, the life of entries | `Create`, `Update`, `Delete`, `Other`, `EntryChanges` |

What a schedule says is its `body`; of its action only whether an ask has one matters. `moments` and `seen` are the history of a list: the ids its owner had and the schedules
there were since it was asked for. Ids are never given twice; the bridge's ids are random. The names
differ from those of `BondCall` so that one module can extend both.

### ConfigFlow

`flow` holds every flow between two awaits: `step` is what it waits for (the bridge's token,
a validation, its user), `tried` the data under validation, `found` and `checked` how far it has
come. `at` and `secret` are the network: which host a bridge has and which token it takes. A bridge
has one discovery flow at most and an entry one reauth flow, since their unique ids are taken; a
user dialog is a new entry or a reconfigure (`target`). `Flow` has as many discoveries as there are
bridges: one that found another bridge than the one announced goes on under the id it found.

A validation is `hub.setup(max_devices=1)`, seven requests or more. Three things distinguish them:
the version has the bond id, and a bridge may tell it to anybody; the list of devices takes the token; of what
follows, some are refused to a token that has changed meanwhile (`Invalid`) and some swallow the refusal. Bridges
move and tokens change between any two of these.

| Code | Model |
|---|---|
| `async_step_dhcp`, `async_step_zeroconf`, `async_step_any_discovery` | `Announced`, `Discover`, `EntryToken` |
| `_async_try_automatic_configure` | `FetchToken`, then `Automatic` or `KeepToken` |
| `async_get_token` raising, `hub.name` raising | `TokenRaises`, `NameRaises` |
| `_validate_input` | `ReadVersion`, `ListDevices`, `Invalid` |
| a form shown, and sent | `Form`, `Open`, `Submit`, `Confirm` |
| valid data, or not | `Accepted`, `Updated`, `Rejected` |
| a step whose flow was ended while it waited | `Dismissed` |
| `async_update_reload_and_abort`, `_abort_if_unique_id_configured`, `async_create_entry`, `async_set_unique_id` | `UpdateReload`, `UpdateHost`, `Create`, `Taken` |
| `async_setup_entry` for the entry that results | `SetUp`, `Retry` |

When an entry is made, Home Assistant ends the other flows of its unique id that have shown a
step, and those only (`Overtake`): one at its form is gone; one that validates a form is gone too, but its coroutine goes
on, and may still store a host (`Dismissed`); a discovery in its first step goes on as if nothing had happened, and
is called overtaken. `overtaken`, `replaced` and `met` are history: `met` has the tokens there
were at the host of a flow since it was discovered or its data were typed in.

## 3. What is checked

| Run | Shows |
|---|---|
| `bpup` | every safety property of the push client, healing as far as it goes, release of sockets, and that it is a `PushChannel` |
| `bpup_live` | the liveness half of `PushChannel`, provided a UDP endpoint can always be created |
| `bpup_heal` | *violated*: without that proviso push can stay down for good |
| `sync` | how long an entity can be wrong, that siblings stay together, and that everything converges, push or no push |
| `sync_available` | *violated*: after a sweep that raised, an entity is available although its device did not answer and push is down |
| `sync_interval` | *violated*: the sweep stays slow although push is down |
| `call` | the HTTP client runs writes at most once, ends every call, and is a `Delivery` |
| `controls` | every entity, service and value: what is sent is listed (with one exception) and in range, what is shown is what was asked and stays so when set again |
| `commands` | two calls in flight: order, partial failure, obedience, termination |
| `entry` | an entry's life under faults: endpoints, registry, entities, telemetry, and where it ends up |
| `flow` | flows in a race with each other and with moving bridges |
| `schedules` | lists and writes of schedules in a race: a list has the schedules of one moment |

Push client:

* `AtMostOneEndpoint`: however `connection_lost`, the watchdog and a reconnect
  interleave, no two endpoints report to the client.
* `OpenIsOwned`, `StopReleases`: no socket leaks, not even one that was being opened
  when `stop()` came.
* `StopIsFinal`: after `stop()` nothing of the client will run again.
* `AliveHasEndpoint`: no path that drops an endpoint leaves the flag up.
* `SessionKept`: one lost keep-alive does not cost the bridge session. The gap is then
  exactly the session timeout, so the property has no slack.
* `DetectedInTime`: an endpoint that hears nothing is replaced before twice the alive
  timeout.
* `HealsUnlessAbandoned`: push comes back as long as the client still has a protocol
  or a coroutine.
* `ChannelSafe`, `ChannelSpec`: refinement of `PushChannel`.

Coordinator and entities:

* `DriftBounded`: an entity is wrong about a state that no longer changes for one slow
  interval at most, plus one for every sweep in a row that did not bring its device. The time
  in which the truth cannot get through (the entity, or one that is told before it, raises on it) does
  not count; once it is over the bound holds as before.
* `SiblingsAgree`: entities of one device that agree keep agreeing, except through a
  manual update of one, the arrival of another, or a state on which a callback raises.
* `Convergence`: once changes and faults are used up, in a state that everybody can show, every
  entity is available and shows the truth for good: what raised before leaves nothing behind.

HTTP client:

* `WritesRunOnce`: whatever connections do, and after the caller gave up as well, the bridge
  runs a write at most once, and exactly once if the call returned.
* `UnreachableNotRun`: a write that ended with a connect error has not run and will not, so
  asking again is safe.
* `CallEnds`: every call ends, because every attempt has a timeout and there are two at most.
* `Delivers`: refinement of `Delivery`.

Entities, one call at a time:

* `OfferedIsListed`: a service that is offered only sends actions that the device lists, or that
  every device of its type is presumed to have. One call is an exception (`Unlisted`): `turn_on` of a fan
  with a percentage sends `SetSpeed` to a fan without speeds as well (`fan.py:156-170`):
  neither the handler nor Home Assistant's service compares a percentage with the features of the fan.
* `InBridgeRange`: arguments are in the range the bridge takes. One exception is stated: brightness
  1 of 255 is sent as 0 (`light.py:167`; `Action.set_brightness` documents 1..100).
* `ShownAsAsked`: what is shown once the device obeyed is what was asked for, to the resolution
  of the device; a fan is never slower than asked. Numbers are asked for in tenths, as Home Assistant does not
  enforce their step: `round` takes them to the nearest percent, and half a percent turns off.
* `Ordered`: who asks for more never gets less.
* `EchoSettles`: setting what is shown a second time changes nothing, so that no value creeps. The first
  time may: a colour temperature is rounded, a tilt goes to the nearest percent, a fan to the lowest of
  the speeds that show the same percentage. Position and tilt of a cover settle each on its own.
* `EchoKeepsPower`: setting what is shown turns nothing on or off, except in the four cases that
  `Misshown` names: the flame number and the breeze are shown while the power is off, so that
  restoring them turns it on; a group of fans at several speeds is shown as off, and so are the lowest
  speeds of a fan of more than a hundred, whose percentage rounds down to 0.
* `ReplacedButtonsReachable`: a toggle or step button is left out only if some entity of the device
  sends its action or the one it gave way to. The condition is exact: that one is served (`Served`)
  by an entity of the device's type, which leaves out the brightness of up and down
  lights, which no entity sets; the common light of a fan that has an up and a down light; and
  actions a device lists beside its type, as groups of several types do.

Commands in flight:

* `InOrder`: the bridge runs no request of a command before the ones ahead of it, not even when
  requests are run after their command has failed.
* `PrefixRan`: a command that nothing interfered with leaves the device as one of its prefixes does,
  however it ends.
* `Obeyed`: a command that returned, and that nothing interfered with or has followed, has been
  obeyed. That "interfered" covers a `turn_off` between the two requests of a `turn_on`, and a
  request of a failed command that the bridge runs late.
* `OffEndsBreeze`: turning a fan off ends the breeze too, provided the entity showed it as it was.
* `CommandEnds`: every command ends.

Entries and telemetry:

* `EndpointsAccounted`: a loaded entry has one push endpoint and any other none, except for
  setups that ended in an exception nobody expects (`hub.name` without a name): those leave their
  endpoint open until the next unload of a loaded entry.
* `LoadedDevicesKept`: what is loaded stays in the registry; what the bridge no longer
  lists may go. A list of groups or scenes that failed counts as an empty one.
* `EntitiesAnswered`: what is polled has an entity, and what has an entity exists.
* `EndsUpServing`: left alone, an entry ends up loaded, waiting for a token, or crashed by an
  exception nobody expects (`OSError` of `start_bpup`, `KeyError` of `hub.name`); no expected
  failure parks it.
* `TelemetrySettles`: whatever refreshes are dropped or overtaken by writes, a loaded entry ends
  up showing the control as it is.

Config flows:

* `NoReplacement`: an entry is replaced by another of the same bridge only through a discovery that was
  in its first step when the entry was made and could not validate the token it was given; every
  other flow for that bridge finds the entry, or is ended by it.
* `StoredWasTrue`: whatever is stored in an entry was true of its bridge while the flow ran: the bridge was at
  that host, and the host had that token, at some moment since the flow was discovered or the data were
  typed in. Not more than that: a token may have changed, or another bridge come to the host, between two requests of
  the validation. An announcement that only brings a new host stores the present one.
* `FollowsBridge`: an entry ends up with its bridge's host, except while another flow of that bridge
  waits for its user or is stuck: a reauth that nobody answers keeps the new host out.

Schedules:

* `ListedTogether`: whatever is created, changed and deleted while the schedules are read one by one,
  a list that is returned has exactly the schedules its owner had at one moment of the call, each as
  it was at some moment of it; if one is deleted in between the whole list fails instead.

### Disagreements between the code and its documentation

1. `bpup_heal`. `_reconnect` handles `OSError` by calling `_schedule_reconnect`, whose
   guard sees the very task that is asking and returns. If the watchdog had cleared
   `_protocol`, nothing is left that would try again, against the docstring of
   `BPUPClient` ("rebuilds the endpoint with jittered exponential backoff") and `src/README.md:12`.
2. `sync_available`. When a sweep raises, because every fetch failed or one failed in a way nobody
   expects, the coordinator keeps its old data, and the entities take their state and availability from it or are not told
   at all. The property is about one entity and its own device, whose request failed in that sweep
   (`results`): it stays available with push down, against "Available when the device answered its last poll
   or push is live" (`entity.py:135`).
3. `sync_interval`. `_adjust_interval` is not reached by a sweep that raises, so with
   push and bridge down together polling keeps its slow interval, against its
   docstring and `src/README.md:13`.

Six more were seen while modelling. The first three are part of the model; no run states any of them as a claim.

* A group's null breeze raises in `BondFan._apply_state` (`fan.py:79`), which ends the
  loop of `async_update_listeners` (and of `BPUPSubscriptions.notify`): entities added later, of
  whatever device, do not get the state that a sweep brought them, although "state arrives via BPUP push
  (primary) and the hub-level fallback coordinator (secondary)" (`entity.py:70`).
* A discovery in its first step when another flow makes the entry of its bridge goes on. If its validation
  fails it keeps its token (`config_flow.py:106-110`), and confirming it replaces the entry, with the token not validated
  (`config_flow.py:173-180`). No document of the repository says otherwise; `NoReplacement` says that nothing else does.
* `turn_on` of a fan with a percentage sends a speed to a fan that lists none (`fan.py:167`), while
  `supports_speed` decides whether the fan offers to set one (`fan.py:65`).
* "Mixed-type groups get no entity" (`src/README.md:91`); they get the buttons and the heat number of
  what their members share, which go by the actions alone (`button.py:309-333`, `number.py:31-35`).
* "Scene skeds must not set an action" (`services.py:213`) is checked by `create_sked` only; `update_sked`
  sends one.
* "Multiple Bond hubs are configured" (`services.py:151`) is said whenever a call names no entry and not
  exactly one is loaded, with a single hub that is not loaded as well.

### Bounds, and why they are enough

* `bpup*`: a tick is 10 s, so a keep-alive of 3 and an alive timeout of 7 are the code's
  own ratios (30 s, 70 s). The backoff runs from 1 to 6 ticks (5..60 s) with jitter up
  to half of it, so a sleep may outlast the watchdog, as it may in the code. Two
  endpoints and two tasks: by `AtMostOneEndpoint` and `Busy` a second one is needed only
  while the first is closing, and a third never; identities are reused once dead.
  `MaxFaults = 3` lets a behaviour lose two keep-alives or acknowledgements in a row
  and have a further outage.
* `sync*`: the sweep takes 2 ticks while push is alive and 1 while it is not; only the order of the
  two matters to the properties, which are stated in the constants. Two devices are the
  least for a sweep to fail in part and for its loop to stop half-way; the second has no entity (a
  source without listeners). The first is a group with a fan and a light, so there are siblings. The
  fan is told first and raises on the first change of the group, not on the second: so the
  light is left out, is late, and recovers. That a callback that raises cuts off entities of other
  devices as well is covered by the theorems, which are about any number of them. Two changes let an old answer overtake a newer
  push; two faults let one sweep fail as a whole, or two in a row in part.
* `call`: a read and a write share a session, a second write has its own. Three connections may
  fail besides idle ones that the bridge closes, so that both attempts of the read and one
  of a write can fail in one behaviour. Two shared calls are enough for one to reuse
  the connection of the other.
* `controls`: the catalogue has every way to open, close and stop a shade (all subsets of six
  actions), fans of 1, 3 and 7 speeds, with and without breeze and up and down lights (once with every light there is), lights with
  and without colour, fireplaces, layered shades, groups, and tilt ranges that start at 0, below 0
  or are empty, and one on a shade that has a position as well. Brightness, fan percentage and tilt are
  tried over their whole range (1..255, 0..100); scales that are sent unchanged at seven values with both
  ends, and numbers at eight more between the steps (`Tenths`), on either side of a half and on it; colours at one that is rounded up, one that is rounded down and one that is not rounded. The
  theorems about `Controls` cover every other number of speeds, range of tilt and tenth.
* `commands`: two commands of a fan with a colour light, single or in a group, among the calls
  that make two requests and the ones that undo them; `MaxRequests = 2` is the
  longest there is, of any call (lemma `RequestsShort`). One use of the remote.
* `entry`: a device and a group (scenes have no devices), two optional endpoints, which the product may have or not, two levels; one fault,
  write, change of the bridge, revoked token and unload each, in any order, from every kind of bridge.
  Faults at one request each are what the properties distinguish; two failed setups in a row differ
  from one only in what they leak, which the theorem `EndpointsTheorem` covers for any number.
* `flow`: two bridges are the least that can trade addresses, and one of them is announced
  (`Announcing`); the other comes in by a move or a form. One dialog, beside the two discovery and two reauth
  flows. One change, a move or a new token (`MaxChanges`), two faults, two forms sent. Two faults let a
  validation fail and then a setup, or two validations; two forms let one flow make an entry that another is about. More
  changes and more flows are covered by the theorems, but for `FollowsBridge`. Hosts differ by their
  bridges alone, so the first assignment (`Home`) is fixed.
* `schedules`: one call lists and one writes, as any number of writers can be had from other clients (two
  changes, of whatever schedules). A device has one or two schedules at first, and ids for one or two
  more: a deletion behind the reader, one ahead of it and a creation are the orders that differ. Another
  bridge has a device of its own, for calls that mean the wrong bridge. One request fails.

### Fairness

* The event loop runs whatever is ready (weak fairness of every callback and of every
  resumption), and the clock moves.
* A connect of a UDP socket ends, with a transport or with `OSError`, within a tick. A
  connect that takes longer each time could in principle be overtaken by the watchdog
  each time.
* A network that went down comes back (`NetUp`). Faults are bounded, so that "once
  faults stop" is a state every behaviour reaches.
* In `StateSync`, datagrams that were not lost arrive, requests end (the HTTP client
  has a timeout), the platforms finish adding their entities.
* In `BondCall` the timer of a request fires in the end; nothing makes the bridge answer.
* In `Commands` every request ends, as `CallEnds` says of the HTTP client; nothing makes the bridge
  run a request that was given up, or the entity show a state.
* In `EntryLifecycle` requests end, the retry timer and the telemetry interval run out; nobody
  need unload, write or answer a reauth.
* In `ConfigFlow` requests end, bridges announce themselves again and again, and Home Assistant gets
  round to setting up; no user need ever answer.
* Nothing makes the bridge push, push come alive, the owner stop the client, or the
  user ask for an update.

## 4. What is proved

`BpupClientProofs` proves for every set of endpoints and tasks, all times and any
number of faults, from the assumptions `NamesAssumption` (the names are distinct),
`TimesAssumption` (positive times, minimal delay at most the maximal one) and
`EnvironmentAssumption`:

| Theorem | Property |
|---|---|
| `TypeCorrect` | `TypeOK` |
| `IInvHolds` | the inductive invariant |
| `OneEndpoint` | `AtMostOneEndpoint` |
| `NoLeak` | `OpenIsOwned` |
| `FinalStop` | `StopIsFinal` |
| `AliveImpliesEndpoint` | `AliveHasEndpoint` |
| `ImplementsChannel` | `ChannelSafe` |

None of the safety properties is inductive alone. That two endpoints never report
to the client depends on who may be connecting; that depends on which task
`_reconnect_task` names; a task that was forgotten must have been cancelled; and so
on. `IInv` (stated in the proof module, where each conjunct carries its reason)
joins them: at most one coroutine is active, an active task is the one the client
remembers, an endpoint in transit belongs to a coroutine at hand-over and is linked
unless that coroutine was cancelled, an open endpoint is owned, a stopped client has
nothing, and a fresh stamp has an open or closing endpoint behind it. The proof that
a step preserves it has one lemma per action. Refinement then follows: `Hear` is
`DatagramReceived`, `Fall` is any step that resets the stamp or lets it run out,
`End` is `Stop`.

It proves from the same assumptions how the timers add up:

| Theorem | Property |
|---|---|
| `SessionTheorem` | `SessionKept` |
| `DetectionTheorem` | `DetectedInTime` |

A session cannot lapse early because, while it lasts, its age and what is left of the keep-alive
timer are at most one interval for each keep-alive since the last one that arrived (`SessionInTime`).
An endpoint cannot stay deaf because its silence and what is left of the watchdog stay below two
timeouts (`CheckedInTime`); a check that finds push alive rearms, and keeps the sum there, since the stamp is
never fresher than the client's own endpoint (`StampIsNoFresher`), for which `IInv` is needed: with
two endpoints, one could keep the other's stamp fresh.

`StateSyncProofs` proves for any number of devices, entities, changes and failed requests and for every
two intervals, from `DevicesAssumption` (every entity has a device), `IntervalsAssumption` (the quick
interval is positive and at most the slow one), `UnreadableAssumption` (no entity raises on the state
it was constructed with; otherwise any entity may raise on any state) and `BoundsAssumption`:

| Theorem | Property |
|---|---|
| `SyncTypeCorrect` | `TypeOK` |
| `DriftTheorem` | `DriftBounded` |
| `SiblingsTheorem` | `SiblingsAgree` |

Type correctness needs two counts: a device's version and the changes left stay within their bound, and so do
the sweeps in a row that skipped a device and the failures left, since a skip has cost one. Drift is
inductive with what is left of the timer added to it (`ScheduledInTime`), with a refresh that runs whenever
somebody listens, and with `AnswersAreRecent`: an answer held by a sweep is the truth, or
the truth has changed since and the clock of the drift is at 0. Callbacks that raise add a second part
to it: while the clock of an entity runs, nothing that the sweep holds makes an entity before it raise, so that the
sweep's loop gets as far as this one. `SiblingsAgree` rests on the lemma `AllTold`: of the entities that raise there is a
first one, which is told; so if nobody told raises, everybody is told.

`BondCallProofs` proves for every set of calls and any number of faults, from
`KindsAssumption` (`Read` and `Own` are sets of calls) and `BoundAssumption`:

| Theorem | Property |
|---|---|
| `CallTypeCorrect` | `TypeOK` |
| `AtMostOnce` | `WritesRunOnce` |
| `ConnectErrorIsClean` | `UnreachableNotRun` |
| `ImplementsDelivery` | `Delivers` |

Neither the number of runs nor its type is inductive, since a request may be run after it was
given up. The invariant counts `Load`, the runs done and still possible: no attempt adds more
than one, and a write is only attempted again while its `Load` is 0.

The same module proves about `Schedules`, for every set of calls, hubs, owners and ids, from `HubsAssumption`
(an owner belongs to one bridge) and `AsksAssumption` (asks are of the form the schema allows):

| Theorem | Property |
|---|---|
| `SkedTypeCorrect` | `SkedsTypeOK` |
| `ListedTheorem` | `ListedTogether` |

`ListedTogether` is about lists that have ended. `ListInv` follows one that is under way: the ids read and
the ids still to be read are together those of a moment of the call, and a schedule that is there now has been seen. A
read takes an id from the one set to the other, or raises. Types need that a call which may still be run late
has ended and so keeps what it asked (`LateIsOver`). Those types, and the ones of `BondCall`, are proved
only; no run checks them.

`PlatformsProofs` holds the lemmas about the definitions that `Commands` and `Controls` share. The scales: what
`Round` and `Ceiling` are off by at most, in which range each conversion ends, that each is monotone, and
what becomes of a value that goes to the bridge and back (`SpeedShown`, `SpeedSettles`, `TiltShown`,
`TiltSettles`, `BrightnessShown`, ...). The requests: one or two for any call (`RequestsShort`), and where they
leave a device (`RanUnfolds`, `LightTurnedOn`, `FanTurnedOff`, `FanSpeedSet`).

`CommandsProofs` proves for every set of devices, any number of commands, whatever is asked, and any use of
the remote, from `AsksAssumption` (a command asks an entity of the device for something Home Assistant lets
through, `Callable`) and `MaxRemoteAssumption`:

| Theorem | Property |
|---|---|
| `OrderTheorem` | `InOrder` |
| `ProgressTheorem` | the inductive invariant of a command that nothing interfered with |
| `PrefixTheorem` | `PrefixRan` |
| `ObeyedTheorem` | `Obeyed` |
| `OffTheorem` | `OffEndsBreeze` |

`InOrder` says nothing of a command's progress, so `CInv` adds it: requests before the current one
have returned, and so were run; those after it were not sent, and so were not. `SInv` adds the state: no request
is run twice, and if nothing interfered with a command, the state is `Ran` of its first requests from the state it
found, as many of them as were run. A command that returned has had them all run, so that the state is `Final`,
and what `Final` is for each call is a lemma of `PlatformsProofs`.

`ControlsProofs` proves for every catalogue of devices, from `DevicesAssumption` (a device has a speed
at least, and a range of integers for its tilt that is not upside down; `Null` is none of them) and
`ValuesAssumption` `ValuesAssumption` (colour temperatures are at least 100 K, samples percentages, of which there is one, tenths those of percentages)::

| Theorem | Property |
|---|---|
| `OfferedTheorem` | `OfferedIsListed` |
| `RangeTheorem` | `InBridgeRange` |
| `ShownTheorem` | `ShownAsAsked` |
| `OrderedTheorem` | `Ordered` |
| `PowerTheorem` | `EchoKeepsPower` |
| `SettlesTheorem` | `EchoSettles` |
| `ReachableTheorem` | `ReplacedButtonsReachable` |

So no number of speeds and no range of tilt makes a dial run backwards, a shown value creep, or a rounding leave the
bridge's range, and no combination of listed actions makes an offered service send one that is not listed, the speed of
`Unlisted` aside. The proofs rest on three
invariants. `RInv`: every variable of the state has a value the bridge takes (`Fine`), and what was sent suits
the device (`Suits`); the two need each other, since what is shown is sent again. `DInv` adds that
after a call with an amount the device is where the dial points (`Points`, a function of the amount alone),
from which what is shown follows by the lemma of its scale, and the order by its monotonicity. `EInv`
adds that what one echo leaves behind is a value that the next leaves alone (`Settled`).

`ReachableTheorem` is about a device's entities in the state they are constructed in. A case for each action that replaces
buttons names the entity of the device's type (lemma `PlainEntity`), a service it offers and a value for which that action is
among its requests (`BrightnessReached`, `FanReached`, `ShadeReached`, ...). It failed as first stated: a device
that lists an action its type has no entity for loses the button too. The property now says when.

`EntryLifecycleProofs` proves for every set of things, every list of distinct optional endpoints
and any number of faults, from `ThingsAssumption` and `KeysAssumption`:

| Theorem | Property |
|---|---|
| `EInvariant` | the inductive invariant of the setup's progress and of its endpoint |
| `EndpointsTheorem` | `EndpointsAccounted` |
| `LoadedDevicesTheorem` | `LoadedDevicesKept` |
| `EntitiesTheorem` | `EntitiesAnswered` |

`EndpointsAccounted` is about entries at rest; `EInv` adds that while a setup runs, its endpoint is
there exactly in the stage `telemetry`, and that every open endpoint has its callback. The two others
rest on `EInv` and add what they need: `LoadedDevicesKept` that an inventory is only taken while
nothing is loaded; `EntitiesAnswered` (`AInv`) that the bridge has every key the first refresh has
passed and not dropped.

`ConfigFlowProofs` proves for any number of bridges, dialogs, moves, tokens and faults, from
`BridgesAssumption` (every host has one bridge):

| Theorem | Property |
|---|---|
| `FlowsFit` | the inductive invariant |
| `NoReplacementTheorem` | `NoReplacement` |
| `StoredTheorem` | `StoredWasTrue` |

The point of `FInv` is that a discovery which may yet create an entry is about a bridge without one,
or was overtaken: it was so when the flow started, and any other flow that creates the entry ends it or
overtakes it. It needs besides that no two discoveries are about the same bridge, or one could create the entry
that the other then replaces. `MInv` adds what each flow owes to the tokens it has met (`Owes`): a discovery that may create an
entry has met the bridge it is about; a validation that has read the version has met the bridge it found, and one that
has passed the list of devices the token it tries. A flow meets whoever is at its host at every step, its own or not, so
that these facts stay true however bridges move; what a step stores is then something the flow has met.

### Only model-checked

Liveness (`HealsUnlessAbandoned`, `StopReleases`, `ChannelSpec`, `Convergence`, `CallEnds`,
`CommandEnds`, `EndsUpServing`, `TelemetrySettles`, `FollowsBridge`), which is out of the prover's
reach. Every safety property of every passing run is a theorem.

## 5. Plan

Done, in this order: `PushChannel`, `BpupClient` (its failure silences every device),
its proofs, `StateSync` (which composes the channel with polling), `Delivery` and `BondCall`
with its proofs, `Conversions` to `Commands` over `Delivery`, `EntryLifecycle` with `Telemetry`,
`ConfigFlow`, the proofs of the last three, of the push client's timers and of `StateSync`, those of
`Commands` and `Controls` over `Platforms`; then callbacks that raise in `StateSync`, what takes the
place of a button, and `Schedules`, each with its proofs. Left, should the code grow towards it:

* the scenes and the hub services other than schedules, when they come to have state of their own;
* `Schedules` over `Delivery`, to say what a caller who asks again after an error may have created twice.

## 6. Not modelled

The bridge's own firmware, beyond what the code relies on (a session times out after 60 s,
a keep-alive is acknowledged, a state read answers with the present state, `Effect`); Home Assistant,
beyond the coordinator, entity, entry and flow life cycles the code uses (a user who deletes an entry
by hand is left out); JSON decoding, logging, translations, icons; the sensors and binary sensors,
which format the payload; scenes, identify, reboot and the other hub services of `services.py`
(transmit, reload, channel actions), one request each without state of their own; how the fields of a
schedule are validated; `diagnostics.py`, a redacted dump;
release scripts and blueprints, which do not run in the integration.

Things noticed there that no property is about: a 401 of a loaded entry
is an `UpdateFailed` and does not start a reauth; `async_setup_entry` does not compare the bridge's id with the
entry's unique id; `async_remove_config_entry_device` raises for an entry that is not loaded.
