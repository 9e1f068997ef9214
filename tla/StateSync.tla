------------------------------- MODULE StateSync -------------------------------
(***************************************************************************)
(* How device state reaches the entities of a loaded entry: pushes from    *)
(* the bridge (BPUPSubscriptions.notify, BondEntity._async_bpup_callback), *)
(* the fallback sweep (BondFallbackCoordinator), and manual updates        *)
(* (BondEntity.async_update), all racing through the one BondDevice.state  *)
(* that the entities of a device share.                                    *)
(*                                                                         *)
(* A device's state is a version number: the bridge counts it up, the      *)
(* program copies it about.  A device stands for a group too: both are     *)
(* entity_sources.  The push channel is PushChannel, which BpupClient      *)
(* implements.  One tick is FALLBACK_INTERVAL_BPUP_DEAD's worth of time at *)
(* most: every request is answered or times out within it.                 *)
(*                                                                         *)
(* The state of a group has nulls where its members differ, and the        *)
(* _apply_state of some entity may raise on one (breeze[0] of fan.py:79);  *)
(* that ends the loop of callbacks it was called from.                     *)
(***************************************************************************)
EXTENDS Integers

CONSTANTS
  NumDevices,   \* length of hub.entity_sources, the order of a sweep
  NumEntities,  \* entities, numbered in the order the platforms happen to add them
  DeviceOf,     \* the device of an entity
  Unreadable,   \* <<entity, version>> on which its _apply_state raises
  FALLBACK_INTERVAL_BPUP_ALIVE, FALLBACK_INTERVAL_BPUP_DEAD,   \* in ticks
  MaxChanges,   \* bound: state changes of the bridge
  MaxFaults,    \* bound: failed requests
  MaxManual     \* bound: manual updates

Device == 1..NumDevices
Entity == 1..NumEntities

ASSUME DevicesAssumption ==
  NumDevices \in Nat \ {0} /\ NumEntities \in Nat /\ DeviceOf \in [Entity -> Device]
ASSUME IntervalsAssumption ==
  /\ FALLBACK_INTERVAL_BPUP_DEAD \in Nat \ {0}
  /\ FALLBACK_INTERVAL_BPUP_ALIVE \in Nat
  /\ FALLBACK_INTERVAL_BPUP_DEAD <= FALLBACK_INTERVAL_BPUP_ALIVE
ASSUME BoundsAssumption == MaxChanges \in Nat /\ MaxFaults \in Nat /\ MaxManual \in Nat
(* The platforms have constructed their entities from version 0. *)
ASSUME UnreadableAssumption == Unreadable \subseteq Entity \X (1..MaxChanges)

VARIABLES
  truth,        \* the bridge's state of each device
  frames,       \* pushes on their way: device and version
  alive,        \* BPUPSubscriptions.alive
  ended,        \* has the channel been stopped (not while the entry is loaded)
  devState,     \* BondDevice.state
  added,        \* entities added to hass: listening and subscribed
  shown,        \* the version whose attributes an entity shows (_apply_state)
  available,    \* BondEntity._attr_available
  data,         \* DataUpdateCoordinator.data
  lastSuccess,  \* DataUpdateCoordinator.last_update_success
  interval,     \* DataUpdateCoordinator.update_interval
  timer,        \* ticks to the scheduled refresh, or Off
  results,      \* the answers of the sweep under way, or Idle for all
  manual,       \* an answer to an entity's async_update not yet applied, or Idle
  changes, faults, manuals,   \* what is left of the bounds
  skipped,      \* history: sweeps in a row that did not bring a device's state
  late          \* history: ticks since an entity last showed the truth, or the
                \* truth last changed or was hidden, whichever is later

channelVars == <<alive, ended>>
entityVars  == <<devState, added, shown, available>>
coordVars   == <<data, lastSuccess, interval, timer, results>>
boundVars   == <<changes, faults, manuals>>
stepVars    == <<truth, frames, channelVars, entityVars, coordVars, manual, boundVars, skipped>>
vars        == <<stepVars, late>>

Channel == INSTANCE PushChannel

Version == 0..MaxChanges

(* What a request or the coordinator's data may hold besides a version. *)
Idle    == -1   \* nothing asked
Pending == -2   \* asked, not answered yet
Failed  == -3   \* ClientError, TimeoutError or OSError
Broken  == -4   \* any other exception: an answer that is not JSON
Missing == -5   \* not a key of the payload
Off     == -1

TooLate == FALLBACK_INTERVAL_BPUP_ALIVE * (MaxFaults + 1) + 1

TypeOK ==
  /\ truth \in [Device -> Version]
  /\ frames \subseteq Device \X Version
  /\ alive \in BOOLEAN /\ ended \in BOOLEAN
  /\ devState \in [Device -> Version]
  /\ added \subseteq Entity
  /\ shown \in [Entity -> Version]
  /\ available \in [Entity -> BOOLEAN]
  /\ data \in [Device -> Version \cup {Missing}]
  /\ lastSuccess \in BOOLEAN
  /\ interval \in {FALLBACK_INTERVAL_BPUP_ALIVE, FALLBACK_INTERVAL_BPUP_DEAD}
  /\ timer \in {Off} \cup 0..FALLBACK_INTERVAL_BPUP_ALIVE
  /\ results \in [Device -> Version \cup {Idle, Pending, Failed, Broken}]
  /\ manual \in [Entity -> Version \cup {Idle, Failed}]
  /\ changes \in 0..MaxChanges /\ faults \in 0..MaxFaults /\ manuals \in 0..MaxManual
  /\ skipped \in [Device -> 0..MaxFaults]
  /\ late \in [Entity -> 0..TooLate]

(* hub.setup() has fetched every state, start_bpup has started the         *)
(* channel, the coordinator is seeded, the platforms have constructed      *)
(* their entities from that state; they are added to hass one by one.      *)
Init ==
  /\ truth = [d \in Device |-> 0] /\ frames = {}
  /\ Channel!Init
  /\ devState = [d \in Device |-> 0]
  /\ added = {}
  /\ shown = [e \in Entity |-> 0]
  /\ available = [e \in Entity |-> TRUE]
  /\ data = [d \in Device |-> 0] /\ lastSuccess = TRUE
  /\ interval = FALLBACK_INTERVAL_BPUP_DEAD /\ timer = Off
  /\ results = [d \in Device |-> Idle]
  /\ manual = [e \in Entity |-> Idle]
  /\ changes = MaxChanges /\ faults = MaxFaults /\ manuals = MaxManual
  /\ skipped = [d \in Device |-> 0]
  /\ late = [e \in Entity |-> 0]

Sweeping == \E d \in Device : results[d] # Idle
EntitiesOf(d) == {e \in Entity : DeviceOf[e] = d}

(***************************************************************************)
(* The bridge and the push channel.                                        *)
(***************************************************************************)

(* A state changes; its push is sent, or lost on the way, or there is no   *)
(* session to send it to.                                                  *)
BridgeChange(d) ==
  /\ changes > 0 /\ changes' = changes - 1
  /\ truth' = [truth EXCEPT ![d] = @ + 1]
  /\ frames' \in {frames, frames \cup {<<d, truth[d] + 1>>}}
  /\ UNCHANGED <<channelVars, entityVars, coordVars, manual, faults, manuals, skipped>>

(* Mutant: notify() runs the first callback only. *)
FirstSubscriber(d) ==
  LET heard == EntitiesOf(d) \cap added
  IN IF heard = {} THEN {} ELSE {CHOOSE e \in heard : TRUE}

(* The callbacks subscribed for the device. *)
Subscribers(d) == EntitiesOf(d) \cap added

(* Can e show this state, or does it raise on it? *)
Readable(e, v) == <<e, v>> \notin Unreadable

(* The entities that a loop of callbacks reaches, telling each the state   *)
(* of its device: all in turn, until one raises.                           *)
Told(listeners, state) ==
  {e \in listeners : \A f \in listeners : f < e => Readable(f, state[DeviceOf[f]])}

(* notify() of a state frame: stamp the channel, run the callback of every *)
(* subscribed entity of the device in turn.                                *)
PushReceived(d, v) ==
  /\ <<d, v>> \in frames /\ frames' = frames \ {<<d, v>>}
  /\ Channel!Hear
  /\ LET heard == Told(Subscribers(d), [c \in Device |-> v])
     IN /\ devState' = IF heard = {} THEN devState ELSE [devState EXCEPT ![d] = v]
        /\ shown' = [e \in Entity |-> IF e \in heard /\ Readable(e, v) THEN v ELSE shown[e]]
        /\ available' = [e \in Entity |-> available[e] \/ e \in heard]
  /\ UNCHANGED <<truth, added, coordVars, manual, boundVars, skipped>>

(* A keep-alive acknowledgement or an error frame stamps the channel only. *)
AckReceived ==
  /\ Channel!Hear
  /\ UNCHANGED <<truth, frames, entityVars, coordVars, manual, boundVars, skipped>>

(* The channel times out or loses its connection. *)
PushLost ==
  /\ alive /\ Channel!Fall
  /\ UNCHANGED <<truth, frames, entityVars, coordVars, manual, boundVars, skipped>>

(***************************************************************************)
(* Entities.                                                               *)
(***************************************************************************)

(* async_added_to_hass: listen to the coordinator, whose first listener    *)
(* schedules the refresh, and subscribe to pushes.                         *)
AddToHass(e) ==
  /\ added = 1..(e - 1) /\ added' = added \cup {e}
  /\ timer' = IF added = {} THEN interval ELSE timer
  /\ UNCHANGED <<truth, frames, channelVars, devState, shown, available, data, lastSuccess,
                 interval, results, manual, boundVars, skipped>>

(* _async_state_callback, from one entity's manual update. *)
ApplyOne(e, v) ==
  /\ devState' = [devState EXCEPT ![DeviceOf[e]] = v]
  /\ shown' = [shown EXCEPT ![e] = IF Readable(e, v) THEN v ELSE @]
  /\ available' = [available EXCEPT ![e] = TRUE]

(* async_update: the bridge answers the request, or it fails. *)
ManualAnswered(e) ==
  /\ e \in added /\ manual[e] = Idle /\ manuals > 0 /\ manuals' = manuals - 1
  /\ \/ manual' = [manual EXCEPT ![e] = truth[DeviceOf[e]]] /\ UNCHANGED faults
     \/ faults > 0 /\ faults' = faults - 1 /\ manual' = [manual EXCEPT ![e] = Failed]
  /\ UNCHANGED <<truth, frames, channelVars, entityVars, coordVars, changes, skipped>>

(* async_update resumes after its await. *)
ManualApplied(e) ==
  /\ manual[e] # Idle /\ manual' = [manual EXCEPT ![e] = Idle]
  /\ \/ manual[e] \in Version /\ ApplyOne(e, manual[e])
     \/ /\ manual[e] = Failed /\ available' = [available EXCEPT ![e] = FALSE]
        /\ UNCHANGED <<devState, shown>>
  /\ UNCHANGED <<truth, frames, channelVars, added, coordVars, boundVars, skipped>>

(***************************************************************************)
(* The fallback sweep.                                                     *)
(***************************************************************************)
SweepStart ==
  /\ timer = 0 /\ ~Sweeping
  /\ timer' = Off
  /\ results' = [d \in Device |-> Pending]
  /\ UNCHANGED <<truth, frames, channelVars, entityVars, data, lastSuccess, interval, manual,
                 boundVars, skipped>>

(* One request of the gather: the bridge reads its state now. *)
SweepAnswered(d) ==
  /\ results[d] = Pending
  /\ \/ results' = [results EXCEPT ![d] = truth[d]] /\ UNCHANGED faults
     \/ /\ faults > 0 /\ faults' = faults - 1
        /\ \E bad \in {Failed, Broken} : results' = [results EXCEPT ![d] = bad]
  /\ UNCHANGED <<truth, frames, channelVars, entityVars, data, lastSuccess, interval, timer,
                 manual, changes, manuals, skipped>>

Answered(d) == results[d] \in Version

(* The devices the loop of _async_update_data reaches before it raises. *)
Reached == {d \in Device : \A c \in 1..d : results[c] # Broken}

(* Mutant: a failed request's exception is stored as the state. *)
AssignedUnchecked == [d \in Device |-> IF d \in Reached THEN results[d] ELSE devState[d]]

(* device.state = result, for every device the loop reaches. *)
Assigned == [d \in Device |-> IF d \in Reached /\ Answered(d) THEN results[d] ELSE devState[d]]

(* _adjust_interval. *)
AdjustedInterval ==
  IF alive THEN FALLBACK_INTERVAL_BPUP_ALIVE ELSE FALLBACK_INTERVAL_BPUP_DEAD

(* Mutant: an entity that became unavailable stays so. *)
UnavailableForGood(told, payload) ==
  [e \in Entity |-> available[e] /\ (e \in told => payload[DeviceOf[e]] # Missing)]

(* Available if the payload has the state of its device. *)
Availability(told, payload) ==
  [e \in Entity |-> IF e \in told THEN payload[DeviceOf[e]] # Missing ELSE available[e]]

(* async_update_listeners: the added entities in turn take the state of    *)
(* their device from the payload, or become unavailable if there is none.  *)
Notify(payload) ==
  LET told == Told(added, payload)
      takes(e) == e \in told /\ payload[DeviceOf[e]] # Missing
  IN /\ devState' = [d \in Device |->
                       IF \E e \in EntitiesOf(d) : takes(e) THEN payload[d] ELSE Assigned[d]]
     /\ shown' = [e \in Entity |->
                    IF takes(e) /\ Readable(e, payload[DeviceOf[e]])
                    THEN payload[DeviceOf[e]] ELSE shown[e]]
     /\ available' = Availability(told, payload)

AllFailed == \A d \in Device : results[d] = Failed
Raises == Reached # Device \/ AllFailed

(* Mutant: a refresh that raised is not scheduled again. *)
RescheduleIfFast(next) ==
  /\ timer' = IF next = FALLBACK_INTERVAL_BPUP_DEAD THEN next ELSE Off
  /\ results' = [d \in Device |-> Idle]

(* The refresh is over: schedule the next one. *)
Reschedule(next) == timer' = next /\ results' = [d \in Device |-> Idle]

SweepSucceeds ==
  /\ Sweeping /\ \A d \in Device : results[d] # Pending
  /\ ~Raises
  /\ data' = [d \in Device |-> IF Answered(d) THEN results[d] ELSE Missing]
  /\ lastSuccess' = TRUE
  /\ interval' = AdjustedInterval
  /\ Notify(data')
  /\ Reschedule(interval')
  /\ skipped' = [d \in Device |-> IF Answered(d) THEN 0 ELSE skipped[d] + 1]
  /\ UNCHANGED <<truth, frames, channelVars, added, manual, boundVars>>

(* _async_update_data raises: the coordinator keeps its data and its       *)
(* interval, and tells its listeners the first time only.                  *)
SweepRaises ==
  /\ Sweeping /\ \A d \in Device : results[d] # Pending
  /\ Raises
  /\ lastSuccess' = FALSE
  /\ \/ lastSuccess /\ Notify(data)
     \/ ~lastSuccess /\ devState' = Assigned /\ UNCHANGED <<shown, available>>
  /\ Reschedule(interval)
  /\ skipped' = [d \in Device |-> skipped[d] + 1]
  /\ UNCHANGED <<truth, frames, channelVars, added, data, interval, manual, boundVars>>

(***************************************************************************)
(* Time: pushes and answers do not outlive a tick.                         *)
(***************************************************************************)
Tick ==
  /\ timer # 0 /\ ~Sweeping /\ frames = {} /\ \A e \in Entity : manual[e] = Idle
  /\ timer' = IF timer = Off THEN Off ELSE timer - 1
  /\ UNCHANGED <<truth, frames, channelVars, entityVars, data, lastSuccess, interval, results,
                 manual, boundVars, skipped>>

Step ==
  \/ \E d \in Device : BridgeChange(d) \/ SweepAnswered(d)
  \/ \E d \in Device, v \in Version : PushReceived(d, v)
  \/ \E e \in Entity : AddToHass(e) \/ ManualAnswered(e) \/ ManualApplied(e)
  \/ AckReceived \/ PushLost \/ SweepStart \/ SweepSucceeds \/ SweepRaises

(* The truth does not get through to e: it raises, or one before it does.  *)
Hidden(e) == \E f \in 1..e : ~Readable(f, truth[DeviceOf[f]])

(* The history variable late, n ticks later. *)
Aged(n) ==
  late' = [e \in Entity |->
             IF \/ e \notin added' \/ shown'[e] = truth'[DeviceOf[e]] \/ Hidden(e)'
                \/ truth'[DeviceOf[e]] # truth[DeviceOf[e]]
             THEN 0 ELSE IF late[e] + n < TooLate THEN late[e] + n ELSE TooLate]

Next == (Step /\ Aged(0)) \/ (Tick /\ Aged(1))

SafeSpec == Init /\ [][Next]_vars

(* The clock moves, requests end, datagrams that were not lost arrive, the *)
(* platforms finish.  Nothing makes push come alive.                       *)
Fairness ==
  /\ WF_vars(Tick /\ Aged(1)) /\ WF_vars(SweepStart /\ Aged(0))
  /\ WF_vars(SweepSucceeds /\ Aged(0)) /\ WF_vars(SweepRaises /\ Aged(0))
  /\ \A d \in Device :
       /\ WF_vars(SweepAnswered(d) /\ Aged(0))
       /\ \A v \in Version : WF_vars(PushReceived(d, v) /\ Aged(0))
  /\ \A e \in Entity :
       WF_vars(AddToHass(e) /\ Aged(0)) /\ WF_vars(ManualApplied(e) /\ Aged(0))

Spec == SafeSpec /\ Fairness

(***************************************************************************)
(* Properties.                                                             *)
(***************************************************************************)

(* However lost pushes, overtaken sweeps, manual updates and the rollback  *)
(* of a failed sweep mix, an entity is wrong about a state that does not   *)
(* change for one slow interval at most, plus one for every sweep in a row *)
(* that did not bring its device.  The clock stands still while some state *)
(* makes a callback raise; it takes no longer than that after the last     *)
(* such state (coordinator.py:65-105, const.py:11-15, bpup.py:69-70).      *)
DriftBounded ==
  \A e \in Entity :
    late[e] <= FALLBACK_INTERVAL_BPUP_ALIVE * (skipped[DeviceOf[e]] + 1)

(* The entities of a device that agree keep agreeing through every push    *)
(* and sweep; only a manual update of one, the arrival of another, or a    *)
(* state on which a callback raises sets them apart (bpup.py:69-70,        *)
(* entity.py:121-162).                                                     *)
Agree(d) ==
  \A e, f \in EntitiesOf(d) \cap added :
    shown[e] = shown[f] /\ available[e] = available[f]
AllReadable(state) == \A e \in added : Readable(e, state[DeviceOf[e]])
SiblingsAgree ==
  [][\A d \in Device :
       Agree(d) /\ manual' = manual /\ added' = added /\ AllReadable(devState)' => Agree(d)']_vars

(* Once the bridge is quiet, in a state that everybody can show, and       *)
(* answers again, every entity ends up available and shows the truth,      *)
(* whether or not push ever comes alive, and whatever raised before        *)
(* (coordinator.py:1-11, entity.py:67-72).                                 *)
Convergence ==
  <>[]AllReadable(truth) =>
    <>[](\A e \in Entity : e \in added /\ available[e] /\ shown[e] = truth[DeviceOf[e]])

(* "Available when the device answered its last poll or push is live."     *)
(* (entity.py:135): an entity whose device's request failed is not         *)
(* available when that sweep ends with push down.                          *)
AvailabilityTruthful ==
  [][\A e \in added :
       Sweeping /\ ~Sweeping' /\ results[DeviceOf[e]] = Failed /\ ~alive => ~available'[e]]_vars

(* "Poll slowly while BPUP push is alive, quickly when it is not."         *)
(* (coordinator.py:97): a sweep that ends while push is down is followed   *)
(* by a quick one.                                                         *)
QuickWhenPushDown ==
  [][Sweeping /\ ~Sweeping' /\ ~alive => timer' = FALLBACK_INTERVAL_BPUP_DEAD]_vars
==============================================================================
