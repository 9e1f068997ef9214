---------------------------- MODULE StateSyncProofs ----------------------------
(***************************************************************************)
(* The safety properties of StateSync, for any number of devices, entities,*)
(* changes and failed requests, and for every pair of intervals.           *)
(***************************************************************************)
EXTENDS StateSync, WellFoundedInduction, TLAPS

Numbers == /\ NumDevices \in Nat \ {0} /\ MaxChanges \in Nat /\ MaxFaults \in Nat
           /\ MaxManual \in Nat
           /\ FALLBACK_INTERVAL_BPUP_DEAD \in Nat \ {0} /\ FALLBACK_INTERVAL_BPUP_ALIVE \in Nat
           /\ FALLBACK_INTERVAL_BPUP_DEAD <= FALLBACK_INTERVAL_BPUP_ALIVE

LEMMA NumbersFact == Numbers
  BY DevicesAssumption, IntervalsAssumption, BoundsAssumption DEF Numbers

LEMMA DeviceFact == (\A e \in Entity : DeviceOf[e] \in Device) /\ Device # {}
  BY DevicesAssumption DEF Device

LEMMA EntityFact ==
  /\ Entity \subseteq Nat
  /\ \A e \in Entity : e \in 1..e /\ \A f \in 1..e : f \in Entity /\ DeviceOf[f] \in Device
<1>1. Entity \subseteq Nat
  BY DEF Entity
<1>2. ASSUME NEW e \in Entity, NEW f \in 1..e PROVE f \in Entity
  BY DevicesAssumption DEF Entity
<1>3. \A e \in Entity : e \in 1..e
  BY DEF Entity
<1> QED BY <1>1, <1>2, <1>3, DeviceFact

(* No entity raises for want of a state. *)
LEMMA MissingReadable == \A e : Readable(e, Missing)
  BY UnreadableAssumption DEF Readable, Missing

LEMMA TooLateType == TooLate \in Nat
  BY NumbersFact DEF Numbers, TooLate

(***************************************************************************)
(* Type correctness: no version is newer than the last change, and every   *)
(* sweep that skips a device has cost a failed request.                    *)
(***************************************************************************)
Bad(d) == results[d] \in {Failed, Broken}

ChangesCounted == \A d \in Device : truth[d] + changes <= MaxChanges
SkipsCounted ==
  \A d \in Device :
    /\ skipped[d] + faults <= MaxFaults
    /\ (\E c \in Device : Bad(c)) => skipped[d] + faults < MaxFaults

(* The requests of a sweep are made together. *)
AllAsked == Sweeping => \A d \in Device : results[d] # Idle

TInv == TypeOK /\ ChangesCounted /\ SkipsCounted /\ AllAsked

LEMMA TypeInit == Init => TInv
<1> SUFFICES ASSUME Init PROVE TInv
  OBVIOUS
<1> USE NumbersFact DEF Numbers
<1>1. 0 \in Version /\ 0 \in 0..MaxFaults /\ 0 \in 0..TooLate
  BY TooLateType DEF Version
<1>2. /\ truth \in [Device -> Version] /\ devState \in [Device -> Version]
      /\ shown \in [Entity -> Version] /\ data \in [Device -> Version \cup {Missing}]
      /\ skipped \in [Device -> 0..MaxFaults] /\ late \in [Entity -> 0..TooLate]
  BY <1>1 DEF Init
<1>3. /\ available \in [Entity -> BOOLEAN] /\ manual \in [Entity -> Version \cup {Idle, Failed}]
      /\ results \in [Device -> Version \cup {Idle, Pending, Failed, Broken}]
  BY DEF Init
<1>4. /\ frames \subseteq Device \X Version /\ added \subseteq Entity
      /\ alive \in BOOLEAN /\ ended \in BOOLEAN /\ lastSuccess \in BOOLEAN
  BY DEF Init, Channel!Init
<1>5. /\ changes \in 0..MaxChanges /\ faults \in 0..MaxFaults /\ manuals \in 0..MaxManual
      /\ interval \in {FALLBACK_INTERVAL_BPUP_ALIVE, FALLBACK_INTERVAL_BPUP_DEAD}
      /\ timer \in {Off} \cup 0..FALLBACK_INTERVAL_BPUP_ALIVE
  BY DEF Init
<1>6. TypeOK
  BY <1>2, <1>3, <1>4, <1>5 DEF TypeOK
<1>7. ChangesCounted /\ SkipsCounted /\ AllAsked
  BY DEF Init, ChangesCounted, SkipsCounted, AllAsked, Sweeping, Bad, Idle, Failed, Broken
<1> QED BY <1>6, <1>7 DEF TInv

(* The history variable, after a step and after a tick. *)
LEMMA AgedType ==
  ASSUME late \in [Entity -> 0..TooLate], NEW n \in {0, 1}, Aged(n)
  PROVE  /\ late' \in [Entity -> 0..TooLate]
         /\ \A e \in Entity : late'[e] \in 0..(late[e] + n)
         /\ \A e \in Entity :
              \/ e \notin added' \/ shown'[e] = truth'[DeviceOf[e]] \/ Hidden(e)'
              \/ truth'[DeviceOf[e]] # truth[DeviceOf[e]]
              => late'[e] = 0
  BY TooLateType DEF Aged

(* TypeOK without the history variable. *)
StepTypeOK ==
  /\ truth \in [Device -> Version]
  /\ frames \subseteq Device \X Version
  /\ alive \in BOOLEAN /\ ended \in BOOLEAN
  /\ devState \in [Device -> Version]
  /\ added \subseteq Entity
  /\ shown \in [Entity -> Version]
  /\ available \in [Entity -> BOOLEAN]
  /\ data \in [Device -> Version \cup {Missing}]
  /\ lastSuccess \in BOOLEAN
  /\ interval \in {FALLBACK_INTERVAL_BPUP_ALIVE, FALLBACK_INTERVAL_BPUP_DEAD}
  /\ timer \in {Off} \cup 0..FALLBACK_INTERVAL_BPUP_ALIVE
  /\ results \in [Device -> Version \cup {Idle, Pending, Failed, Broken}]
  /\ manual \in [Entity -> Version \cup {Idle, Failed}]
  /\ changes \in 0..MaxChanges /\ faults \in 0..MaxFaults /\ manuals \in 0..MaxManual
  /\ skipped \in [Device -> 0..MaxFaults]

SInv == StepTypeOK /\ ChangesCounted /\ SkipsCounted /\ AllAsked

LEMMA BridgeChangeType == ASSUME SInv, NEW d \in Device, BridgeChange(d) PROVE SInv'
<1> USE NumbersFact DEF Numbers
<1>1. truth[d] + 1 \in Version
  BY DEF BridgeChange, SInv, StepTypeOK, ChangesCounted, Version
<1>2. frames' \subseteq Device \X Version /\ truth' \in [Device -> Version]
  BY <1>1 DEF BridgeChange, SInv, StepTypeOK
<1>3. StepTypeOK'
  BY <1>2 DEF BridgeChange, SInv, StepTypeOK, channelVars, entityVars, coordVars
<1>4. ChangesCounted'
  BY DEF BridgeChange, SInv, StepTypeOK, ChangesCounted, Version
<1>5. SkipsCounted' /\ AllAsked'
  BY DEF BridgeChange, SInv, SkipsCounted, AllAsked, Sweeping, Bad, coordVars
<1> QED BY <1>3, <1>4, <1>5 DEF SInv

(* Steps that touch neither the bridge, nor requests, nor the count of skips. *)
LEMMA CountsKept ==
  ASSUME SInv, UNCHANGED <<truth, changes, faults, skipped, results>>
  PROVE  ChangesCounted' /\ SkipsCounted' /\ AllAsked'
  BY DEF SInv, ChangesCounted, SkipsCounted, AllAsked, Sweeping, Bad

LEMMA PushType ==
  ASSUME SInv, NEW d \in Device, NEW v \in Version, PushReceived(d, v) PROVE SInv'
<1>1. UNCHANGED <<truth, changes, faults, skipped, results>>
  BY DEF PushReceived, coordVars, boundVars
<1>2. /\ devState' \in [Device -> Version] /\ shown' \in [Entity -> Version]
      /\ available' \in [Entity -> BOOLEAN]
  BY DEF PushReceived, SInv, StepTypeOK
<1>3. StepTypeOK'
  BY <1>2 DEF PushReceived, SInv, StepTypeOK, coordVars, boundVars, Channel!Hear
<1> QED BY <1>1, <1>3, CountsKept DEF SInv

LEMMA ChannelType == ASSUME SInv, AckReceived \/ PushLost PROVE SInv'
<1>1. UNCHANGED <<truth, changes, faults, skipped, results>>
  BY DEF AckReceived, PushLost, coordVars, boundVars
<1>2. StepTypeOK'
  BY DEF AckReceived, PushLost, SInv, StepTypeOK, entityVars, coordVars, boundVars,
         Channel!Hear, Channel!Fall
<1> QED BY <1>1, <1>2, CountsKept DEF SInv

LEMMA AddType == ASSUME SInv, NEW e \in Entity, AddToHass(e) PROVE SInv'
<1> USE NumbersFact DEF Numbers
<1>1. UNCHANGED <<truth, changes, faults, skipped, results>>
  BY DEF AddToHass, boundVars
<1>2. timer' \in {Off} \cup 0..FALLBACK_INTERVAL_BPUP_ALIVE
  BY DEF AddToHass, SInv, StepTypeOK
<1>3. StepTypeOK'
  BY <1>2 DEF AddToHass, SInv, StepTypeOK, channelVars, boundVars
<1> QED BY <1>1, <1>3, CountsKept DEF SInv

LEMMA ManualType ==
  ASSUME SInv, NEW e \in Entity, ManualAnswered(e) \/ ManualApplied(e) PROVE SInv'
<1> USE NumbersFact, DeviceFact DEF Numbers
<1>1. CASE ManualAnswered(e)
  <2>1. StepTypeOK'
    BY <1>1 DEF ManualAnswered, SInv, StepTypeOK, channelVars, entityVars, coordVars
  <2>2. ChangesCounted' /\ AllAsked'
    BY <1>1 DEF ManualAnswered, SInv, ChangesCounted, AllAsked, Sweeping, coordVars
  <2>3. SkipsCounted'
    BY <1>1 DEF ManualAnswered, SInv, StepTypeOK, SkipsCounted, Bad, coordVars
  <2> QED BY <2>1, <2>2, <2>3 DEF SInv
<1>2. CASE ManualApplied(e)
  <2>1. UNCHANGED <<truth, changes, faults, skipped, results>>
    BY <1>2 DEF ManualApplied, coordVars, boundVars
  <2>2. /\ devState' \in [Device -> Version] /\ shown' \in [Entity -> Version]
        /\ available' \in [Entity -> BOOLEAN]
    BY <1>2 DEF ManualApplied, ApplyOne, SInv, StepTypeOK
  <2>3. StepTypeOK'
    BY <1>2, <2>2 DEF ManualApplied, SInv, StepTypeOK, channelVars, coordVars, boundVars
  <2> QED BY <2>1, <2>3, CountsKept DEF SInv
<1> QED BY <1>1, <1>2

LEMMA SweepStartType == ASSUME SInv, SweepStart PROVE SInv'
<1>1. /\ results' = [d \in Device |-> Pending]
      /\ UNCHANGED <<truth, changes, faults, skipped>>
  BY DEF SweepStart, boundVars
<1>2. StepTypeOK'
  BY <1>1 DEF SweepStart, SInv, StepTypeOK, channelVars, entityVars, boundVars
<1>3. ChangesCounted' /\ SkipsCounted' /\ AllAsked'
  BY <1>1 DEF SInv, ChangesCounted, SkipsCounted, AllAsked, Bad, Pending, Failed, Broken, Idle
<1> QED BY <1>2, <1>3 DEF SInv

LEMMA SweepAnsweredType == ASSUME SInv, NEW d \in Device, SweepAnswered(d) PROVE SInv'
<1> USE NumbersFact DEF Numbers
<1>1. StepTypeOK'
  BY DEF SweepAnswered, SInv, StepTypeOK, channelVars, entityVars
<1>2. ChangesCounted'
  BY DEF SweepAnswered, SInv, ChangesCounted
<1>3. AllAsked'
  BY DEF SweepAnswered, SInv, StepTypeOK, AllAsked, Sweeping, Version, Idle, Pending, Failed, Broken
<1>4. SkipsCounted'
  <2>1. CASE results' = [results EXCEPT ![d] = truth[d]] /\ UNCHANGED faults
    BY <2>1 DEF SweepAnswered, SInv, StepTypeOK, SkipsCounted, Bad, Version, Failed, Broken
  <2>2. CASE faults > 0 /\ faults' = faults - 1
    BY <2>2 DEF SweepAnswered, SInv, StepTypeOK, SkipsCounted
  <2> QED BY <2>1, <2>2 DEF SweepAnswered
<1> QED BY <1>1, <1>2, <1>3, <1>4 DEF SInv

(***************************************************************************)
(* The end of a sweep.                                                     *)
(***************************************************************************)
LEMMA AssignedType == ASSUME SInv PROVE Assigned \in [Device -> Version]
  BY DEF SInv, StepTypeOK, Assigned, Answered

LEMMA NotifyType ==
  ASSUME SInv, NEW payload \in [Device -> Version \cup {Missing}], Notify(payload)
  PROVE  /\ devState' \in [Device -> Version] /\ shown' \in [Entity -> Version]
         /\ available' \in [Entity -> BOOLEAN]
<1> USE DeviceFact
<1>1. devState' \in [Device -> Version]
  BY AssignedType DEF Notify, EntitiesOf
<1>2. shown' \in [Entity -> Version] /\ available' \in [Entity -> BOOLEAN]
  BY DEF Notify, Availability, SInv, StepTypeOK
<1> QED BY <1>1, <1>2

(* A device that a finished sweep did not bring has cost a request. *)
LEMMA SkipIsBad ==
  ASSUME SInv, Sweeping, \A d \in Device : results[d] # Pending, ~Raises,
         NEW d \in Device, ~Answered(d)
  PROVE  Bad(d)
  BY DEF SInv, StepTypeOK, AllAsked, Answered, Bad

LEMMA RaiseIsBad == ASSUME SInv, Raises PROVE \E d \in Device : Bad(d)
<1>1. CASE Reached # Device
  <2>1. PICK d \in Device : d \notin Reached
    BY <1>1 DEF Reached
  <2>2. PICK c \in 1..d : results[c] = Broken
    BY <2>1 DEF Reached
  <2> QED BY <2>2, NumbersFact DEF Numbers, Device, Bad
<1>2. CASE AllFailed
  BY <1>2, DeviceFact DEF AllFailed, Bad
<1> QED BY <1>1, <1>2 DEF Raises

LEMMA RescheduleType ==
  ASSUME SInv, NEW next \in {FALLBACK_INTERVAL_BPUP_ALIVE, FALLBACK_INTERVAL_BPUP_DEAD},
         Reschedule(next)
  PROVE  /\ timer' \in 0..FALLBACK_INTERVAL_BPUP_ALIVE
         /\ results' \in [Device -> Version \cup {Idle, Pending, Failed, Broken}]
         /\ \A d \in Device : results'[d] = Idle
  BY NumbersFact DEF Numbers, Reschedule

LEMMA SweepSucceedsType == ASSUME SInv, SweepSucceeds PROVE SInv'
<1> USE NumbersFact DEF Numbers
<1>1. data' \in [Device -> Version \cup {Missing}]
  BY DEF SweepSucceeds, Answered
<1>2. interval' \in {FALLBACK_INTERVAL_BPUP_ALIVE, FALLBACK_INTERVAL_BPUP_DEAD}
  BY DEF SweepSucceeds, AdjustedInterval
<1>3. /\ timer' \in 0..FALLBACK_INTERVAL_BPUP_ALIVE
      /\ results' \in [Device -> Version \cup {Idle, Pending, Failed, Broken}]
      /\ \A d \in Device : results'[d] = Idle
  BY <1>2, RescheduleType DEF SweepSucceeds
<1>4. /\ devState' \in [Device -> Version] /\ shown' \in [Entity -> Version]
      /\ available' \in [Entity -> BOOLEAN]
  BY <1>1, NotifyType DEF SweepSucceeds
<1>5. /\ skipped' = [d \in Device |-> IF Answered(d) THEN 0 ELSE skipped[d] + 1]
      /\ UNCHANGED <<truth, changes, faults>>
  BY DEF SweepSucceeds, boundVars
<1>6. \A d \in Device : ~Answered(d) => skipped[d] + faults < MaxFaults
  BY SkipIsBad DEF SweepSucceeds, SInv, SkipsCounted
<1>7. \A d \in Device : skipped'[d] \in 0..MaxFaults /\ skipped'[d] + faults <= MaxFaults
  BY <1>5, <1>6 DEF SInv, StepTypeOK
<1>8. StepTypeOK'
  <2>1. skipped' \in [Device -> 0..MaxFaults]
    BY <1>5, <1>7
  <2> QED BY <1>1, <1>2, <1>3, <1>4, <2>1
          DEF SweepSucceeds, SInv, StepTypeOK, channelVars, boundVars
<1>9. ChangesCounted' /\ SkipsCounted' /\ AllAsked'
  BY <1>3, <1>5, <1>7
  DEF SInv, ChangesCounted, SkipsCounted, AllAsked, Sweeping, Bad, Idle, Failed, Broken
<1> QED BY <1>8, <1>9 DEF SInv

LEMMA SweepRaisesType == ASSUME SInv, SweepRaises PROVE SInv'
<1> USE NumbersFact DEF Numbers
<1>1. interval \in {FALLBACK_INTERVAL_BPUP_ALIVE, FALLBACK_INTERVAL_BPUP_DEAD}
  BY DEF SInv, StepTypeOK
<1>2. /\ timer' \in 0..FALLBACK_INTERVAL_BPUP_ALIVE
      /\ results' \in [Device -> Version \cup {Idle, Pending, Failed, Broken}]
      /\ \A d \in Device : results'[d] = Idle
  BY <1>1, RescheduleType DEF SweepRaises
<1>3. /\ devState' \in [Device -> Version] /\ shown' \in [Entity -> Version]
      /\ available' \in [Entity -> BOOLEAN]
  <2>1. CASE Notify(data)
    BY <2>1, NotifyType DEF SInv, StepTypeOK
  <2>2. CASE devState' = Assigned /\ UNCHANGED <<shown, available>>
    BY <2>2, AssignedType DEF SInv, StepTypeOK
  <2> QED BY <2>1, <2>2 DEF SweepRaises
<1>4. /\ skipped' = [d \in Device |-> skipped[d] + 1]
      /\ UNCHANGED <<truth, changes, faults>>
  BY DEF SweepRaises, boundVars
<1>5. \A d \in Device : skipped[d] + faults < MaxFaults
  BY RaiseIsBad DEF SweepRaises, SInv, SkipsCounted
<1>6. \A d \in Device : skipped'[d] \in 0..MaxFaults /\ skipped'[d] + faults <= MaxFaults
  BY <1>4, <1>5 DEF SInv, StepTypeOK
<1>7. StepTypeOK'
  <2>1. skipped' \in [Device -> 0..MaxFaults]
    BY <1>4, <1>6
  <2> QED BY <1>2, <1>3, <2>1 DEF SweepRaises, SInv, StepTypeOK, channelVars, boundVars
<1>8. ChangesCounted' /\ SkipsCounted' /\ AllAsked'
  BY <1>2, <1>4, <1>6
  DEF SInv, ChangesCounted, SkipsCounted, AllAsked, Sweeping, Bad, Idle, Failed, Broken
<1> QED BY <1>7, <1>8 DEF SInv

LEMMA TickType == ASSUME SInv, Tick PROVE SInv'
<1>1. UNCHANGED <<truth, changes, faults, skipped, results>>
  BY DEF Tick, boundVars
<1>2. StepTypeOK'
  BY NumbersFact DEF Numbers, Tick, SInv, StepTypeOK, Off, channelVars, entityVars, boundVars
<1> QED BY <1>1, <1>2, CountsKept DEF SInv

LEMMA StepType == ASSUME SInv, Step PROVE SInv'
<1>1. ASSUME NEW d \in Device, BridgeChange(d) \/ SweepAnswered(d) PROVE SInv'
  BY <1>1, BridgeChangeType, SweepAnsweredType
<1>2. ASSUME NEW d \in Device, NEW v \in Version, PushReceived(d, v) PROVE SInv'
  BY <1>2, PushType
<1>3. ASSUME NEW e \in Entity, AddToHass(e) \/ ManualAnswered(e) \/ ManualApplied(e)
      PROVE  SInv'
  BY <1>3, AddType, ManualType
<1>4. CASE AckReceived \/ PushLost \/ SweepStart \/ SweepSucceeds \/ SweepRaises
  BY <1>4, ChannelType, SweepStartType, SweepSucceedsType, SweepRaisesType
<1> QED BY <1>1, <1>2, <1>3, <1>4 DEF Step

LEMMA SplitType == TInv <=> SInv /\ late \in [Entity -> 0..TooLate]
  BY DEF TInv, SInv, TypeOK, StepTypeOK

LEMMA TypeNext == ASSUME TInv, [Next]_vars PROVE TInv'
<1>1. SInv'
  <2>1. CASE UNCHANGED vars
    <3>1. StepTypeOK'
      BY <2>1, SplitType
      DEF SInv, StepTypeOK, vars, stepVars, channelVars, entityVars, coordVars, boundVars
    <3> QED BY <2>1, <3>1, SplitType, CountsKept
            DEF SInv, vars, stepVars, coordVars, boundVars
  <2> QED BY <2>1, SplitType, StepType, TickType DEF Next
<1>2. late' \in [Entity -> 0..TooLate]
  BY SplitType, AgedType DEF Next, vars
<1>3. TInv' <=> SInv' /\ late' \in [Entity -> 0..TooLate]
  BY DEF TInv, SInv, TypeOK, StepTypeOK
<1> QED BY <1>1, <1>2, <1>3

(* Every variable keeps its type: no version outruns the changes, and no   *)
(* device is skipped more often than requests fail (coordinator.py:65-95). *)
THEOREM SyncTypeCorrect == SafeSpec => []TypeOK
<1>1. Init => TInv
  BY TypeInit
<1>2. TInv /\ [Next]_vars => TInv'
  BY TypeNext
<1>3. TInv => TypeOK
  BY DEF TInv
<1> QED BY <1>1, <1>2, <1>3, PTL DEF SafeSpec

(***************************************************************************)
(* Drift.  While a refresh is scheduled, the time an entity has been wrong *)
(* and what is left to the refresh stay within the limit; a sweep takes no *)
(* time, and an answer it holds is the truth unless that has changed since.*)
(***************************************************************************)
Limit(d) == FALLBACK_INTERVAL_BPUP_ALIVE * (skipped[d] + 1)

LEMMA LimitGrows ==
  ASSUME NEW a \in Nat, NEW n \in Nat
  PROVE  a * (n + 1) \in Nat /\ a <= a * (n + 1) /\ a * ((n + 1) + 1) = a * (n + 1) + a
<1>1. a * (n + 1) = a * n + a /\ a * ((n + 1) + 1) = a * n + a + a
  OBVIOUS
<1>2. a * n \in Nat
  OBVIOUS
<1> QED BY <1>1, <1>2

LEMMA LimitFact ==
  ASSUME SInv, NEW d \in Device
  PROVE  Limit(d) \in Nat /\ FALLBACK_INTERVAL_BPUP_ALIVE <= Limit(d)
  BY LimitGrows, NumbersFact DEF Numbers, Limit, SInv, StepTypeOK

(* A refresh is scheduled, or under way, as soon as there is a listener.   *)
RefreshRuns ==
  IF added = {} THEN timer = Off /\ ~Sweeping ELSE timer = Off <=> Sweeping

LateIfListening == \A e \in Entity : e \notin added => late[e] = 0

ScheduledInTime ==
  \A e \in added : timer # Off => late[e] + timer <= Limit(DeviceOf[e])

(* What the sweep holds for an entity that is late is true, and no entity  *)
(* told before it raises on what the sweep holds for that one.             *)
AnswersAreRecent ==
  \A e \in added : late[e] # 0 =>
    /\ Answered(DeviceOf[e]) => results[DeviceOf[e]] = truth[DeviceOf[e]]
    /\ \A f \in 1..e : Answered(DeviceOf[f]) => Readable(f, results[DeviceOf[f]])

Drift ==
  RefreshRuns /\ LateIfListening /\ ScheduledInTime /\ AnswersAreRecent /\ DriftBounded

LEMMA DriftInit == Init => Drift
<1> SUFFICES ASSUME Init PROVE Drift
  OBVIOUS
<1>1. SInv
  BY TypeInit, SplitType
<1>2. /\ added = {} /\ timer = Off /\ ~Sweeping
      /\ \A e \in Entity : late[e] = 0
  BY DEF Init, Sweeping
<1>3. DriftBounded
  BY <1>1, <1>2, LimitFact, DeviceFact DEF DriftBounded, Limit
<1> QED BY <1>2, <1>3 DEF Drift, RefreshRuns, LateIfListening, ScheduledInTime, AnswersAreRecent

(* Between refreshes, nothing in a step makes an entity later. *)
LEMMA DriftKept ==
  ASSUME TInv, Drift, Aged(0), UNCHANGED <<added, timer, results, skipped>> PROVE Drift'
<1>1. \A e \in Entity : late'[e] <= late[e] /\ late'[e] >= 0 /\ late[e] \in Nat /\ late'[e] \in Nat
  BY AgedType, TooLateType DEF TInv, TypeOK
<1>2. \A e \in added : e \in Entity /\ DeviceOf[e] \in Device
  BY DeviceFact DEF TInv, TypeOK
<1>3. RefreshRuns'
  BY DEF Drift, RefreshRuns, Sweeping
<1>4. LateIfListening'
  BY <1>1 DEF Drift, LateIfListening
<1>5. ScheduledInTime' /\ DriftBounded'
  <2>1. \A d \in Device : Limit(d)' = Limit(d) /\ Limit(d) \in Nat
    BY LimitFact, SplitType DEF Limit
  <2>2. timer \in Int
    BY NumbersFact DEF Numbers, TInv, TypeOK, Off
  <2>3. \A e \in Entity : late[e] <= Limit(DeviceOf[e])
    BY DEF Drift, DriftBounded, Limit
  <2>4. DriftBounded'
    BY <1>1, <2>1, <2>3, DeviceFact DEF DriftBounded, Limit
  <2>5. ScheduledInTime'
    BY <1>1, <1>2, <2>1, <2>2 DEF Drift, ScheduledInTime
  <2> QED BY <2>4, <2>5
<1>6. AnswersAreRecent'
  <2>1. ASSUME NEW e \in added, late'[e] # 0
        PROVE  late[e] # 0 /\ truth'[DeviceOf[e]] = truth[DeviceOf[e]]
    BY <1>1, <1>2, <2>1, AgedType DEF TInv, TypeOK
  <2> QED BY <2>1 DEF Drift, AnswersAreRecent, Answered
<1> QED BY <1>3, <1>4, <1>5, <1>6 DEF Drift

LEMMA AddDrift ==
  ASSUME TInv, Drift, NEW e \in Entity, AddToHass(e), Aged(0) PROVE Drift'
<1>1. /\ e \notin added /\ added' = added \cup {e}
      /\ timer' = IF added = {} THEN interval ELSE timer
      /\ UNCHANGED <<truth, results, skipped>>
  BY DEF AddToHass, boundVars
<1>2. \A f \in Entity : late'[f] \in 0..late[f] /\ late[f] \in Nat
  BY AgedType, TooLateType DEF TInv, TypeOK
<1>3. late'[e] = 0
  BY <1>1, <1>2 DEF Drift, LateIfListening
<1>4. /\ interval \in 0..FALLBACK_INTERVAL_BPUP_ALIVE
      /\ timer \in {Off} \cup 0..FALLBACK_INTERVAL_BPUP_ALIVE
      /\ \A f \in added : f \in Entity
  BY NumbersFact DEF Numbers, TInv, TypeOK
<1>5. \A d \in Device : /\ Limit(d)' = Limit(d) /\ Limit(d) \in Nat
                        /\ FALLBACK_INTERVAL_BPUP_ALIVE <= Limit(d)
  BY <1>1, LimitFact, SplitType DEF Limit
<1>6. RefreshRuns' /\ LateIfListening'
  BY <1>1, <1>2, <1>3, <1>4 DEF Drift, RefreshRuns, LateIfListening, Sweeping, Off
<1>7. ScheduledInTime'
  <2> SUFFICES ASSUME NEW f \in added', timer' # Off
               PROVE  late'[f] + timer' <= Limit(DeviceOf[f])
    BY <1>1 DEF ScheduledInTime, Limit, Off
  <2>1. f \in Entity /\ DeviceOf[f] \in Device
    BY <1>1, <1>4, DeviceFact
  <2>2. CASE f = e
    BY <1>1, <1>3, <1>4, <1>5, <2>1, <2>2, NumbersFact DEF Numbers, Off
  <2>3. CASE f \in added
    BY <1>1, <1>2, <1>4, <1>5, <2>1, <2>3 DEF Drift, ScheduledInTime, Off
  <2> QED BY <1>1, <2>2, <2>3
<1>8. DriftBounded'
  BY <1>1, <1>2, <1>5, DeviceFact DEF Drift, DriftBounded, Limit
<1>9. AnswersAreRecent'
  BY <1>1, <1>2, <1>3, <1>4 DEF Drift, AnswersAreRecent, Answered
<1> QED BY <1>6, <1>7, <1>8, <1>9 DEF Drift

LEMMA SweepStartDrift == ASSUME TInv, Drift, SweepStart, Aged(0) PROVE Drift'
<1>1. /\ timer = 0 /\ timer' = Off /\ results' = [d \in Device |-> Pending]
      /\ UNCHANGED <<truth, skipped, added>>
  BY DEF SweepStart, entityVars, boundVars
<1>2. \A e \in Entity : late'[e] \in 0..late[e] /\ late[e] \in Nat
  BY AgedType, TooLateType DEF TInv, TypeOK
<1>3. RefreshRuns'
  BY <1>1, DeviceFact DEF Drift, RefreshRuns, Sweeping, Off, Pending, Idle
<1>4. LateIfListening' /\ ScheduledInTime'
  BY <1>1, <1>2 DEF Drift, LateIfListening, ScheduledInTime
<1>5. DriftBounded'
  BY <1>1, <1>2, LimitFact, SplitType, DeviceFact DEF Drift, DriftBounded, Limit
<1>6. AnswersAreRecent'
  <2>1. \A d \in Device : ~Answered(d)'
    BY <1>1 DEF Answered, Pending, Version
  <2> QED BY <1>1, <2>1, EntityFact DEF AnswersAreRecent, TInv, TypeOK
<1> QED BY <1>3, <1>4, <1>5, <1>6 DEF Drift

LEMMA SweepAnsweredDrift ==
  ASSUME TInv, Drift, NEW d \in Device, SweepAnswered(d), Aged(0) PROVE Drift'
<1>1. UNCHANGED <<truth, skipped, added, timer>>
  BY DEF SweepAnswered, entityVars
<1>2. \A e \in Entity : late'[e] \in 0..late[e] /\ late[e] \in Nat
  BY AgedType, TooLateType DEF TInv, TypeOK
<1>3. /\ results[d] = Pending
      /\ results'[d] \in {truth[d], Failed, Broken}
      /\ \A c \in Device \ {d} : results'[c] = results[c]
  BY DEF SweepAnswered, TInv, TypeOK
<1>4. truth[d] \in Version
  BY DEF TInv, TypeOK
<1>5. Sweeping /\ Sweeping'
  BY <1>3, <1>4 DEF Sweeping, Pending, Idle, Failed, Broken, Version
<1>6. RefreshRuns' /\ LateIfListening'
  BY <1>1, <1>2, <1>5 DEF Drift, RefreshRuns, LateIfListening
<1>7. timer = Off
  BY <1>5 DEF Drift, RefreshRuns
<1>8. ScheduledInTime'
  BY <1>1, <1>7 DEF ScheduledInTime, Off
<1>9. DriftBounded'
  BY <1>1, <1>2, LimitFact, SplitType, DeviceFact DEF Drift, DriftBounded, Limit
<1>10. AnswersAreRecent'
  <2>1. ASSUME NEW e \in added, late'[e] # 0, NEW f \in 1..e, Answered(DeviceOf[f])'
        PROVE  /\ Readable(f, results'[DeviceOf[f]])
               /\ f = e => results'[DeviceOf[f]] = truth[DeviceOf[f]]
    <3>1. e \in Entity /\ f \in Entity /\ DeviceOf[f] \in Device
      BY EntityFact DEF TInv, TypeOK
    <3>2. CASE DeviceOf[f] = d
      <4>1. results'[d] = truth[d]
        BY <1>3, <2>1, <3>2 DEF Answered, Version, Failed, Broken
      <4>2. ~Hidden(e)'
        BY <2>1, <3>1, AgedType DEF TInv, TypeOK
      <4>3. Readable(f, truth'[DeviceOf[f]])
        BY <4>2 DEF Hidden, Readable
      <4> QED BY <1>1, <3>2, <4>1, <4>3
    <3>3. CASE DeviceOf[f] # d
      <4>1. results'[DeviceOf[f]] = results[DeviceOf[f]]
        BY <1>3, <3>1, <3>3
      <4>2. Answered(DeviceOf[f])
        BY <2>1, <4>1 DEF Answered
      <4>3. late[e] # 0
        BY <1>2, <2>1, <3>1
      <4> QED BY <4>1, <4>2, <4>3 DEF Drift, AnswersAreRecent
    <3> QED BY <3>2, <3>3
  <2>2. \A e \in added : e \in 1..e
    BY EntityFact DEF TInv, TypeOK
  <2> QED BY <1>1, <2>1, <2>2 DEF AnswersAreRecent, Readable
<1> QED BY <1>6, <1>8, <1>9, <1>10 DEF Drift

(* However a sweep ends, it either brought a device, whose entities show   *)
(* what it answered, or skipped it, which extends the limit by an interval.*)
LEMMA SweepEndsDrift ==
  ASSUME TInv, Drift, Aged(0), SweepSucceeds \/ SweepRaises PROVE Drift'
<1> USE NumbersFact DEF Numbers
<1>1. /\ Sweeping /\ UNCHANGED <<truth, added>>
      /\ \E next \in {FALLBACK_INTERVAL_BPUP_ALIVE, FALLBACK_INTERVAL_BPUP_DEAD} : Reschedule(next)
  BY DEF SweepSucceeds, SweepRaises, AdjustedInterval, TInv, TypeOK
<1>2. timer' \in 0..FALLBACK_INTERVAL_BPUP_ALIVE /\ \A d \in Device : results'[d] = Idle
  BY <1>1, RescheduleType, SplitType
<1>3. \A e \in Entity : late'[e] \in 0..late[e] /\ late[e] \in Nat
  BY AgedType, TooLateType DEF TInv, TypeOK
<1>4. added # {} /\ \A e \in added : e \in Entity /\ DeviceOf[e] \in Device
  BY <1>1, DeviceFact DEF Drift, RefreshRuns, TInv, TypeOK
<1>5. ASSUME NEW e \in added PROVE late'[e] + timer' <= Limit(DeviceOf[e])'
  <2> DEFINE d == DeviceOf[e]
  <2> SUFFICES late'[e] + timer' <= FALLBACK_INTERVAL_BPUP_ALIVE * (skipped'[d] + 1)
    BY DEF Limit
  <2>1. e \in Entity /\ d \in Device
    BY <1>4
  <2>2. CASE SweepSucceeds /\ Answered(d)
    <3>1. skipped'[d] = 0
      BY <2>1, <2>2 DEF SweepSucceeds
    <3>2. late'[e] = 0
      <4> SUFFICES ASSUME late[e] # 0 PROVE shown'[e] = truth'[d]
        BY <1>3, <2>1, AgedType DEF TInv, TypeOK
      <4>1. results[d] = truth[d] /\ \A f \in 1..e : Answered(DeviceOf[f]) => Readable(f, results[DeviceOf[f]])
        BY <2>2 DEF Drift, AnswersAreRecent
      <4>2. /\ data' = [c \in Device |-> IF Answered(c) THEN results[c] ELSE Missing]
            /\ Notify(data')
        BY <2>2 DEF SweepSucceeds
      <4>3. \A f \in 1..e : Readable(f, data'[DeviceOf[f]])
        BY <2>1, <4>1, <4>2, EntityFact, MissingReadable
      <4>4. \A f \in added : f < e => f \in 1..e
        BY <2>1, DevicesAssumption DEF TInv, TypeOK, Entity
      <4>5. e \in Told(added, data')
        BY <4>3, <4>4 DEF Told
      <4>6. data'[d] = results[d] /\ data'[d] # Missing /\ Readable(e, data'[d])
        BY <2>1, <2>2, <4>2, <4>3, EntityFact DEF Answered, Version, Missing
      <4> QED BY <1>1, <2>1, <4>1, <4>2, <4>5, <4>6 DEF Notify
    <3>3. FALLBACK_INTERVAL_BPUP_ALIVE * (skipped'[d] + 1) = FALLBACK_INTERVAL_BPUP_ALIVE
      BY <3>1
    <3> QED BY <1>2, <3>2, <3>3
  <2>3. CASE SweepRaises \/ ~Answered(d)
    <3>1. skipped'[d] = skipped[d] + 1 /\ skipped[d] \in Nat
      BY <2>1, <2>3 DEF SweepSucceeds, SweepRaises, TInv, TypeOK
    <3>2. late[e] <= FALLBACK_INTERVAL_BPUP_ALIVE * (skipped[d] + 1)
      BY <2>1 DEF Drift, DriftBounded
    <3>3. FALLBACK_INTERVAL_BPUP_ALIVE * (skipped'[d] + 1)
            = FALLBACK_INTERVAL_BPUP_ALIVE * (skipped[d] + 1) + FALLBACK_INTERVAL_BPUP_ALIVE
      BY <3>1, LimitGrows
    <3>4. FALLBACK_INTERVAL_BPUP_ALIVE * (skipped[d] + 1) \in Nat
      BY <3>1, LimitGrows
    <3>5. ASSUME NEW a \in Nat, NEW b, b = a + FALLBACK_INTERVAL_BPUP_ALIVE, late[e] <= a
          PROVE  late'[e] + timer' <= b
      BY <1>2, <1>3, <2>1, <3>5
    <3> QED BY <3>2, <3>3, <3>4, <3>5
  <2> QED BY <2>2, <2>3
<1>6. RefreshRuns'
  BY <1>1, <1>2, <1>4 DEF RefreshRuns, Sweeping, Off
<1>7. LateIfListening'
  BY <1>1, <1>3 DEF Drift, LateIfListening
<1>8. ScheduledInTime'
  BY <1>1, <1>5 DEF ScheduledInTime
<1>9. AnswersAreRecent'
  <2>1. \A d \in Device : ~Answered(d)'
    BY <1>2 DEF Answered, Idle, Version
  <2> QED BY <1>1, <1>4, <2>1, EntityFact DEF AnswersAreRecent
<1>10. DriftBounded'
  <2> SUFFICES ASSUME NEW e \in Entity PROVE late'[e] <= Limit(DeviceOf[e])'
    BY DEF DriftBounded, Limit
  <2>1. Limit(DeviceOf[e])' \in Nat
    <3>1. TInv'
      BY TypeNext DEF Next, Step
    <3>2. skipped'[DeviceOf[e]] \in Nat
      BY <3>1, DeviceFact DEF TInv, TypeOK
    <3> QED BY <3>2, LimitGrows DEF Limit
  <2>2. CASE e \in added
    BY <1>2, <1>3, <1>5, <2>1, <2>2
  <2>3. CASE e \notin added
    BY <1>3, <2>1, <2>3 DEF Drift, LateIfListening
  <2> QED BY <2>2, <2>3
<1> QED BY <1>6, <1>7, <1>8, <1>9, <1>10 DEF Drift

LEMMA TickDrift == ASSUME TInv, Drift, Tick, Aged(1) PROVE Drift'
<1> USE NumbersFact DEF Numbers
<1>1. /\ timer # 0 /\ ~Sweeping /\ timer' = IF timer = Off THEN Off ELSE timer - 1
      /\ UNCHANGED <<truth, added, results, skipped>>
  BY DEF Tick, entityVars, boundVars
<1>2. /\ \A e \in Entity : late'[e] \in 0..(late[e] + 1) /\ late[e] \in Nat
      /\ \A e \in Entity : e \notin added => late'[e] = 0
      /\ timer \in {Off} \cup 0..FALLBACK_INTERVAL_BPUP_ALIVE
  BY <1>1, AgedType, TooLateType DEF TInv, TypeOK
<1>3. added # {} => timer # Off
  BY <1>1 DEF Drift, RefreshRuns
<1>4. \A e \in added : e \in Entity /\ DeviceOf[e] \in Device
  BY DeviceFact DEF TInv, TypeOK
<1>5. \A d \in Device : Limit(d)' = Limit(d) /\ Limit(d) \in Nat
  BY <1>1, LimitFact, SplitType DEF Limit
<1>6. \A e \in added : late'[e] + timer' <= Limit(DeviceOf[e]) /\ timer' \in Nat
  BY <1>1, <1>2, <1>3, <1>4, <1>5 DEF Drift, ScheduledInTime, Off
<1>7. RefreshRuns'
  BY <1>1, <1>2 DEF Drift, RefreshRuns, Sweeping, Off
<1>8. LateIfListening'
  BY <1>1, <1>2 DEF LateIfListening
<1>9. ScheduledInTime'
  BY <1>1, <1>4, <1>5, <1>6 DEF ScheduledInTime
<1>10. AnswersAreRecent'
  <2>1. \A d \in Device : ~Answered(d)'
    BY <1>1 DEF Answered, Sweeping, Idle, Version
  <2> QED BY <1>1, <1>4, <2>1, EntityFact DEF AnswersAreRecent
<1>11. DriftBounded'
  <2> SUFFICES ASSUME NEW e \in Entity PROVE late'[e] <= Limit(DeviceOf[e])
    BY <1>1 DEF DriftBounded, Limit
  <2> QED BY <1>2, <1>5, <1>6, DeviceFact
<1> QED BY <1>7, <1>8, <1>9, <1>10, <1>11 DEF Drift

LEMMA DriftNext == ASSUME TInv, Drift, [Next]_vars PROVE Drift'
<1>1. ASSUME Aged(0), UNCHANGED <<added, timer, results, skipped>> PROVE Drift'
  BY <1>1, DriftKept
<1>2. ASSUME NEW d \in Device, BridgeChange(d) \/ SweepAnswered(d), Aged(0) PROVE Drift'
  BY <1>1, <1>2, SweepAnsweredDrift DEF BridgeChange, entityVars, coordVars
<1>3. ASSUME NEW d \in Device, NEW v \in Version, PushReceived(d, v), Aged(0) PROVE Drift'
  BY <1>1, <1>3 DEF PushReceived, coordVars
<1>4. ASSUME NEW e \in Entity, AddToHass(e) \/ ManualAnswered(e) \/ ManualApplied(e), Aged(0)
      PROVE  Drift'
  BY <1>1, <1>4, AddDrift DEF ManualAnswered, ManualApplied, entityVars, coordVars
<1>5. ASSUME AckReceived \/ PushLost, Aged(0) PROVE Drift'
  BY <1>1, <1>5 DEF AckReceived, PushLost, entityVars, coordVars
<1>6. ASSUME SweepStart \/ SweepSucceeds \/ SweepRaises, Aged(0) PROVE Drift'
  BY <1>6, SweepStartDrift, SweepEndsDrift
<1>7. CASE UNCHANGED vars
  BY <1>7
  DEF vars, stepVars, channelVars, entityVars, coordVars, boundVars, Drift, RefreshRuns, Sweeping,
      LateIfListening, ScheduledInTime, Limit, AnswersAreRecent, Answered, DriftBounded
<1> QED BY <1>2, <1>3, <1>4, <1>5, <1>6, <1>7, TickDrift DEF Next, Step

(* For any number of devices, lost pushes and failed requests, an entity   *)
(* is wrong about a state that does not change for a slow interval at      *)
(* most, plus one for every sweep in a row that skipped its device         *)
(* (coordinator.py:65-105, const.py:11-15).                                *)
THEOREM DriftTheorem == SafeSpec => []DriftBounded
<1>1. Init => TInv /\ Drift
  BY TypeInit, DriftInit
<1>2. TInv /\ Drift /\ [Next]_vars => TInv' /\ Drift'
  BY TypeNext, DriftNext
<1>3. Drift => DriftBounded
  BY DEF Drift
<1> QED BY <1>1, <1>2, <1>3, PTL DEF SafeSpec

(***************************************************************************)
(* Siblings.                                                               *)
(***************************************************************************)

(* The first listener to raise is told; if nobody told raises, all are told. *)
LEMMA AllTold ==
  ASSUME NEW listeners, listeners \subseteq Entity, NEW state,
         \A e \in Told(listeners, state) : Readable(e, state[DeviceOf[e]])
  PROVE  Told(listeners, state) = listeners
<1> DEFINE raising == {e \in listeners : ~Readable(e, state[DeviceOf[e]])}
<1> SUFFICES raising = {}
  BY DEF Told
<1> SUFFICES ASSUME raising # {} PROVE FALSE
  OBVIOUS
<1>1. raising \subseteq Nat
  BY EntityFact
<1>2. PICK e \in raising : \A f \in raising : <<f, e>> \notin OpToRel(<, Nat)
  <2>1. IsWellFoundedOn(OpToRel(<, Nat), Nat)
    BY NatLessThanWellFounded
  <2> HIDE DEF raising
  <2> QED BY <1>1, <2>1, WFMin
<1>3. \A f \in listeners : f < e => Readable(f, state[DeviceOf[f]])
  BY <1>1, <1>2, EntityFact DEF OpToRel
<1> QED BY <1>2, <1>3 DEF Told

LEMMA NotifyAgrees ==
  ASSUME TypeOK, UNCHANGED added, NEW payload \in [Device -> Version \cup {Missing}],
         Notify(payload), AllReadable(devState)', NEW d \in Device, Agree(d)
  PROVE  Agree(d)'
<1>1. added \subseteq Entity /\ \A e \in added : DeviceOf[e] \in Device
  BY DeviceFact DEF TypeOK
<1>2. ASSUME NEW e \in Told(added, payload) PROVE Readable(e, payload[DeviceOf[e]])
  <2>1. e \in added /\ e \in EntitiesOf(DeviceOf[e])
    BY <1>1 DEF Told, EntitiesOf
  <2>2. CASE payload[DeviceOf[e]] # Missing
    <3>1. devState'[DeviceOf[e]] = payload[DeviceOf[e]]
      BY <1>1, <1>2, <2>1, <2>2 DEF Notify
    <3> QED BY <2>1, <3>1 DEF AllReadable, Readable
  <2> QED BY <2>2, MissingReadable
<1>3. Told(added, payload) = added
  BY <1>1, <1>2, AllTold
<1>4. ASSUME NEW e \in EntitiesOf(d) \cap added
      PROVE  /\ shown'[e] = IF payload[d] # Missing THEN payload[d] ELSE shown[e]
             /\ available'[e] = (payload[d] # Missing)
  <2>1. e \in Entity /\ e \in Told(added, payload) /\ DeviceOf[e] = d /\ Readable(e, payload[d])
    BY <1>2, <1>3 DEF EntitiesOf
  <2> QED BY <2>1 DEF Notify, Availability
<1> QED BY <1>4 DEF Agree, EntitiesOf

LEMMA PushAgrees ==
  ASSUME TypeOK, NEW c \in Device, NEW v \in Version, PushReceived(c, v),
         AllReadable(devState)', NEW d \in Device, Agree(d)
  PROVE  Agree(d)'
<1> DEFINE pushed == [b \in Device |-> v]
           heard == Told(Subscribers(c), pushed)
<1>1. UNCHANGED added
  BY DEF PushReceived
<1>2. Subscribers(c) \subseteq Entity /\ \A e \in Subscribers(c) : e \in added /\ DeviceOf[e] = c
  BY DEF Subscribers, EntitiesOf
<1>3. ASSUME NEW e \in heard PROVE Readable(e, v)
  <2>1. e \in added /\ DeviceOf[e] = c
    BY <1>2 DEF Told
  <2>2. devState'[c] = v
    BY <1>3 DEF PushReceived, TypeOK
  <2> QED BY <1>1, <2>1, <2>2 DEF AllReadable, Readable
<1>4. heard = Subscribers(c)
  BY <1>2, <1>3, AllTold DEF Told
<1>5. ASSUME NEW e \in EntitiesOf(d) \cap added
      PROVE  /\ shown'[e] = IF c = d THEN v ELSE shown[e]
             /\ available'[e] = (available[e] \/ c = d)
  <2>1. e \in Entity /\ (e \in heard <=> c = d)
    BY <1>4 DEF Subscribers, EntitiesOf
  <2>2. /\ shown'[e] = IF e \in heard /\ Readable(e, v) THEN v ELSE shown[e]
        /\ available'[e] = (available[e] \/ e \in heard)
    BY <2>1 DEF PushReceived
  <2> QED BY <1>3, <2>1, <2>2
<1> QED BY <1>1, <1>5 DEF Agree, EntitiesOf

LEMMA SiblingsStep ==
  ASSUME TypeOK, [Next]_vars, NEW d \in Device, Agree(d), manual' = manual, added' = added,
         AllReadable(devState)'
  PROVE  Agree(d)'
<1>1. ASSUME UNCHANGED <<shown, available>> PROVE Agree(d)'
  BY <1>1 DEF Agree
<1>2. ASSUME NEW c \in Device, BridgeChange(c) \/ SweepAnswered(c) PROVE Agree(d)'
  BY <1>1, <1>2 DEF BridgeChange, SweepAnswered, entityVars
<1>3. ASSUME NEW c \in Device, NEW v \in Version, PushReceived(c, v) PROVE Agree(d)'
  BY <1>3, PushAgrees
<1>4. ASSUME NEW e \in Entity PROVE ~AddToHass(e) /\ ~ManualApplied(e)
  <2>1. e \notin 1..(e - 1)
    BY EntityFact
  <2>2. ~AddToHass(e)
    BY <2>1 DEF AddToHass
  <2>3. ~ManualApplied(e)
    BY DEF ManualApplied, TypeOK
  <2> QED BY <2>2, <2>3
<1>5. ASSUME NEW e \in Entity, ManualAnswered(e) PROVE Agree(d)'
  BY <1>1, <1>5 DEF ManualAnswered, entityVars
<1>6. CASE AckReceived \/ PushLost \/ SweepStart \/ Tick \/ UNCHANGED vars
  BY <1>1, <1>6 DEF AckReceived, PushLost, SweepStart, Tick, vars, stepVars, entityVars
<1>7. CASE SweepSucceeds
  <2>1. data' \in [Device -> Version \cup {Missing}]
    BY <1>7 DEF SweepSucceeds, Answered
  <2> QED BY <1>7, <2>1, NotifyAgrees DEF SweepSucceeds
<1>8. CASE SweepRaises
  <2>1. data \in [Device -> Version \cup {Missing}]
    BY DEF TypeOK
  <2> QED BY <1>1, <1>8, <2>1, NotifyAgrees DEF SweepRaises
<1> QED BY <1>2, <1>3, <1>4, <1>5, <1>6, <1>7, <1>8 DEF Next, Step

(* For any number of siblings, a push or a sweep after which every entity  *)
(* can show what its device holds has moved all of them or none            *)
(* (bpup.py:69-70, entity.py:121-162).                                     *)
THEOREM SiblingsTheorem == SafeSpec => SiblingsAgree
<1>1. TypeOK /\ [Next]_vars =>
        [\A d \in Device :
           Agree(d) /\ manual' = manual /\ added' = added /\ AllReadable(devState)'
             => Agree(d)']_vars
  BY SiblingsStep
<1> QED BY <1>1, SyncTypeCorrect, PTL DEF SafeSpec, SiblingsAgree
================================================================================
