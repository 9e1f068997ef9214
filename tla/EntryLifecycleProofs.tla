-------------------------- MODULE EntryLifecycleProofs --------------------------
(***************************************************************************)
(* The safety properties of EntryLifecycle, for any product, any devices   *)
(* and any number of failures, unloads and new tokens.  One invariant per  *)
(* property, each with what it needs of the setup's progress.              *)
(***************************************************************************)
EXTENDS EntryLifecycle, TLAPS

(***************************************************************************)
(* A setup is under way exactly while it is in one of its awaits.          *)
(***************************************************************************)
States == {"not_loaded", "setup_in_progress", "setup_retry", "setup_error", "loaded"}
Progress ==
  /\ entry \in States
  /\ stage = "none" <=> entry # "setup_in_progress"

(* The endpoints: each is registered for unload, and beside those of       *)
(* crashed setups only a loaded entry, or one about to be, has one.        *)
Endpoints ==
  /\ channels \in Int /\ onUnload \in Int /\ leaked \in Int
  /\ onUnload = channels
  /\ channels = leaked + (IF entry = "loaded" \/ stage = "telemetry" THEN 1 ELSE 0)

EInv == Progress /\ Endpoints

LEMMA EInit == Init => EInv
  BY DEF Init, EInv, Progress, Endpoints, States

(* What leaves the entry alone. *)
LEMMA EUnchanged == ASSUME EInv, UNCHANGED entryVars PROVE EInv'
  BY DEF EInv, Progress, Endpoints, entryVars

(* However a setup ends. *)
LEMMA ENotReady ==
  ASSUME EInv, stage # "none", NotReady \/ AuthFailed PROVE EInv'
  BY DEF EInv, Progress, Endpoints, NotReady, AuthFailed, ProcessOnUnload, States

LEMMA ECrash ==
  ASSUME EInv, stage = "push", Crash(0) \/ Crash(1) PROVE EInv'
<1>1. CASE Crash(0)
  BY <1>1 DEF EInv, Progress, Endpoints, Crash, States
<1>2. CASE Crash(1)
  BY <1>2 DEF EInv, Progress, Endpoints, Crash, States
<1> QED BY <1>1, <1>2

LEMMA EProceed ==
  ASSUME EInv, stage \notin {"none", "telemetry"},
         NEW next \in {"device", "group", "scene", "bridge", "push"}, Proceed(next)
  PROVE  EInv'
  BY DEF EInv, Progress, Endpoints, Proceed

LEMMA EHubStep == ASSUME EInv, HubStep PROVE EInv'
<1>1. CASE Version
  BY <1>1, EProceed DEF Version
<1>2. CASE Bridge
  BY <1>2, EProceed DEF Bridge
<1>3. CASE Unauthorized
  BY <1>3, ENotReady DEF Unauthorized
<1>4. ASSUME NEW kind \in {"device", "group", "scene"}, Inventory(kind) \/ NoSuchList(kind)
      PROVE  EInv'
  <2>1. NextStage(kind) \in {"group", "scene", "bridge"}
    BY DEF NextStage
  <2>2. stage = kind /\ Proceed(NextStage(kind))
    BY <1>4 DEF Inventory, NoSuchList
  <2> QED BY <2>1, <2>2, EProceed
<1> QED BY <1>1, <1>2, <1>3, <1>4 DEF HubStep

LEMMA ESetupStep == ASSUME EInv, SetupStep PROVE EInv'
<1>1. CASE HubStep
  BY <1>1, EHubStep
<1>2. CASE Unreachable
  BY <1>2, ENotReady DEF Unreachable
<1>3. CASE StartPush
  BY <1>3 DEF StartPush, EInv, Progress, Endpoints
<1>4. CASE Nameless
  BY <1>4, ECrash DEF Nameless
<1>5. CASE PushFails
  BY <1>5, ECrash DEF PushFails
<1> QED BY <1>1, <1>2, <1>3, <1>4, <1>5 DEF SetupStep

LEMMA ENext == ASSUME EInv, [Next]_vars PROVE EInv'
<1>1. CASE Setup
  BY <1>1 DEF Setup, EInv, Progress, Endpoints, States
<1>2. CASE SetupStep
  BY <1>2, ESetupStep
<1>3. CASE FirstRefreshFails
  BY <1>3, ENotReady DEF FirstRefreshFails
<1>4. CASE Load
  BY <1>4 DEF Load, EInv, Progress, Endpoints, States
<1>5. CASE Unload
  BY <1>5 DEF Unload, ProcessOnUnload, EInv, Progress, Endpoints, States
<1>6. CASE Reauth
  BY <1>6 DEF Reauth, EInv, Progress, Endpoints, States
<1>7. CASE FirstRefresh \/ Poll \/ ScheduledPoll \/ Write \/ RemoveDevice
  BY <1>7, EUnchanged DEF FirstRefresh, Poll, ScheduledPoll, Write, RemoveDevice
<1>8. CASE Revoke \/ BridgeChange \/ SomeoneWrites
  BY <1>8, EUnchanged DEF Revoke, BridgeChange, SomeoneWrites
<1>9. CASE UNCHANGED vars
  BY <1>9, EUnchanged DEF vars
<1> QED BY <1>1, <1>2, <1>3, <1>4, <1>5, <1>6, <1>7, <1>8, <1>9 DEF Next

THEOREM EInvariant == SafeSpec => []EInv
<1>1. Init => EInv
  BY EInit
<1>2. EInv /\ [Next]_vars => EInv'
  BY ENext
<1> QED BY <1>1, <1>2, PTL DEF SafeSpec

(* A loaded entry has one push endpoint beside those that crashed setups   *)
(* left open, and any other entry none (__init__.py:71-86).                *)
THEOREM EndpointsTheorem == Spec => []EndpointsAccounted
<1>1. EInv => EndpointsAccounted
  BY DEF EInv, Progress, Endpoints, EndpointsAccounted
<1> QED BY <1>1, EInvariant, PTL DEF Spec

(***************************************************************************)
(* What a loaded entry does, and how it gets there.                        *)
(***************************************************************************)
LEMMA LoadedSteps ==
  ASSUME EInv, entry = "loaded", [Next]_vars
  PROVE  \/ Poll \/ ScheduledPoll \/ Write \/ RemoveDevice \/ Unload
         \/ Revoke \/ BridgeChange \/ SomeoneWrites \/ UNCHANGED vars
<1>1. stage = "none"
  BY DEF EInv, Progress
<1>2. ~SetupStep
  BY <1>1 DEF SetupStep, HubStep, Version, Bridge, Unauthorized, Inventory, NoSuchList,
              Unreachable, StartPush, Nameless, PushFails
<1>3. ~Setup /\ ~FirstRefresh /\ ~FirstRefreshFails /\ ~Load /\ ~Reauth
  BY <1>1 DEF Setup, FirstRefresh, FirstRefreshFails, Load, Reauth
<1> QED BY <1>2, <1>3 DEF Next

LEMMA OnlyByLoad ==
  ASSUME EInv, entry # "loaded", entry' = "loaded", [Next]_vars PROVE Load
<1>1. ~SetupStep
  BY DEF SetupStep, HubStep, Version, Bridge, Unauthorized, Inventory, NoSuchList, Unreachable,
         StartPush, Nameless, PushFails, Proceed, NotReady, AuthFailed, Crash
<1>2. ~Setup /\ ~FirstRefreshFails /\ ~Unload /\ ~Reauth
  BY DEF Setup, FirstRefreshFails, NotReady, Unload, Reauth
<1>3. ~FirstRefresh /\ ~Poll /\ ~ScheduledPoll /\ ~Write /\ ~RemoveDevice
  BY DEF FirstRefresh, Poll, ScheduledPoll, Write, RemoveDevice, entryVars
<1>4. ~Revoke /\ ~BridgeChange /\ ~SomeoneWrites /\ ~UNCHANGED vars
  BY DEF Revoke, BridgeChange, SomeoneWrites, entryVars, vars
<1> QED BY <1>1, <1>2, <1>3, <1>4 DEF Next

(***************************************************************************)
(* The registry: an inventory is taken only while nothing is loaded.       *)
(***************************************************************************)
LEMMA RNext == ASSUME EInv, LoadedDevicesKept, [Next]_vars PROVE LoadedDevicesKept'
<1> SUFFICES ASSUME entry' = "loaded" PROVE Sources(inventory') \subseteq registry'
  BY DEF LoadedDevicesKept, Sources, Of
<1>1. CASE entry # "loaded"
  BY <1>1, OnlyByLoad DEF Load, hubVars
<1>2. CASE entry = "loaded"
  <2>1. UNCHANGED inventory
    BY <1>2, LoadedSteps DEF Poll, ScheduledPoll, Write, RemoveDevice, Unload, Revoke, BridgeChange,
                             SomeoneWrites, vars, hubVars
  <2>2. CASE RemoveDevice
    BY <1>2, <2>1, <2>2 DEF RemoveDevice, ValidIds, LoadedDevicesKept
  <2>3. CASE ~RemoveDevice
    <3>1. UNCHANGED registry
      BY <1>2, <2>3, LoadedSteps DEF Poll, ScheduledPoll, Write, Unload, Revoke, BridgeChange,
                                     SomeoneWrites, vars
    <3> QED BY <1>2, <2>1, <3>1 DEF LoadedDevicesKept
  <2> QED BY <2>2, <2>3
<1> QED BY <1>1, <1>2

(* A device whose entities are loaded is never removed from the registry,  *)
(* whatever the bridge lists meanwhile (__init__.py:126-139).              *)
THEOREM LoadedDevicesTheorem == Spec => []LoadedDevicesKept
<1>1. Init => LoadedDevicesKept
  BY DEF Init, LoadedDevicesKept
<1>2. EInv /\ LoadedDevicesKept /\ [Next]_vars => LoadedDevicesKept'
  BY RNext
<1> QED BY <1>1, <1>2, EInvariant, PTL DEF Spec, SafeSpec

(***************************************************************************)
(* The optional endpoints: of those the first refresh has asked, the bridge*)
(* has every one that is still asked for.                                  *)
(***************************************************************************)
RefreshType ==
  /\ level \in Levels
  /\ refresh \in [asks : Int, level : Levels \cup {-1}, keys : SUBSET Keys]
  /\ optional \subseteq Keys
Checked ==
  stage = "telemetry" =>
    \A i \in 1..Len(OptionalKeys) :
      i < refresh.asks /\ OptionalKeys[i] \in optional => OptionalKeys[i] \in product
AInv == RefreshType /\ Checked /\ EntitiesAnswered

LEMMA LenNat == Len(OptionalKeys) \in Nat
  BY KeysAssumption

LEMMA KeyOf == ASSUME NEW i \in 1..Len(OptionalKeys) PROVE OptionalKeys[i] \in Keys
  BY DEF Keys

(* The steps of a refresh, whichever refresh it is. *)
LEMMA PollType == ASSUME RefreshType, Polls PROVE RefreshType'
<1>1. CASE FetchBridge
  <2>1. refresh' = [asks |-> 1, level |-> level, keys |-> {}]
    BY <1>1 DEF FetchBridge
  <2>2. refresh' \in [asks : Int, level : Levels \cup {-1}, keys : SUBSET Keys]
    BY <2>1 DEF RefreshType
  <2> QED BY <1>1, <2>2 DEF RefreshType, FetchBridge, bridgeVars
<1>2. CASE NotFound
  BY <1>2, LenNat DEF RefreshType, NotFound, bridgeVars
<1>3. CASE FetchOptional
  <2>1. refresh' \in [asks : Int, level : Levels \cup {-1}, keys : SUBSET Keys]
    BY <1>3, KeyOf DEF RefreshType, FetchOptional
  <2> QED BY <1>3, <2>1 DEF RefreshType, FetchOptional, bridgeVars
<1>4. CASE Fetched \/ UpdateFailed
  BY <1>4 DEF RefreshType, Fetched, UpdateFailed, Idle, bridgeVars
<1> QED BY <1>1, <1>2, <1>3, <1>4 DEF Polls

LEMMA PollDrops == ASSUME Polls PROVE optional' \subseteq optional /\ UNCHANGED product
  BY DEF Polls, FetchBridge, NotFound, FetchOptional, Fetched, UpdateFailed, bridgeVars

LEMMA WriteType == ASSUME RefreshType, SetLevel \/ LevelChanged PROVE RefreshType'
  BY DEF RefreshType, SetLevel, LevelChanged, Refresh, pollVars, Keys

LEMMA FirstRefreshChecks == ASSUME AInv, FirstRefresh PROVE Checked'
<1> SUFFICES ASSUME NEW i \in 1..Len(OptionalKeys), i < refresh'.asks, OptionalKeys[i] \in optional'
             PROVE  OptionalKeys[i] \in product'
  BY DEF Checked
<1>1. stage = "telemetry" /\ UNCHANGED product /\ OptionalKeys[i] \in optional
  BY DEF FirstRefresh, FetchBridge, NotFound, FetchOptional, bridgeVars
<1>2. CASE i < refresh.asks
  BY <1>1, <1>2 DEF AInv, Checked
<1>3. CASE ~(i < refresh.asks)
  <2>1. refresh.asks \in Int /\ refresh \in [asks : Int, level : Levels \cup {-1}, keys : SUBSET Keys]
    BY DEF AInv, RefreshType
  <2>2. refresh'.asks = refresh.asks + 1
    BY <2>1 DEF FirstRefresh, FetchBridge, NotFound, FetchOptional
  <2>3. i = refresh.asks
    BY <1>3, <2>1, <2>2, LenNat
  <2> QED BY <1>1, <2>3, LenNat DEF FirstRefresh, FetchBridge, NotFound, FetchOptional
<1> QED BY <1>2, <1>3

LEMMA ANext == ASSUME EInv, AInv, [Next]_vars PROVE AInv'
<1>1. RefreshType'
  <2>1. CASE FirstRefresh \/ FirstRefreshFails \/ Load \/ Poll
    BY <2>1, PollType DEF FirstRefresh, FirstRefreshFails, Load, Poll, Polls, AInv
  <2>2. CASE Write \/ SomeoneWrites
    BY <2>2, WriteType DEF Write, SomeoneWrites, AInv
  <2>3. CASE StartPush
    BY <2>3 DEF StartPush, Fresh, bridgeVars, AInv, RefreshType
  <2>4. CASE Unload
    BY <2>4 DEF Unload, Idle, bridgeVars, AInv, RefreshType
  <2>5. CASE ScheduledPoll
    BY <2>5 DEF ScheduledPoll, Refresh, bridgeVars, AInv, RefreshType
  <2>6. CASE HubStep \/ Unreachable \/ Nameless \/ PushFails
    BY <2>6 DEF HubStep, Version, Bridge, Unauthorized, Inventory, NoSuchList, Unreachable, Nameless,
                PushFails, telemetryVars, bridgeVars, pollVars, AInv, RefreshType
  <2>7. CASE Setup \/ RemoveDevice \/ Reauth \/ Revoke \/ BridgeChange \/ UNCHANGED vars
    BY <2>7 DEF Setup, RemoveDevice, Reauth, Revoke, BridgeChange, telemetryVars, bridgeVars,
                pollVars, vars, AInv, RefreshType
  <2> QED BY <2>1, <2>2, <2>3, <2>4, <2>5, <2>6, <2>7 DEF Next, SetupStep
<1>2. Checked'
  <2> SUFFICES ASSUME stage' = "telemetry" PROVE Checked'
    BY DEF Checked
  <2>1. CASE FirstRefresh
    BY <2>1, FirstRefreshChecks
  <2>2. CASE StartPush
    BY <2>2, LenNat DEF StartPush, Fresh, Checked
  <2>3. CASE ~FirstRefresh /\ ~StartPush
    <3>1. ~Setup /\ ~FirstRefreshFails /\ ~Load
      BY DEF Setup, FirstRefreshFails, NotReady, Load
    <3>2. ~SetupStep
      <4>1. ~Unreachable /\ ~Nameless /\ ~PushFails /\ ~Unauthorized
        BY DEF Unreachable, Nameless, PushFails, Unauthorized, NotReady, AuthFailed, Crash
      <4>2. ~Version /\ ~Bridge
        BY DEF Version, Bridge, Proceed
      <4>3. ASSUME NEW kind \in {"device", "group", "scene"}
            PROVE  ~Inventory(kind) /\ ~NoSuchList(kind)
        <5>1. NextStage(kind) # "telemetry"
          BY DEF NextStage
        <5> QED BY <5>1 DEF Inventory, NoSuchList, Proceed
      <4> QED BY <2>3, <4>1, <4>2, <4>3 DEF SetupStep, HubStep
    <3>3. CASE entry = "loaded"
      BY <3>3, LoadedSteps DEF EInv, Progress, Poll, ScheduledPoll, Write, RemoveDevice, Unload,
                               Revoke, BridgeChange, SomeoneWrites, entryVars, vars
    <3>4. CASE entry # "loaded" /\ (RemoveDevice \/ Unload \/ Reauth)
      BY <3>4 DEF EInv, Progress, States, RemoveDevice, Unload, Reauth
    <3>5. CASE Revoke \/ BridgeChange \/ SomeoneWrites
      BY <3>5 DEF Revoke, BridgeChange, SomeoneWrites, LevelChanged, entryVars, telemetryVars,
                  bridgeVars, pollVars, AInv, Checked
    <3>6. CASE UNCHANGED vars
      BY <3>6 DEF vars, entryVars, telemetryVars, bridgeVars, pollVars, AInv, Checked
    <3>7. CASE entry # "loaded" /\ (Poll \/ ScheduledPoll \/ Write)
      BY <3>7 DEF Poll, ScheduledPoll, Write
    <3> QED BY <2>3, <3>1, <3>2, <3>3, <3>4, <3>5, <3>6, <3>7 DEF Next
  <2> QED BY <2>1, <2>2, <2>3
<1>3. EntitiesAnswered'
  <2> SUFFICES ASSUME entry' = "loaded"
               PROVE  optional' \subseteq entities' /\ entities' \subseteq product'
    BY DEF EntitiesAnswered
  <2>1. CASE entry # "loaded"
    <3>1. Load
      BY <2>1, OnlyByLoad
    <3>2. optional \subseteq product
      <4> SUFFICES ASSUME NEW key \in optional PROVE key \in product
        OBVIOUS
      <4>1. PICK i \in 1..Len(OptionalKeys) : key = OptionalKeys[i]
        BY DEF AInv, RefreshType, Keys
      <4>2. i < refresh.asks
        BY <3>1, LenNat DEF Load, Fetched
      <4> QED BY <3>1, <4>1, <4>2 DEF Load, AInv, Checked
    <3> QED BY <3>1, <3>2 DEF Load, Fetched, Supported, bridgeVars
  <2>2. CASE entry = "loaded"
    <3>1. optional' \subseteq optional /\ UNCHANGED product
      <4>1. CASE Poll
        BY <4>1, PollDrops DEF Poll
      <4>2. CASE ~Poll
        BY <2>2, <4>2, LoadedSteps DEF ScheduledPoll, Write, SetLevel, RemoveDevice, Unload, Revoke,
          BridgeChange, SomeoneWrites, LevelChanged, vars, telemetryVars, bridgeVars, pollVars
      <4> QED BY <4>1, <4>2
    <3>2. UNCHANGED entities
      BY <2>2, LoadedSteps DEF Poll, ScheduledPoll, Write, RemoveDevice, Unload, Revoke,
                               BridgeChange, SomeoneWrites, entryVars, vars
    <3> QED BY <2>2, <3>1, <3>2 DEF AInv, EntitiesAnswered
  <2> QED BY <2>1, <2>2
<1> QED BY <1>1, <1>2, <1>3 DEF AInv

(* An optional endpoint has an entity if it is polled, and only if the     *)
(* bridge has it (coordinator.py:144-170).                                 *)
THEOREM EntitiesTheorem == Spec => []EntitiesAnswered
<1>1. Init => AInv
  BY DEF Init, AInv, RefreshType, Checked, EntitiesAnswered, Idle
<1>2. EInv /\ AInv /\ [Next]_vars => AInv'
  BY ANext
<1>3. AInv => EntitiesAnswered
  BY DEF AInv
<1> QED BY <1>1, <1>2, <1>3, EInvariant, PTL DEF Spec, SafeSpec
================================================================================
