------------------------------- MODULE Telemetry -------------------------------
(***************************************************************************)
(* The telemetry of a bridge: BondTelemetryCoordinator, which polls the    *)
(* endpoints that are never pushed, and the hub entities that write to one *)
(* of them and ask for a refresh.  The blue light stands for every such    *)
(* control; its level is the only payload that matters.                    *)
(***************************************************************************)
EXTENDS Integers, Sequences

CONSTANTS
  OptionalKeys,   \* the optional endpoints, in the order they are asked
  Levels,         \* levels of the control
  MaxFaults,      \* bound: requests that fail
  MaxWrites       \* bound: changes of the control

ASSUME KeysAssumption ==
  /\ OptionalKeys \in Seq(STRING)
  /\ \A i, j \in 1..Len(OptionalKeys) : i # j => OptionalKeys[i] # OptionalKeys[j]

VARIABLES
  authorised,  \* is the entry's token the one of the bridge
  product,     \* the optional endpoints the bridge has
  level,       \* the control, on the bridge
  optional,    \* BondTelemetryCoordinator._optional
  refresh,     \* Idle, or the refresh under way: what it asks next and has got
  payload,     \* DataUpdateCoordinator.data
  success,     \* DataUpdateCoordinator.last_update_success
  faults, writes   \* what is left of the bounds

bridgeVars    == <<authorised, product, level>>
pollVars      == <<optional, refresh, payload, success>>
telemetryVars == <<bridgeVars, pollVars, faults, writes>>

Keys == {OptionalKeys[i] : i \in 1..Len(OptionalKeys)}
Idle == [asks |-> -1, level |-> -1, keys |-> {}]
NoData == [level |-> -1, keys |-> {}]
Refreshing == refresh # Idle

(* A new coordinator asks for everything once. *)
Fresh ==
  /\ optional' = Keys /\ payload' = NoData /\ success' = TRUE
  /\ refresh' = [asks |-> 0, level |-> -1, keys |-> {}]

(* The scheduled poll, or async_request_refresh; the latter is dropped if  *)
(* a refresh is under way, however little of it is still to come.          *)
Refresh == refresh' = IF Refreshing THEN refresh ELSE [asks |-> 0, level |-> -1, keys |-> {}]

Fault == faults > 0 /\ faults' = faults - 1

(* Mutant: /v2/bridge is taken from the first refresh. *)
FetchCached ==
  /\ refresh.asks = 0 /\ authorised
  /\ refresh' = [asks |-> 1, level |-> IF payload = NoData THEN level ELSE payload.level, keys |-> {}]
  /\ UNCHANGED <<bridgeVars, optional, payload, success, faults, writes>>

(* sys/version, sys/wifi/sta and, of a bridge, /v2/bridge. *)
FetchBridge ==
  /\ refresh.asks = 0 /\ authorised
  /\ refresh' = [asks |-> 1, level |-> level, keys |-> {}]
  /\ UNCHANGED <<bridgeVars, optional, payload, success, faults, writes>>

(* 404, of a product without the endpoint or by accident: asked no more.   *)
(* What was dropped stays dropped even if the refresh fails later on.      *)
NotFound ==
  /\ refresh.asks \in 1..Len(OptionalKeys) /\ authorised
  /\ LET key == OptionalKeys[refresh.asks]
     IN /\ key \in optional
        /\ \/ key \notin product /\ UNCHANGED faults
           \/ key \in product /\ Fault
        /\ optional' = optional \ {key}
  /\ refresh' = [refresh EXCEPT !.asks = @ + 1]
  /\ UNCHANGED <<bridgeVars, payload, success, writes>>

FetchOptional ==
  /\ refresh.asks \in 1..Len(OptionalKeys)
  /\ LET key == OptionalKeys[refresh.asks]
     IN \/ key \notin optional /\ refresh' = [refresh EXCEPT !.asks = @ + 1]
        \/ /\ key \in optional \cap product /\ authorised
           /\ refresh' = [asks |-> refresh.asks + 1, level |-> refresh.level,
                          keys |-> refresh.keys \cup {key}]
  /\ UNCHANGED <<bridgeVars, optional, payload, success, faults, writes>>

(* Every endpoint has answered: the payload is replaced as a whole. *)
Fetched ==
  /\ refresh.asks = Len(OptionalKeys) + 1
  /\ payload' = [level |-> refresh.level, keys |-> refresh.keys]
  /\ success' = TRUE /\ refresh' = Idle
  /\ UNCHANGED <<bridgeVars, optional, faults, writes>>

(* UpdateFailed, a 401 included: the payload stays. *)
UpdateFailed ==
  /\ refresh.asks \in 0..Len(OptionalKeys)
  /\ refresh.asks > 0 => OptionalKeys[refresh.asks] \in optional
  /\ \/ ~authorised /\ UNCHANGED faults
     \/ authorised /\ Fault
  /\ success' = FALSE /\ refresh' = Idle
  /\ UNCHANGED <<bridgeVars, optional, payload, writes>>

(* async_turn_on and async_turn_off of the blue light and of the broadcast *)
(* switch, async_press of the clear-faults button: write, then ask for a   *)
(* refresh.  A write that fails may have been run, and asks for nothing.   *)
SetLevel ==
  /\ writes > 0 /\ writes' = writes - 1
  /\ \E v \in Levels :
       \/ authorised /\ level' = v /\ Refresh /\ UNCHANGED faults
       \/ authorised /\ Fault /\ level' \in {level, v} /\ UNCHANGED refresh
  /\ UNCHANGED <<authorised, product, optional, payload, success>>

(* Somebody else sets it. *)
LevelChanged ==
  /\ writes > 0 /\ writes' = writes - 1
  /\ level' \in Levels
  /\ UNCHANGED <<authorised, product, pollVars, faults>>

Polls == FetchBridge \/ NotFound \/ FetchOptional \/ Fetched \/ UpdateFailed
===============================================================================
