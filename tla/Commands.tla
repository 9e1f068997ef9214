-------------------------------- MODULE Commands --------------------------------
(***************************************************************************)
(* Service calls of a device's entities in flight together: each awaits    *)
(* its requests one after the other, over the delivery that BondCall       *)
(* implements.  PARALLEL_UPDATES is 0, so nothing keeps the calls of one   *)
(* entity apart; a request whose caller was told it failed may still be    *)
(* run; and what the fan entity shows lags behind the bridge.              *)
(***************************************************************************)
EXTENDS Platforms

CONSTANTS
  Devices,    \* devices tried
  Command,    \* the service calls
  Asks(_),    \* what is asked of a device's entities: [entity, call]
  MaxRemote   \* bound: uses of the remote

ASSUME MaxRemoteAssumption == MaxRemote \in Nat

VARIABLES
  device,
  phase,      \* a command is "idle", "running", "done" or "failed"
  ask,        \* what it was asked
  requests,   \* what it sends
  at,         \* how many of them it has sent
  delivered, ran,  \* Delivery of request i of command c, <<c, i>>
  state,      \* the state the bridge reports
  breeze,     \* the preset the fan shows
  remotes     \* what is left of the bound

(* History: the state a command found if it has been alone since, and      *)
(* whether it found the breeze as shown.                                   *)
VARIABLES alone, before, sawBreeze

commandVars == <<phase, ask, requests, at>>
historyVars == <<alone, before, sawBreeze>>
vars == <<device, commandVars, delivered, ran, state, breeze, remotes, historyVars>>

(* No call of a service makes more requests. *)
MaxRequests == 2
Request == Command \X (1..MaxRequests)
Transport == INSTANCE Delivery WITH Call <- Request, Read <- {}, state <- delivered

ASSUME AsksAssumption ==
  \A d \in Devices : \A a \in Asks(d) :
    a.entity \in Entities(d) /\ Callable(d, a.entity, a.call)

NoAsk == [entity |-> None, call |-> [service |-> None]]
InitialState == [power |-> 0, speed |-> 1, breeze |-> 0, light |-> 0, brightness |-> 0, color_temp |-> 0]

Init ==
  /\ device \in Devices
  /\ phase = [c \in Command |-> "idle"]
  /\ ask = [c \in Command |-> NoAsk]
  /\ requests = [c \in Command |-> <<>>]
  /\ at = [c \in Command |-> 0]
  /\ Transport!Init
  /\ state = InitialState
  /\ breeze = FALSE
  /\ remotes = MaxRemote
  /\ alone = [c \in Command |-> FALSE]
  /\ before = [c \in Command |-> InitialState]
  /\ sawBreeze = [c \in Command |-> FALSE]

(* Requests given up that the bridge may still run. *)
Orphans == {q \in Request : delivered[q] = "raised" /\ ran[q] = 0}
Disturb(c) == [k \in Command |-> alone[k] /\ k = c]

(***************************************************************************)
(* A command.                                                              *)
(***************************************************************************)
(* A command that finds nothing to send raises at once. *)
Begin(c) ==
  /\ phase[c] = "idle"
  /\ \E a \in Asks(device) :
       LET rs == Requests(device, a.entity, a.call, breeze)
       IN /\ ask' = [ask EXCEPT ![c] = a]
          /\ requests' = [requests EXCEPT ![c] = rs]
          /\ phase' = [phase EXCEPT ![c] = IF rs = <<>> THEN "failed" ELSE "running"]
  /\ alone' = [Disturb(c) EXCEPT ![c] =
                 Orphans = {} /\ \A k \in Command : phase[k] # "running"]
  /\ before' = [before EXCEPT ![c] = state]
  /\ sawBreeze' = [sawBreeze EXCEPT ![c] = breeze = (state.breeze = 1)]
  /\ UNCHANGED <<device, at, delivered, ran, state, breeze, remotes>>

Awaiting(c) == at[c] > 0 /\ delivered[<<c, at[c]>>] = "open"

(* Mutant: the requests are gathered instead of awaited in turn. *)
Gathered(c) ==
  /\ phase[c] = "running" /\ at[c] < Len(requests[c])
  /\ at' = [at EXCEPT ![c] = @ + 1]
  /\ Transport!Ask(<<c, at[c] + 1>>)
  /\ UNCHANGED <<device, phase, ask, requests, state, breeze, remotes, historyVars>>

(* The next request, once the one before it has returned. *)
Send(c) ==
  /\ phase[c] = "running" /\ ~Awaiting(c)
  /\ Sendable(device, requests[c][at[c] + 1])
  /\ at' = [at EXCEPT ![c] = @ + 1]
  /\ Transport!Ask(<<c, at[c] + 1>>)
  /\ UNCHANGED <<device, phase, ask, requests, state, breeze, remotes, historyVars>>

(* group_action raises ValueError. *)
Refuse(c) ==
  /\ phase[c] = "running" /\ ~Awaiting(c)
  /\ ~Sendable(device, requests[c][at[c] + 1])
  /\ phase' = [phase EXCEPT ![c] = "failed"]
  /\ UNCHANGED <<device, ask, requests, at, delivered, ran, state, breeze, remotes, historyVars>>

Answer(c) ==
  /\ phase[c] = "running" /\ Awaiting(c)
  /\ Transport!Return(<<c, at[c]>>)
  /\ phase' = [phase EXCEPT ![c] = IF at[c] = Len(requests[c]) THEN "done" ELSE @]
  /\ UNCHANGED <<device, ask, requests, at, state, breeze, remotes, historyVars>>

(* Mutant: requests have no timeout. *)
NeverFails(c) == FALSE /\ UNCHANGED vars
(* Whatever is raised ends the command, as HomeAssistantError or as it is. *)
Fail(c) ==
  /\ phase[c] = "running" /\ Awaiting(c)
  /\ Transport!Raise(<<c, at[c]>>)
  /\ phase' = [phase EXCEPT ![c] = "failed"]
  /\ UNCHANGED <<device, ask, requests, at, state, breeze, remotes, historyVars>>

(***************************************************************************)
(* The bridge and the remote.                                              *)
(***************************************************************************)
BridgeRuns(c) ==
  /\ \E i \in 1..at[c] :
       /\ Transport!Run(<<c, i>>)
       /\ state' = Effect(state, requests[c][i])
  /\ alone' = Disturb(c)
  /\ UNCHANGED <<device, commandVars, breeze, remotes, before, sawBreeze>>

(* A push or a sweep reaches the entity, sooner or later. *)
Shown ==
  /\ breeze' = (state.breeze = 1)
  /\ UNCHANGED <<device, commandVars, delivered, ran, state, remotes, historyVars>>

Remote ==
  /\ remotes > 0 /\ remotes' = remotes - 1
  /\ state' \in {Effect(state, Action(a)) : a \in {"BreezeOn", "TurnOff", "TurnLightOff"}}
  /\ alone' = [c \in Command |-> FALSE]
  /\ UNCHANGED <<device, commandVars, delivered, ran, breeze, before, sawBreeze>>

Next ==
  \/ \E c \in Command :
       Begin(c) \/ Send(c) \/ Refuse(c) \/ Answer(c) \/ Fail(c) \/ BridgeRuns(c)
  \/ Shown \/ Remote

SafeSpec == Init /\ [][Next]_vars

(* Every call of the HTTP client ends: BondCall's CallEnds. *)
Spec ==
  /\ SafeSpec
  /\ \A c \in Command : WF_vars(Send(c) \/ Refuse(c)) /\ WF_vars(Answer(c) \/ Fail(c))

(***************************************************************************)
(* Properties.                                                             *)
(***************************************************************************)
(* The bridge runs the requests of a command in the order of the code and  *)
(* none before the ones ahead of it, even when a command is told that it   *)
(* failed and its last request is run afterwards (light.py:160-180,        *)
(* fan.py:143-149, 176-180).                                               *)
InOrder ==
  \A c \in Command, i, j \in 1..MaxRequests :
    i < j /\ ran[<<c, j>>] > 0 => ran[<<c, i>>] > 0

(* A command that nothing interfered with leaves the device as some of its *)
(* first requests would, however it ends: never with a later request alone *)
(* or with one twice.                                                      *)
PrefixRan ==
  \A c \in Command :
    alone[c] => \E n \in 0..at[c] : state = Ran(before[c], requests[c])[n]

(* A command that returned, and that nothing interfered with or has        *)
(* followed, has been obeyed: light and fan are as they were asked to be.  *)
(* Interference is another command before it returned, a failed command    *)
(* whose request was still on its way, or the remote: a turn_off between   *)
(* the two requests of a turn_on leaves the light on.                      *)
LightWish(call) ==
  LET on == call.service = "TURN_ON"
  IN /\ on => state.light = 1
     /\ call.service = "TURN_OFF" => state.light = 0
     /\ on /\ Given(call, "brightness") => state.brightness = BondBrightness(call.brightness)
     /\ on /\ Given(call, "color_temp") => state.color_temp = RoundKelvin(call.color_temp)

(* The percentage a call sets; a preset goes before it. *)
Percentage(call) ==
  CASE call.service \in {"SET_SPEED", "speed_belief"} -> call.value
    [] call.service = "TURN_ON" /\ Given(call, "percentage") /\ ~Given(call, "preset_mode") ->
         call.percentage
    [] OTHER -> Null
FanWish(call) ==
  LET p == Percentage(call)
      on == call.service = "TURN_ON"
      breezy == call.service = "PRESET_MODE" \/ (on /\ Given(call, "preset_mode"))
  IN /\ call.service = "TURN_OFF" \/ p = 0 => state.power = 0
     /\ breezy \/ (on /\ p # 0) \/ p > 0 => state.power = 1
     /\ breezy => state.breeze = 1
     /\ p > 0 => state.speed = BondSpeed(device.props, p)
Wish(a) ==
  /\ a.entity.class = "BondLight" => LightWish(a.call)
  /\ a.entity.class = "BondFan" => FanWish(a.call)
Obeyed == \A c \in Command : alone[c] /\ phase[c] = "done" => Wish(ask[c])

(* Turning a fan off ends the breeze as well, if the entity showed it as   *)
(* it was; a breeze not shown yet goes on behind the fan (fan.py:178).     *)
OffEndsBreeze ==
  \A c \in Command :
    /\ alone[c] /\ phase[c] = "done" /\ sawBreeze[c]
    /\ ask[c].entity.class = "BondFan" /\ ask[c].call.service = "TURN_OFF"
    => state.breeze = 0

(* Every command ends, whatever becomes of its requests.                   *)
CommandEnds == \A c \in Command : phase[c] = "running" ~> phase[c] \in {"done", "failed"}
=================================================================================
