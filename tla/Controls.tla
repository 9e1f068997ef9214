------------------------------- MODULE Controls -------------------------------
(***************************************************************************)
(* One entity and the device behind it, one call at a time: a user sets a  *)
(* value, someone uses the remote, and an automation or a scene of Home    *)
(* Assistant sets again what the entity shows.  Every device of a          *)
(* catalogue is tried, with each of its entities.                          *)
(***************************************************************************)
EXTENDS Platforms, SequencesExt

CONSTANTS
  Devices,   \* the catalogue: [types, actions, group, props]
  Kelvins,   \* colour temperatures tried
  Samples,   \* values tried on scales that some other call tries in full
  Tenths     \* values tried between the steps of a number, in tenths

(* What the bridge reports of a device (Null stands for no angle of it), and *)
(* sensible values.                                                        *)
ASSUME DevicesAssumption ==
  \A d \in Devices :
    /\ d.group \in BOOLEAN
    /\ d.props.max_speed \in Nat \ {0}
    /\ d.props.min_tilt \in Int /\ d.props.max_tilt \in Int
    /\ d.props.min_tilt <= d.props.max_tilt
    /\ Null \notin TiltRange(d.props)[1]..TiltRange(d.props)[2]
ASSUME ValuesAssumption ==
  /\ Samples \subseteq 0..100 /\ Samples # {}
  /\ Tenths \subseteq 0..1000
  /\ \A k \in Kelvins : k \in Nat /\ k >= 100

VARIABLES
  device, entity,
  state,     \* the state the bridge reports
  asked,     \* the user's last call, if nothing has happened since
  sent,      \* its requests
  echoed     \* the services that have set again since what is shown

vars == <<device, entity, state, asked, sent, echoed>>

NoCall == [service |-> None]
ServiceOf(s)   == [service |-> s]
Valued(s, v)   == [service |-> s, value |-> v]

(* The calls Home Assistant lets through to a service of an entity. *)
CallsOf(d, e, s) ==
  CASE s = "TURN_ON" /\ e.class \in Lights ->
         {ServiceOf(s)}
         \cup {[service |-> s, brightness |-> b] :
                 b \in {b \in 1..255 : "brightness" \in LightArguments(d, e.class)}}
         \cup {[service |-> s, color_temp |-> k] :
                 k \in {k \in Kelvins : "color_temp" \in LightArguments(d, e.class)}}
    [] s = "TURN_ON" /\ e.class = "BondFan" ->
         {ServiceOf(s)}
         \cup {[service |-> s, percentage |-> p] : p \in Samples}
         \cup {[service |-> s, preset_mode |-> 1] : p \in {1} \cap {x \in {1} : has_action(d, "BreezeOn")}}
    [] s \in {"SET_SPEED", "SET_TILT_POSITION"} -> {Valued(s, v) : v \in 0..100}
    [] s \in {"SET_POSITION", "speed_belief"} -> {Valued(s, v) : v \in Samples}
    [] s = "set_value" -> {Valued(s, v) : v \in {10 * p : p \in Samples} \cup Tenths}
    [] s = "brightness_belief" -> {Valued(s, v) : v \in Samples \cup {255}}
    [] s = "power_belief" -> {Valued(s, v) : v \in {0, 1}}
    [] s = "DIRECTION" -> {Valued(s, v) : v \in {1, -1}}
    [] OTHER -> {ServiceOf(s)}
Calls(d, e) == UNION {CallsOf(d, e, s) : s \in Offered(d, e)}

(* What the remote may set, one variable at a time. *)
RemoteSets(d, e) ==
  [power : {0, 1}] \cup [light : {0, 1}]
  \cup (IF e.class = "BondLight" /\ supports_set_brightness(d) THEN [brightness : 0..100] ELSE {})
  \cup (IF e.class = "BondLight" /\ supports_set_color_temp(d) THEN [color_temp : Kelvins] ELSE {})
  \cup (IF e.class \in {"BondFireplace", "BondFlameNumber"} THEN [flame : Samples \ {0}] ELSE {})
  \cup (IF e.class = "BondHeatNumber" THEN [heat : Samples \ {0}] ELSE {})
  \cup (IF e.class = "BondFan" /\ supports_speed(d)
        THEN [speed : 1..d.props.max_speed \cup {n \in {Null} : d.group}] ELSE {})
  \cup (IF e.class = "BondFan" /\ has_action(d, "BreezeOn")
        THEN [breeze : {0, 1} \cup {n \in {Null} : d.group}] ELSE {})
  \cup (IF e.class = "BondCover" /\ supports_set_position(d) THEN [position : Samples] ELSE {})
  \cup (IF e.class = "BondCover" /\ supports_set_tilt_position(d)
        THEN [tilt_position : TiltRange(d.props)[1]..TiltRange(d.props)[2]] ELSE {})

(* The value shown is set again: reproduce_state of Home Assistant. *)
Again(d, e, st) ==
  CASE e.class \in Lights /\ ~ShownLight(e.class, st).is_on -> {ServiceOf("TURN_OFF")}
    [] e.class \in Lights /\ ShownLight(e.class, st).is_on ->
         LET shown == ShownLight(e.class, st)
             args == {a \in LightArguments(d, e.class) : shown[a] # Null}
         IN {[a \in {"service"} \cup args |-> IF a = "service" THEN "TURN_ON" ELSE shown[a]]}
    [] e.class = "BondFan" /\ ShownFan(d, st).breeze -> {[service |-> "TURN_ON", preset_mode |-> 1]}
    [] e.class = "BondFan" /\ ~ShownFan(d, st).breeze /\ supports_speed(d) ->
         {Valued("SET_SPEED", ShownFan(d, st).percentage)}
    [] e.class = "BondCover" ->
         {Valued("SET_POSITION", p) : p \in {ShownCover(d, st).position} \ {Null}}
         \cup {Valued("SET_TILT_POSITION", p) : p \in {ShownCover(d, st).tilt} \ {Null}}
    [] e.class = "BondFlameNumber" -> {Valued("set_value", 10 * v) : v \in {ShownFlame(st)} \ {Null}}
    [] e.class = "BondHeatNumber" -> {Valued("set_value", 10 * v) : v \in {ShownHeat(st)} \ {Null}}
    [] OTHER -> {}

Breeze(d, e, st) == e.class = "BondFan" /\ Truthy(st, "breeze")
Unshown == entity.class = "BondFan" /\ FanStateRaises(state)

(* The bridge runs what it is sent, listed or not, in that order; what a   *)
(* group refuses, it refuses with the first request.                       *)
Run(st, requests) ==
  IF \A i \in 1..Len(requests) : Sendable(device, requests[i]) THEN Final(st, requests) ELSE st

Init ==
  /\ device \in Devices
  /\ entity \in Entities(device)
  /\ state = IF entity.class = "BondFan" /\ supports_speed(device)
             THEN [power |-> 0, light |-> 0, speed |-> 1] ELSE [power |-> 0, light |-> 0]
  /\ asked = NoCall /\ sent = <<>> /\ echoed = {}

Call ==
  /\ \E call \in Calls(device, entity) :
       /\ asked' = call
       /\ sent' = Requests(device, entity, call, Breeze(device, entity, state))
  /\ state' = Run(state, sent')
  /\ echoed' = {}
  /\ UNCHANGED <<device, entity>>

Remote ==
  /\ \E set \in RemoteSets(device, entity) : state' = Updated(state, set)
  /\ asked' = NoCall /\ sent' = <<>> /\ echoed' = {}
  /\ UNCHANGED <<device, entity>>

Echo ==
  /\ ~Unshown
  /\ \E call \in Again(device, entity, state) :
       /\ sent' = Requests(device, entity, call, Breeze(device, entity, state))
       /\ echoed' = echoed \cup {call.service}
  /\ state' = Run(state, sent')
  /\ asked' = NoCall
  /\ UNCHANGED <<device, entity>>

Next == Call \/ Remote \/ Echo
Spec == Init /\ [][Next]_vars

(***************************************************************************)
(* Properties.                                                             *)
(***************************************************************************)
(* The actions of a platform that nothing checks a device for: on and off, *)
(* the level of a light or fireplace, and the off of a number.             *)
Presumed(c) ==
  CASE c \in Lights \cup {"BondSwitch"} ->
         {OnAction(c), OffAction(c), "SetBrightness", "SetFlame"}
    [] c = "BondFan" -> {"TurnOn", "TurnOff", "BreezeOff"}
    [] c \in {"BondFlameNumber", "BondHeatNumber"} -> {"TurnOff"}
    [] OTHER -> {}

(* A fan turned on with a percentage is sent a speed, listed or not.       *)
Unlisted(call) == {a \in {"SetSpeed"} : Given(call, "percentage")}
(* A service that is offered only sends actions the device lists (apart    *)
(* from those every device of its type is presumed to have): what the      *)
(* features promise at setup, through the Raise and Retract fallbacks, is  *)
(* what the handlers send later (cover.py:94-182, utils.py:111-135).  The  *)
(* one call that nothing checks is turn_on of a fan with a percentage,     *)
(* which sends SetSpeed to a fan without speeds as well (fan.py:156-170).  *)
OfferedIsListed ==
  \A i \in 1..Len(sent) :
    sent[i].name \in device.actions \cup Presumed(entity.class) \cup Beliefs \cup Unlisted(asked)

(* The value a call asks for. *)
Amount(call) ==
  CASE Given(call, "brightness") -> call.brightness [] Given(call, "percentage") -> call.percentage
    [] Given(call, "value") -> call.value [] OTHER -> Null

(* What is sent is in the range the bridge takes, except that brightness 1 *)
(* of 255 rounds to a brightness of 0 (action.py:187, 222, 252;            *)
(* light.py:167).                                                          *)
InBridgeRange ==
  \A i \in 1..Len(sent) :
    LET r == sent[i]
        v == r.argument[1]
    IN CASE r.name \in {"SetBrightness", "SetFlame", "state.brightness"} ->
              v \in 1..100 \/ (v = 0 /\ Amount(asked) = 1)
         [] r.name = "SetHeat" -> v \in 1..100
         [] r.name \in {"SetSpeed", "state.speed"} -> v \in 1..device.props.max_speed
         [] r.name = "SetPosition" -> v \in 0..100
         [] r.name = "SetTiltPosition" ->
              v \in TiltRange(device.props)[1]..TiltRange(device.props)[2]
         [] r.name = "SetColorTemp" -> v % 100 = 0
         [] OTHER -> TRUE

(* Setting what is shown does not make a value creep: rounding both ways   *)
(* settles with the first time, position and tilt of a cover each on its   *)
(* own (light.py:153, 167; cover.py:123-147; fan.py:87-122).               *)
EchoSettles ==
  [][/\ echoed # {} /\ echoed' # {}
     /\ entity.class = "BondCover" => echoed' = echoed
     => state' = state]_vars

(* Setting what is shown turns nothing on or off.  Not so for two things   *)
(* the bridge remembers while power is off and the entity shows            *)
(* nevertheless, the flame number, unlike the heat number (number.py:53,   *)
(* 81-86), and the breeze (fan.py:79); for a group of fans at several      *)
(* speeds, which is shown as off (fan.py:89); and for the lowest speeds of *)
(* a fan of more than a hundred, shown as 0 (fan.py:91).                   *)
Misshown ==
  \/ state.power = 0 /\ (entity.class = "BondFlameNumber" \/ Breeze(device, entity, state))
  \/ Given(state, "speed") /\ (state.speed = Null \/ device.props.max_speed > 100)
EchoKeepsPower ==
  [][echoed' # {} /\ ~Misshown
       => state'.power = state.power /\ state'.light = state.light]_vars

(* What the device made of it. *)
Obtained(call, st) ==
  CASE entity.class = "BondLight" -> st.brightness
    [] entity.class = "BondFireplace" -> st.flame
    [] entity.class = "BondFan" -> IF st.power = 0 THEN 0 ELSE st.speed
    [] entity.class = "BondFlameNumber" -> IF st.power = 0 THEN 0 ELSE st.flame
    [] entity.class = "BondHeatNumber" -> IF st.power = 0 THEN 0 ELSE st.heat
    [] call.service = "SET_POSITION" -> 100 - st.position
    [] call.service = "SET_TILT_POSITION" -> st.tilt_position
Dials == {"BondLight", "BondFireplace", "BondFan", "BondFlameNumber", "BondHeatNumber", "BondCover"}
Dialled(call) ==
  /\ entity.class \in Dials /\ Amount(call) # Null
  /\ call.service \in {"TURN_ON", "SET_SPEED", "set_value", "SET_POSITION", "SET_TILT_POSITION"}

(* Who asks for more never gets less, and who asks for the same gets the   *)
(* same, from one end of every scale to the other.                         *)
Ordered ==
  [][/\ Dialled(asked) /\ Dialled(asked')
     /\ asked.service = asked'.service /\ Amount(asked) <= Amount(asked')
     => Obtained(asked, state) <= Obtained(asked', state')]_vars

(* What is shown of each kind, next to what was asked. *)
LightAsAsked ==
  LET b == ShownLight(entity.class, state).brightness
  IN asked.brightness = 1 \/ b - asked.brightness \in -2..2
FanAsAsked ==
  LET p == ShownFan(device, state).percentage
  IN p >= Amount(asked) /\ (p - Amount(asked)) * device.props.max_speed < 100
(* Half a percent or less turns off. *)
NumberAsAsked(shown) ==
  IF asked.value > 5 THEN 10 * shown - asked.value \in -5..5 ELSE state.power = 0
PositionAsAsked == ShownCover(device, state).position = asked.value
TiltAsAsked ==
  LET off == ShownCover(device, state).tilt - asked.value
      degrees == TiltDegrees(device.props)
  IN 2 * off * degrees \in -(100 + degrees)..(100 + degrees)
(* What an entity shows once the device obeyed is what was asked for, to   *)
(* the resolution of the device and of the entity, half a step of each at  *)
(* most; a fan is never slower than asked, nothing but 0 turns one off,    *)
(* and a number is turned off by half a percent at most (light.py:153,     *)
(* 167; fan.py:87-122; number.py:52-94; cover.py:117-147).                 *)
ShownAsAsked ==
  Dialled(asked) /\ ~Unshown =>
    /\ entity.class \in {"BondLight", "BondFireplace"} => LightAsAsked
    /\ entity.class = "BondFan" => FanAsAsked
    /\ entity.class = "BondFlameNumber" => NumberAsAsked(ShownFlame(state))
    /\ entity.class = "BondHeatNumber" => NumberAsAsked(ShownHeat(state))
    /\ asked.service = "SET_POSITION" => PositionAsAsked
    /\ asked.service = "SET_TILT_POSITION" => TiltAsAsked

(* The names of everything the entities of d may send. *)
Reachable(d) ==
  UNION {UNION {{r.name : r \in ToSet(Requests(d, e, call, FALSE))} : call \in Calls(d, e)} :
           e \in Entities(d)}

(* The types that have an entity for an action that replaces buttons; the  *)
(* light of a fan gives way to an up and a down light.                     *)
TypesServing ==
  [TurnOn |-> {"CF", "FP", "GX"}, TurnLightOn |-> {"CF", "FP", "LT"},
   SetBrightness |-> {"CF", "FP", "LT"}, TurnUpLightOn |-> {"CF"}, TurnDownLightOn |-> {"CF"},
   SetSpeed |-> {"CF"}, SetDirection |-> {"CF"}, Open |-> {"MS"}, SetPosition |-> {"MS"}]
Served(d, a) ==
  /\ a \in DOMAIN TypesServing /\ Type(d) \in TypesServing[a]
  /\ a \in {"TurnLightOn", "SetBrightness"} =>
       /\ is_light(d) \/ supports_light(d)
       /\ ~(is_fan(d) /\ supports_up_light(d) /\ supports_down_light(d))

(* A toggle or step button is left out for the sake of an action that some *)
(* entity of the device really sends, so that nothing is out of reach.     *)
(* Out of reach remain the brightness of up and down lights, the common    *)
(* light of a fan that has both, and what a device lists beside its type,  *)
(* as groups of several types do (button.py:39-151, 309-333,               *)
(* light.py:41-77).                                                        *)
ReplacedButtonsReachable ==
  sent = <<>> /\ DOMAIN state \subseteq {"power", "light", "speed"} =>
    \A a \in DOMAIN BUTTONS \cap device.actions :
      LET twin == BUTTONS[a].exclusive
      IN (has_action(device, twin) => Served(device, twin))
           => {a, twin} \cap Reachable(device) \cap device.actions # {}

===============================================================================
