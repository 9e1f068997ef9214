------------------------------- MODULE Platforms -------------------------------
(***************************************************************************)
(* The entity platforms: which entities a device gets, which services each *)
(* of them offers, the requests a service call makes, in order, and what   *)
(* an entity shows of a device's state.                                    *)
(*                                                                         *)
(* A call is a record of its service and arguments; a state a function of  *)
(* the variables the bridge reports, Null where the members of a group     *)
(* differ.  Action is the record of action.py with its optional argument;  *)
(* the fields of a state belief are names of their own.                    *)
(***************************************************************************)
EXTENDS DeviceModel, TLC

Null == -999
Action(a) == [name |-> a, argument |-> <<>>]
ActionOf(a, v) == [name |-> a, argument |-> <<v>>]
Beliefs == {"state.power", "state.light", "state.speed", "state.brightness"}
IsBelief(r) == r.name \in Beliefs

(* kwargs.get and state.get used as conditions: 0 counts as missing. *)
Given(r, k)  == k \in DOMAIN r
Truthy(r, k) == Given(r, k) /\ r[k] \notin {0, Null}

(***************************************************************************)
(* Buttons: action, the action whose presence makes it pointless, argument.*)
(***************************************************************************)
ButtonsOf(as, exclusive, argument) ==
  [actions |-> as, exclusive |-> exclusive, argument |-> argument]

LightButtons == {
  ButtonsOf({"TogglePower"}, "TurnOn", <<>>),
  ButtonsOf({"ToggleLight"}, "TurnLightOn", <<>>),
  ButtonsOf({"ToggleUpLight"}, "TurnUpLightOn", <<>>),
  ButtonsOf({"ToggleDownLight"}, "TurnDownLightOn", <<>>),
  ButtonsOf({"ToggleLightTemp"}, None, <<>>),
  ButtonsOf({"StartDimmer", "StartIncreasingBrightness", "StartDecreasingBrightness"},
               "SetBrightness", <<>>),
  ButtonsOf({"IncreaseBrightness", "DecreaseBrightness", "CycleBrightness"},
               "SetBrightness", <<10>>),
  ButtonsOf({"StartUpLightDimmer"}, "SetUpLightBrightness", <<>>),
  ButtonsOf({"StartDownLightDimmer"}, "SetDownLightBrightness", <<>>),
  ButtonsOf({"IncreaseUpLightBrightness", "DecreaseUpLightBrightness",
                "CycleUpLightBrightness"}, "SetUpLightBrightness", <<10>>),
  ButtonsOf({"IncreaseDownLightBrightness", "DecreaseDownLightBrightness",
                "CycleDownLightBrightness"}, "SetDownLightBrightness", <<10>>)}

OtherButtons == {
  ButtonsOf({"IncreaseSpeed", "DecreaseSpeed"}, "SetSpeed", <<1>>),
  ButtonsOf({"ToggleDirection"}, "SetDirection", <<>>),
  ButtonsOf({"IncreaseTemperature", "DecreaseTemperature"}, None, <<1>>),
  ButtonsOf({"IncreaseFlame", "DecreaseFlame", "IncreaseHeat", "DecreaseHeat"}, None, <<10>>),
  ButtonsOf({"ToggleOpen"}, "Open", <<>>),
  ButtonsOf({"IncreasePosition", "DecreasePosition"}, "SetPosition", <<10>>),
  ButtonsOf({"OpenNext", "CloseNext", "HeatPresetNext", "HeatPresetPrev", "ToggleTilt"},
               None, <<>>)}

BUTTONS ==
  LET rows == LightButtons \cup OtherButtons
  IN [a \in UNION {row.actions : row \in rows} |-> CHOOSE row \in rows : a \in row.actions]

ButtonKeys(d) ==
  {a \in DOMAIN BUTTONS : has_action(d, a) /\ ~has_action(d, BUTTONS[a].exclusive)}
Buttons(d) ==
  ButtonKeys(d)
  \cup {a \in {"Stop"} : has_action(d, a) /\ ButtonKeys(d) # {}}
  \cup {a \in {"Preset"} : has_action(d, a)}
  \cup {a \in {"Pair", "Unpair", "UnpairSelf"} : has_action(d, a) /\ ~d.group}

press(a) ==
  <<[name |-> a, argument |-> IF a \in DOMAIN BUTTONS THEN BUTTONS[a].argument ELSE <<>>]>>

(***************************************************************************)
(* Lights and switches.                                                    *)
(***************************************************************************)
(* Mutant: the light of a fireplace is forgotten. *)
FanAndLightClasses(d) ==
  {c \in {"BondLight", "BondFireplace"} :
     \/ c = "BondFireplace" /\ is_fireplace(d)
     \/ c = "BondLight" /\ is_light(d)}
LightClasses(d) ==
  {c \in {"BondLight", "BondUpLight", "BondDownLight", "BondFireplace"} :
     \/ /\ c = "BondLight" /\ is_fan(d) /\ supports_light(d)
        /\ ~(supports_up_light(d) /\ supports_down_light(d))
     \/ c = "BondUpLight" /\ is_fan(d) /\ supports_up_light(d)
     \/ c = "BondDownLight" /\ is_fan(d) /\ supports_down_light(d)
     \/ c = "BondFireplace" /\ is_fireplace(d)
     \/ c = "BondLight" /\ is_fireplace(d) /\ supports_light(d)
     \/ c = "BondLight" /\ is_light(d)}

OnAction(c) ==
  CASE c = "BondLight" -> "TurnLightOn" [] c = "BondUpLight" -> "TurnUpLightOn"
    [] c = "BondDownLight" -> "TurnDownLightOn" [] OTHER -> "TurnOn"
OffAction(c) ==
  CASE c = "BondLight" -> "TurnLightOff" [] c = "BondUpLight" -> "TurnUpLightOff"
    [] c = "BondDownLight" -> "TurnDownLightOff" [] OTHER -> "TurnOff"

(* What a light takes with turn_on: a colour light takes a brightness too. *)
LightArguments(d, c) ==
  CASE c = "BondLight" /\ supports_set_color_temp(d) -> {"brightness", "color_temp"}
    [] c = "BondLight" /\ ~supports_set_color_temp(d) /\ supports_set_brightness(d) -> {"brightness"}
    [] c = "BondFireplace" -> {"brightness"}
    [] OTHER -> {}

(* Mutant: a colour is set only where no brightness is. *)
LevelOrColor(c, call) ==
  CASE Truthy(call, "brightness") -> <<ActionOf("SetBrightness", BondBrightness(call.brightness))>>
    [] ~Truthy(call, "brightness") /\ Truthy(call, "color_temp") ->
         <<ActionOf("SetColorTemp", RoundKelvin(call.color_temp))>>
    [] OTHER -> <<Action(OnAction(c))>>
(* Up to two requests for one call. *)
turn_on(c, call) ==
  LET level == IF Truthy(call, "brightness") /\ c \in {"BondLight", "BondFireplace"}
               THEN <<ActionOf(IF c = "BondLight" THEN "SetBrightness" ELSE "SetFlame",
                               BondBrightness(call.brightness))>>
               ELSE <<>>
      color == IF Truthy(call, "color_temp") /\ c = "BondLight"
               THEN <<ActionOf("SetColorTemp", RoundKelvin(call.color_temp))>> ELSE <<>>
  IN IF level \o color = <<>> THEN <<Action(OnAction(c))>> ELSE level \o color
turn_off(c) == <<Action(OffAction(c))>>

set_power_belief(c, on) ==
  <<ActionOf(IF c \in {"BondLight", "BondUpLight", "BondDownLight"}
             THEN "state.light" ELSE "state.power", on)>>
(* No request at all if the device sets no brightness. *)
set_brightness_belief(d, c, b) ==
  IF ~supports_set_brightness(d) THEN <<>>
  ELSE IF b = 0 THEN set_power_belief(c, 0)
  ELSE <<ActionOf("state.brightness", BondBrightness(b))>>

LightRequests(d, c, call) ==
  CASE call.service = "TURN_ON" -> turn_on(c, call)
    [] call.service = "TURN_OFF" -> turn_off(c)
    [] call.service = "power_belief" -> set_power_belief(c, call.value)
    [] call.service = "brightness_belief" -> set_brightness_belief(d, c, call.value)

ShownLight(c, state) ==
  LET on == CASE c = "BondLight" -> state.light = 1
              [] c = "BondUpLight" -> Truthy(state, "up_light") /\ Truthy(state, "light")
              [] c = "BondDownLight" -> Truthy(state, "down_light") /\ Truthy(state, "light")
              [] OTHER -> state.power = 1
      level == IF c = "BondFireplace" THEN "flame" ELSE "brightness"
  IN [is_on |-> on,
      brightness |-> IF c \in {"BondLight", "BondFireplace"} /\ Truthy(state, level)
                     THEN HassBrightness(state[level]) ELSE Null,
      color_temp |-> IF c = "BondLight" /\ Truthy(state, "color_temp")
                     THEN RoundKelvin(state.color_temp) ELSE Null]

(***************************************************************************)
(* Fans.                                                                   *)
(***************************************************************************)
FanFeatures(d) ==
  {"TURN_ON", "TURN_OFF"}
  \cup {f \in {"SET_SPEED"} : supports_speed(d)}
  \cup {f \in {"DIRECTION"} : supports_direction(d)}
  \cup {f \in {"PRESET_MODE"} : has_action(d, "BreezeOn")}

(* breeze[0] raises if the members of a group differ in it. *)
FanStateRaises(state) == Given(state, "breeze") /\ state.breeze = Null
ShownFan(d, state) ==
  [percentage |-> IF Truthy(state, "speed") /\ Truthy(state, "power")
                  THEN LET p == HassSpeed(d.props, state.speed) IN IF p > 100 THEN 100 ELSE p
                  ELSE 0,
   breeze |-> Truthy(state, "breeze")]

(* Mutant: the breeze goes on behind a fan turned off. *)
FanJustOff(breeze) == <<Action("TurnOff")>>
(* breeze is the preset the entity shows when the call begins. *)
FanTurnOff(breeze) ==
  (IF breeze THEN <<Action("BreezeOff")>> ELSE <<>>) \o <<Action("TurnOff")>>
set_percentage(d, p, breeze) ==
  IF p = 0 THEN FanTurnOff(breeze) ELSE <<ActionOf("SetSpeed", BondSpeed(d.props, p))>>
set_speed_belief(d, p) ==
  IF p = 0 THEN set_power_belief("BondFan", 0)
  ELSE set_power_belief("BondFan", 1) \o <<ActionOf("state.speed", BondSpeed(d.props, p))>>

FanRequests(d, call, breeze) ==
  CASE call.service = "TURN_ON" /\ Given(call, "preset_mode") -> <<Action("BreezeOn")>>
    [] call.service = "TURN_ON" /\ ~Given(call, "preset_mode") /\ Given(call, "percentage") ->
         set_percentage(d, call.percentage, breeze)
    [] call.service = "TURN_ON" /\ ~Given(call, "preset_mode") /\ ~Given(call, "percentage") ->
         <<Action("TurnOn")>>
    [] call.service = "TURN_OFF" -> FanTurnOff(breeze)
    [] call.service = "SET_SPEED" -> set_percentage(d, call.value, breeze)
    [] call.service = "PRESET_MODE" -> <<Action("BreezeOn")>>
    [] call.service = "DIRECTION" -> <<ActionOf("SetDirection", call.value)>>
    [] call.service = "speed_belief" -> set_speed_belief(d, call.value)

(***************************************************************************)
(* Covers and the layers of a shade.                                       *)
(***************************************************************************)
CoverFeatures(d) ==
  LET moves == {f \in {"OPEN", "CLOSE"} :
                  IF f = "OPEN" THEN supports_open(d) ELSE supports_close(d)}
      tilts == {f \in {"OPEN_TILT", "CLOSE_TILT"} :
                  IF f = "OPEN_TILT" THEN supports_tilt_open(d) ELSE supports_tilt_close(d)}
  IN moves \cup tilts
     \cup {f \in {"SET_POSITION"} : supports_set_position(d)}
     \cup {f \in {"SET_TILT_POSITION"} : supports_set_tilt_position(d)}
     \cup {f \in {"STOP"} : supports_hold(d) /\ moves # {}}
     \cup {f \in {"STOP_TILT"} : supports_hold(d) /\ tilts # {}}

CoverRequests(d, call) ==
  CASE call.service = "OPEN" -> <<Action(open_action(d))>>
    [] call.service = "CLOSE" -> <<Action(close_action(d))>>
    [] call.service \in {"STOP", "STOP_TILT"} -> <<Action("Hold")>>
    [] call.service = "OPEN_TILT" -> <<Action("TiltOpen")>>
    [] call.service = "CLOSE_TILT" -> <<Action("TiltClose")>>
    [] call.service = "SET_POSITION" -> <<ActionOf("SetPosition", BondPosition(call.value))>>
    [] call.service = "SET_TILT_POSITION" ->
         <<ActionOf("SetTiltPosition", BondTilt(d.props, call.value))>>

(* What a state lacks is shown as it was before (cover.py:121-127): Null   *)
(* only until the first value, as no state here loses a position or tilt.  *)
ShownCover(d, state) ==
  [position |-> IF Given(state, "position") /\ state.position # Null
                THEN HassPosition(state.position) ELSE Null,
   tilt |-> IF Given(state, "tilt_position") /\ state.tilt_position # Null
            THEN HassTilt(d.props, state.tilt_position) ELSE Null]

Layer(set, open, close) == [set |-> set, open |-> open, close |-> close]
LAYERS ==
  [upper_rail |-> Layer("SetUpperRailPosition", "RaiseUpperRail", "LowerUpperRail"),
   lower_rail |-> Layer("SetLowerRailPosition", "RaiseLowerRail", "LowerLowerRail"),
   sheer      |-> Layer("SetSheerPosition", None, None),
   blackout   |-> Layer("SetBlackoutPosition", None, None)]

LayerFeatures(d, key) ==
  {"SET_POSITION"}
  \cup {f \in {"OPEN"} : has_action(d, LAYERS[key].open)}
  \cup {f \in {"CLOSE"} : has_action(d, LAYERS[key].close)}

LayerRequests(key, call) ==
  CASE call.service = "SET_POSITION" -> <<ActionOf(LAYERS[key].set, BondPosition(call.value))>>
    [] call.service = "OPEN" -> <<Action(LAYERS[key].open)>>
    [] call.service = "CLOSE" -> <<Action(LAYERS[key].close)>>

(***************************************************************************)
(* Numbers.  A value is asked for in tenths, as Home Assistant does not    *)
(* hold it to whole steps.  The heat shown is 0 whenever power is off.     *)
(***************************************************************************)
FlameRequests(v) ==
  LET flame == Round(v, 10)
  IN IF flame = 0 THEN <<Action("TurnOff")>> ELSE <<ActionOf("SetFlame", flame)>>
HeatRequests(v) ==
  LET heat == Round(v, 10)
  IN IF heat = 0 THEN <<Action("TurnOff")>> ELSE <<ActionOf("SetHeat", heat)>>
ShownFlame(state) == IF Given(state, "flame") THEN state.flame ELSE Null
(* Mutant: the heat the bridge remembers is shown. *)
HeatAsIs(state) == IF Given(state, "heat") THEN state.heat ELSE Null
ShownHeat(state) ==
  CASE Given(state, "heat") /\ Given(state, "power") /\ state.power = 0 -> 0
    [] Given(state, "heat") /\ ~(Given(state, "power") /\ state.power = 0) -> state.heat
    [] OTHER -> Null

(***************************************************************************)
(* All entities of a device, what they offer and what their calls do.      *)
(***************************************************************************)
Entities(d) ==
  {[class |-> c, key |-> ""] :
     c \in LightClasses(d)
       \cup {c \in {"BondFan"} : is_fan(d)}
       \cup {c \in {"BondSwitch"} : is_generic(d)}
       \cup {c \in {"BondCover"} : is_shades(d)}
       \cup {c \in {"BondFlameNumber"} : is_fireplace(d) /\ supports_set_flame(d)}
       \cup {c \in {"BondHeatNumber"} : has_action(d, "SetHeat")}}
  \cup {[class |-> "BondLayerCover", key |-> k] :
          k \in {k \in DOMAIN LAYERS : is_shades(d) /\ has_action(d, LAYERS[k].set)}}
  \cup {[class |-> "BondButtonEntity", key |-> a] : a \in Buttons(d)}

Lights == {"BondLight", "BondUpLight", "BondDownLight", "BondFireplace"}

Offered(d, e) ==
  CASE e.class \in Lights -> {"TURN_ON", "TURN_OFF", "power_belief", "brightness_belief"}
    [] e.class = "BondSwitch" -> {"TURN_ON", "TURN_OFF", "power_belief"}
    [] e.class = "BondFan" -> FanFeatures(d) \cup {"speed_belief"}
    [] e.class = "BondCover" -> CoverFeatures(d)
    [] e.class = "BondLayerCover" -> LayerFeatures(d, e.key)
    [] e.class \in {"BondFlameNumber", "BondHeatNumber"} -> {"set_value"}
    [] e.class = "BondButtonEntity" -> {"press"}

Requests(d, e, call, breeze) ==
  CASE e.class \in Lights \cup {"BondSwitch"} -> LightRequests(d, e.class, call)
    [] e.class = "BondFan" -> FanRequests(d, call, breeze)
    [] e.class = "BondCover" -> CoverRequests(d, call)
    [] e.class = "BondLayerCover" -> LayerRequests(e.key, call)
    [] e.class = "BondFlameNumber" -> FlameRequests(call.value)
    [] e.class = "BondHeatNumber" -> HeatRequests(call.value)
    [] e.class = "BondButtonEntity" -> press(e.key)

(* A group takes no belief: ValueError, and nothing is sent. *)
Sendable(d, r) == ~(d.group /\ IsBelief(r))

(* What Home Assistant asks of an entity: a service it offers, with the    *)
(* arguments it takes, each within the range of its schema.  It drops what *)
(* a light does not take and refuses a preset a fan does not have, but     *)
(* hands a percentage to any fan.                                          *)
Callable(d, e, call) ==
  /\ call.service \in Offered(d, e)
  /\ call.service = "TURN_ON" =>
       /\ Given(call, "brightness") =>
            call.brightness \in 1..255 /\ "brightness" \in LightArguments(d, e.class)
       /\ Given(call, "color_temp") =>
            call.color_temp \in Nat \ {0} /\ "color_temp" \in LightArguments(d, e.class)
       /\ Given(call, "percentage") => call.percentage \in 0..100
       /\ Given(call, "preset_mode") => has_action(d, "BreezeOn")
  /\ call.service \in {"SET_SPEED", "SET_POSITION", "SET_TILT_POSITION", "speed_belief"}
       => call.value \in 0..100
  /\ call.service = "set_value" => call.value \in 0..1000
  /\ call.service = "brightness_belief" => call.value \in 0..255
  /\ call.service = "power_belief" => call.value \in {0, 1}

(***************************************************************************)
(* The bridge: what running a request does to the state it reports.  Heat, *)
(* flame and brightness are remembered while power is off, and the breeze  *)
(* ends with BreezeOff alone.                                              *)
(***************************************************************************)
(* state with the fields of set. *)
Updated(state, set) ==
  [k \in DOMAIN state \cup DOMAIN set |-> IF k \in DOMAIN set THEN set[k] ELSE state[k]]
Effect(state, r) ==
  LET Set(f) == Updated(state, f)
      v == IF r.argument = <<>> THEN 0 ELSE r.argument[1]
  IN CASE r.name = "TurnOn" -> Set([power |-> 1])
       [] r.name = "TurnOff" -> Set([power |-> 0])
       [] r.name = "TurnLightOn" -> Set([light |-> 1])
       [] r.name = "TurnLightOff" -> Set([light |-> 0])
       [] r.name = "SetBrightness" -> Set([light |-> 1, brightness |-> v])
       [] r.name = "SetColorTemp" -> Set([light |-> 1, color_temp |-> v])
       [] r.name = "SetFlame" -> Set([power |-> 1, flame |-> v])
       [] r.name = "SetHeat" -> Set([power |-> 1, heat |-> v])
       [] r.name = "SetSpeed" -> Set([power |-> 1, speed |-> v])
       [] r.name = "SetPosition" -> Set([position |-> v])
       [] r.name = "SetTiltPosition" -> Set([tilt_position |-> v])
       [] r.name = "BreezeOn" -> Set([power |-> 1, breeze |-> 1])
       [] r.name = "BreezeOff" -> Set([breeze |-> 0])
       [] r.name = "state.power" -> Set([power |-> v])
       [] r.name = "state.light" -> Set([light |-> v])
       [] r.name = "state.speed" -> Set([speed |-> v])
       [] r.name = "state.brightness" -> Set([brightness |-> v])
       [] OTHER -> state

(* The states as requests are run one after another: none, the first, ... *)
Ran(state, requests) ==
  LET f[n \in 0..Len(requests)] == IF n = 0 THEN state ELSE Effect(f[n - 1], requests[n]) IN f
(* Where they end. *)
Final(state, requests) == Ran(state, requests)[Len(requests)]
================================================================================
