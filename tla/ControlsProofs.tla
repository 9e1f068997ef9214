---------------------------- MODULE ControlsProofs ----------------------------
(***************************************************************************)
(* What Controls guarantees for every catalogue of devices, and not only   *)
(* for the one that is tried: what is sent is listed and in range, what is *)
(* shown is what was asked for, a dial never runs backwards, setting what  *)
(* is shown neither creeps nor turns anything on or off, and a button that *)
(* is left out is made up for.                                             *)
(***************************************************************************)
EXTENDS Controls, PlatformsProofs

(***************************************************************************)
(* What the requests of a call carry.                                      *)
(***************************************************************************)
Elements(rs) == {rs[i] : i \in 1..Len(rs)}

LEMMA ElementsOfNone == Elements(<<>>) = {}
BY DEF Elements
LEMMA ElementsOfOne ==
  ASSUME NEW r PROVE Elements(<<r>>) = {r}
BY DEF Elements
LEMMA ElementsOfTwo ==
  ASSUME NEW r, NEW q PROVE Elements(<<r, q>>) = {r, q}
BY DEF Elements

(* The services that take a value. *)
Valuing == {"SET_SPEED", "SET_POSITION", "SET_TILT_POSITION", "DIRECTION", "set_value",
            "power_belief", "brightness_belief", "speed_belief"}

(* A call that Home Assistant makes, with the arguments of its service and *)
(* no others. *)
Proper(d, e, call) ==
  /\ Callable(d, e, call)
  /\ call.service # "TURN_ON" =>
       ~Given(call, "brightness") /\ ~Given(call, "color_temp") /\ ~Given(call, "percentage")
  /\ Given(call, "value") <=> call.service \in Valuing
  /\ Given(call, "brightness") \/ Given(call, "color_temp") => e.class \in Lights
  /\ Given(call, "percentage") => e.class = "BondFan" /\ ~Given(call, "preset_mode")
  /\ Given(call, "color_temp") => call.color_temp >= 100

(* What a request of a call carries suits the bridge. *)
Settings == {"SetBrightness", "SetColorTemp", "SetFlame", "SetHeat", "SetSpeed", "SetPosition",
             "SetTiltPosition"} \cup Beliefs
Fit(d, c, call, r) ==
  LET v == r.argument[1]
  IN /\ r.name \in Settings => r.argument # <<>>
     /\ r.name \in {"SetBrightness", "SetFlame", "state.brightness"} =>
          v \in 1..100 \/ (v = 0 /\ c \in Lights /\ Amount(call) = 1)
     /\ r.name = "SetHeat" => v \in 1..100
     /\ r.name \in {"SetSpeed", "state.speed"} => v \in 1..d.props.max_speed
     /\ r.name = "SetPosition" => v \in 0..100 /\ supports_set_position(d)
     /\ r.name = "SetTiltPosition" =>
          v \in TiltRange(d.props)[1]..TiltRange(d.props)[2] /\ supports_set_tilt_position(d)
     /\ r.name = "SetColorTemp" => v \in Nat /\ v >= 100 /\ v % 100 = 0
     /\ r.name \in {"state.power", "state.light"} => v \in {0, 1}
     /\ r.name = "BreezeOn" => has_action(d, "BreezeOn")
Listed(d, c, call, r) == r.name \in d.actions \cup Presumed(c) \cup Beliefs \cup Unlisted(call)
Believed(call, r) ==
  IsBelief(r) => call.service \in {"power_belief", "brightness_belief", "speed_belief"}
Suits(d, c, call, r) == Fit(d, c, call, r) /\ Listed(d, c, call, r) /\ Believed(call, r)

LEMMA LightSuits ==
  ASSUME NEW d, NEW e, e.class \in Lights \cup {"BondSwitch"}, NEW call, Proper(d, e, call),
         NEW r \in Elements(LightRequests(d, e.class, call))
  PROVE  Suits(d, e.class, call, r)
<1> DEFINE c == e.class
<1>1. call.service \in {"TURN_ON", "TURN_OFF", "power_belief", "brightness_belief"}
  BY DEF Proper, Callable, Offered, Lights
<1>2. Suits(d, c, call, Action(OnAction(c))) /\ Suits(d, c, call, Action(OffAction(c)))
  BY DEF Suits, Fit, Listed, Believed, IsBelief, Presumed, Action, OnAction, OffAction, Settings,
         Lights, Beliefs
<1>3. CASE call.service = "TURN_ON"
  <2> DEFINE b == ActionOf(IF c = "BondLight" THEN "SetBrightness" ELSE "SetFlame",
                           BondBrightness(call.brightness))
             k == ActionOf("SetColorTemp", RoundKelvin(call.color_temp))
             bright == Truthy(call, "brightness") /\ c \in {"BondLight", "BondFireplace"}
             colored == Truthy(call, "color_temp") /\ c = "BondLight"
             level == IF bright THEN <<b>> ELSE <<>>
             color == IF colored THEN <<k>> ELSE <<>>
  <2>1. turn_on(c, call) =
          IF level \o color = <<>> THEN <<Action(OnAction(c))>> ELSE level \o color
    BY DEF turn_on
  <2>2. bright => Suits(d, c, call, b)
    <3> SUFFICES ASSUME bright PROVE Suits(d, c, call, b)
      OBVIOUS
    <3>1. call.brightness \in 1..255 /\ Amount(call) = call.brightness
      <4>1. Given(call, "brightness")
        BY DEF Truthy
      <4>2. Amount(call) = call.brightness
        BY <1>3, <4>1 DEF Amount, Proper, Lights, Valuing
      <4>3. call.brightness \in 1..255
        BY <1>3, <4>1 DEF Proper, Callable
      <4> QED BY <4>2, <4>3
    <3>2. BondBrightness(call.brightness) \in 1..100
          \/ (BondBrightness(call.brightness) = 0 /\ call.brightness = 1)
      BY <3>1, BrightnessBound
    <3>3. c \in Lights
      BY DEF Lights
    <3> QED BY <3>1, <3>2, <3>3
            DEF Suits, Fit, Listed, Believed, IsBelief, Presumed, ActionOf, Settings, Beliefs
  <2>3. colored => Suits(d, c, call, k)
    <3> SUFFICES ASSUME colored PROVE Suits(d, c, call, k)
      OBVIOUS
    <3>1. call.color_temp \in Nat /\ call.color_temp >= 100 /\ supports_set_color_temp(d)
      BY <1>3 DEF Truthy, Proper, Callable, LightArguments
    <3>2. /\ RoundKelvin(call.color_temp) \in Int /\ RoundKelvin(call.color_temp) % 100 = 0
          /\ RoundKelvin(call.color_temp) >= 100
      BY <3>1, Kelvin
    <3> QED BY <3>1, <3>2
            DEF Suits, Fit, Listed, Believed, IsBelief, ActionOf, Settings, Beliefs,
                supports_set_color_temp, has_action
  <2>4. r \in Elements(turn_on(c, call))
    BY <1>3 DEF LightRequests
  <2> HIDE DEF bright, colored, b, k, c
  <2>9. <<b>> # <<>> /\ <<k>> # <<>> /\ <<b, k>> # <<>>
    OBVIOUS
  <2>5. CASE bright /\ colored
    <3>1. turn_on(c, call) = <<b, k>>
      BY <2>1, <2>5, <2>9, Joined
    <3> QED BY <2>2, <2>3, <2>4, <2>5, <3>1, ElementsOfTwo DEF c
  <2>6. CASE bright /\ ~colored
    <3>1. turn_on(c, call) = <<b>>
      BY <2>1, <2>6, Joined
    <3> QED BY <2>2, <2>4, <2>6, <3>1, ElementsOfOne DEF c
  <2>7. CASE ~bright /\ colored
    <3>1. turn_on(c, call) = <<k>>
      BY <2>1, <2>7, Joined
    <3> QED BY <2>3, <2>4, <2>7, <3>1, ElementsOfOne DEF c
  <2>8. CASE ~bright /\ ~colored
    <3>1. turn_on(c, call) = <<Action(OnAction(c))>>
      BY <2>1, <2>8, Joined
    <3> QED BY <1>2, <2>4, <3>1, ElementsOfOne DEF c
  <2> QED BY <2>5, <2>6, <2>7, <2>8
<1>4. CASE call.service = "TURN_OFF"
  <2>1. r \in Elements(<<Action(OffAction(c))>>)
    BY <1>4 DEF LightRequests, turn_off
  <2>2. r = Action(OffAction(c))
    BY <2>1, ElementsOfOne
  <2> QED BY <1>2, <2>2
<1>5. ASSUME call.service \in {"power_belief", "brightness_belief"}, NEW on \in {0, 1},
             NEW q \in Elements(set_power_belief(c, on))
      PROVE  Suits(d, c, call, q)
  <2> DEFINE light == ActionOf("state.light", on)
             power == ActionOf("state.power", on)
  <2>1. set_power_belief(c, on) = <<light>> \/ set_power_belief(c, on) = <<power>>
    BY DEF set_power_belief
  <2>2. q = light \/ q = power
    <3> HIDE DEF light, power
    <3> QED BY <1>5, <2>1, ElementsOfOne
  <2>3. Suits(d, c, call, light)
    BY <1>5 DEF Suits, Fit, Listed, Believed, IsBelief, ActionOf, Settings, Beliefs
  <2>4. Suits(d, c, call, power)
    BY <1>5 DEF Suits, Fit, Listed, Believed, IsBelief, ActionOf, Settings, Beliefs
  <2> QED BY <2>2, <2>3, <2>4
<1>6. CASE call.service = "power_belief"
  <2>1. call.value \in {0, 1}
    BY <1>6 DEF Proper, Callable
  <2>2. r \in Elements(set_power_belief(c, call.value))
    BY <1>6 DEF LightRequests
  <2> QED BY <1>5, <1>6, <2>1, <2>2
<1>7. CASE call.service = "brightness_belief"
  <2> DEFINE b == ActionOf("state.brightness", BondBrightness(call.value))
  <2>1. call.value \in 0..255 /\ c \in Lights
    BY <1>7 DEF Proper, Callable, Offered, Lights
  <2>2. r \in Elements(set_brightness_belief(d, c, call.value))
    BY <1>7 DEF LightRequests
  <2>3. CASE ~supports_set_brightness(d)
    <3>1. r \in Elements(<<>>)
      BY <2>2, <2>3 DEF set_brightness_belief
    <3> QED BY <3>1, ElementsOfNone
  <2>4. CASE supports_set_brightness(d) /\ call.value = 0
    <3>1. r \in Elements(set_power_belief(c, 0))
      BY <2>2, <2>4 DEF set_brightness_belief
    <3> QED BY <1>5, <1>7, <3>1
  <2>5. CASE supports_set_brightness(d) /\ call.value # 0
    <3>1. r \in Elements(<<b>>)
      BY <2>2, <2>5 DEF set_brightness_belief
    <3>2. r = b
      <4> HIDE DEF b
      <4> QED BY <3>1, ElementsOfOne
    <3>3. call.value \in 1..255 /\ (Given(call, "value") => Amount(call) = call.value)
      BY <1>7, <2>1, <2>5 DEF Amount, Proper
    <3>4. BondBrightness(call.value) \in 1..100
          \/ (BondBrightness(call.value) = 0 /\ call.value = 1)
      BY <3>3, BrightnessBound
    <3>5. Given(call, "value")
      BY <1>7 DEF Proper, Valuing
    <3> QED BY <1>7, <2>1, <3>2, <3>3, <3>4, <3>5 DEF Suits, Fit, Listed, Believed, IsBelief,
                                                      ActionOf, Settings, Beliefs
  <2> QED BY <2>3, <2>4, <2>5
<1> QED BY <1>1, <1>3, <1>4, <1>6, <1>7

LEMMA FanSuits ==
  ASSUME NEW d \in Devices, NEW e, e.class = "BondFan", NEW call, Proper(d, e, call),
         NEW breeze \in BOOLEAN, NEW r \in Elements(FanRequests(d, call, breeze))
  PROVE  Suits(d, e.class, call, r)
<1> DEFINE c == e.class
<1>1. call.service \in {"TURN_ON", "TURN_OFF", "SET_SPEED", "PRESET_MODE", "DIRECTION", "speed_belief"}
  BY DEF Proper, Callable, Offered, Lights, FanFeatures
<1>2. \A q \in Elements(FanTurnOff(breeze)) : Suits(d, c, call, q)
  <2> DEFINE off == Action("TurnOff")
             calm == Action("BreezeOff")
  <2>1. Suits(d, c, call, off) /\ Suits(d, c, call, calm)
    BY DEF Suits, Fit, Listed, Believed, IsBelief, Presumed, Action, Settings, Lights, Beliefs
  <2>2. FanTurnOff(breeze) = <<calm, off>> \/ FanTurnOff(breeze) = <<off>>
    BY Joined DEF FanTurnOff
  <2> HIDE DEF off, calm
  <2> QED BY <2>1, <2>2, ElementsOfOne, ElementsOfTwo
<1>3. \A p \in 1..100 : BondSpeed(d.props, p) \in 1..d.props.max_speed
  BY DevicesAssumption, SpeedBound
<1>4. supports_speed(d) \/ Given(call, "percentage") =>
        \A p \in 0..100 : \A q \in Elements(set_percentage(d, p, breeze)) : Suits(d, c, call, q)
  <2> SUFFICES ASSUME supports_speed(d) \/ Given(call, "percentage"), NEW p \in 0..100,
                      NEW q \in Elements(set_percentage(d, p, breeze))
               PROVE  Suits(d, c, call, q)
    OBVIOUS
  <2>1. CASE p = 0
    BY <1>2, <2>1 DEF set_percentage
  <2>2. CASE p # 0
    <3> DEFINE s == ActionOf("SetSpeed", BondSpeed(d.props, p))
    <3>1. q \in Elements(<<s>>)
      BY <2>2 DEF set_percentage
    <3>2. q = s
      <4> HIDE DEF s
      <4> QED BY <3>1, ElementsOfOne
    <3>3. BondSpeed(d.props, p) \in 1..d.props.max_speed
      BY <1>3, <2>2
    <3>4. "SetSpeed" \in d.actions \cup Unlisted(call)
      BY DEF supports_speed, has_action, Unlisted
    <3> QED BY <3>2, <3>3, <3>4
            DEF Suits, Fit, Listed, Believed, IsBelief, ActionOf, Settings, Beliefs
  <2> QED BY <2>1, <2>2
<1>5. ASSUME call.service = "speed_belief", NEW p \in 0..100,
             NEW q \in Elements(set_speed_belief(d, p))
      PROVE  Suits(d, c, call, q)
  <2> DEFINE off == ActionOf("state.power", 0)
             on == ActionOf("state.power", 1)
             s == ActionOf("state.speed", BondSpeed(d.props, p))
  <2>1. Suits(d, c, call, off) /\ Suits(d, c, call, on)
    BY <1>5 DEF Suits, Fit, Listed, Believed, IsBelief, ActionOf, Settings, Beliefs
  <2>2. CASE p = 0
    <3>1. set_speed_belief(d, p) = <<off>>
      BY <2>2 DEF set_speed_belief, set_power_belief
    <3> HIDE DEF off
    <3> QED BY <1>5, <2>1, <3>1, ElementsOfOne
  <2>3. CASE p # 0
    <3>1. set_speed_belief(d, p) = <<on, s>>
      BY <2>3, Joined DEF set_speed_belief, set_power_belief
    <3>2. BondSpeed(d.props, p) \in 1..d.props.max_speed
      BY <1>3, <2>3
    <3>3. Suits(d, c, call, s)
      BY <1>5, <3>2 DEF Suits, Fit, Listed, Believed, IsBelief, ActionOf, Settings, Beliefs
    <3> HIDE DEF on, s
    <3> QED BY <1>5, <2>1, <3>1, <3>3, ElementsOfTwo
  <2> QED BY <2>2, <2>3
<1>6. CASE call.service = "TURN_ON"
  <2>1. CASE Given(call, "preset_mode")
    <3>1. has_action(d, "BreezeOn")
      BY <1>6, <2>1 DEF Proper, Callable
    <3>2. r \in Elements(<<Action("BreezeOn")>>)
      BY <1>6, <2>1 DEF FanRequests
    <3>3. r = Action("BreezeOn")
      BY <3>2, ElementsOfOne
    <3> QED BY <3>1, <3>3 DEF Suits, Fit, Listed, Believed, IsBelief, Action, Settings, Beliefs,
                              has_action
  <2>2. CASE ~Given(call, "preset_mode") /\ Given(call, "percentage")
    <3>1. call.percentage \in 0..100
      BY <1>6, <2>2 DEF Proper, Callable
    <3>2. r \in Elements(set_percentage(d, call.percentage, breeze))
      BY <1>6, <2>2 DEF FanRequests
    <3> QED BY <1>4, <2>2, <3>1, <3>2
  <2>3. CASE ~Given(call, "preset_mode") /\ ~Given(call, "percentage")
    <3>1. r \in Elements(<<Action("TurnOn")>>)
      BY <1>6, <2>3 DEF FanRequests
    <3>2. r = Action("TurnOn")
      BY <3>1, ElementsOfOne
    <3> QED BY <3>2 DEF Suits, Fit, Listed, Believed, IsBelief, Presumed, Action, Settings, Lights,
                        Beliefs
  <2> QED BY <2>1, <2>2, <2>3
<1>7. CASE call.service = "TURN_OFF"
  BY <1>2, <1>7 DEF FanRequests
<1>8. CASE call.service = "SET_SPEED"
  <2>1. call.value \in 0..100 /\ supports_speed(d)
    BY <1>8 DEF Proper, Callable, Offered, Lights, FanFeatures
  <2>2. r \in Elements(set_percentage(d, call.value, breeze))
    BY <1>8 DEF FanRequests
  <2> QED BY <1>4, <2>1, <2>2
<1>9. CASE call.service = "PRESET_MODE"
  <2>1. has_action(d, "BreezeOn")
    BY <1>9 DEF Proper, Callable, Offered, Lights, FanFeatures
  <2>2. r \in Elements(<<Action("BreezeOn")>>)
    BY <1>9 DEF FanRequests
  <2>3. r = Action("BreezeOn")
    BY <2>2, ElementsOfOne
  <2> QED BY <2>1, <2>3 DEF Suits, Fit, Listed, Believed, IsBelief, Action, Settings, Beliefs,
                            has_action
<1>10. CASE call.service = "DIRECTION"
  <2> DEFINE q == ActionOf("SetDirection", call.value)
  <2>1. has_action(d, "SetDirection")
    BY <1>10 DEF Proper, Callable, Offered, Lights, FanFeatures, supports_direction
  <2>2. r \in Elements(<<q>>)
    BY <1>10 DEF FanRequests
  <2>3. r = q
    <3> HIDE DEF q
    <3> QED BY <2>2, ElementsOfOne
  <2> QED BY <2>1, <2>3 DEF Suits, Fit, Listed, Believed, IsBelief, ActionOf, Settings, Beliefs,
                            has_action
<1>11. CASE call.service = "speed_belief"
  <2>1. call.value \in 0..100
    BY <1>11 DEF Proper, Callable
  <2>2. r \in Elements(set_speed_belief(d, call.value))
    BY <1>11 DEF FanRequests
  <2> QED BY <1>5, <1>11, <2>1, <2>2
<1> QED BY <1>1, <1>6, <1>7, <1>8, <1>9, <1>10, <1>11

(* Opening and closing fall back on an action that is listed. *)
LEMMA FirstIsListed ==
  ASSUME NEW d, NEW x, NEW y, NEW z, FirstListed(d, <<x, y, z>>) # None
  PROVE  FirstListed(d, <<x, y, z>>) \in d.actions \cap {x, y, z}
<1> DEFINE as == <<x, y, z>>
           listed == {i \in DOMAIN as : has_action(d, as[i])}
<1>1. DOMAIN as = {1, 2, 3}
  OBVIOUS
<1>2. listed \subseteq {1, 2, 3}
  BY <1>1
<1>3. listed # {} /\ FirstListed(d, as) = as[CHOOSE i \in listed : \A j \in listed : i <= j]
  BY DEF FirstListed
<1>4. \E i \in listed : \A j \in listed : i <= j
  <2> HIDE DEF listed
  <2>1. CASE 1 \in listed
    BY <1>2, <2>1
  <2>2. CASE 1 \notin listed /\ 2 \in listed
    BY <1>2, <2>2
  <2>3. CASE 1 \notin listed /\ 2 \notin listed
    <3>1. PICK k \in listed : TRUE
      BY <1>3
    <3>2. \A j \in listed : j = 3
      BY <1>2, <2>3
    <3> QED BY <3>1, <3>2
  <2> QED BY <2>1, <2>2, <2>3
<1> DEFINE first == CHOOSE i \in listed : \A j \in listed : i <= j
<1>5. first \in listed
  <2> HIDE DEF listed
  <2> QED BY <1>4
<1> HIDE DEF first
<1>6. first \in {1, 2, 3} /\ as[first] \in d.actions
  BY <1>1, <1>5 DEF has_action
<1>7. FirstListed(d, as) = as[first]
  BY <1>3 DEF first
<1> QED BY <1>6, <1>7

LEMMA CoverSuits ==
  ASSUME NEW d \in Devices, NEW e, e.class = "BondCover", NEW call, Proper(d, e, call),
         NEW r \in Elements(CoverRequests(d, call))
  PROVE  Suits(d, e.class, call, r)
<1> DEFINE c == e.class
<1>1. call.service \in CoverFeatures(d)
  BY DEF Proper, Callable, Offered, Lights
<1>2. call.service \in {"OPEN", "CLOSE", "STOP", "STOP_TILT", "OPEN_TILT", "CLOSE_TILT",
                        "SET_POSITION", "SET_TILT_POSITION"}
  BY <1>1 DEF CoverFeatures
<1>3. ASSUME NEW a \in d.actions \ Settings, a # "BreezeOn",
             NEW q \in Elements(<<Action(a)>>)
      PROVE  Suits(d, c, call, q)
  <2>1. q = Action(a)
    BY <1>3, ElementsOfOne
  <2> QED BY <1>3, <2>1 DEF Suits, Fit, Listed, Believed, IsBelief, Action, Settings, Beliefs
<1>4. ASSUME NEW x, NEW y, NEW z, {x, y, z} \cap (Settings \cup {"BreezeOn"}) = {},
             FirstListed(d, <<x, y, z>>) # None,
             NEW q \in Elements(<<Action(FirstListed(d, <<x, y, z>>))>>)
      PROVE  Suits(d, c, call, q)
  BY <1>3, <1>4, FirstIsListed
<1>5. CASE call.service = "OPEN"
  <2>1. open_action(d) # None
    BY <1>1, <1>5 DEF CoverFeatures, supports_open
  <2>2. r \in Elements(<<Action(open_action(d))>>)
    BY <1>5 DEF CoverRequests
  <2>3. {"Open", "Raise", "Retract"} \cap (Settings \cup {"BreezeOn"}) = {}
    BY DEF Settings, Beliefs
  <2> QED BY <1>4, <2>1, <2>2, <2>3 DEF open_action
<1>6. CASE call.service = "CLOSE"
  <2>1. close_action(d) # None
    BY <1>1, <1>6 DEF CoverFeatures, supports_close
  <2>2. r \in Elements(<<Action(close_action(d))>>)
    BY <1>6 DEF CoverRequests
  <2>3. {"Close", "Lower", "Extend"} \cap (Settings \cup {"BreezeOn"}) = {}
    BY DEF Settings, Beliefs
  <2> QED BY <1>4, <2>1, <2>2, <2>3 DEF close_action
<1>7. CASE call.service \in {"STOP", "STOP_TILT"}
  <2>1. "Hold" \in d.actions \ Settings
    BY <1>1, <1>7 DEF CoverFeatures, supports_hold, has_action, Settings, Beliefs
  <2>2. r \in Elements(<<Action("Hold")>>)
    BY <1>7 DEF CoverRequests
  <2> QED BY <1>3, <2>1, <2>2
<1>8. CASE call.service = "OPEN_TILT"
  <2>1. "TiltOpen" \in d.actions \ Settings
    BY <1>1, <1>8 DEF CoverFeatures, supports_tilt_open, has_action, Settings, Beliefs
  <2>2. r \in Elements(<<Action("TiltOpen")>>)
    BY <1>8 DEF CoverRequests
  <2> QED BY <1>3, <2>1, <2>2
<1>9. CASE call.service = "CLOSE_TILT"
  <2>1. "TiltClose" \in d.actions \ Settings
    BY <1>1, <1>9 DEF CoverFeatures, supports_tilt_close, has_action, Settings, Beliefs
  <2>2. r \in Elements(<<Action("TiltClose")>>)
    BY <1>9 DEF CoverRequests
  <2> QED BY <1>3, <2>1, <2>2
<1>10. CASE call.service = "SET_POSITION"
  <2> DEFINE q == ActionOf("SetPosition", BondPosition(call.value))
  <2>1. supports_set_position(d)
    BY <1>1, <1>10 DEF CoverFeatures
  <2>2. BondPosition(call.value) \in 0..100
    BY <1>10 DEF Proper, Callable, BondPosition
  <2>3. r \in Elements(<<q>>)
    BY <1>10 DEF CoverRequests
  <2>4. r = q
    <3> HIDE DEF q
    <3> QED BY <2>3, ElementsOfOne
  <2> QED BY <2>1, <2>2, <2>4
          DEF Suits, Fit, Listed, Believed, IsBelief, ActionOf, Settings, Beliefs,
              supports_set_position, has_action
<1>11. CASE call.service = "SET_TILT_POSITION"
  <2> DEFINE q == ActionOf("SetTiltPosition", BondTilt(d.props, call.value))
  <2>1. supports_set_tilt_position(d)
    BY <1>1, <1>11 DEF CoverFeatures
  <2>2. BondTilt(d.props, call.value) \in TiltRange(d.props)[1]..TiltRange(d.props)[2]
    <3>1. call.value \in 0..100 /\ Tilting(d.props)
      BY <1>11, DevicesAssumption DEF Proper, Callable, Tilting
    <3> QED BY <3>1, BondTiltBound
  <2>3. r \in Elements(<<q>>)
    BY <1>11 DEF CoverRequests
  <2>4. r = q
    <3> HIDE DEF q
    <3> QED BY <2>3, ElementsOfOne
  <2> QED BY <2>1, <2>2, <2>4
          DEF Suits, Fit, Listed, Believed, IsBelief, ActionOf, Settings, Beliefs,
              supports_set_tilt_position, has_action
<1> QED BY <1>2, <1>5, <1>6, <1>7, <1>8, <1>9, <1>10, <1>11

(* What an entity of a keyed or numbered class says of its device. *)
LEMMA EntityHas ==
  ASSUME NEW d, NEW e \in Entities(d)
  PROVE  /\ e.class = "BondLayerCover" =>
              e.key \in DOMAIN LAYERS /\ has_action(d, LAYERS[e.key].set)
         /\ e.class = "BondFlameNumber" => has_action(d, "SetFlame")
         /\ e.class = "BondHeatNumber" => has_action(d, "SetHeat")
         /\ e.class = "BondButtonEntity" => e.key \in Buttons(d)
<1> DEFINE plain == LightClasses(d)
                    \cup {c \in {"BondFan"} : is_fan(d)}
                    \cup {c \in {"BondSwitch"} : is_generic(d)}
                    \cup {c \in {"BondCover"} : is_shades(d)}
                    \cup {c \in {"BondFlameNumber"} : is_fireplace(d) /\ supports_set_flame(d)}
                    \cup {c \in {"BondHeatNumber"} : has_action(d, "SetHeat")}
           keyed == {k \in DOMAIN LAYERS : is_shades(d) /\ has_action(d, LAYERS[k].set)}
<1>1. e \in {[class |-> c, key |-> ""] : c \in plain}
            \cup {[class |-> "BondLayerCover", key |-> k] : k \in keyed}
            \cup {[class |-> "BondButtonEntity", key |-> a] : a \in Buttons(d)}
  BY Zenon DEF Entities
<1>2. /\ "BondLayerCover" \notin plain /\ "BondButtonEntity" \notin plain
      /\ "BondFlameNumber" \in plain => has_action(d, "SetFlame")
      /\ "BondHeatNumber" \in plain => has_action(d, "SetHeat")
  BY DEF LightClasses, supports_set_flame
<1>3. \A k \in keyed : k \in DOMAIN LAYERS /\ has_action(d, LAYERS[k].set)
  OBVIOUS
<1> HIDE DEF plain, keyed
<1>4. CASE e \in {[class |-> c, key |-> ""] : c \in plain}
  <2>1. PICK c \in plain : e = [class |-> c, key |-> ""]
    BY <1>4
  <2> QED BY <1>2, <2>1
<1>5. CASE e \in {[class |-> "BondLayerCover", key |-> k] : k \in keyed}
  <2>1. PICK k \in keyed : e = [class |-> "BondLayerCover", key |-> k]
    BY <1>5
  <2> QED BY <1>3, <2>1
<1>6. CASE e \in {[class |-> "BondButtonEntity", key |-> a] : a \in Buttons(d)}
  <2>1. PICK a \in Buttons(d) : e = [class |-> "BondButtonEntity", key |-> a]
    BY <1>6
  <2> QED BY <2>1
<1> QED BY <1>1, <1>4, <1>5, <1>6

LEMMA LayerSuits ==
  ASSUME NEW d, NEW e \in Entities(d), e.class = "BondLayerCover", NEW call, Proper(d, e, call),
         NEW r \in Elements(LayerRequests(e.key, call))
  PROVE  Suits(d, e.class, call, r)
<1> DEFINE k == e.key
<1>1. k \in DOMAIN LAYERS /\ has_action(d, LAYERS[k].set)
  BY EntityHas
<1>2. call.service \in LayerFeatures(d, k)
  BY DEF Proper, Callable, Offered, Lights
<1>3. \A f \in {"set", "open", "close"} : LAYERS[k][f] \notin Settings \cup {"BreezeOn"}
  BY <1>1 DEF LAYERS, Layer, Settings, Beliefs, None
<1> HIDE DEF k
<1>4. ASSUME NEW a \in d.actions, a \notin Settings \cup {"BreezeOn"}, NEW argument,
             r \in Elements(<<[name |-> a, argument |-> argument]>>)
      PROVE  Suits(d, e.class, call, r)
  <2>1. r = [name |-> a, argument |-> argument]
    BY <1>4, ElementsOfOne
  <2> QED BY <1>4, <2>1 DEF Suits, Fit, Listed, Believed, IsBelief, Settings, Beliefs
<1>5. CASE call.service = "SET_POSITION"
  <2>1. r \in Elements(<<ActionOf(LAYERS[k].set, BondPosition(call.value))>>)
    BY <1>5 DEF LayerRequests, k
  <2> QED BY <1>1, <1>3, <1>4, <2>1 DEF ActionOf, has_action
<1>6. CASE call.service = "OPEN"
  <2>1. r \in Elements(<<Action(LAYERS[k].open)>>)
    BY <1>6 DEF LayerRequests, k
  <2>2. has_action(d, LAYERS[k].open)
    BY <1>2, <1>6 DEF LayerFeatures
  <2> QED BY <1>3, <1>4, <2>1, <2>2 DEF Action, has_action
<1>7. CASE call.service = "CLOSE"
  <2>1. r \in Elements(<<Action(LAYERS[k].close)>>)
    BY <1>7 DEF LayerRequests, k
  <2>2. has_action(d, LAYERS[k].close)
    BY <1>2, <1>7 DEF LayerFeatures
  <2> QED BY <1>3, <1>4, <2>1, <2>2 DEF Action, has_action
<1> QED BY <1>2, <1>5, <1>6, <1>7 DEF LayerFeatures

LEMMA NumberSuits ==
  ASSUME NEW d, NEW e \in Entities(d), e.class \in {"BondFlameNumber", "BondHeatNumber"},
         NEW call, Proper(d, e, call),
         NEW r \in Elements(IF e.class = "BondFlameNumber" THEN FlameRequests(call.value)
                            ELSE HeatRequests(call.value))
  PROVE  Suits(d, e.class, call, r)
<1> DEFINE off == Action("TurnOff")
           n == Round(call.value, 10)
           flame == ActionOf("SetFlame", n)
           heat == ActionOf("SetHeat", n)
<1>1. n \in 0..100
  <2>1. call.value \in 0..1000
    BY DEF Proper, Callable, Offered, Lights
  <2> QED BY <2>1, TenthsBound
<1>2. r \in Elements(<<IF n = 0 THEN off
                       ELSE IF e.class = "BondFlameNumber" THEN flame ELSE heat>>)
  BY DEF FlameRequests, HeatRequests
<1>3. r = IF n = 0 THEN off ELSE IF e.class = "BondFlameNumber" THEN flame ELSE heat
  <2> HIDE DEF off, flame, heat
  <2> QED BY <1>2, ElementsOfOne
<1>4. Suits(d, e.class, call, off)
  BY DEF Suits, Fit, Listed, Believed, IsBelief, Presumed, Action, Settings, Lights, Beliefs
<1> HIDE DEF n
<1>5. n # 0 /\ e.class = "BondFlameNumber" => Suits(d, e.class, call, flame)
  BY <1>1, EntityHas DEF Suits, Fit, Listed, Believed, IsBelief, ActionOf, Settings, Beliefs, has_action
<1>6. n # 0 /\ e.class = "BondHeatNumber" => Suits(d, e.class, call, heat)
  BY <1>1, EntityHas DEF Suits, Fit, Listed, Believed, IsBelief, ActionOf, Settings, Beliefs, has_action
<1> HIDE DEF off, flame, heat
<1> QED BY <1>3, <1>4, <1>5, <1>6

(* No button sets a value. *)
LEMMA ButtonNames ==
  DOMAIN BUTTONS \cap (Settings \cup {"BreezeOn"}) = {}
<1> DEFINE rows == LightButtons \cup OtherButtons
<1>1. DOMAIN BUTTONS = UNION {row.actions : row \in rows}
  BY DEF BUTTONS
<1>2. \A row \in LightButtons : row.actions \cap (Settings \cup {"BreezeOn"}) = {}
  BY DEF LightButtons, ButtonsOf, Settings, Beliefs
<1>3. \A row \in OtherButtons : row.actions \cap (Settings \cup {"BreezeOn"}) = {}
  BY DEF OtherButtons, ButtonsOf, Settings, Beliefs
<1> QED BY <1>1, <1>2, <1>3

LEMMA ButtonSuits ==
  ASSUME NEW d, NEW e \in Entities(d), e.class = "BondButtonEntity", NEW call,
         NEW r \in Elements(press(e.key))
  PROVE  Suits(d, e.class, call, r)
<1> DEFINE argument == IF e.key \in DOMAIN BUTTONS THEN BUTTONS[e.key].argument ELSE <<>>
<1>1. e.key \in Buttons(d)
  BY EntityHas
<1>2. e.key \in d.actions /\ (e.key \in DOMAIN BUTTONS
                              \/ e.key \in {"Stop", "Preset", "Pair", "Unpair", "UnpairSelf"})
  BY <1>1 DEF Buttons, ButtonKeys, has_action
<1>3. e.key \notin Settings \cup {"BreezeOn"}
  BY <1>2, ButtonNames DEF Settings, Beliefs
<1>4. r \in Elements(<<[name |-> e.key, argument |-> argument]>>)
  BY DEF press
<1>5. r = [name |-> e.key, argument |-> argument]
  <2> HIDE DEF argument
  <2> QED BY <1>4, ElementsOfOne
<1> HIDE DEF argument
<1> QED BY <1>2, <1>3, <1>5 DEF Suits, Fit, Listed, Believed, IsBelief, Settings, Beliefs

(* Every request of every call. *)
LEMMA RequestsSuit ==
  ASSUME NEW d \in Devices, NEW e \in Entities(d), NEW call, Proper(d, e, call),
         NEW breeze \in BOOLEAN, NEW r \in Elements(Requests(d, e, call, breeze))
  PROVE  Suits(d, e.class, call, r)
<1>1. e.class \in Classes
  BY EntityClass
<1>2. CASE e.class \in Lights \cup {"BondSwitch"}
  BY <1>2, LightSuits DEF Requests, Lights
<1>3. CASE e.class = "BondFan"
  BY <1>3, FanSuits DEF Requests, Lights
<1>4. CASE e.class = "BondCover"
  BY <1>4, CoverSuits DEF Requests, Lights
<1>5. CASE e.class = "BondLayerCover"
  BY <1>5, LayerSuits DEF Requests, Lights
<1>6. CASE e.class \in {"BondFlameNumber", "BondHeatNumber"}
  BY <1>6, NumberSuits DEF Requests, Lights
<1>7. CASE e.class = "BondButtonEntity"
  BY <1>7, ButtonSuits DEF Requests, Lights
<1> QED BY <1>1, <1>2, <1>3, <1>4, <1>5, <1>6, <1>7 DEF Classes

(***************************************************************************)
(* The states of a device.                                                 *)
(***************************************************************************)
IsFunction(st) == st = [k \in DOMAIN st |-> st[k]]
(* What variable k of an entity of class c may be, whatever calls and      *)
(* remote have done.                                                       *)
Fine(d, c, k, x) ==
  /\ k \notin {"up_light", "down_light"}
  /\ k \in {"power", "light"} => x \in {0, 1}
  /\ k = "brightness" => x \in 0..100
  /\ k = "color_temp" => x \in Nat /\ x >= 100
  /\ k = "flame" => x \in 1..100 \/ (x = 0 /\ c \in Lights)
  /\ k = "heat" => x \in 1..100
  /\ k = "speed" => x \in 1..d.props.max_speed \/ x = Null
  /\ k = "breeze" => x \in {0, Null} \/ (x = 1 /\ has_action(d, "BreezeOn"))
  /\ k = "position" => x \in 0..100 /\ supports_set_position(d)
  /\ k = "tilt_position" =>
       x \in TiltRange(d.props)[1]..TiltRange(d.props)[2] /\ supports_set_tilt_position(d)
StateOK(d, c, st) ==
  /\ IsFunction(st)
  /\ {"power", "light"} \subseteq DOMAIN st
  /\ c = "BondFan" /\ supports_speed(d) => "speed" \in DOMAIN st
  /\ \A k \in DOMAIN st : Fine(d, c, k, st[k])

LEMMA UpdatedOK ==
  ASSUME NEW d, NEW c, NEW st, StateOK(d, c, st), NEW set,
         \A k \in DOMAIN set : Fine(d, c, k, set[k])
  PROVE  StateOK(d, c, Updated(st, set))
<1> DEFINE new == Updated(st, set)
<1>1. DOMAIN new = DOMAIN st \cup DOMAIN set
  BY DEF Updated
<1>2. IsFunction(new)
  BY DEF IsFunction, Updated
<1>3. \A k \in DOMAIN new : new[k] = IF k \in DOMAIN set THEN set[k] ELSE st[k]
  BY DEF Updated
<1> HIDE DEF new
<1>4. \A k \in DOMAIN new : Fine(d, c, k, new[k])
  <2> SUFFICES ASSUME NEW k \in DOMAIN new PROVE Fine(d, c, k, new[k])
    OBVIOUS
  <2>1. CASE k \in DOMAIN set
    <3>1. new[k] = set[k]
      BY <1>3, <2>1
    <3> QED BY <2>1, <3>1
  <2>2. CASE k \notin DOMAIN set
    <3>1. new[k] = st[k] /\ k \in DOMAIN st
      BY <1>1, <1>3, <2>2
    <3> QED BY <3>1 DEF StateOK
  <2> QED BY <2>1, <2>2
<1>5. StateOK(d, c, new)
  BY <1>1, <1>2, <1>4 DEF StateOK
<1> QED BY <1>5 DEF new

LEMMA EffectOK ==
  ASSUME NEW d \in Devices, NEW c, NEW st, StateOK(d, c, st), NEW call, NEW r, Suits(d, c, call, r)
  PROVE  StateOK(d, c, Effect(st, r))
<1> DEFINE v == r.argument[1]
           name == r.name
<1> USE DEF Settings, Beliefs, Fine, Suits, Fit
<1>1. CASE name \in {"TurnOn", "TurnOff", "TurnLightOn", "TurnLightOff"}
  <2>1. PICK set \in {[power |-> 1], [power |-> 0], [light |-> 1], [light |-> 0]} :
          Effect(st, r) = Updated(st, set)
    BY <1>1 DEF Effect
  <2>2. \A k \in DOMAIN set : Fine(d, c, k, set[k])
    BY <2>1
  <2> QED BY <2>1, <2>2, UpdatedOK
<1>2. CASE name = "SetBrightness"
  <2>1. Effect(st, r) = Updated(st, [light |-> 1, brightness |-> v])
    BY <1>2 DEF Effect
  <2>2. v \in 0..100
    BY <1>2
  <2> HIDE DEF v
  <2>3. Fine(d, c, "light", 1) /\ Fine(d, c, "brightness", v)
    BY <2>2
  <2>4. \A k \in {"light", "brightness"} : Fine(d, c, k, [light |-> 1, brightness |-> v][k])
    <3> HIDE DEF Fine
    <3> QED BY <2>3
  <2> HIDE DEF Fine
  <2> QED BY <2>1, <2>4, UpdatedOK
<1>3. CASE name = "SetColorTemp"
  <2>1. Effect(st, r) = Updated(st, [light |-> 1, color_temp |-> v])
    BY <1>3 DEF Effect
  <2>2. v \in Nat /\ v >= 100
    BY <1>3
  <2> HIDE DEF v
  <2>3. Fine(d, c, "light", 1) /\ Fine(d, c, "color_temp", v)
    BY <2>2
  <2>4. \A k \in {"light", "color_temp"} : Fine(d, c, k, [light |-> 1, color_temp |-> v][k])
    <3> HIDE DEF Fine
    <3> QED BY <2>3
  <2> HIDE DEF Fine
  <2> QED BY <2>1, <2>4, UpdatedOK
<1>4. CASE name = "SetFlame"
  <2>1. Effect(st, r) = Updated(st, [power |-> 1, flame |-> v])
    BY <1>4 DEF Effect
  <2>2. v \in 1..100 \/ (v = 0 /\ c \in Lights)
    BY <1>4
  <2> HIDE DEF v
  <2>3. Fine(d, c, "power", 1) /\ Fine(d, c, "flame", v)
    BY <2>2
  <2>4. \A k \in {"power", "flame"} : Fine(d, c, k, [power |-> 1, flame |-> v][k])
    <3> HIDE DEF Fine
    <3> QED BY <2>3
  <2> HIDE DEF Fine
  <2> QED BY <2>1, <2>4, UpdatedOK
<1>5. CASE name = "SetHeat"
  <2>1. Effect(st, r) = Updated(st, [power |-> 1, heat |-> v])
    BY <1>5 DEF Effect
  <2>2. v \in 1..100
    BY <1>5
  <2> HIDE DEF v
  <2>3. Fine(d, c, "power", 1) /\ Fine(d, c, "heat", v)
    BY <2>2
  <2>4. \A k \in {"power", "heat"} : Fine(d, c, k, [power |-> 1, heat |-> v][k])
    <3> HIDE DEF Fine
    <3> QED BY <2>3
  <2> HIDE DEF Fine
  <2> QED BY <2>1, <2>4, UpdatedOK
<1>6. CASE name = "SetSpeed"
  <2>1. Effect(st, r) = Updated(st, [power |-> 1, speed |-> v])
    BY <1>6 DEF Effect
  <2>2. v \in 1..d.props.max_speed
    BY <1>6
  <2> HIDE DEF v
  <2>3. Fine(d, c, "power", 1) /\ Fine(d, c, "speed", v)
    BY <2>2
  <2>4. \A k \in {"power", "speed"} : Fine(d, c, k, [power |-> 1, speed |-> v][k])
    <3> HIDE DEF Fine
    <3> QED BY <2>3
  <2> HIDE DEF Fine
  <2> QED BY <2>1, <2>4, UpdatedOK
<1>7. CASE name = "SetPosition"
  <2>1. Effect(st, r) = Updated(st, [position |-> v])
    BY <1>7 DEF Effect
  <2>2. v \in 0..100 /\ supports_set_position(d)
    BY <1>7
  <2> HIDE DEF v
  <2>3. Fine(d, c, "position", v)
    BY <2>2
  <2>4. \A k \in {"position"} : Fine(d, c, k, [position |-> v][k])
    <3> HIDE DEF Fine
    <3> QED BY <2>3
  <2> HIDE DEF Fine
  <2> QED BY <2>1, <2>4, UpdatedOK
<1>8. CASE name = "SetTiltPosition"
  <2>1. Effect(st, r) = Updated(st, [tilt_position |-> v])
    BY <1>8 DEF Effect
  <2>2. v \in TiltRange(d.props)[1]..TiltRange(d.props)[2] /\ supports_set_tilt_position(d)
    BY <1>8
  <2> HIDE DEF v
  <2>3. Fine(d, c, "tilt_position", v)
    BY <2>2
  <2>4. \A k \in {"tilt_position"} : Fine(d, c, k, [tilt_position |-> v][k])
    <3> HIDE DEF Fine
    <3> QED BY <2>3
  <2> HIDE DEF Fine
  <2> QED BY <2>1, <2>4, UpdatedOK
<1>9. CASE name \in {"BreezeOn", "BreezeOff"}
  <2>1. PICK set \in {[power |-> 1, breeze |-> 1], [breeze |-> 0]} :
          /\ Effect(st, r) = Updated(st, set)
          /\ "power" \in DOMAIN set => has_action(d, "BreezeOn")
    BY <1>9 DEF Effect
  <2>2. \A k \in DOMAIN set : Fine(d, c, k, set[k])
    BY <2>1
  <2> QED BY <2>1, <2>2, UpdatedOK
<1>10. CASE name \in {"state.power", "state.light"}
  <2>1. PICK set \in {[power |-> v], [light |-> v]} : Effect(st, r) = Updated(st, set)
    BY <1>10 DEF Effect
  <2>2. v \in {0, 1}
    BY <1>10
  <2> HIDE DEF v
  <2>3. Fine(d, c, "power", v) /\ Fine(d, c, "light", v)
    BY <2>2
  <2> HIDE DEF Fine
  <2>4. \A k \in DOMAIN set : Fine(d, c, k, set[k])
    BY <2>1, <2>3
  <2> QED BY <2>1, <2>4, UpdatedOK
<1>11. CASE name = "state.speed"
  <2>1. Effect(st, r) = Updated(st, [speed |-> v])
    BY <1>11 DEF Effect
  <2>2. v \in 1..d.props.max_speed
    BY <1>11
  <2> HIDE DEF v
  <2>3. Fine(d, c, "speed", v)
    BY <2>2
  <2>4. \A k \in {"speed"} : Fine(d, c, k, [speed |-> v][k])
    <3> HIDE DEF Fine
    <3> QED BY <2>3
  <2> HIDE DEF Fine
  <2> QED BY <2>1, <2>4, UpdatedOK
<1>12. CASE name = "state.brightness"
  <2>1. Effect(st, r) = Updated(st, [brightness |-> v])
    BY <1>12 DEF Effect
  <2>2. v \in 0..100
    BY <1>12
  <2> HIDE DEF v
  <2>3. Fine(d, c, "brightness", v)
    BY <2>2
  <2>4. \A k \in {"brightness"} : Fine(d, c, k, [brightness |-> v][k])
    <3> HIDE DEF Fine
    <3> QED BY <2>3
  <2> HIDE DEF Fine
  <2> QED BY <2>1, <2>4, UpdatedOK
<1>13. CASE name \notin {"TurnOn", "TurnOff", "TurnLightOn", "TurnLightOff", "SetBrightness",
                         "SetColorTemp", "SetFlame", "SetHeat", "SetSpeed", "SetPosition",
                         "SetTiltPosition", "BreezeOn", "BreezeOff", "state.power", "state.light",
                         "state.speed", "state.brightness"}
  BY <1>13 DEF Effect
<1> QED BY <1>1, <1>2, <1>3, <1>4, <1>5, <1>6, <1>7, <1>8, <1>9, <1>10, <1>11, <1>12, <1>13

LEMMA FinalNone ==
  ASSUME NEW st PROVE Final(st, <<>>) = st
<1>1. Len(<<>>) = 0
  OBVIOUS
<1> QED BY <1>1, RanUnfolds DEF Final

LEMMA FinalOK ==
  ASSUME NEW d \in Devices, NEW c, NEW st, StateOK(d, c, st), NEW call, NEW rs, Short(rs),
         \A r \in Elements(rs) : Suits(d, c, call, r)
  PROVE  StateOK(d, c, Final(st, rs))
<1>1. CASE rs = <<>>
  BY <1>1, FinalNone
<1>2. CASE \E r : rs = <<r>>
  <2>1. PICK r : rs = <<r>>
    BY <1>2
  <2>2. Final(st, rs) = Effect(st, r) /\ Suits(d, c, call, r)
    BY <2>1, FinalOne, ElementsOfOne
  <2> QED BY <2>2, EffectOK
<1>3. CASE \E r, q : rs = <<r, q>>
  <2>1. PICK r, q : rs = <<r, q>>
    BY <1>3
  <2>2. Final(st, rs) = Effect(Effect(st, r), q) /\ Suits(d, c, call, r) /\ Suits(d, c, call, q)
    BY <2>1, FinalTwo, ElementsOfTwo
  <2>3. StateOK(d, c, Effect(st, r))
    BY <2>2, EffectOK
  <2> QED BY <2>2, <2>3, EffectOK
<1> QED BY <1>1, <1>2, <1>3 DEF Short

(***************************************************************************)
(* The calls that are made.                                                *)
(***************************************************************************)
LEMMA SampleRange == \A p \in Samples : p \in 0..100
<1>1. Samples \subseteq 0..100
  BY ValuesAssumption
<1> QED BY <1>1
LEMMA TenthRange == \A p \in Tenths : p \in 0..1000
<1>1. Tenths \subseteq 0..1000
  BY ValuesAssumption
<1> QED BY <1>1

LEMMA CallsProper ==
  ASSUME NEW d \in Devices, NEW e \in Entities(d), NEW call \in Calls(d, e)
  PROVE  Proper(d, e, call)
<1>1. PICK s \in Offered(d, e) : call \in CallsOf(d, e, s)
  BY DEF Calls
<1>2. CASE s = "TURN_ON" /\ e.class \in Lights
  <2>1. call \in {ServiceOf(s)}
         \cup {[service |-> s, brightness |-> b] :
                 b \in {b \in 1..255 : "brightness" \in LightArguments(d, e.class)}}
         \cup {[service |-> s, color_temp |-> k] :
                 k \in {k \in Kelvins : "color_temp" \in LightArguments(d, e.class)}}
    BY <1>1, <1>2 DEF CallsOf, Lights
  <2>2. CASE call = ServiceOf(s)
    BY <1>1, <1>2, <2>2 DEF Proper, Callable, Given, ServiceOf, Valuing
  <2>3. CASE \E b \in {b \in 1..255 : "brightness" \in LightArguments(d, e.class)} :
               call = [service |-> s, brightness |-> b]
    BY <1>1, <1>2, <2>3 DEF Proper, Callable, Given, Valuing
  <2>4. CASE \E k \in {k \in Kelvins : "color_temp" \in LightArguments(d, e.class)} :
               call = [service |-> s, color_temp |-> k]
    BY <1>1, <1>2, <2>4, ValuesAssumption DEF Proper, Callable, Given, Valuing
  <2> QED BY <2>1, <2>2, <2>3, <2>4
<1>3. CASE s = "TURN_ON" /\ e.class = "BondFan"
  <2>1. call \in {ServiceOf(s)}
         \cup {[service |-> s, percentage |-> p] : p \in Samples}
         \cup {[service |-> s, preset_mode |-> 1] : p \in {1} \cap {x \in {1} : has_action(d, "BreezeOn")}}
    BY <1>1, <1>3 DEF CallsOf, Lights
  <2>2. CASE call = ServiceOf(s)
    BY <1>1, <1>3, <2>2 DEF Proper, Callable, Given, ServiceOf, Valuing
  <2>3. CASE \E p \in Samples : call = [service |-> s, percentage |-> p]
    BY <1>1, <1>3, <2>3, ValuesAssumption DEF Proper, Callable, Given, Valuing
  <2>4. CASE call = [service |-> s, preset_mode |-> 1] /\ has_action(d, "BreezeOn")
    BY <1>1, <1>3, <2>4 DEF Proper, Callable, Given, Valuing
  <2> QED BY <2>1, <2>2, <2>3, <2>4
<1>4. ASSUME NEW v, call = Valued(s, v), s \in Valuing,
             s \in {"SET_SPEED", "SET_POSITION", "SET_TILT_POSITION", "speed_belief"}
               => v \in 0..100,
             s = "set_value" => v \in 0..1000,
             s = "brightness_belief" => v \in 0..255,
             s = "power_belief" => v \in {0, 1}
      PROVE  Proper(d, e, call)
  BY <1>1, <1>4 DEF Proper, Callable, Given, Valued, Valuing
<1>5. CASE s \in {"SET_SPEED", "SET_TILT_POSITION"}
  <2>1. PICK v \in 0..100 : call = Valued(s, v)
    BY <1>1, <1>5 DEF CallsOf
  <2> QED BY <1>4, <1>5, <2>1 DEF Valuing
<1>6. CASE s \in {"SET_POSITION", "speed_belief"}
  <2>1. PICK v \in Samples : call = Valued(s, v)
    BY <1>1, <1>6 DEF CallsOf
  <2> QED BY <1>4, <1>6, <2>1, ValuesAssumption DEF Valuing
<1>7. CASE s = "brightness_belief"
  <2>1. PICK v \in Samples \cup {255} : call = Valued(s, v)
    BY <1>1, <1>7 DEF CallsOf
  <2>2. v \in 0..255
    BY <2>1, ValuesAssumption
  <2> QED BY <1>4, <1>7, <2>1, <2>2 DEF Valuing
<1>8. CASE s = "power_belief"
  <2>1. PICK v \in {0, 1} : call = Valued(s, v)
    BY <1>1, <1>8 DEF CallsOf
  <2> QED BY <1>4, <1>8, <2>1 DEF Valuing
<1>9. CASE s = "DIRECTION"
  <2>1. PICK v \in {1, -1} : call = Valued(s, v)
    BY <1>1, <1>9 DEF CallsOf
  <2> QED BY <1>4, <1>9, <2>1 DEF Valuing
<1>10. CASE s \notin Valuing /\ ~(s = "TURN_ON" /\ e.class \in Lights \cup {"BondFan"})
  <2>1. call = ServiceOf(s)
    BY <1>1, <1>10 DEF CallsOf, Valuing
  <2> QED BY <1>1, <1>10, <2>1 DEF Proper, Callable, Given, ServiceOf, Valuing
<1>11. CASE s = "set_value"
  <2>1. PICK v \in {10 * p : p \in Samples} \cup Tenths : call = Valued(s, v)
    BY <1>1, <1>11 DEF CallsOf
  <2>2. v \in 0..1000
    BY <2>1, SampleRange, TenthRange
  <2> QED BY <1>4, <1>11, <2>1, <2>2 DEF Valuing
<1> QED BY <1>2, <1>3, <1>5, <1>6, <1>7, <1>8, <1>9, <1>10, <1>11 DEF Valuing

LEMMA RemoteOK ==
  ASSUME NEW d \in Devices, NEW e \in Entities(d), NEW st, StateOK(d, e.class, st),
         NEW set \in RemoteSets(d, e)
  PROVE  StateOK(d, e.class, Updated(st, set))
<1> DEFINE c == e.class
<1>1. CASE set \in [power : {0, 1}] \cup [light : {0, 1}]
  <2>1. \A k \in DOMAIN set : Fine(d, c, k, set[k])
    BY <1>1 DEF Fine
  <2> QED BY <2>1, UpdatedOK
<1>2. CASE c = "BondLight" /\ set \in [brightness : 0..100]
  <2>1. Fine(d, c, "brightness", set.brightness) /\ DOMAIN set = {"brightness"}
    BY <1>2 DEF Fine
  <2> QED BY <2>1, UpdatedOK
<1>3. CASE c = "BondLight" /\ set \in [color_temp : Kelvins]
  <2>1. Fine(d, c, "color_temp", set.color_temp) /\ DOMAIN set = {"color_temp"}
    BY <1>3, ValuesAssumption DEF Fine
  <2> QED BY <2>1, UpdatedOK
<1>4. CASE set \in [flame : Samples \ {0}]
  <2>1. set.flame \in 1..100
    <3>1. set.flame \in Samples /\ set.flame # 0
      BY <1>4
    <3>2. set.flame \in 0..100
      BY <3>1, SampleRange
    <3> QED BY <3>1, <3>2
  <2>2. Fine(d, c, "flame", set.flame) /\ DOMAIN set = {"flame"}
    BY <1>4, <2>1 DEF Fine
  <2> QED BY <2>2, UpdatedOK
<1>5. CASE set \in [heat : Samples \ {0}]
  <2>1. set.heat \in 1..100
    <3>1. set.heat \in Samples /\ set.heat # 0
      BY <1>5
    <3>2. set.heat \in 0..100
      BY <3>1, SampleRange
    <3> QED BY <3>1, <3>2
  <2>2. Fine(d, c, "heat", set.heat) /\ DOMAIN set = {"heat"}
    BY <1>5, <2>1 DEF Fine
  <2> QED BY <2>2, UpdatedOK
<1>6. CASE set \in [speed : 1..d.props.max_speed \cup {n \in {Null} : d.group}]
  <2>1. set.speed \in 1..d.props.max_speed \/ set.speed = Null
    BY <1>6
  <2>2. Fine(d, c, "speed", set.speed) /\ DOMAIN set = {"speed"}
    BY <1>6, <2>1 DEF Fine
  <2> QED BY <2>2, UpdatedOK
<1>7. CASE has_action(d, "BreezeOn") /\ set \in [breeze : {0, 1} \cup {n \in {Null} : d.group}]
  <2>1. Fine(d, c, "breeze", set.breeze) /\ DOMAIN set = {"breeze"}
    BY <1>7 DEF Fine
  <2> QED BY <2>1, UpdatedOK
<1>8. CASE supports_set_position(d) /\ set \in [position : Samples]
  <2>1. set.position \in 0..100
    BY <1>8, SampleRange
  <2>2. Fine(d, c, "position", set.position) /\ DOMAIN set = {"position"}
    BY <1>8, <2>1 DEF Fine
  <2> QED BY <2>2, UpdatedOK
<1>9. CASE supports_set_tilt_position(d)
           /\ set \in [tilt_position : TiltRange(d.props)[1]..TiltRange(d.props)[2]]
  <2>1. Fine(d, c, "tilt_position", set.tilt_position) /\ DOMAIN set = {"tilt_position"}
    BY <1>9 DEF Fine
  <2> QED BY <2>1, UpdatedOK
<1>10. \/ set \in [power : {0, 1}] \cup [light : {0, 1}]
       \/ c = "BondLight" /\ set \in [brightness : 0..100]
       \/ c = "BondLight" /\ set \in [color_temp : Kelvins]
       \/ set \in [flame : Samples \ {0}] \/ set \in [heat : Samples \ {0}]
       \/ set \in [speed : 1..d.props.max_speed \cup {n \in {Null} : d.group}]
       \/ has_action(d, "BreezeOn") /\ set \in [breeze : {0, 1} \cup {n \in {Null} : d.group}]
       \/ supports_set_position(d) /\ set \in [position : Samples]
       \/ supports_set_tilt_position(d)
          /\ set \in [tilt_position : TiltRange(d.props)[1]..TiltRange(d.props)[2]]
  BY Zenon DEF RemoteSets
<1> QED BY <1>1, <1>2, <1>3, <1>4, <1>5, <1>6, <1>7, <1>8, <1>9, <1>10

(* What an automation sets again is a call like any other. *)
ShownArguments(d, e, st) ==
  {a \in LightArguments(d, e.class) : ShownLight(e.class, st)[a] # Null}

LEMMA LevelShown ==
  ASSUME NEW d, NEW c, NEW st, StateOK(d, c, st), NEW k \in {"brightness", "flame"}, Truthy(st, k)
  PROVE  /\ st[k] \in 1..100 /\ HassBrightness(st[k]) \in 3..255
         /\ BondBrightness(HassBrightness(st[k])) = st[k]
<1>1. Fine(d, c, k, st[k]) /\ st[k] # 0
  BY DEF StateOK, Truthy, Given
<1>2. st[k] \in 1..100
  <2>1. k = "brightness" => st[k] \in 0..100
    BY <1>1 DEF Fine
  <2>2. k = "flame" => st[k] \in 0..100
    BY <1>1 DEF Fine
  <2> QED BY <1>1, <2>1, <2>2
<1> QED BY <1>2, BrightnessSettles

LEMMA ColorShown ==
  ASSUME NEW d, NEW c, NEW st, StateOK(d, c, st), Truthy(st, "color_temp")
  PROVE  /\ st.color_temp \in Nat /\ RoundKelvin(st.color_temp) \in Nat
         /\ RoundKelvin(st.color_temp) >= 100
         /\ RoundKelvin(RoundKelvin(st.color_temp)) = RoundKelvin(st.color_temp)
<1>1. st.color_temp \in Nat /\ st.color_temp >= 100
  BY DEF StateOK, Truthy, Given, Fine
<1> QED BY <1>1, Kelvin

LEMMA LightAgain ==
  ASSUME NEW d \in Devices, NEW e \in Entities(d), e.class \in Lights,
         NEW st, StateOK(d, e.class, st), NEW call \in Again(d, e, st)
  PROVE  /\ ~ShownLight(e.class, st).is_on => call = ServiceOf("TURN_OFF")
         /\ ShownLight(e.class, st).is_on =>
              /\ call.service = "TURN_ON"
              /\ DOMAIN call = {"service"} \cup ShownArguments(d, e, st)
              /\ Given(call, "brightness") =>
                   /\ "brightness" \in LightArguments(d, e.class)
                   /\ call.brightness = ShownLight(e.class, st).brightness
              /\ Given(call, "color_temp") =>
                   /\ "color_temp" \in LightArguments(d, e.class)
                   /\ call.color_temp = ShownLight(e.class, st).color_temp
<1> DEFINE shown == ShownLight(e.class, st)
           args == ShownArguments(d, e, st)
<1>1. CASE ~shown.is_on
  BY <1>1 DEF Again, Lights
<1>2. CASE shown.is_on
  <2>1. call = [a \in {"service"} \cup args |-> IF a = "service" THEN "TURN_ON" ELSE shown[a]]
    BY <1>2 DEF Again, Lights, ShownArguments
  <2>2. \A a \in args : a \in LightArguments(d, e.class)
    BY DEF ShownArguments
  <2>3. call.service = "TURN_ON" /\ DOMAIN call = {"service"} \cup args
    BY <2>1
  <2>4. Given(call, "brightness") =>
          "brightness" \in LightArguments(d, e.class) /\ call.brightness = shown.brightness
    BY <2>1, <2>2 DEF Given
  <2>5. Given(call, "color_temp") =>
          "color_temp" \in LightArguments(d, e.class) /\ call.color_temp = shown.color_temp
    BY <2>1, <2>2 DEF Given
  <2> QED BY <1>2, <2>3, <2>4, <2>5
<1> QED BY <1>1, <1>2

LEMMA ShownValues ==
  ASSUME NEW d \in Devices, NEW c, NEW st, StateOK(d, c, st)
  PROVE  /\ ShownLight(c, st).brightness # Null => ShownLight(c, st).brightness \in 3..255
         /\ ShownLight(c, st).color_temp # Null =>
              ShownLight(c, st).color_temp \in Nat /\ ShownLight(c, st).color_temp >= 100
         /\ ShownFan(d, st).percentage \in 0..100
         /\ ShownFan(d, st).breeze => has_action(d, "BreezeOn")
<1>1. ShownLight(c, st).brightness # Null => ShownLight(c, st).brightness \in 3..255
  BY LevelShown DEF ShownLight
<1>2. ShownLight(c, st).color_temp # Null =>
        ShownLight(c, st).color_temp \in Nat /\ ShownLight(c, st).color_temp >= 100
  BY ColorShown DEF ShownLight
<1>3. ShownFan(d, st).percentage \in 0..100
  <2>1. CASE Truthy(st, "speed") /\ Truthy(st, "power")
    <3>1. st.speed \in 1..d.props.max_speed
      BY <2>1 DEF StateOK, Truthy, Given, Fine
    <3>2. HassSpeed(d.props, st.speed) \in 0..100
      BY <3>1, DevicesAssumption, PercentBound
    <3> QED BY <2>1, <3>2 DEF ShownFan
  <2>2. CASE ~(Truthy(st, "speed") /\ Truthy(st, "power"))
    BY <2>2 DEF ShownFan
  <2> QED BY <2>1, <2>2
<1>4. ShownFan(d, st).breeze => has_action(d, "BreezeOn")
  BY DEF ShownFan, StateOK, Truthy, Given, Fine
<1> QED BY <1>1, <1>2, <1>3, <1>4

LEMMA AgainProper ==
  ASSUME NEW d \in Devices, NEW e \in Entities(d), NEW st, StateOK(d, e.class, st),
         NEW call \in Again(d, e, st)
  PROVE  /\ Proper(d, e, call)
         /\ e.class \in Lights => Amount(call) # 1
         /\ call.service \notin {"power_belief", "brightness_belief", "speed_belief"}
         /\ ~Given(call, "percentage")
<1>1. CASE e.class \in Lights /\ ~ShownLight(e.class, st).is_on
  <2>1. call = ServiceOf("TURN_OFF")
    BY <1>1, LightAgain
  <2> QED BY <1>1, <2>1
          DEF Proper, Callable, Offered, Lights, Given, ServiceOf, Valuing, Amount, Null
<1>2. CASE e.class \in Lights /\ ShownLight(e.class, st).is_on
  <2>1. /\ call.service = "TURN_ON" /\ DOMAIN call = {"service"} \cup ShownArguments(d, e, st)
        /\ Given(call, "brightness") =>
             /\ "brightness" \in LightArguments(d, e.class)
             /\ call.brightness = ShownLight(e.class, st).brightness
        /\ Given(call, "color_temp") =>
             /\ "color_temp" \in LightArguments(d, e.class)
             /\ call.color_temp = ShownLight(e.class, st).color_temp
    BY <1>2, LightAgain
  <2>2. ShownArguments(d, e, st) \subseteq {"brightness", "color_temp"}
    BY DEF ShownArguments, LightArguments
  <2>3. ~Given(call, "percentage") /\ ~Given(call, "preset_mode") /\ ~Given(call, "value")
    BY <2>1, <2>2 DEF Given
  <2>4. Given(call, "brightness") => call.brightness \in 3..255
    <3>1. Given(call, "brightness") => ShownLight(e.class, st).brightness # Null
      BY <2>1 DEF Given, ShownArguments
    <3> QED BY <2>1, <3>1, ShownValues
  <2>5. Given(call, "color_temp") => call.color_temp \in Nat /\ call.color_temp >= 100
    <3>1. Given(call, "color_temp") => ShownLight(e.class, st).color_temp # Null
      BY <2>1 DEF Given, ShownArguments
    <3> QED BY <2>1, <3>1, ShownValues
  <2>6. "TURN_ON" \in Offered(d, e)
    BY <1>2 DEF Offered, Lights
  <2>7. Amount(call) # 1
    BY <2>3, <2>4 DEF Amount, Null
  <2> QED BY <1>2, <2>1, <2>3, <2>4, <2>5, <2>6, <2>7 DEF Proper, Callable, Valuing
<1>3. CASE e.class = "BondFan" /\ ShownFan(d, st).breeze
  <2>1. call = [service |-> "TURN_ON", preset_mode |-> 1]
    BY <1>3 DEF Again, Lights
  <2>2. has_action(d, "BreezeOn")
    BY <1>3, ShownValues
  <2> QED BY <1>3, <2>1, <2>2 DEF Proper, Callable, Offered, Lights, FanFeatures, Given, Valuing
<1>4. CASE e.class = "BondFan" /\ ~ShownFan(d, st).breeze /\ supports_speed(d)
  <2> DEFINE p == ShownFan(d, st).percentage
  <2>1. call = Valued("SET_SPEED", p)
    BY <1>4 DEF Again, Lights
  <2>2. p \in 0..100
    BY ShownValues
  <2> HIDE DEF p
  <2> QED BY <1>4, <2>1, <2>2
          DEF Proper, Callable, Offered, Lights, FanFeatures, Given, Valuing, Valued
<1>5. CASE e.class = "BondCover"
  <2>1. \/ \E p \in {ShownCover(d, st).position} \ {Null} : call = Valued("SET_POSITION", p)
        \/ \E p \in {ShownCover(d, st).tilt} \ {Null} : call = Valued("SET_TILT_POSITION", p)
    BY <1>5 DEF Again, Lights
  <2>2. CASE \E p \in {ShownCover(d, st).position} \ {Null} : call = Valued("SET_POSITION", p)
    <3>1. /\ st.position \in 0..100 /\ supports_set_position(d)
          /\ call = Valued("SET_POSITION", 100 - st.position)
      BY <2>2 DEF ShownCover, StateOK, Given, Fine, HassPosition
    <3> QED BY <1>5, <3>1
            DEF Proper, Callable, Offered, Lights, CoverFeatures, Given, Valuing, Valued
  <2>3. CASE \E p \in {ShownCover(d, st).tilt} \ {Null} : call = Valued("SET_TILT_POSITION", p)
    <3>1. /\ st.tilt_position \in TiltRange(d.props)[1]..TiltRange(d.props)[2]
          /\ supports_set_tilt_position(d)
          /\ call = Valued("SET_TILT_POSITION", HassTilt(d.props, st.tilt_position))
      BY <2>3 DEF ShownCover, StateOK, Given, Fine
    <3>2. HassTilt(d.props, st.tilt_position) \in 0..100
      BY <3>1, HassTiltBound, DevicesAssumption DEF Tilting
    <3> QED BY <1>5, <3>1, <3>2
            DEF Proper, Callable, Offered, Lights, CoverFeatures, Given, Valuing, Valued
  <2> QED BY <2>1, <2>2, <2>3
<1>6. CASE e.class = "BondFlameNumber"
  <2>1. PICK v \in {ShownFlame(st)} \ {Null} : call = Valued("set_value", 10 * v)
    BY <1>6 DEF Again, Lights
  <2>2. v \in 0..100
    BY <1>6, <2>1 DEF ShownFlame, StateOK, Given, Fine
  <2> QED BY <1>6, <2>1, <2>2 DEF Proper, Callable, Offered, Lights, Given, Valuing, Valued
<1>7. CASE e.class = "BondHeatNumber"
  <2>1. PICK v \in {ShownHeat(st)} \ {Null} : call = Valued("set_value", 10 * v)
    BY <1>7 DEF Again, Lights
  <2>2. v \in 0..100
    BY <1>7, <2>1 DEF ShownHeat, StateOK, Given, Fine
  <2> QED BY <1>7, <2>1, <2>2 DEF Proper, Callable, Offered, Lights, Given, Valuing, Valued
<1>8. CASE /\ e.class \notin Lights \cup {"BondCover", "BondFlameNumber", "BondHeatNumber"}
           /\ ~(e.class = "BondFan" /\ (ShownFan(d, st).breeze \/ supports_speed(d)))
  BY <1>8 DEF Again
<1> QED BY <1>1, <1>2, <1>3, <1>4, <1>5, <1>6, <1>7, <1>8 DEF Lights

(***************************************************************************)
(* What is sent.                                                           *)
(***************************************************************************)
SentSuits == \A r \in Elements(sent) : Suits(device, entity.class, asked, r)
RInv ==
  /\ device \in Devices /\ entity \in Entities(device)
  /\ StateOK(device, entity.class, state)
  /\ SentSuits

LEMMA RInit == Init => RInv
<1> SUFFICES ASSUME Init PROVE RInv
  OBVIOUS
<1>1. device \in Devices /\ entity \in Entities(device) /\ sent = <<>>
  BY DEF Init
<1>2. SentSuits
  BY <1>1, ElementsOfNone DEF SentSuits
<1>3. StateOK(device, entity.class, state)
  <2>1. CASE entity.class = "BondFan" /\ supports_speed(device)
    <3>1. state = [power |-> 0, light |-> 0, speed |-> 1]
      BY <2>1 DEF Init
    <3>2. 1 \in 1..device.props.max_speed
      BY <1>1, DevicesAssumption
    <3> QED BY <3>1, <3>2 DEF StateOK, IsFunction, Fine
  <2>2. CASE ~(entity.class = "BondFan" /\ supports_speed(device))
    <3>1. state = [power |-> 0, light |-> 0]
      BY <2>2 DEF Init
    <3> QED BY <2>2, <3>1 DEF StateOK, IsFunction, Fine
  <2> QED BY <2>1, <2>2
<1> QED BY <1>1, <1>2, <1>3 DEF RInv

LEMMA RunOK ==
  ASSUME RInv, NEW call, Proper(device, entity, call)
  PROVE  LET rs == Requests(device, entity, call, Breeze(device, entity, state))
         IN /\ StateOK(device, entity.class, Run(state, rs))
            /\ \A r \in Elements(rs) : Suits(device, entity.class, call, r)
<1> DEFINE rs == Requests(device, entity, call, Breeze(device, entity, state))
<1>1. Breeze(device, entity, state) \in BOOLEAN
  BY DEF Breeze
<1>2. device \in Devices /\ entity \in Entities(device) /\ StateOK(device, entity.class, state)
  BY DEF RInv
<1>3. \A r \in Elements(rs) : Suits(device, entity.class, call, r)
  BY <1>1, <1>2, RequestsSuit
<1>4. Short(rs)
  BY <1>1, <1>2, RequestsShort DEF Proper
<1> HIDE DEF rs
<1>5. StateOK(device, entity.class, Final(state, rs))
  BY <1>2, <1>3, <1>4, FinalOK
<1>6. StateOK(device, entity.class, Run(state, rs))
  BY <1>2, <1>5 DEF Run
<1> QED BY <1>3, <1>6 DEF rs

(* A call with one of Echo's values: a brightness of 1 is never shown. *)
LEMMA EchoSuits ==
  ASSUME NEW d, NEW c, NEW call, c \in Lights => Amount(call) # 1,
         call.service \notin {"power_belief", "brightness_belief", "speed_belief"},
         ~Given(call, "percentage"), NEW r, Suits(d, c, call, r)
  PROVE  Suits(d, c, NoCall, r) /\ ~IsBelief(r)
BY DEF Suits, Fit, Believed, Listed, Unlisted

LEMMA RNext == RInv /\ [Next]_vars => RInv'
<1> SUFFICES ASSUME RInv, [Next]_vars PROVE RInv'
  OBVIOUS
<1>1. device \in Devices /\ entity \in Entities(device) /\ StateOK(device, entity.class, state)
  BY DEF RInv
<1>2. CASE Call
  <2>1. PICK call \in Calls(device, entity) :
          /\ asked' = call
          /\ sent' = Requests(device, entity, call, Breeze(device, entity, state))
    BY <1>2 DEF Call
  <2>2. device' = device /\ entity' = entity /\ state' = Run(state, sent')
    BY <1>2 DEF Call
  <2>3. Proper(device, entity, call)
    BY <1>1, CallsProper
  <2>4. /\ StateOK(device, entity.class, state')
        /\ \A r \in Elements(sent') : Suits(device, entity.class, call, r)
    BY <2>1, <2>2, <2>3, RunOK
  <2> QED BY <1>1, <2>1, <2>2, <2>4 DEF RInv, SentSuits, Elements
<1>3. CASE Remote
  <2>1. PICK set \in RemoteSets(device, entity) : state' = Updated(state, set)
    BY <1>3 DEF Remote
  <2>2. device' = device /\ entity' = entity /\ sent' = <<>>
    BY <1>3 DEF Remote
  <2>3. StateOK(device, entity.class, state')
    BY <1>1, <2>1, RemoteOK
  <2>4. SentSuits'
    BY <2>2 DEF SentSuits, Elements
  <2> QED BY <1>1, <2>2, <2>3, <2>4 DEF RInv
<1>4. CASE Echo
  <2>1. PICK call \in Again(device, entity, state) :
          sent' = Requests(device, entity, call, Breeze(device, entity, state))
    BY <1>4 DEF Echo
  <2>2. device' = device /\ entity' = entity /\ state' = Run(state, sent') /\ asked' = NoCall
    BY <1>4 DEF Echo
  <2>3. /\ Proper(device, entity, call) /\ (entity.class \in Lights => Amount(call) # 1)
        /\ call.service \notin {"power_belief", "brightness_belief", "speed_belief"}
        /\ ~Given(call, "percentage")
    BY <1>1, AgainProper
  <2>4. /\ StateOK(device, entity.class, state')
        /\ \A r \in Elements(sent') : Suits(device, entity.class, call, r)
    BY <2>1, <2>2, <2>3, RunOK
  <2>5. \A r \in Elements(sent') : Suits(device, entity.class, NoCall, r)
    BY <2>3, <2>4, EchoSuits
  <2> QED BY <1>1, <2>2, <2>4, <2>5 DEF RInv, SentSuits, Elements
<1>5. CASE UNCHANGED vars
  BY <1>5 DEF vars, RInv, SentSuits, Elements
<1> QED BY <1>2, <1>3, <1>4, <1>5 DEF Next

LEMMA RInvHolds == Spec => []RInv
<1> QED BY RInit, RNext, PTL DEF Spec

(* Whatever an entity offers, of whatever device, only sends actions the   *)
(* device lists or is presumed to have (utils.py:111-135), save the speed  *)
(* of a fan turned on with a percentage (fan.py:156-170).                  *)
THEOREM OfferedTheorem == Spec => []OfferedIsListed
<1>1. RInv => OfferedIsListed
  BY DEF RInv, SentSuits, OfferedIsListed, Suits, Listed, Elements
<1> QED BY <1>1, RInvHolds, PTL

(* And carries what the bridge takes, through every rounding (action.py:187,*)
(* 222, 252; light.py:167).                                                *)
THEOREM RangeTheorem == Spec => []InBridgeRange
<1>1. RInv => InBridgeRange
  BY DEF RInv, SentSuits, InBridgeRange, Suits, Fit, Elements
<1> QED BY <1>1, RInvHolds, PTL

(***************************************************************************)
(* Setting what is shown.                                                  *)
(***************************************************************************)
LEMMA UpdatedSame ==
  ASSUME NEW st, IsFunction(st), NEW set, DOMAIN set \subseteq DOMAIN st,
         \A k \in DOMAIN set : set[k] = st[k]
  PROVE  Updated(st, set) = st
BY DEF IsFunction, Updated

(* A light that is on shows a colour temperature. *)
ColorEchoes(d, e, st) ==
  /\ e.class = "BondLight" /\ st.light = 1
  /\ "color_temp" \in LightArguments(d, e.class) /\ Truthy(st, "color_temp")

(* What an echo of an entity of class e.class makes of the device. *)
LEMMA LightEcho ==
  ASSUME NEW d \in Devices, NEW e \in Entities(d), e.class \in Lights,
         NEW st, StateOK(d, e.class, st), NEW call \in Again(d, e, st), NEW breeze
  PROVE  LET new == Final(st, Requests(d, e, call, breeze))
         IN new = IF ColorEchoes(d, e, st)
                  THEN Updated(st, [light |-> 1, color_temp |-> RoundKelvin(st.color_temp)])
                  ELSE st
<1> DEFINE c == e.class
           new == Final(st, Requests(d, e, call, breeze))
           shown == ShownLight(c, st)
<1>1. /\ IsFunction(st) /\ {"power", "light"} \subseteq DOMAIN st
      /\ st.power \in {0, 1} /\ st.light \in {0, 1} /\ "up_light" \notin DOMAIN st
      /\ "down_light" \notin DOMAIN st
  BY DEF StateOK, Fine
<1>2. Requests(d, e, call, breeze) = LightRequests(d, c, call)
  BY DEF Requests, Lights
<1>3. CASE ~shown.is_on
  <2>1. call = ServiceOf("TURN_OFF")
    BY <1>3, LightAgain
  <2>2. LightRequests(d, c, call) = <<Action(OffAction(c))>>
    BY <2>1 DEF LightRequests, ServiceOf, turn_off
  <2>3. new = Effect(st, Action(OffAction(c)))
    BY <1>2, <2>2, FinalOne
  <2>4. CASE c = "BondLight"
    <3>1. st.light = 0
      BY <1>1, <1>3, <2>4 DEF ShownLight
    <3>2. new = Updated(st, [light |-> 0])
      BY <2>3, <2>4 DEF Effect, Action, OffAction
    <3>3. new = st
      BY <1>1, <3>1, <3>2, UpdatedSame
    <3> QED BY <3>1, <3>3 DEF ColorEchoes
  <2>5. CASE c = "BondFireplace"
    <3>1. st.power = 0
      BY <1>1, <1>3, <2>5 DEF ShownLight
    <3>2. new = Updated(st, [power |-> 0])
      BY <2>3, <2>5 DEF Effect, Action, OffAction
    <3>3. new = st
      BY <1>1, <3>1, <3>2, UpdatedSame
    <3> QED BY <2>5, <3>3 DEF ColorEchoes
  <2>6. CASE c \in {"BondUpLight", "BondDownLight"}
    <3>1. new = st
      BY <2>3, <2>6 DEF Effect, Action, OffAction
    <3> QED BY <2>6, <3>1 DEF ColorEchoes
  <2> QED BY <2>4, <2>5, <2>6 DEF Lights
<1>4. CASE shown.is_on
  <2>1. /\ call.service = "TURN_ON"
        /\ DOMAIN call = {"service"} \cup ShownArguments(d, e, st)
        /\ Given(call, "brightness") => call.brightness = shown.brightness
        /\ Given(call, "color_temp") => call.color_temp = shown.color_temp
    BY <1>4, LightAgain
  <2>2. c \in {"BondLight", "BondFireplace"}
    BY <1>1, <1>4 DEF ShownLight, Truthy, Given, Lights
  <2>3. LightRequests(d, c, call) = turn_on(c, call)
    BY <2>1 DEF LightRequests
  <2>4. /\ Given(call, "brightness") <=> "brightness" \in ShownArguments(d, e, st)
        /\ Given(call, "color_temp") <=> "color_temp" \in ShownArguments(d, e, st)
    BY <2>1 DEF Given
  <2>5. new = Final(st, turn_on(c, call))
    BY <1>2, <2>3
  <2>6. CASE c = "BondLight"
    <3> DEFINE b == ActionOf("SetBrightness", BondBrightness(call.brightness))
               k == ActionOf("SetColorTemp", RoundKelvin(call.color_temp))
               kelvin == RoundKelvin(st.color_temp)
    <3>1. st.light = 1
      BY <1>4, <2>6 DEF ShownLight
    <3>2. Given(call, "brightness") =>
            /\ call.brightness \in 1..255 /\ "brightness" \in DOMAIN st
            /\ Effect(st, b) = st
      <4> SUFFICES ASSUME Given(call, "brightness")
                   PROVE  /\ call.brightness \in 1..255 /\ "brightness" \in DOMAIN st
                          /\ Effect(st, b) = st
        OBVIOUS
      <4>1. Truthy(st, "brightness") /\ call.brightness = HassBrightness(st.brightness)
        BY <2>1, <2>4, <2>6 DEF ShownArguments, ShownLight
      <4>2. call.brightness \in 3..255 /\ BondBrightness(call.brightness) = st.brightness
        BY <4>1, LevelShown
      <4>3. Effect(st, b) = Updated(st, [light |-> 1, brightness |-> st.brightness])
        BY <4>2 DEF Effect, ActionOf
      <4>4. "brightness" \in DOMAIN st
        BY <4>1 DEF Truthy, Given
      <4>5. Updated(st, [light |-> 1, brightness |-> st.brightness]) = st
        BY <1>1, <3>1, <4>4, UpdatedSame
      <4> QED BY <4>2, <4>3, <4>4, <4>5
    <3>3. Given(call, "color_temp") =>
            /\ call.color_temp \in Nat \ {0} /\ Truthy(st, "color_temp")
            /\ "color_temp" \in LightArguments(d, e.class)
            /\ Effect(st, k) = Updated(st, [light |-> 1, color_temp |-> kelvin])
      <4> SUFFICES ASSUME Given(call, "color_temp")
                   PROVE  /\ call.color_temp \in Nat \ {0} /\ Truthy(st, "color_temp")
                          /\ "color_temp" \in LightArguments(d, e.class)
                          /\ Effect(st, k) = Updated(st, [light |-> 1, color_temp |-> kelvin])
        OBVIOUS
      <4>1. /\ Truthy(st, "color_temp") /\ call.color_temp = kelvin
            /\ "color_temp" \in LightArguments(d, e.class)
        BY <2>1, <2>4, <2>6 DEF ShownArguments, ShownLight
      <4>2. call.color_temp \in Nat \ {0} /\ RoundKelvin(call.color_temp) = kelvin
        BY <4>1, ColorShown
      <4>3. Effect(st, k) = Updated(st, [light |-> 1, color_temp |-> kelvin])
        BY <4>2 DEF Effect, ActionOf
      <4> QED BY <4>1, <4>2, <4>3
    <3>4. turn_on("BondLight", call) =
            IF Given(call, "brightness")
            THEN IF Given(call, "color_temp") THEN <<b, k>> ELSE <<b>>
            ELSE IF Given(call, "color_temp") THEN <<k>> ELSE <<Action("TurnLightOn")>>
      BY <3>2, <3>3, TurnOnCases
    <3>5. Effect(st, Action("TurnLightOn")) = st
      <4>1. Effect(st, Action("TurnLightOn")) = Updated(st, [light |-> 1])
        BY DEF Effect, Action
      <4> QED BY <1>1, <3>1, <4>1, UpdatedSame
    <3>10. ColorEchoes(d, e, st) <=> Given(call, "color_temp")
      <4>1. Given(call, "color_temp") => ColorEchoes(d, e, st)
        BY <2>6, <3>1, <3>3 DEF ColorEchoes
      <4>2. ASSUME ColorEchoes(d, e, st) PROVE "color_temp" \in ShownArguments(d, e, st)
        <5>1. shown.color_temp = kelvin
          BY <2>6, <4>2 DEF ColorEchoes, ShownLight
        <5>2. kelvin # Null
          BY <4>2, ColorShown DEF ColorEchoes, Null
        <5>3. "color_temp" \in LightArguments(d, e.class)
          BY <4>2 DEF ColorEchoes
        <5> HIDE DEF shown, kelvin
        <5> QED BY <5>1, <5>2, <5>3 DEF ShownArguments, shown
      <4> QED BY <2>4, <4>1, <4>2
    <3> HIDE DEF b, k, kelvin, new
    <3>6. CASE Given(call, "brightness") /\ Given(call, "color_temp")
      <4>1. new = Effect(Effect(st, b), k)
        BY <2>5, <2>6, <3>4, <3>6, FinalTwo
      <4> QED BY <3>2, <3>3, <3>6, <3>10, <4>1 DEF kelvin, new
    <3>7. CASE Given(call, "brightness") /\ ~Given(call, "color_temp")
      <4>1. new = Effect(st, b)
        BY <2>5, <2>6, <3>4, <3>7, FinalOne
      <4> QED BY <3>2, <3>7, <3>10, <4>1 DEF new
    <3>8. CASE ~Given(call, "brightness") /\ Given(call, "color_temp")
      <4>1. new = Effect(st, k)
        BY <2>5, <2>6, <3>4, <3>8, FinalOne
      <4> QED BY <3>3, <3>8, <3>10, <4>1 DEF kelvin, new
    <3>9. CASE ~Given(call, "brightness") /\ ~Given(call, "color_temp")
      <4>1. new = Effect(st, Action("TurnLightOn"))
        BY <2>5, <2>6, <3>4, <3>9, FinalOne
      <4> QED BY <3>5, <3>9, <3>10, <4>1 DEF new
    <3> QED BY <3>6, <3>7, <3>8, <3>9
  <2>7. CASE c = "BondFireplace"
    <3> DEFINE f == ActionOf("SetFlame", BondBrightness(call.brightness))
    <3>1. st.power = 1
      BY <1>4, <2>7 DEF ShownLight
    <3>2. turn_on(c, call) =
            IF Truthy(call, "brightness") THEN <<f>> ELSE <<Action("TurnOn")>>
      BY <2>7, Joined DEF turn_on, OnAction
    <3>3. CASE Truthy(call, "brightness")
      <4>1. Truthy(st, "flame") /\ call.brightness = HassBrightness(st.flame)
        BY <2>1, <2>4, <2>7, <3>3 DEF ShownArguments, ShownLight, Truthy
      <4>2. BondBrightness(call.brightness) = st.flame /\ "flame" \in DOMAIN st
        BY <4>1, LevelShown DEF Truthy, Given
      <4>3. Effect(st, f) = Updated(st, [power |-> 1, flame |-> st.flame])
        BY <4>2 DEF Effect, ActionOf
      <4>4. Effect(st, f) = st
        BY <1>1, <3>1, <4>2, <4>3, UpdatedSame
      <4>5. new = Effect(st, f)
        <5> HIDE DEF f
        <5> QED BY <2>5, <3>2, <3>3, FinalOne
      <4> QED BY <2>7, <4>4, <4>5 DEF ColorEchoes
    <3>4. CASE ~Truthy(call, "brightness")
      <4>1. new = Effect(st, Action("TurnOn"))
        BY <2>5, <3>2, <3>4, FinalOne
      <4>2. Effect(st, Action("TurnOn")) = Updated(st, [power |-> 1])
        BY DEF Effect, Action
      <4>3. new = st
        BY <1>1, <3>1, <4>1, <4>2, UpdatedSame
      <4> QED BY <2>7, <4>3 DEF ColorEchoes
    <3> QED BY <3>3, <3>4
  <2> QED BY <2>2, <2>6, <2>7
<1> QED BY <1>3, <1>4

LEMMA FanEcho ==
  ASSUME NEW d \in Devices, NEW e \in Entities(d), e.class = "BondFan",
         NEW st, StateOK(d, e.class, st), NEW call \in Again(d, e, st)
  PROVE  LET new == Final(st, Requests(d, e, call, Breeze(d, e, st)))
             p == ShownFan(d, st).percentage
         IN IF Truthy(st, "breeze") THEN new = Updated(st, [power |-> 1, breeze |-> 1])
            ELSE /\ supports_speed(d)
                 /\ p = 0 => new = Updated(st, [power |-> 0])
                 /\ p # 0 => /\ p \in 1..100 /\ st.power = 1 /\ p = HassSpeed(d.props, st.speed)
                             /\ "speed" \in DOMAIN st /\ st.speed \in 1..d.props.max_speed
                             /\ new = Updated(st, [power |-> 1, speed |-> BondSpeed(d.props, p)])
<1> DEFINE rs == Requests(d, e, call, Breeze(d, e, st))
           new == Final(st, rs)
           p == ShownFan(d, st).percentage
<1>1. rs = FanRequests(d, call, Breeze(d, e, st))
  BY DEF Requests, Lights
<1>2. CASE Truthy(st, "breeze")
  <2>1. call = [service |-> "TURN_ON", preset_mode |-> 1]
    BY <1>2 DEF Again, Lights, ShownFan
  <2>2. rs = <<Action("BreezeOn")>>
    BY <1>1, <2>1 DEF FanRequests, Given
  <2>3. new = Effect(st, Action("BreezeOn"))
    BY <2>2, FinalOne
  <2> QED BY <1>2, <2>3 DEF Effect, Action
<1>3. CASE ~Truthy(st, "breeze")
  <2>1. supports_speed(d) /\ call = Valued("SET_SPEED", p)
    BY <1>3 DEF Again, Lights, ShownFan
  <2>2. Breeze(d, e, st) = FALSE
    BY <1>3 DEF Breeze
  <2>3. rs = set_percentage(d, p, FALSE)
    BY <1>1, <2>1, <2>2 DEF FanRequests, Valued
  <2>4. p \in 0..100
    BY ShownValues
  <2>5. CASE p = 0
    <3>1. rs = <<Action("TurnOff")>>
      BY <2>3, <2>5, Joined DEF set_percentage, FanTurnOff
    <3>2. new = Effect(st, Action("TurnOff"))
      BY <3>1, FinalOne
    <3>3. new = Updated(st, [power |-> 0])
      BY <3>2 DEF Effect, Action
    <3> QED BY <1>3, <2>1, <2>5, <3>3
  <2>6. CASE p # 0
    <3> DEFINE s == ActionOf("SetSpeed", BondSpeed(d.props, p))
    <3>1. rs = <<s>>
      BY <2>3, <2>6 DEF set_percentage
    <3>2. new = Effect(st, s)
      <4> HIDE DEF s
      <4> QED BY <3>1, FinalOne
    <3>3. new = Updated(st, [power |-> 1, speed |-> BondSpeed(d.props, p)])
      BY <3>2 DEF Effect, ActionOf
    <3>4. Truthy(st, "speed") /\ Truthy(st, "power")
      BY <2>6 DEF ShownFan
    <3>5. "speed" \in DOMAIN st /\ st.speed \in 1..d.props.max_speed /\ st.power = 1
      BY <3>4 DEF Truthy, Given, StateOK, Fine
    <3>6. HassSpeed(d.props, st.speed) \in 0..100
      BY <3>5, DevicesAssumption, PercentBound
    <3>7. p = HassSpeed(d.props, st.speed)
      BY <3>4, <3>6 DEF ShownFan
    <3>8. p \in 1..100
      BY <2>4, <2>6
    <3> HIDE DEF p, new
    <3> QED BY <1>3, <2>1, <2>6, <3>3, <3>5, <3>7, <3>8 DEF p, new
  <2> QED BY <2>5, <2>6
<1> QED BY <1>2, <1>3

LEMMA CoverEcho ==
  ASSUME NEW d \in Devices, NEW e \in Entities(d), e.class = "BondCover",
         NEW st, StateOK(d, e.class, st), NEW call \in Again(d, e, st), NEW breeze
  PROVE  LET new == Final(st, Requests(d, e, call, breeze))
         IN \/ call.service = "SET_POSITION" /\ new = st
            \/ /\ call.service = "SET_TILT_POSITION" /\ Given(st, "tilt_position")
               /\ st.tilt_position \in TiltRange(d.props)[1]..TiltRange(d.props)[2]
               /\ new = Updated(st, [tilt_position |->
                                       BondTilt(d.props, HassTilt(d.props, st.tilt_position))])
<1> DEFINE rs == Requests(d, e, call, breeze)
           new == Final(st, rs)
<1>1. rs = CoverRequests(d, call)
  BY DEF Requests, Lights
<1>2. \/ \E p \in {ShownCover(d, st).position} \ {Null} : call = Valued("SET_POSITION", p)
      \/ \E p \in {ShownCover(d, st).tilt} \ {Null} : call = Valued("SET_TILT_POSITION", p)
  BY DEF Again, Lights
<1>3. CASE \E p \in {ShownCover(d, st).position} \ {Null} : call = Valued("SET_POSITION", p)
  <2> DEFINE q == ActionOf("SetPosition", st.position)
  <2>1. /\ "position" \in DOMAIN st /\ st.position \in 0..100
        /\ call = Valued("SET_POSITION", 100 - st.position)
    BY <1>3 DEF ShownCover, StateOK, Given, Fine, HassPosition
  <2>2. BondPosition(100 - st.position) = st.position
    BY <2>1 DEF BondPosition
  <2>3. rs = <<q>>
    BY <1>1, <2>1, <2>2 DEF CoverRequests, Valued
  <2>4. new = Effect(st, q)
    <3> HIDE DEF q
    <3> QED BY <2>3, FinalOne
  <2>5. new = Updated(st, [position |-> st.position])
    BY <2>4 DEF Effect, ActionOf
  <2>6. new = st
    BY <2>1, <2>5, UpdatedSame DEF StateOK
  <2> QED BY <2>1, <2>6 DEF Valued
<1>4. CASE \E p \in {ShownCover(d, st).tilt} \ {Null} : call = Valued("SET_TILT_POSITION", p)
  <2> DEFINE h == HassTilt(d.props, st.tilt_position)
             q == ActionOf("SetTiltPosition", BondTilt(d.props, h))
  <2>1. /\ Given(st, "tilt_position")
        /\ st.tilt_position \in TiltRange(d.props)[1]..TiltRange(d.props)[2]
        /\ call = Valued("SET_TILT_POSITION", h)
    BY <1>4 DEF ShownCover, StateOK, Given, Fine
  <2>2. rs = <<q>>
    BY <1>1, <2>1 DEF CoverRequests, Valued
  <2>3. new = Effect(st, q)
    <3> HIDE DEF q
    <3> QED BY <2>2, FinalOne
  <2>4. new = Updated(st, [tilt_position |-> BondTilt(d.props, h)])
    BY <2>3 DEF Effect, ActionOf
  <2> QED BY <2>1, <2>4 DEF Valued
<1> QED BY <1>2, <1>3, <1>4

LEMMA NumberEcho ==
  ASSUME NEW d \in Devices, NEW e \in Entities(d),
         e.class \in {"BondFlameNumber", "BondHeatNumber"},
         NEW st, StateOK(d, e.class, st), NEW call \in Again(d, e, st), NEW breeze
  PROVE  LET new == Final(st, Requests(d, e, call, breeze))
         IN IF e.class = "BondFlameNumber"
            THEN Given(st, "flame") /\ new = Updated(st, [power |-> 1, flame |-> st.flame])
            ELSE new = st
<1> DEFINE rs == Requests(d, e, call, breeze)
           new == Final(st, rs)
<1>1. CASE e.class = "BondFlameNumber"
  <2> DEFINE q == ActionOf("SetFlame", st.flame)
  <2>1. PICK v \in {ShownFlame(st)} \ {Null} : call = Valued("set_value", 10 * v)
    BY <1>1 DEF Again, Lights
  <2>2. Given(st, "flame") /\ st.flame \in 1..100 /\ call.value = 10 * st.flame
    BY <1>1, <2>1 DEF ShownFlame, StateOK, Given, Fine, Lights, Valued
  <2>6. Round(call.value, 10) = st.flame
    BY <2>2, TenthsOfStep
  <2>3. rs = <<q>>
    BY <1>1, <2>2, <2>6 DEF Requests, Lights, FlameRequests
  <2>4. new = Effect(st, q)
    <3> HIDE DEF q
    <3> QED BY <2>3, FinalOne
  <2>5. new = Updated(st, [power |-> 1, flame |-> st.flame])
    BY <2>4 DEF Effect, ActionOf
  <2> QED BY <1>1, <2>2, <2>5
<1>2. CASE e.class = "BondHeatNumber"
  <2>1. PICK v \in {ShownHeat(st)} \ {Null} : call = Valued("set_value", 10 * v)
    BY <1>2 DEF Again, Lights
  <2>2. /\ IsFunction(st) /\ "power" \in DOMAIN st /\ st.power \in {0, 1}
        /\ Given(st, "heat") /\ st.heat \in 1..100
        /\ call.value = 10 * (IF st.power = 0 THEN 0 ELSE st.heat)
    BY <1>2, <2>1 DEF ShownHeat, StateOK, Given, Fine, Valued
  <2>6. Round(call.value, 10) = IF st.power = 0 THEN 0 ELSE st.heat
    BY <2>2, TenthsOfStep
  <2>3. rs = HeatRequests(call.value)
    BY <1>2 DEF Requests, Lights
  <2>4. CASE st.power = 0
    <3>1. rs = <<Action("TurnOff")>>
      BY <2>3, <2>4, <2>6 DEF HeatRequests
    <3>2. new = Effect(st, Action("TurnOff"))
      BY <3>1, FinalOne
    <3>3. new = Updated(st, [power |-> 0])
      BY <3>2 DEF Effect, Action
    <3>4. new = st
      BY <2>2, <2>4, <3>3, UpdatedSame
    <3> QED BY <1>2, <3>4
  <2>5. CASE st.power = 1
    <3> DEFINE q == ActionOf("SetHeat", st.heat)
    <3>1. rs = <<q>>
      BY <2>2, <2>3, <2>5, <2>6 DEF HeatRequests
    <3>2. new = Effect(st, q)
      <4> HIDE DEF q
      <4> QED BY <3>1, FinalOne
    <3>3. new = Updated(st, [power |-> 1, heat |-> st.heat])
      BY <3>2 DEF Effect, ActionOf
    <3>4. new = st
      BY <2>2, <2>5, <3>3, UpdatedSame DEF Given
    <3> QED BY <1>2, <3>4
  <2> QED BY <2>2, <2>4, <2>5
<1> QED BY <1>1, <1>2

LEMMA OnlyTheseEcho ==
  ASSUME NEW d, NEW e, NEW st, NEW call \in Again(d, e, st)
  PROVE  e.class \in Lights \cup {"BondFan", "BondCover", "BondFlameNumber", "BondHeatNumber"}
BY DEF Again

LEMMA UpdatedFields ==
  ASSUME NEW st, NEW set, NEW k, k \in DOMAIN st \cup DOMAIN set
  PROVE  Updated(st, set)[k] = IF k \in DOMAIN set THEN set[k] ELSE st[k]
BY DEF Updated

(* A step of Echo: one of the calls again, none of them a belief. *)
LEMMA EchoRuns ==
  ASSUME RInv, Echo
  PROVE  \E call \in Again(device, entity, state) :
           /\ echoed' = echoed \cup {call.service}
           /\ device' = device /\ entity' = entity
           /\ state' = Final(state, Requests(device, entity, call, Breeze(device, entity, state)))
<1>1. PICK call \in Again(device, entity, state) :
        /\ sent' = Requests(device, entity, call, Breeze(device, entity, state))
        /\ echoed' = echoed \cup {call.service}
  BY DEF Echo
<1>2. state' = Run(state, sent') /\ device' = device /\ entity' = entity
  BY DEF Echo
<1>3. /\ Proper(device, entity, call) /\ (entity.class \in Lights => Amount(call) # 1)
      /\ call.service \notin {"power_belief", "brightness_belief", "speed_belief"}
      /\ ~Given(call, "percentage")
  BY AgainProper DEF RInv
<1>4. \A r \in Elements(sent') : ~IsBelief(r)
  BY <1>1, <1>3, RunOK, EchoSuits
<1>5. state' = Final(state, sent')
  BY <1>2, <1>4 DEF Run, Sendable, Elements
<1> QED BY <1>1, <1>2, <1>5

LEMMA EchoPower ==
  ASSUME RInv, ~Misshown, NEW call \in Again(device, entity, state)
  PROVE  LET new == Final(state, Requests(device, entity, call, Breeze(device, entity, state)))
         IN new.power = state.power /\ new.light = state.light
<1> DEFINE new == Final(state, Requests(device, entity, call, Breeze(device, entity, state)))
           max == device.props.max_speed
<1> SUFFICES new.power = state.power /\ new.light = state.light
  OBVIOUS
<1>1. /\ device \in Devices /\ entity \in Entities(device)
      /\ StateOK(device, entity.class, state)
  BY DEF RInv
<1>2. /\ {"power", "light"} \subseteq DOMAIN state
      /\ state.power \in {0, 1}
  BY <1>1 DEF StateOK, Fine
<1>3. ASSUME NEW set, new = Updated(state, set),
             "power" \in DOMAIN set => set.power = state.power,
             "light" \in DOMAIN set => set.light = state.light
      PROVE  new.power = state.power /\ new.light = state.light
  <2> HIDE DEF new
  <2> QED BY <1>2, <1>3, UpdatedFields
<1>4. CASE entity.class \in Lights
  <2>1. \/ new = state
        \/ /\ state.light = 1
           /\ new = Updated(state, [light |-> 1, color_temp |-> RoundKelvin(state.color_temp)])
    BY <1>1, <1>4, LightEcho DEF ColorEchoes
  <2> HIDE DEF new
  <2> QED BY <1>3, <2>1
<1>5. CASE entity.class = "BondFan"
  <2> DEFINE p == ShownFan(device, state).percentage
  <2>1. IF Truthy(state, "breeze") THEN new = Updated(state, [power |-> 1, breeze |-> 1])
        ELSE /\ supports_speed(device)
             /\ p = 0 => new = Updated(state, [power |-> 0])
             /\ p # 0 => /\ state.power = 1
                         /\ new = Updated(state, [power |-> 1, speed |-> BondSpeed(device.props, p)])
    BY <1>1, <1>5, FanEcho
  <2>2. CASE Truthy(state, "breeze")
    <3>1. state.power = 1
      BY <1>2, <1>5, <2>2 DEF Misshown, Breeze
    <3> HIDE DEF new
    <3> QED BY <1>3, <2>1, <2>2, <3>1
  <2>3. CASE ~Truthy(state, "breeze") /\ p # 0
    <3> HIDE DEF new, p
    <3> QED BY <1>3, <2>1, <2>3
  <2>4. CASE ~Truthy(state, "breeze") /\ p = 0
    <3>1. state.power = 0
      <4> SUFFICES ASSUME state.power = 1 PROVE FALSE
        BY <1>2
      <4>1. /\ state.speed \in 1..max /\ max <= 100 /\ Truthy(state, "speed")
            /\ Truthy(state, "power")
        <5>1. Given(state, "speed")
          BY <1>1, <1>5, <2>1, <2>4 DEF StateOK, Given
        <5>2. state.speed # Null /\ ~(max > 100)
          BY <5>1 DEF Misshown
        <5>3. state.speed \in 1..max
          BY <1>1, <5>1, <5>2 DEF StateOK, Given, Fine
        <5>4. max \in Nat \ {0}
          BY <1>1, DevicesAssumption
        <5>5. state.speed \in Int /\ state.speed # 0 /\ max <= 100
          BY <5>2, <5>3, <5>4
        <5>6. state.power # 0 /\ state.power # Null
          BY DEF Null
        <5> QED BY <1>2, <5>1, <5>2, <5>3, <5>5, <5>6 DEF Truthy, Given
      <4>2. HassSpeed(device.props, state.speed) \in 0..100
        BY <1>1, <4>1, DevicesAssumption, PercentBound
      <4>3. p = HassSpeed(device.props, state.speed)
        BY <4>1, <4>2 DEF ShownFan
      <4>4. max \in Nat \ {0}
        BY <1>1, DevicesAssumption
      <4>5. HassSpeed(device.props, state.speed) >= 1
        BY <4>1, <4>4 DEF HassSpeed
      <4> QED BY <2>4, <4>3, <4>5
    <3> HIDE DEF new, p
    <3> QED BY <1>3, <2>1, <2>4, <3>1
  <2> QED BY <2>2, <2>3, <2>4
<1>6. CASE entity.class = "BondCover"
  <2>1. \/ new = state
        \/ new = Updated(state, [tilt_position |->
             BondTilt(device.props, HassTilt(device.props, state.tilt_position))])
    BY <1>1, <1>6, CoverEcho
  <2> HIDE DEF new
  <2> QED BY <1>3, <2>1
<1>7. CASE entity.class \in {"BondFlameNumber", "BondHeatNumber"}
  <2>1. IF entity.class = "BondFlameNumber"
        THEN new = Updated(state, [power |-> 1, flame |-> state.flame])
        ELSE new = state
    BY <1>1, <1>7, NumberEcho
  <2>2. entity.class = "BondFlameNumber" => state.power = 1
    BY <1>2 DEF Misshown
  <2> HIDE DEF new
  <2> QED BY <1>3, <1>7, <2>1, <2>2
<1> QED BY <1>4, <1>5, <1>6, <1>7, OnlyTheseEcho

(* Setting what is shown turns nothing on or off, whatever the device, but *)
(* for what Misshown names (fan.py:87-122, number.py:52-94).               *)
THEOREM PowerTheorem == Spec => EchoKeepsPower
<1>1. RInv /\ [Next]_vars =>
        [echoed' # {} /\ ~Misshown
           => state'.power = state.power /\ state'.light = state.light]_vars
  <2> SUFFICES ASSUME RInv, Next, echoed' # {}, ~Misshown
               PROVE  state'.power = state.power /\ state'.light = state.light
    OBVIOUS
  <2>1. Echo
    BY DEF Next, Call, Remote
  <2>2. PICK call \in Again(device, entity, state) :
          state' = Final(state, Requests(device, entity, call, Breeze(device, entity, state)))
    BY <2>1, EchoRuns
  <2> QED BY <2>2, EchoPower
<1> QED BY <1>1, RInvHolds, PTL DEF Spec, EchoKeepsPower

(* What the first echo of each service leaves behind, so that the next one *)
(* changes nothing.                                                        *)
ColorSettled(d, e, st) == ColorEchoes(d, e, st) => RoundKelvin(st.color_temp) = st.color_temp
FanSettled(d, st) ==
  LET p == ShownFan(d, st).percentage
  IN IF Truthy(st, "breeze") THEN st.power = 1 /\ st.breeze = 1
     ELSE (p = 0 => st.power = 0) /\ (p # 0 => BondSpeed(d.props, p) = st.speed)
TiltSettled(d, st) ==
  Given(st, "tilt_position") =>
    BondTilt(d.props, HassTilt(d.props, st.tilt_position)) = st.tilt_position
Settled(d, e, st, done) ==
  /\ ColorSettled(d, e, st)
  /\ e.class = "BondFan" => FanSettled(d, st)
  /\ e.class = "BondCover" /\ "SET_TILT_POSITION" \in done => TiltSettled(d, st)
  /\ e.class = "BondFlameNumber" => st.power = 1

LEMMA SettledStays ==
  ASSUME NEW d \in Devices, NEW e \in Entities(d), NEW st, StateOK(d, e.class, st),
         NEW done, Settled(d, e, st, done), NEW call \in Again(d, e, st),
         e.class = "BondCover" => call.service \in done
  PROVE  Final(st, Requests(d, e, call, Breeze(d, e, st))) = st
<1> DEFINE new == Final(st, Requests(d, e, call, Breeze(d, e, st)))
<1> SUFFICES new = st
  OBVIOUS
<1>1. IsFunction(st) /\ {"power", "light"} \subseteq DOMAIN st /\ st.power \in {0, 1}
  BY DEF StateOK, Fine
<1>2. CASE e.class \in Lights
  <2>1. \/ new = st
        \/ /\ ColorEchoes(d, e, st)
           /\ new = Updated(st, [light |-> 1, color_temp |-> RoundKelvin(st.color_temp)])
    BY <1>2, LightEcho
  <2> HIDE DEF new
  <2>2. CASE new # st
    <3>1. RoundKelvin(st.color_temp) = st.color_temp /\ "color_temp" \in DOMAIN st
      BY <2>1, <2>2 DEF Settled, ColorSettled, ColorEchoes, Truthy, Given
    <3> QED BY <1>1, <2>1, <2>2, <3>1, UpdatedSame DEF ColorEchoes
  <2> QED BY <2>2
<1>3. CASE e.class = "BondFan"
  <2> DEFINE p == ShownFan(d, st).percentage
  <2>1. IF Truthy(st, "breeze") THEN new = Updated(st, [power |-> 1, breeze |-> 1])
        ELSE /\ p = 0 => new = Updated(st, [power |-> 0])
             /\ p # 0 => /\ "speed" \in DOMAIN st /\ st.power = 1
                         /\ new = Updated(st, [power |-> 1, speed |-> BondSpeed(d.props, p)])
    BY <1>3, FanEcho
  <2>2. IF Truthy(st, "breeze") THEN st.power = 1 /\ st.breeze = 1 /\ "breeze" \in DOMAIN st
        ELSE (p = 0 => st.power = 0) /\ (p # 0 => BondSpeed(d.props, p) = st.speed)
    BY <1>3 DEF Settled, FanSettled, Truthy, Given
  <2> HIDE DEF new, p
  <2>3. CASE Truthy(st, "breeze")
    BY <1>1, <2>1, <2>2, <2>3, UpdatedSame
  <2>4. CASE ~Truthy(st, "breeze") /\ p = 0
    BY <1>1, <2>1, <2>2, <2>4, UpdatedSame
  <2>5. CASE ~Truthy(st, "breeze") /\ p # 0
    BY <1>1, <2>1, <2>2, <2>5, UpdatedSame
  <2> QED BY <2>3, <2>4, <2>5
<1>4. CASE e.class = "BondCover"
  <2>1. \/ new = st
        \/ /\ call.service = "SET_TILT_POSITION" /\ Given(st, "tilt_position")
           /\ new = Updated(st, [tilt_position |->
                                   BondTilt(d.props, HassTilt(d.props, st.tilt_position))])
    BY <1>4, CoverEcho
  <2> HIDE DEF new
  <2>2. CASE new # st
    <3>1. /\ BondTilt(d.props, HassTilt(d.props, st.tilt_position)) = st.tilt_position
          /\ "tilt_position" \in DOMAIN st
      BY <1>4, <2>1, <2>2 DEF Settled, TiltSettled, Given
    <3> QED BY <1>1, <2>1, <2>2, <3>1, UpdatedSame
  <2> QED BY <2>2
<1>5. CASE e.class \in {"BondFlameNumber", "BondHeatNumber"}
  <2>1. IF e.class = "BondFlameNumber"
        THEN Given(st, "flame") /\ new = Updated(st, [power |-> 1, flame |-> st.flame])
        ELSE new = st
    BY <1>5, NumberEcho
  <2>2. e.class = "BondFlameNumber" => st.power = 1
    BY DEF Settled
  <2> HIDE DEF new
  <2> QED BY <1>1, <1>5, <2>1, <2>2, UpdatedSame DEF Given
<1> QED BY <1>2, <1>3, <1>4, <1>5, OnlyTheseEcho

LEMMA EchoSettlesOnce ==
  ASSUME NEW d \in Devices, NEW e \in Entities(d), NEW st, StateOK(d, e.class, st),
         NEW done, done # {} => Settled(d, e, st, done), NEW call \in Again(d, e, st)
  PROVE  Settled(d, e, Final(st, Requests(d, e, call, Breeze(d, e, st))), done \cup {call.service})
<1> DEFINE new == Final(st, Requests(d, e, call, Breeze(d, e, st)))
<1> SUFFICES Settled(d, e, new, done \cup {call.service})
  OBVIOUS
<1>1. IsFunction(st) /\ {"power", "light"} \subseteq DOMAIN st /\ st.power \in {0, 1}
  BY DEF StateOK, Fine
<1>2. CASE e.class \in Lights
  <2>3. new = IF ColorEchoes(d, e, st)
              THEN Updated(st, [light |-> 1, color_temp |-> RoundKelvin(st.color_temp)]) ELSE st
    BY <1>2, LightEcho
  <2> HIDE DEF new
  <2>1. CASE ColorEchoes(d, e, st)
    <3>1. new = Updated(st, [light |-> 1, color_temp |-> RoundKelvin(st.color_temp)])
      BY <2>1, <2>3
    <3>2. new.color_temp = RoundKelvin(st.color_temp)
      BY <3>1, UpdatedFields
    <3>3. RoundKelvin(RoundKelvin(st.color_temp)) = RoundKelvin(st.color_temp)
      BY <2>1, ColorShown DEF ColorEchoes
    <3> QED BY <1>2, <3>2, <3>3 DEF Settled, ColorSettled, Lights
  <2>2. CASE ~ColorEchoes(d, e, st)
    <3>1. new = st
      BY <2>2, <2>3
    <3> QED BY <1>2, <2>2, <3>1 DEF Settled, ColorSettled, Lights
  <2> QED BY <2>1, <2>2
<1>3. CASE e.class = "BondFan"
  <2> DEFINE p == ShownFan(d, st).percentage
             max == d.props.max_speed
  <2>1. IF Truthy(st, "breeze") THEN new = Updated(st, [power |-> 1, breeze |-> 1])
        ELSE /\ p = 0 => new = Updated(st, [power |-> 0])
             /\ p # 0 => /\ p \in 1..100 /\ st.power = 1 /\ p = HassSpeed(d.props, st.speed)
                         /\ "speed" \in DOMAIN st /\ st.speed \in 1..d.props.max_speed
                         /\ new = Updated(st, [power |-> 1, speed |-> BondSpeed(d.props, p)])
    BY <1>3, FanEcho
  <2>2. CASE Truthy(st, "breeze")
    <3>1. new.power = 1 /\ new.breeze = 1 /\ "breeze" \in DOMAIN new
      <4> HIDE DEF new
      <4> QED BY <2>1, <2>2 DEF Updated
    <3> HIDE DEF new
    <3> QED BY <1>3, <3>1 DEF Settled, ColorSettled, ColorEchoes, FanSettled, Truthy, Given, Null
  <2>3. CASE ~Truthy(st, "breeze") /\ p = 0
    <3>1. new = Updated(st, [power |-> 0])
      BY <2>1, <2>3
    <3> HIDE DEF new
    <3>2. new.power = 0 /\ ~Truthy(new, "breeze")
      BY <2>3, <3>1 DEF Updated, Truthy, Given
    <3>3. ShownFan(d, new).percentage = 0
      BY <3>2 DEF ShownFan, Truthy
    <3> QED BY <1>3, <3>2, <3>3 DEF Settled, ColorSettled, ColorEchoes, FanSettled
  <2>4. CASE ~Truthy(st, "breeze") /\ p # 0
    <3> DEFINE s == BondSpeed(d.props, p)
    <3>1. /\ p \in 1..100 /\ st.speed \in 1..max /\ p = HassSpeed(d.props, st.speed)
          /\ new = Updated(st, [power |-> 1, speed |-> s])
      BY <2>1, <2>4
    <3>2. max \in Nat \ {0}
      BY DevicesAssumption
    <3>3. s \in 1..max /\ HassSpeed(d.props, s) = p
      <4> HIDE DEF p
      <4> QED BY <3>1, <3>2, SpeedBound, SpeedSettles
    <3> HIDE DEF new, s, p
    <3>4. new.power = 1 /\ new.speed = s /\ Given(new, "power") /\ Given(new, "speed")
          /\ ~Truthy(new, "breeze")
      BY <2>4, <3>1 DEF Updated, Truthy, Given
    <3>5. Truthy(new, "power") /\ Truthy(new, "speed")
      BY <3>2, <3>3, <3>4 DEF Truthy, Null
    <3>6. ShownFan(d, new).percentage = p
      BY <3>1, <3>3, <3>4, <3>5 DEF ShownFan
    <3>7. BondSpeed(d.props, ShownFan(d, new).percentage) = new.speed
      BY <3>4, <3>6 DEF s
    <3>8. ShownFan(d, new).percentage # 0
      BY <2>4, <3>6
    <3> QED BY <1>3, <3>4, <3>7, <3>8 DEF Settled, ColorSettled, ColorEchoes, FanSettled
  <2> QED BY <2>2, <2>3, <2>4
<1>4. CASE e.class = "BondCover"
  <2>1. CASE call.service = "SET_POSITION" /\ new = st
    <3> HIDE DEF new
    <3> QED BY <1>4, <2>1 DEF Settled, ColorSettled, ColorEchoes
  <2>2. CASE /\ call.service = "SET_TILT_POSITION" /\ Given(st, "tilt_position")
             /\ st.tilt_position \in TiltRange(d.props)[1]..TiltRange(d.props)[2]
             /\ new = Updated(st, [tilt_position |->
                                     BondTilt(d.props, HassTilt(d.props, st.tilt_position))])
    <3> DEFINE u == BondTilt(d.props, HassTilt(d.props, st.tilt_position))
    <3>1. Tilting(d.props)
      BY DevicesAssumption DEF Tilting
    <3>2. BondTilt(d.props, HassTilt(d.props, u)) = u
      BY <2>2, <3>1, TiltSettles
    <3> HIDE DEF new
    <3>3. new.tilt_position = u
      BY <2>2, UpdatedFields
    <3> QED BY <1>4, <3>2, <3>3 DEF Settled, ColorSettled, ColorEchoes, TiltSettled
  <2> QED BY <1>4, <2>1, <2>2, CoverEcho
<1>5. CASE e.class \in {"BondFlameNumber", "BondHeatNumber"}
  <2>1. e.class = "BondFlameNumber" => new = Updated(st, [power |-> 1, flame |-> st.flame])
    BY <1>5, NumberEcho
  <2> HIDE DEF new
  <2>2. e.class = "BondFlameNumber" => new.power = 1
    BY <2>1, UpdatedFields
  <2> QED BY <1>5, <2>2 DEF Settled, ColorSettled, ColorEchoes
<1> QED BY <1>2, <1>3, <1>4, <1>5, OnlyTheseEcho

EInv == RInv /\ (echoed # {} => Settled(device, entity, state, echoed))

LEMMA EInit == Init => EInv
BY RInit DEF Init, EInv

LEMMA ENext == EInv /\ [Next]_vars => EInv'
<1> SUFFICES ASSUME EInv, [Next]_vars PROVE EInv'
  OBVIOUS
<1>1. RInv'
  BY RNext DEF EInv
<1>2. CASE Call \/ Remote
  <2>1. echoed' = {}
    BY <1>2 DEF Call, Remote
  <2> QED BY <1>1, <2>1 DEF EInv
<1>3. CASE Echo
  <2>1. PICK call \in Again(device, entity, state) :
          /\ echoed' = echoed \cup {call.service} /\ device' = device /\ entity' = entity
          /\ state' = Final(state, Requests(device, entity, call, Breeze(device, entity, state)))
    BY <1>3, EchoRuns DEF EInv
  <2>2. Settled(device, entity,
          Final(state, Requests(device, entity, call, Breeze(device, entity, state))),
          echoed \cup {call.service})
    BY EchoSettlesOnce DEF EInv, RInv
  <2>3. Settled(device', entity', state', echoed')
    BY <2>1, <2>2
  <2> QED BY <1>1, <2>3 DEF EInv
<1>4. CASE UNCHANGED vars
  BY <1>1, <1>4 DEF vars, EInv, Settled, ColorSettled, FanSettled, TiltSettled, ColorEchoes
<1> QED BY <1>2, <1>3, <1>4 DEF Next

LEMMA EInvHolds == Spec => []EInv
BY EInit, ENext, PTL DEF Spec

(* Setting what is shown a second time changes nothing: a value does not   *)
(* creep, on any scale of any device, and the position and the tilt of a   *)
(* cover settle each on its own (light.py:153, 167; cover.py:123-147;      *)
(* fan.py:87-122).                                                         *)
THEOREM SettlesTheorem == Spec => EchoSettles
<1>1. EInv /\ [Next]_vars =>
        [/\ echoed # {} /\ echoed' # {}
         /\ entity.class = "BondCover" => echoed' = echoed
         => state' = state]_vars
  <2> SUFFICES ASSUME EInv, Next, echoed # {}, echoed' # {},
                      entity.class = "BondCover" => echoed' = echoed
               PROVE  state' = state
    OBVIOUS
  <2>1. Echo
    BY DEF Next, Call, Remote
  <2>2. PICK call \in Again(device, entity, state) :
          /\ echoed' = echoed \cup {call.service}
          /\ state' = Final(state, Requests(device, entity, call, Breeze(device, entity, state)))
    BY <2>1, EchoRuns DEF EInv
  <2>3. entity.class = "BondCover" => call.service \in echoed
    BY <2>2
  <2>4. Final(state, Requests(device, entity, call, Breeze(device, entity, state))) = state
    BY <2>3, SettledStays DEF EInv, RInv
  <2> QED BY <2>2, <2>4
<1> QED BY <1>1, EInvHolds, PTL DEF Spec, EchoSettles

(***************************************************************************)
(* Dials: a call with an amount leaves the device where the dial says.     *)
(***************************************************************************)
Dialling == {"TURN_ON", "SET_SPEED", "set_value", "SET_POSITION", "SET_TILT_POSITION"}
Turned(c, call) == c \in Dials /\ Amount(call) # Null /\ call.service \in Dialling

(* The amount is what its argument says, and within the scale. *)
LEMMA AmountIs ==
  ASSUME NEW d, NEW e, NEW call, Proper(d, e, call), Turned(e.class, call)
  PROVE  \/ /\ e.class \in {"BondLight", "BondFireplace"} /\ call.service = "TURN_ON"
            /\ Given(call, "brightness") /\ Amount(call) = call.brightness
            /\ call.brightness \in 1..255
         \/ /\ e.class = "BondFan" /\ call.service = "TURN_ON"
            /\ Given(call, "percentage") /\ ~Given(call, "preset_mode")
            /\ Amount(call) = call.percentage /\ call.percentage \in 0..100
         \/ /\ e.class = "BondFan" /\ call.service = "SET_SPEED" /\ supports_speed(d)
            /\ Amount(call) = call.value /\ call.value \in 0..100
         \/ /\ e.class \in {"BondFlameNumber", "BondHeatNumber"} /\ call.service = "set_value"
            /\ Amount(call) = call.value /\ call.value \in 0..1000
         \/ /\ e.class = "BondCover" /\ call.service \in {"SET_POSITION", "SET_TILT_POSITION"}
            /\ Amount(call) = call.value /\ call.value \in 0..100
<1>1. /\ call.service \in Offered(d, e) /\ call.service \in Dialling /\ e.class \in Dials
      /\ Amount(call) # Null
  BY DEF Turned, Proper, Callable
<1>2. Given(call, "value") <=> call.service \in Valuing
  BY DEF Proper
<1>3. call.service # "TURN_ON" => Amount(call) = call.value
  BY <1>1, <1>2 DEF Proper, Amount, Dialling, Valuing
<1>4. CASE e.class \in {"BondLight", "BondFireplace"}
  <2>1. call.service = "TURN_ON"
    BY <1>1, <1>4 DEF Offered, Lights, Dialling
  <2>2. ~Given(call, "value") /\ ~Given(call, "percentage")
    BY <1>2, <1>4, <2>1 DEF Proper, Valuing
  <2>3. Given(call, "brightness") /\ Amount(call) = call.brightness
    BY <1>1, <2>2 DEF Amount
  <2> QED BY <1>4, <2>1, <2>3 DEF Proper, Callable
<1>5. CASE e.class = "BondFan"
  <2>1. call.service \in {"TURN_ON", "SET_SPEED"}
    BY <1>1, <1>5 DEF Offered, FanFeatures, Lights, Dialling
  <2>2. CASE call.service = "TURN_ON"
    <3>1. ~Given(call, "value") /\ ~Given(call, "brightness")
      BY <1>2, <1>5, <2>2 DEF Proper, Valuing, Lights
    <3>2. Given(call, "percentage") /\ Amount(call) = call.percentage
      BY <1>1, <3>1 DEF Amount
    <3> QED BY <1>5, <2>2, <3>2 DEF Proper, Callable
  <2>3. CASE call.service = "SET_SPEED"
    <3>1. supports_speed(d)
      BY <1>1, <1>5, <2>3 DEF Offered, FanFeatures, Lights
    <3> QED BY <1>3, <1>5, <2>3, <3>1 DEF Proper, Callable
  <2> QED BY <2>1, <2>2, <2>3
<1>6. CASE e.class = "BondCover"
  <2>1. call.service \in {"SET_POSITION", "SET_TILT_POSITION"}
    BY <1>1, <1>6 DEF Offered, CoverFeatures, Lights, Dialling
  <2> QED BY <1>3, <1>6, <2>1 DEF Proper, Callable
<1>7. CASE e.class \in {"BondFlameNumber", "BondHeatNumber"}
  <2>1. call.service = "set_value"
    BY <1>1, <1>7 DEF Offered, Lights
  <2> QED BY <1>3, <1>7, <2>1 DEF Proper, Callable
<1> QED BY <1>1, <1>4, <1>5, <1>6, <1>7 DEF Dials

(* Where the dial of an entity points when st is the state of its device.  *)
Points(d, c, call, st) ==
  LET v == Amount(call)
  IN CASE c = "BondLight" -> Given(st, "brightness") /\ st.brightness = BondBrightness(v)
       [] c = "BondFireplace" -> Given(st, "flame") /\ st.flame = BondBrightness(v)
       [] c = "BondFan" -> RunsAt(d, st, v)
       [] c = "BondFlameNumber" ->
            IF Round(v, 10) = 0 THEN st.power = 0
            ELSE st.power = 1 /\ Given(st, "flame") /\ st.flame = Round(v, 10)
       [] c = "BondHeatNumber" ->
            IF Round(v, 10) = 0 THEN st.power = 0
            ELSE st.power = 1 /\ Given(st, "heat") /\ st.heat = Round(v, 10)
       [] c = "BondCover" /\ call.service = "SET_POSITION" ->
            Given(st, "position") /\ st.position = BondPosition(v)
       [] c = "BondCover" /\ call.service = "SET_TILT_POSITION" ->
            Given(st, "tilt_position") /\ st.tilt_position = BondTilt(d.props, v)

LEMMA LightPoints ==
  ASSUME NEW d, NEW e, e.class \in {"BondLight", "BondFireplace"}, NEW st, NEW breeze,
         NEW call, Proper(d, e, call), Turned(e.class, call)
  PROVE  Points(d, e.class, call, Final(st, Requests(d, e, call, breeze)))
<1> DEFINE new == Final(st, Requests(d, e, call, breeze))
<1>1. /\ call.service = "TURN_ON" /\ Given(call, "brightness")
      /\ Amount(call) = call.brightness /\ call.brightness \in 1..255
  BY AmountIs
<1>2. Requests(d, e, call, breeze) = turn_on(e.class, call)
  BY <1>1 DEF Requests, LightRequests, Lights
<1>3. CASE e.class = "BondLight"
  <2>1. Given(call, "color_temp") => call.color_temp \in Nat \ {0}
    BY <1>1 DEF Proper, Callable
  <2>2. Given(new, "brightness") /\ new.brightness = BondBrightness(call.brightness)
    BY <1>1, <1>2, <1>3, <2>1, LightTurnedOn
  <2> HIDE DEF new
  <2>3. Points(d, e.class, call, new)
    BY <1>1, <1>3, <2>2 DEF Points
  <2> QED BY <2>3 DEF new
<1>4. CASE e.class = "BondFireplace"
  <2> DEFINE f == ActionOf("SetFlame", BondBrightness(call.brightness))
  <2>1. turn_on(e.class, call) = <<f>>
    <3>1. Truthy(call, "brightness")
      BY <1>1 DEF Truthy, Null
    <3> QED BY <1>4, <3>1, Joined DEF turn_on
  <2>2. new = Effect(st, f)
    <3> HIDE DEF f
    <3> QED BY <1>2, <2>1, FinalOne
  <2>3. Given(Effect(st, f), "flame") /\ Effect(st, f).flame = BondBrightness(call.brightness)
    BY DEF Effect, ActionOf, Updated, Given
  <2> HIDE DEF new, f
  <2>4. Points(d, e.class, call, new)
    BY <1>1, <1>4, <2>2, <2>3 DEF Points
  <2> QED BY <2>4 DEF new
<1> QED BY <1>3, <1>4

LEMMA FanPoints ==
  ASSUME NEW d, NEW e, e.class = "BondFan", NEW st, NEW breeze \in BOOLEAN,
         NEW call, Proper(d, e, call), Turned(e.class, call)
  PROVE  Points(d, e.class, call, Final(st, Requests(d, e, call, breeze)))
<1> DEFINE p == Amount(call)
           new == Final(st, Requests(d, e, call, breeze))
<1>1. \/ /\ call.service = "TURN_ON" /\ Given(call, "percentage") /\ ~Given(call, "preset_mode")
         /\ p = call.percentage /\ call.percentage \in 0..100
      \/ call.service = "SET_SPEED" /\ p = call.value /\ call.value \in 0..100
  BY AmountIs
<1>2. Requests(d, e, call, breeze) = set_percentage(d, p, breeze)
  BY <1>1 DEF Requests, FanRequests, Lights
<1>3. RunsAt(d, new, p)
  BY <1>1, <1>2, FanSpeedSet
<1> HIDE DEF new
<1>4. Points(d, e.class, call, new)
  BY <1>3 DEF Points
<1> QED BY <1>4 DEF new

LEMMA CoverPoints ==
  ASSUME NEW d, NEW e, e.class = "BondCover", NEW st, NEW breeze,
         NEW call, Proper(d, e, call), Turned(e.class, call)
  PROVE  Points(d, e.class, call, Final(st, Requests(d, e, call, breeze)))
<1> DEFINE new == Final(st, Requests(d, e, call, breeze))
<1>1. call.service \in {"SET_POSITION", "SET_TILT_POSITION"} /\ Amount(call) = call.value
  BY AmountIs
<1>2. Requests(d, e, call, breeze) = CoverRequests(d, call)
  BY DEF Requests, Lights
<1>3. CASE call.service = "SET_POSITION"
  <2> DEFINE q == ActionOf("SetPosition", BondPosition(call.value))
  <2>1. CoverRequests(d, call) = <<q>>
    BY <1>3 DEF CoverRequests
  <2>2. new = Effect(st, q)
    <3> HIDE DEF q
    <3> QED BY <1>2, <2>1, FinalOne
  <2>3. Given(Effect(st, q), "position") /\ Effect(st, q).position = BondPosition(call.value)
    BY DEF Effect, ActionOf, Updated, Given
  <2> HIDE DEF new, q
  <2>4. Points(d, e.class, call, new)
    BY <1>1, <1>3, <2>2, <2>3 DEF Points
  <2> QED BY <2>4 DEF new
<1>4. CASE call.service = "SET_TILT_POSITION"
  <2> DEFINE q == ActionOf("SetTiltPosition", BondTilt(d.props, call.value))
  <2>1. CoverRequests(d, call) = <<q>>
    BY <1>4 DEF CoverRequests
  <2>2. new = Effect(st, q)
    <3> HIDE DEF q
    <3> QED BY <1>2, <2>1, FinalOne
  <2>3. /\ Given(Effect(st, q), "tilt_position")
        /\ Effect(st, q).tilt_position = BondTilt(d.props, call.value)
    BY DEF Effect, ActionOf, Updated, Given
  <2> HIDE DEF new, q
  <2>4. Points(d, e.class, call, new)
    BY <1>1, <1>4, <2>2, <2>3 DEF Points
  <2> QED BY <2>4 DEF new
<1> QED BY <1>1, <1>3, <1>4

LEMMA NumberPoints ==
  ASSUME NEW d, NEW e, e.class \in {"BondFlameNumber", "BondHeatNumber"}, NEW st, NEW breeze,
         NEW call, Proper(d, e, call), Turned(e.class, call)
  PROVE  Points(d, e.class, call, Final(st, Requests(d, e, call, breeze)))
<1> DEFINE new == Final(st, Requests(d, e, call, breeze))
           v == Round(call.value, 10)
           off == Action("TurnOff")
<1>1. v = Round(Amount(call), 10)
  BY AmountIs
<1>2. Effect(st, off).power = 0
  BY DEF Effect, Action, Updated
<1>3. CASE e.class = "BondFlameNumber"
  <2> DEFINE q == ActionOf("SetFlame", v)
  <2>1. Requests(d, e, call, breeze) = IF v = 0 THEN <<off>> ELSE <<q>>
    BY <1>3 DEF Requests, Lights, FlameRequests
  <2>2. new = IF v = 0 THEN Effect(st, off) ELSE Effect(st, q)
    <3> HIDE DEF q, off
    <3> QED BY <2>1, FinalOne
  <2>3. Effect(st, q).power = 1 /\ Given(Effect(st, q), "flame") /\ Effect(st, q).flame = v
    BY DEF Effect, ActionOf, Updated, Given
  <2> HIDE DEF new, q, off
  <2>4. Points(d, e.class, call, new)
    BY <1>1, <1>2, <1>3, <2>2, <2>3 DEF Points
  <2> QED BY <2>4 DEF new
<1>4. CASE e.class = "BondHeatNumber"
  <2> DEFINE q == ActionOf("SetHeat", v)
  <2>1. Requests(d, e, call, breeze) = IF v = 0 THEN <<off>> ELSE <<q>>
    BY <1>4 DEF Requests, Lights, HeatRequests
  <2>2. new = IF v = 0 THEN Effect(st, off) ELSE Effect(st, q)
    <3> HIDE DEF q, off
    <3> QED BY <2>1, FinalOne
  <2>3. Effect(st, q).power = 1 /\ Given(Effect(st, q), "heat") /\ Effect(st, q).heat = v
    BY DEF Effect, ActionOf, Updated, Given
  <2> HIDE DEF new, q, off
  <2>4. Points(d, e.class, call, new)
    BY <1>1, <1>2, <1>4, <2>2, <2>3 DEF Points
  <2> QED BY <2>4 DEF new
<1> QED BY <1>3, <1>4

LEMMA DialPoints ==
  ASSUME NEW d, NEW e, NEW st, NEW breeze \in BOOLEAN,
         NEW call, Proper(d, e, call), Turned(e.class, call)
  PROVE  Points(d, e.class, call, Final(st, Requests(d, e, call, breeze)))
BY LightPoints, FanPoints, CoverPoints, NumberPoints DEF Turned, Dials

(* The invariant: after a call with an amount the dial points to it. *)
DInv ==
  /\ RInv
  /\ asked = NoCall \/ Proper(device, entity, asked)
  /\ Turned(entity.class, asked) => Points(device, entity.class, asked, state)

LEMMA NotTurned == \A c : ~Turned(c, NoCall)
BY DEF Turned, Dialling, NoCall, None

LEMMA DInit == Init => DInv
BY RInit, NotTurned DEF Init, DInv

LEMMA DNext == DInv /\ [Next]_vars => DInv'
<1> SUFFICES ASSUME DInv, [Next]_vars PROVE DInv'
  OBVIOUS
<1>1. RInv'
  BY RNext DEF DInv
<1>2. CASE Call
  <2>1. PICK call \in Calls(device, entity) :
          asked' = call /\ sent' = Requests(device, entity, call, Breeze(device, entity, state))
    BY <1>2 DEF Call
  <2>2. device' = device /\ entity' = entity /\ state' = Run(state, sent')
    BY <1>2 DEF Call
  <2>3. Proper(device, entity, call)
    BY CallsProper DEF DInv, RInv
  <2>4. Turned(entity.class, call) => Points(device, entity.class, call, state')
    <3> SUFFICES ASSUME Turned(entity.class, call) PROVE Points(device, entity.class, call, state')
      OBVIOUS
    <3>1. \A r \in Elements(sent') : ~IsBelief(r)
      BY <2>1, <2>3, RunOK DEF DInv, Suits, Believed, Turned, Dialling
    <3>2. state' = Final(state, sent')
      BY <2>2, <3>1 DEF Run, Sendable, Elements
    <3>3. Breeze(device, entity, state) \in BOOLEAN
      BY DEF Breeze, Truthy
    <3> QED BY <2>1, <2>3, <3>2, <3>3, DialPoints
  <2>5. Proper(device', entity', asked')
    BY <2>1, <2>2, <2>3
  <2>6. Turned(entity'.class, asked') => Points(device', entity'.class, asked', state')
    BY <2>1, <2>2, <2>4
  <2> QED BY <1>1, <2>5, <2>6 DEF DInv, Turned, Points, Amount, RunsAt
<1>3. CASE Remote \/ Echo
  <2>1. asked' = NoCall
    BY <1>3 DEF Remote, Echo
  <2>2. ~Turned(entity'.class, asked')
    BY <2>1, NotTurned
  <2> QED BY <1>1, <2>1, <2>2 DEF DInv, Turned, NoCall, Amount
<1>4. CASE UNCHANGED vars
  <2>1. device' = device /\ entity' = entity /\ asked' = asked /\ state' = state
    BY <1>4 DEF vars
  <2>2. asked' = NoCall \/ Proper(device', entity', asked')
    BY <2>1 DEF DInv
  <2>3. Turned(entity'.class, asked') => Points(device', entity'.class, asked', state')
    BY <2>1 DEF DInv
  <2> QED BY <1>1, <2>2, <2>3 DEF DInv, Turned, Points, Amount, RunsAt
<1> QED BY <1>2, <1>3, <1>4 DEF Next

LEMMA DInvHolds == Spec => []DInv
BY DInit, DNext, PTL DEF Spec

(* A fan shows what was asked for or up to the next of its speeds, never   *)
(* less.                                                                   *)
LEMMA FanShownAsAsked ==
  ASSUME NEW d \in Devices, NEW st, NEW v \in 0..100, RunsAt(d, st, v),
         Given(st, "power")
  PROVE  LET p == ShownFan(d, st).percentage
         IN p >= v /\ (p - v) * d.props.max_speed < 100
<1> DEFINE p == ShownFan(d, st).percentage
           max == d.props.max_speed
<1>1. max \in Nat \ {0}
  BY DevicesAssumption
<1>2. CASE v = 0
  <2>1. p = 0
    BY <1>2 DEF RunsAt, ShownFan, Truthy
  <2> HIDE DEF p
  <2>2. (p - v) * max = 0
    BY <1>1, <1>2, <2>1
  <2>3. p >= v /\ (p - v) * max < 100
    BY <1>2, <2>1, <2>2
  <2> QED BY <2>3 DEF p
<1>3. CASE v # 0
  <2> DEFINE s == BondSpeed(d.props, v)
             h == HassSpeed(d.props, s)
  <2>1. v \in 1..100
    BY <1>3
  <2>2. s \in 1..max /\ h \in v..100 /\ (h - v) * max < 100
    BY <1>1, <2>1, SpeedBound, SpeedShown
  <2>3. st.power = 1 /\ st.speed = s /\ Given(st, "speed")
    BY <2>1 DEF RunsAt
  <2> HIDE DEF s
  <2>4. Truthy(st, "power") /\ Truthy(st, "speed")
    BY <1>1, <2>2, <2>3 DEF Truthy, Null
  <2>5. p = h
    <3> HIDE DEF h
    <3>1. p = IF h > 100 THEN 100 ELSE h
      BY <2>3, <2>4 DEF ShownFan, h
    <3> QED BY <2>1, <2>2, <3>1
  <2> HIDE DEF p, h
  <2>6. p >= v /\ (p - v) * max < 100
    BY <2>1, <2>2, <2>5
  <2> QED BY <2>6 DEF p
<1> QED BY <1>2, <1>3

LEMMA LevelShownAsAsked ==
  ASSUME NEW c \in {"BondLight", "BondFireplace"}, NEW b \in 1..255, NEW st,
         LET level == IF c = "BondFireplace" THEN "flame" ELSE "brightness"
         IN Given(st, level) /\ st[level] = BondBrightness(b)
  PROVE  b = 1 \/ ShownLight(c, st).brightness - b \in -2..2
<1> DEFINE level == IF c = "BondFireplace" THEN "flame" ELSE "brightness"
           p == BondBrightness(b)
<1> SUFFICES ASSUME b # 1 PROVE ShownLight(c, st).brightness - b \in -2..2
  OBVIOUS
<1>1. b \in 2..255
  OBVIOUS
<1>2. p \in 1..100
  BY BrightnessBound
<1>3. Truthy(st, level)
  <2> HIDE DEF p
  <2>1. st[level] = p
    BY DEF p
  <2> QED BY <1>2, <2>1 DEF Truthy, Null
<1>4. ShownLight(c, st).brightness = HassBrightness(p)
  <2> HIDE DEF p
  <2>1. st[level] = p
    BY DEF p
  <2> QED BY <1>3, <2>1 DEF ShownLight
<1>5. HassBrightness(p) - b \in -2..2
  BY <1>1, BrightnessShown
<1> QED BY <1>4, <1>5

(* What an entity shows once the device obeyed is what was asked for, to   *)
(* half a step of the coarser scale, whatever the number of speeds and the *)
(* range of tilt (light.py:153, 167; fan.py:87-122; cover.py:117-147).     *)
THEOREM ShownTheorem == Spec => []ShownAsAsked
<1>1. DInv => ShownAsAsked
  <2> DEFINE c == entity.class
             v == Amount(asked)
  <2> SUFFICES ASSUME DInv, Dialled(asked), ~Unshown PROVE ShownAsAsked
    BY DEF ShownAsAsked
  <2>1. /\ device \in Devices /\ StateOK(device, c, state)
        /\ Turned(c, asked) /\ c \in Dials
    BY DEF DInv, RInv, Dialled, Turned, Dialling
  <2>2. Points(device, c, asked, state) /\ Proper(device, entity, asked)
    BY <2>1, NotTurned DEF DInv
  <2>3. CASE c \in {"BondLight", "BondFireplace"}
    <3>1. /\ asked.service = "TURN_ON" /\ asked.brightness \in 1..255 /\ v = asked.brightness
      BY <2>1, <2>2, <2>3, AmountIs
    <3>2. asked.brightness = 1 \/ ShownLight(c, state).brightness - asked.brightness \in -2..2
      BY <2>2, <2>3, <3>1, LevelShownAsAsked DEF Points
    <3>3. LightAsAsked
      BY <3>2 DEF LightAsAsked
    <3> QED BY <2>3, <3>1, <3>3 DEF ShownAsAsked
  <2>4. CASE c = "BondFan"
    <3>1. v \in 0..100
      BY <2>1, <2>2, <2>4, AmountIs
    <3>2. RunsAt(device, state, v) /\ Given(state, "power")
      BY <2>1, <2>2, <2>4, <3>1 DEF Points, StateOK, Given
    <3>3. LET p == ShownFan(device, state).percentage
          IN p >= v /\ (p - v) * device.props.max_speed < 100
      BY <2>1, <3>1, <3>2, FanShownAsAsked
    <3>4. FanAsAsked
      BY <3>3 DEF FanAsAsked
    <3>5. asked.service \notin {"SET_POSITION", "SET_TILT_POSITION"}
      BY <2>1, <2>2, <2>4, AmountIs
    <3> QED BY <2>4, <3>4, <3>5 DEF ShownAsAsked
  <2>5. CASE c \in {"BondFlameNumber", "BondHeatNumber"}
    <3> DEFINE n == Round(v, 10)
    <3>1. v = asked.value /\ v \in 0..1000
      BY <2>1, <2>2, <2>5, AmountIs
    <3>2. asked.service = "set_value"
      BY <2>1, <2>2, <2>5, AmountIs
    <3>3. 10 * n - v \in -5..5 /\ (n = 0 <=> v <= 5) /\ n \in 0..100
      BY <3>1, TenthsBound
    <3>4. c = "BondFlameNumber" =>
            IF n = 0 THEN state.power = 0 ELSE ShownFlame(state) = n
      BY <2>2 DEF Points, ShownFlame
    <3>5. c = "BondHeatNumber" =>
            IF n = 0 THEN state.power = 0 ELSE ShownHeat(state) = n
      BY <2>2 DEF Points, ShownHeat, Given
    <3> HIDE DEF n, v
    <3>6. c = "BondFlameNumber" => NumberAsAsked(ShownFlame(state))
      BY <3>1, <3>3, <3>4 DEF NumberAsAsked
    <3>7. c = "BondHeatNumber" => NumberAsAsked(ShownHeat(state))
      BY <3>1, <3>3, <3>5 DEF NumberAsAsked
    <3> QED BY <2>5, <3>2, <3>6, <3>7 DEF ShownAsAsked
  <2>6. CASE c = "BondCover"
    <3> DEFINE h == asked.value
    <3>1. /\ asked.service \in {"SET_POSITION", "SET_TILT_POSITION"}
          /\ v = h /\ h \in 0..100
      BY <2>1, <2>2, <2>6, AmountIs
    <3>2. CASE asked.service = "SET_POSITION"
      <4>1. Given(state, "position") /\ state.position = 100 - h
        BY <2>2, <2>6, <3>1, <3>2 DEF Points, BondPosition
      <4>2. ShownCover(device, state).position = h
        BY <3>1, <4>1 DEF ShownCover, HassPosition, Null
      <4> QED BY <2>6, <3>2, <4>2 DEF ShownAsAsked, PositionAsAsked
    <3>3. CASE asked.service = "SET_TILT_POSITION"
      <4> DEFINE t == BondTilt(device.props, h)
                 degrees == TiltDegrees(device.props)
      <4>1. Tilting(device.props)
        BY <2>1, DevicesAssumption DEF Tilting
      <4>2. Given(state, "tilt_position") /\ state.tilt_position = t
        BY <2>2, <2>6, <3>1, <3>3 DEF Points
      <4>3. ShownCover(device, state).tilt = IF t # Null THEN HassTilt(device.props, t) ELSE Null
        BY <4>2 DEF ShownCover
      <4>5. t # Null
        <5>1. t \in TiltRange(device.props)[1]..TiltRange(device.props)[2]
          BY <3>1, <4>1, BondTiltBound
        <5> QED BY <2>1, <5>1, DevicesAssumption
      <4>4. LET off == HassTilt(device.props, t) - h
            IN 2 * off * degrees \in -(100 + degrees)..(100 + degrees)
        BY <3>1, <4>1, TiltShown
      <4>6. TiltAsAsked
        BY <4>3, <4>4, <4>5 DEF TiltAsAsked
      <4> QED BY <2>6, <3>3, <4>6 DEF ShownAsAsked
    <3> QED BY <3>1, <3>2, <3>3
  <2> QED BY <2>1, <2>3, <2>4, <2>5, <2>6 DEF Dials
<1> QED BY <1>1, DInvHolds, PTL

(* Where the dial points, seen from its amount alone: Obtained grows with  *)
(* the amount, from one end of every scale to the other.                   *)
LEMMA MoreIsMore ==
  ASSUME device \in Devices,
         NEW a, Proper(device, entity, a), Turned(entity.class, a),
         NEW s, Points(device, entity.class, a, s),
         NEW b, Proper(device, entity, b), Turned(entity.class, b),
         NEW t, Points(device, entity.class, b, t),
         a.service = b.service, Amount(a) <= Amount(b)
  PROVE  Obtained(a, s) <= Obtained(b, t)
<1> DEFINE c == entity.class
           v == Amount(a)
           w == Amount(b)
<1>1. c \in Dials
  BY DEF Turned
<1>2. CASE c \in {"BondLight", "BondFireplace"}
  <2>1. v \in 1..255 /\ w \in 1..255 /\ a.service = "TURN_ON" /\ b.service = "TURN_ON"
    BY <1>2, AmountIs
  <2>2. BondBrightness(v) <= BondBrightness(w)
    BY <2>1, BrightnessMonotone
  <2> HIDE DEF v, w
  <2>3. Obtained(a, s) = BondBrightness(v) /\ Obtained(b, t) = BondBrightness(w)
    BY <1>2, <2>1 DEF Points, Obtained, v, w
  <2> QED BY <2>2, <2>3
<1>3. CASE c = "BondFan"
  <2>1. /\ v \in 0..100 /\ w \in 0..100
        /\ a.service \in {"TURN_ON", "SET_SPEED"} /\ b.service \in {"TURN_ON", "SET_SPEED"}
    BY <1>3, AmountIs
  <2>2. RunsAt(device, s, v) /\ RunsAt(device, t, w)
    BY <1>3 DEF Points
  <2>3. device.props.max_speed \in Nat \ {0}
    BY DevicesAssumption
  <2> HIDE DEF v, w
  <2>4. /\ Obtained(a, s) = IF v = 0 THEN 0 ELSE BondSpeed(device.props, v)
        /\ Obtained(b, t) = IF w = 0 THEN 0 ELSE BondSpeed(device.props, w)
    BY <1>3, <2>1, <2>2 DEF RunsAt, Obtained
  <2>5. v <= w
    BY DEF v, w
  <2>6. CASE v = 0
    <3>1. w # 0 => BondSpeed(device.props, w) \in 1..device.props.max_speed
      <4> SUFFICES ASSUME w # 0 PROVE BondSpeed(device.props, w) \in 1..device.props.max_speed
        OBVIOUS
      <4>1. w \in 1..100
        BY <2>1
      <4> QED BY <2>3, <4>1, SpeedBound
    <3> QED BY <2>3, <2>4, <2>6, <3>1
  <2>7. CASE v # 0
    <3>1. v \in 1..100 /\ w \in 1..100
      BY <2>1, <2>5, <2>7
    <3>2. BondSpeed(device.props, v) <= BondSpeed(device.props, w)
      BY <2>3, <2>5, <3>1, SpeedMonotone
    <3> QED BY <2>4, <3>1, <3>2
  <2> QED BY <2>6, <2>7
<1>4. CASE c \in {"BondFlameNumber", "BondHeatNumber"}
  <2>1. /\ v \in 0..1000 /\ w \in 0..1000 /\ v <= w
        /\ a.service = "set_value" /\ b.service = "set_value"
    BY <1>4, AmountIs
  <2> HIDE DEF v, w
  <2>4. Round(v, 10) <= Round(w, 10)
    BY <2>1, TenthsMonotone
  <2>2. Obtained(a, s) = Round(v, 10)
    <3>1. CASE c = "BondFlameNumber"
      BY <2>1, <3>1 DEF Points, Obtained, v
    <3>2. CASE c = "BondHeatNumber"
      BY <2>1, <3>2 DEF Points, Obtained, v
    <3> QED BY <1>4, <3>1, <3>2
  <2>3. Obtained(b, t) = Round(w, 10)
    <3>1. CASE c = "BondFlameNumber"
      BY <2>1, <3>1 DEF Points, Obtained, w
    <3>2. CASE c = "BondHeatNumber"
      BY <2>1, <3>2 DEF Points, Obtained, w
    <3> QED BY <1>4, <3>1, <3>2
  <2> QED BY <2>2, <2>3, <2>4
<1>5. CASE c = "BondCover"
  <2>1. /\ a.service \in {"SET_POSITION", "SET_TILT_POSITION"}
        /\ v \in 0..100 /\ w \in 0..100 /\ v <= w
    BY <1>5, AmountIs
  <2>2. CASE a.service = "SET_POSITION"
    <3>1. Obtained(a, s) = v /\ Obtained(b, t) = w
      BY <1>5, <2>1, <2>2 DEF Points, Obtained, BondPosition
    <3> QED BY <2>1, <3>1
  <2>3. CASE a.service = "SET_TILT_POSITION"
    <3>1. Tilting(device.props)
      BY DevicesAssumption DEF Tilting
    <3>2. BondTilt(device.props, v) <= BondTilt(device.props, w)
      BY <2>1, <3>1, TiltMonotone
    <3> HIDE DEF v, w
    <3>3. Obtained(a, s) = BondTilt(device.props, v) /\ Obtained(b, t) = BondTilt(device.props, w)
      BY <1>5, <2>3 DEF Points, Obtained, v, w
    <3> QED BY <3>2, <3>3
  <2> QED BY <2>1, <2>2, <2>3
<1> QED BY <1>1, <1>2, <1>3, <1>4, <1>5 DEF Dials

(* Who asks for more never gets less: no scale has a step that runs back   *)
(* (light.py:167, fan.py:118-122, cover.py:32-34, 139-147).                *)
THEOREM OrderedTheorem == Spec => Ordered
<1>1. DInv /\ DInv' /\ [Next]_vars =>
        [/\ Dialled(asked) /\ Dialled(asked')
         /\ asked.service = asked'.service /\ Amount(asked) <= Amount(asked')
         => Obtained(asked, state) <= Obtained(asked', state')]_vars
  <2> SUFFICES ASSUME DInv, DInv', Next, Dialled(asked), Dialled(asked'),
                      asked.service = asked'.service, Amount(asked) <= Amount(asked')
               PROVE  Obtained(asked, state) <= Obtained(asked', state')
    OBVIOUS
  <2>1. device' = device /\ entity' = entity
    BY DEF Next, Call, Remote, Echo
  <2>2. Turned(entity.class, asked) /\ Turned(entity.class, asked')
    BY DEF Dialled, Turned, Dialling
  <2>3. /\ device \in Devices /\ Proper(device, entity, asked)
        /\ Points(device, entity.class, asked, state)
    BY <2>2, NotTurned DEF DInv, RInv
  <2>4. Proper(device, entity, asked') /\ Points(device, entity.class, asked', state')
    <3>1. asked' = NoCall \/ Proper(device', entity', asked')
      BY DEF DInv, NoCall
    <3>2. Turned(entity'.class, asked') => Points(device', entity'.class, asked', state')
      BY DEF DInv, Turned, Points, Amount, RunsAt
    <3> QED BY <2>1, <2>2, <3>1, <3>2, NotTurned
  <2> QED BY <2>2, <2>3, <2>4, MoreIsMore
<1> QED BY <1>1, DInvHolds, PTL DEF Spec, Ordered

(***************************************************************************)
(* What takes the place of a button.                                       *)
(***************************************************************************)

(* A call of one request puts its action within reach. *)
LEMMA ReachedBy ==
  ASSUME NEW d, NEW e \in Entities(d), NEW s \in Offered(d, e), NEW call \in CallsOf(d, e, s),
         NEW r, Requests(d, e, call, FALSE) = <<r>>
  PROVE  r.name \in Reachable(d)
<1>1. call \in Calls(d, e)
  BY DEF Calls
<1>2. ToSet(<<r>>) = {r}
  BY DEF ToSet
<1> DEFINE names(c) == {q.name : q \in ToSet(Requests(d, e, c, FALSE))}
<1>3. r.name \in names(call)
  BY <1>2
<1> HIDE DEF names
<1>4. r.name \in UNION {names(c) : c \in Calls(d, e)}
  BY <1>1, <1>3
<1> USE DEF names
<1> QED BY <1>4 DEF Reachable

LEMMA PlainEntity ==
  ASSUME NEW d, NEW c,
         \/ c \in LightClasses(d)
         \/ c = "BondFan" /\ is_fan(d)
         \/ c = "BondSwitch" /\ is_generic(d)
         \/ c = "BondCover" /\ is_shades(d)
  PROVE  [class |-> c, key |-> ""] \in Entities(d)
<1> DEFINE plain == LightClasses(d)
                    \cup {b \in {"BondFan"} : is_fan(d)}
                    \cup {b \in {"BondSwitch"} : is_generic(d)}
                    \cup {b \in {"BondCover"} : is_shades(d)}
                    \cup {b \in {"BondFlameNumber"} : is_fireplace(d) /\ supports_set_flame(d)}
                    \cup {b \in {"BondHeatNumber"} : has_action(d, "SetHeat")}
<1>1. c \in plain
  OBVIOUS
<1> HIDE DEF plain
<1>2. [class |-> c, key |-> ""] \in {[class |-> b, key |-> ""] : b \in plain}
  BY <1>1
<1> USE DEF plain
<1> QED BY <1>2, Zenon DEF Entities

(* Lights and switches turn on. *)
LEMMA OnReached ==
  ASSUME NEW d, NEW c, c \in LightClasses(d) \/ (c = "BondSwitch" /\ is_generic(d))
  PROVE  OnAction(c) \in Reachable(d)
<1> DEFINE e == [class |-> c, key |-> ""]
           call == ServiceOf("TURN_ON")
<1>1. e \in Entities(d) /\ c \in Lights \cup {"BondSwitch"}
  BY PlainEntity DEF LightClasses, Lights
<1>2. "TURN_ON" \in Offered(d, e) /\ call \in CallsOf(d, e, "TURN_ON")
  BY <1>1 DEF Offered, CallsOf, Lights
<1>3. turn_on(c, call) = <<Action(OnAction(c))>>
  BY DEF turn_on, Truthy, Given, ServiceOf
<1>4. Requests(d, e, call, FALSE) = <<Action(OnAction(c))>>
  <2>1. Requests(d, e, call, FALSE) = LightRequests(d, c, call)
    <3>1. e.class = c
      OBVIOUS
    <3> HIDE DEF e, call
    <3> QED BY <1>1, <3>1 DEF Requests, Lights
  <2>2. LightRequests(d, c, call) = turn_on(c, call)
    BY DEF LightRequests, ServiceOf
  <2> QED BY <1>3, <2>1, <2>2
<1>5. Action(OnAction(c)).name = OnAction(c)
  BY DEF Action
<1> HIDE DEF e, call
<1> QED BY <1>1, <1>2, <1>4, <1>5, ReachedBy

LEMMA BrightnessReached ==
  ASSUME NEW d, "BondLight" \in LightClasses(d), supports_set_brightness(d)
  PROVE  "SetBrightness" \in Reachable(d)
<1> DEFINE e == [class |-> "BondLight", key |-> ""]
           call == [service |-> "TURN_ON", brightness |-> 255]
           r == ActionOf("SetBrightness", BondBrightness(255))
<1>1. e \in Entities(d)
  BY PlainEntity
<1>2. "brightness" \in LightArguments(d, "BondLight")
  BY DEF LightArguments
<1>3. "TURN_ON" \in Offered(d, e)
  BY DEF Offered, Lights
<1>4. call \in CallsOf(d, e, "TURN_ON")
  <2>1. call \in {[service |-> "TURN_ON", brightness |-> b] :
                     b \in {b \in 1..255 : "brightness" \in LightArguments(d, e.class)}}
    BY <1>2
  <2> QED BY <2>1 DEF CallsOf, Lights
<1>5. turn_on("BondLight", call) = <<r>>
  <2>1. Truthy(call, "brightness") /\ ~Truthy(call, "color_temp")
    BY DEF Truthy, Given, Null
  <2>2. call.brightness = 255
    OBVIOUS
  <2> HIDE DEF call
  <2>3. <<r>> \o <<>> = <<r>>
    BY Joined
  <2> QED BY <2>1, <2>2, <2>3 DEF turn_on
<1>6. Requests(d, e, call, FALSE) = <<r>>
  BY <1>5 DEF Requests, LightRequests, Lights
<1>7. r.name = "SetBrightness"
  BY DEF ActionOf
<1> HIDE DEF e, call, r
<1> QED BY <1>1, <1>3, <1>4, <1>6, <1>7, ReachedBy

LEMMA FanReached ==
  ASSUME NEW d, is_fan(d)
  PROVE  /\ "TurnOn" \in Reachable(d)
         /\ supports_speed(d) => "SetSpeed" \in Reachable(d)
         /\ supports_direction(d) => "SetDirection" \in Reachable(d)
<1> DEFINE e == [class |-> "BondFan", key |-> ""]
<1>1. e \in Entities(d)
  BY PlainEntity
<1>2. Offered(d, e) = FanFeatures(d) \cup {"speed_belief"}
  BY DEF Offered, Lights
<1>3. "TurnOn" \in Reachable(d)
  <2> DEFINE call == ServiceOf("TURN_ON")
  <2>1. "TURN_ON" \in Offered(d, e)
    BY <1>2 DEF FanFeatures
  <2>2. call \in CallsOf(d, e, "TURN_ON")
    BY DEF CallsOf, Lights
  <2>3. Requests(d, e, call, FALSE) = <<Action("TurnOn")>>
    BY DEF Requests, FanRequests, Given, ServiceOf, Lights
  <2>4. Action("TurnOn").name = "TurnOn"
    BY DEF Action
  <2> HIDE DEF e, call
  <2> QED BY <1>1, <2>1, <2>2, <2>3, <2>4, ReachedBy
<1>4. ASSUME supports_speed(d) PROVE "SetSpeed" \in Reachable(d)
  <2> DEFINE call == Valued("SET_SPEED", 100)
             r == ActionOf("SetSpeed", BondSpeed(d.props, 100))
  <2>1. "SET_SPEED" \in Offered(d, e)
    BY <1>2, <1>4 DEF FanFeatures
  <2>2. call \in CallsOf(d, e, "SET_SPEED")
    BY DEF CallsOf, Lights
  <2>3. Requests(d, e, call, FALSE) = <<r>>
    BY DEF Requests, FanRequests, Given, Valued, Lights, set_percentage
  <2>4. r.name = "SetSpeed"
    BY DEF ActionOf
  <2> HIDE DEF e, call, r
  <2> QED BY <1>1, <2>1, <2>2, <2>3, <2>4, ReachedBy
<1>5. ASSUME supports_direction(d) PROVE "SetDirection" \in Reachable(d)
  <2> DEFINE call == Valued("DIRECTION", 1)
             r == ActionOf("SetDirection", 1)
  <2>1. "DIRECTION" \in Offered(d, e)
    BY <1>2, <1>5 DEF FanFeatures
  <2>2. call \in CallsOf(d, e, "DIRECTION")
    BY DEF CallsOf, Lights
  <2>3. Requests(d, e, call, FALSE) = <<r>>
    BY DEF Requests, FanRequests, Given, Valued, Lights
  <2>4. r.name = "SetDirection"
    BY DEF ActionOf
  <2> HIDE DEF e, call, r
  <2> QED BY <1>1, <2>1, <2>2, <2>3, <2>4, ReachedBy
<1> QED BY <1>3, <1>4, <1>5

(* What is listed first needs no fallback. *)
LEMMA FirstChosen ==
  ASSUME NEW d, NEW x, NEW y, NEW z, has_action(d, x)
  PROVE  FirstListed(d, <<x, y, z>>) = x
<1> DEFINE as == <<x, y, z>>
           listed == {i \in DOMAIN as : has_action(d, as[i])}
<1>1. listed \subseteq {1, 2, 3} /\ 1 \in listed /\ as[1] = x
  OBVIOUS
<1>2. FirstListed(d, as) = as[CHOOSE i \in listed : \A j \in listed : i <= j]
  BY <1>1 DEF FirstListed
<1>3. (CHOOSE i \in listed : \A j \in listed : i <= j) = 1
  <2> HIDE DEF listed
  <2>1. \A i \in listed : (\A j \in listed : i <= j) <=> i = 1
    BY <1>1
  <2>2. \A j \in listed : 1 <= j
    BY <1>1
  <2> DEFINE least(i) == \A j \in listed : i <= j
  <2>3. least(1) /\ \A i \in listed : least(i) => i = 1
    BY <2>1, <2>2
  <2> HIDE DEF least
  <2>4. (CHOOSE i \in listed : least(i)) = 1
    BY <1>1, <2>3
  <2> QED BY <2>4 DEF least
<1> QED BY <1>1, <1>2, <1>3

LEMMA ShadeReached ==
  ASSUME NEW d, is_shades(d)
  PROVE  /\ has_action(d, "Open") => "Open" \in Reachable(d)
         /\ supports_set_position(d) => "SetPosition" \in Reachable(d)
<1> DEFINE e == [class |-> "BondCover", key |-> ""]
<1>1. e \in Entities(d) /\ Offered(d, e) = CoverFeatures(d)
  BY PlainEntity DEF Offered, Lights
<1>2. ASSUME has_action(d, "Open") PROVE "Open" \in Reachable(d)
  <2> DEFINE call == ServiceOf("OPEN")
  <2>1. open_action(d) = "Open"
    BY <1>2, FirstChosen DEF open_action
  <2>2. "OPEN" \in Offered(d, e)
    BY <1>1, <2>1 DEF CoverFeatures, supports_open, None
  <2>3. call \in CallsOf(d, e, "OPEN")
    BY DEF CallsOf, Lights
  <2>4. Requests(d, e, call, FALSE) = <<Action("Open")>>
    BY <2>1 DEF Requests, CoverRequests, ServiceOf, Lights
  <2>5. Action("Open").name = "Open"
    BY DEF Action
  <2> HIDE DEF e, call
  <2> QED BY <1>1, <2>2, <2>3, <2>4, <2>5, ReachedBy
<1>3. ASSUME supports_set_position(d) PROVE "SetPosition" \in Reachable(d)
  <2>1. PICK p \in Samples : TRUE
    BY ValuesAssumption
  <2> DEFINE call == Valued("SET_POSITION", p)
             r == ActionOf("SetPosition", BondPosition(p))
  <2>2. "SET_POSITION" \in Offered(d, e)
    BY <1>1, <1>3 DEF CoverFeatures
  <2>3. call \in CallsOf(d, e, "SET_POSITION")
    BY DEF CallsOf, Lights
  <2>4. Requests(d, e, call, FALSE) = <<r>>
    BY DEF Requests, CoverRequests, Valued, Lights
  <2>5. r.name = "SetPosition"
    BY DEF ActionOf
  <2> HIDE DEF e, call, r
  <2> QED BY <1>1, <2>2, <2>3, <2>4, <2>5, ReachedBy
<1> QED BY <1>2, <1>3

LEMMA ButtonReached ==
  ASSUME NEW d, NEW a \in ButtonKeys(d) PROVE a \in Reachable(d)
<1> DEFINE e == [class |-> "BondButtonEntity", key |-> a]
           call == ServiceOf("press")
           r == [name |-> a, argument |-> BUTTONS[a].argument]
<1>1. e \in Entities(d)
  BY Zenon DEF Entities, Buttons
<1>2. "press" \in Offered(d, e)
  BY DEF Offered, Lights
<1>3. call \in CallsOf(d, e, "press")
  BY DEF CallsOf, Lights
<1>4. a \in DOMAIN BUTTONS
  BY DEF ButtonKeys
<1>5. Requests(d, e, call, FALSE) = <<r>>
  BY <1>4 DEF Requests, press, Lights
<1>6. r.name = a
  OBVIOUS
<1> HIDE DEF e, call, r
<1> QED BY <1>1, <1>2, <1>3, <1>5, <1>6, ReachedBy

(* An entity sends what is served. *)
LEMMA ServedReached ==
  ASSUME NEW d, NEW a, has_action(d, a), Served(d, a) PROVE a \in Reachable(d)
<1>1. a \in DOMAIN TypesServing /\ Type(d) \in TypesServing[a]
  BY DEF Served
<1>2. CASE a \in {"TurnLightOn", "SetBrightness"}
  <2>1. is_fan(d) \/ is_fireplace(d) \/ is_light(d)
    BY <1>1, <1>2 DEF TypesServing, is_fan, is_fireplace, is_light
  <2>2. "BondLight" \in LightClasses(d)
    BY <1>2, <2>1 DEF Served, LightClasses
  <2>3. OnAction("BondLight") = "TurnLightOn"
    BY DEF OnAction
  <2> QED BY <1>2, <2>2, <2>3, OnReached, BrightnessReached DEF supports_set_brightness
<1>3. CASE a = "TurnOn"
  <2>1. is_fan(d) \/ is_fireplace(d) \/ is_generic(d)
    BY <1>1, <1>3 DEF TypesServing, is_fan, is_fireplace, is_generic
  <2>2. is_fireplace(d) => "BondFireplace" \in LightClasses(d)
    BY DEF LightClasses
  <2>3. OnAction("BondFireplace") = "TurnOn" /\ OnAction("BondSwitch") = "TurnOn"
    BY DEF OnAction
  <2> QED BY <1>3, <2>1, <2>2, <2>3, OnReached, FanReached
<1>4. CASE a \in {"TurnUpLightOn", "TurnDownLightOn"}
  <2>1. is_fan(d)
    BY <1>1, <1>4 DEF TypesServing, is_fan
  <2>2. /\ a = "TurnUpLightOn" => "BondUpLight" \in LightClasses(d)
        /\ a = "TurnDownLightOn" => "BondDownLight" \in LightClasses(d)
    BY <2>1 DEF LightClasses, supports_up_light, supports_down_light, _has_any_action, has_action
  <2>3. OnAction("BondUpLight") = "TurnUpLightOn" /\ OnAction("BondDownLight") = "TurnDownLightOn"
    BY DEF OnAction
  <2> QED BY <1>4, <2>2, <2>3, OnReached
<1>5. CASE a \in {"SetSpeed", "SetDirection"}
  BY <1>1, <1>5, FanReached DEF TypesServing, is_fan, supports_speed, supports_direction
<1>6. CASE a \in {"Open", "SetPosition"}
  BY <1>1, <1>6, ShadeReached DEF TypesServing, is_shades, supports_set_position
<1> QED BY <1>1, <1>2, <1>3, <1>4, <1>5, <1>6 DEF TypesServing

(* Whatever a device lists, a button that is left out for the sake of an   *)
(* action leaves that action to some entity, unless it is one that the     *)
(* type of the device has no entity for (button.py:309-333).               *)
THEOREM ReachableTheorem == Spec => []ReplacedButtonsReachable
<1>1. ReplacedButtonsReachable
  <2> SUFFICES ASSUME NEW a \in DOMAIN BUTTONS \cap device.actions,
                      has_action(device, BUTTONS[a].exclusive)
                        => Served(device, BUTTONS[a].exclusive)
               PROVE  {a, BUTTONS[a].exclusive} \cap Reachable(device) \cap device.actions # {}
    BY DEF ReplacedButtonsReachable
  <2>1. CASE has_action(device, BUTTONS[a].exclusive)
    BY <2>1, ServedReached DEF has_action
  <2>2. CASE ~has_action(device, BUTTONS[a].exclusive)
    BY <2>2, ButtonReached DEF ButtonKeys, has_action
  <2> QED BY <2>1, <2>2
<1> QED BY <1>1, PTL
===============================================================================
