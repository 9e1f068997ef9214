------------------------------- MODULE MCControls -------------------------------
(***************************************************************************)
(* A catalogue of devices such as bridges report: every way to open, close *)
(* and stop a shade, and one device or more for every dial.                *)
(***************************************************************************)
EXTENDS Controls

Props == [max_speed |-> 3, min_tilt |-> 0, max_tilt |-> 90]
Device(t, as) == [types |-> {t}, actions |-> as, group |-> FALSE, props |-> Props]
Group(ts, as) == [types |-> ts, actions |-> as, group |-> TRUE, props |-> Props]
With(d, key, v) == [d EXCEPT !.props = [@ EXCEPT ![key] = v]]

FanActions == {"TurnOn", "TurnOff", "TogglePower", "SetSpeed", "IncreaseSpeed", "DecreaseSpeed",
               "SetDirection", "ToggleDirection", "BreezeOn", "BreezeOff", "Stop"}
LightActions == {"TurnLightOn", "TurnLightOff", "ToggleLight"}
UpDown == {"TurnUpLightOn", "TurnUpLightOff", "TurnDownLightOn", "TurnDownLightOff",
           "ToggleUpLight", "ToggleDownLight", "SetUpLightBrightness", "CycleUpLightBrightness"}

Fans ==
  {With(Device("CF", FanActions \cup LightActions), "max_speed", n) : n \in {1, 7}}
  \cup {Device("CF", (FanActions \ {"BreezeOn", "BreezeOff"}) \cup UpDown \cup LightActions),
        Device("CF", {"TurnOn", "TurnOff", "IncreaseSpeed", "Stop"}),
        Group({"CF"}, FanActions)}
LightDevices ==
  {Device("LT", LightActions \cup {"SetBrightness", "IncreaseBrightness", "StartDimmer"}),
   Device("LT", LightActions \cup {"SetBrightness", "SetColorTemp", "ToggleLightTemp"}),
   Device("LT", LightActions \cup {"IncreaseBrightness", "DecreaseBrightness", "Stop"})}
FireplaceDevices ==
  {Device("FP", {"TurnOn", "TurnOff", "TogglePower", "SetFlame", "IncreaseFlame", "Pair"}),
   Device("FP", {"TurnOn", "TurnOff", "SetHeat", "HeatPresetNext"} \cup LightActions)}
Shades ==
  {Device("MS", as \cup {"ToggleOpen"}) :
     as \in SUBSET {"Open", "Close", "Raise", "Retract", "Hold", "TiltOpen"}}
  \cup {Device("MS", {"Open", "Close", "SetPosition", "IncreasePosition", "SetSheerPosition"}),
        Device("MS", {"SetUpperRailPosition", "RaiseUpperRail", "LowerUpperRail", "Preset",
                      "SetLowerRailPosition", "LowerLowerRail"})}
  \cup {With(With(Device("MS", {"SetTiltPosition", "TiltOpen", "TiltClose", "Hold"}),
                  "min_tilt", r[1]), "max_tilt", r[2]) :
          r \in {<<0, 90>>, <<-90, 90>>, <<45, 45>>}}
  \cup {With(Device("MS", {"SetPosition", "SetTiltPosition"}), "min_tilt", 75)}
Others ==
  {Device("GX", {"TurnOn", "TurnOff", "TogglePower"}),
   Group({"MS", "FP"}, {"ToggleOpen", "SetHeat", "TurnOff", "Stop", "Pair"})}

MCDevices == Fans \cup LightDevices \cup FireplaceDevices \cup Shades \cup Others
MCSamples == {0, 1, 33, 34, 50, 99, 100}
MCTenths == {4, 5, 6, 14, 15, 25, 994, 996}
MCKelvins == {1950, 2250, 2700}
=================================================================================
