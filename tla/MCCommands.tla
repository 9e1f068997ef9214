------------------------------- MODULE MCCommands -------------------------------
(***************************************************************************)
(* Two calls of a fan with a colour light, or of a group of such fans.     *)
(***************************************************************************)
EXTENDS Commands

CONSTANTS c1, c2

Fan(group) ==
  [types |-> {"CF"}, group |-> group, props |-> [max_speed |-> 3, min_tilt |-> 0, max_tilt |-> 90],
   actions |-> {"TurnOn", "TurnOff", "SetSpeed", "BreezeOn", "BreezeOff", "TurnLightOn",
                "TurnLightOff", "SetBrightness", "SetColorTemp"}]
MCDevices == {Fan(FALSE), Fan(TRUE)}

Of(class, call) == [entity |-> [class |-> class, key |-> ""], call |-> call]
MCAsks(d) ==
  {Of("BondLight", [service |-> "TURN_ON", brightness |-> 128, color_temp |-> 2750]),
   Of("BondLight", [service |-> "TURN_OFF"]),
   Of("BondFan", [service |-> "TURN_OFF"]),
   Of("BondFan", [service |-> "TURN_ON", preset_mode |-> 1]),
   Of("BondFan", [service |-> "TURN_ON", percentage |-> 0]),
   Of("BondFan", [service |-> "SET_SPEED", value |-> 50]),
   Of("BondFan", [service |-> "speed_belief", value |-> 100])}
=================================================================================
