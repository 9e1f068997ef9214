------------------------------ MODULE DeviceModel ------------------------------
(***************************************************************************)
(* BondDevice and BondGroup of utils.py: a device is the types and actions *)
(* it lists, its properties, and whether it stands for a group.            *)
(***************************************************************************)
EXTENDS Sequences, FiniteSets, Conversions

None == "none"

has_action(d, a) == a \in d.actions
_has_any_action(d, as) == d.actions \cap as # {}

(* A group of several types has none of them. *)
Type(d) == IF Cardinality(d.types) = 1 THEN CHOOSE t \in d.types : TRUE ELSE ""
is_fan(d)       == Type(d) = "CF"
is_shades(d)    == Type(d) = "MS"
is_fireplace(d) == Type(d) = "FP"
is_light(d)     == Type(d) = "LT"
is_generic(d)   == Type(d) = "GX"

supports_speed(d)              == has_action(d, "SetSpeed")
supports_direction(d)          == has_action(d, "SetDirection")
supports_set_position(d)       == has_action(d, "SetPosition")
supports_set_tilt_position(d)  == has_action(d, "SetTiltPosition")
supports_tilt_open(d)          == has_action(d, "TiltOpen")
supports_tilt_close(d)         == has_action(d, "TiltClose")
supports_hold(d)               == has_action(d, "Hold")
supports_light(d)      == _has_any_action(d, {"TurnLightOn", "TurnLightOff"})
supports_up_light(d)   == _has_any_action(d, {"TurnUpLightOn", "TurnUpLightOff"})
supports_down_light(d) == _has_any_action(d, {"TurnDownLightOn", "TurnDownLightOff"})
supports_set_brightness(d)     == has_action(d, "SetBrightness")
supports_set_color_temp(d)     == has_action(d, "SetColorTemp")
supports_set_flame(d)          == has_action(d, "SetFlame")

(* Some shades only raise and lower, or retract and extend. *)
FirstListed(d, as) ==
  LET listed == {i \in DOMAIN as : has_action(d, as[i])}
  IN IF listed = {} THEN None ELSE as[CHOOSE i \in listed : \A j \in listed : i <= j]
(* Mutant: Open opens every shade. *)
OnlyOpen(d) == "Open"
open_action(d)  == FirstListed(d, <<"Open", "Raise", "Retract">>)
close_action(d) == FirstListed(d, <<"Close", "Lower", "Extend">>)
supports_open(d)  == open_action(d) # None
supports_close(d) == close_action(d) # None
================================================================================
