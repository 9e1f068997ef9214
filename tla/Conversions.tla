------------------------------ MODULE Conversions ------------------------------
(***************************************************************************)
(* The scales of Home Assistant and of the bridge, and the way between     *)
(* them.  Python's round() goes to the even neighbour of a half.           *)
(***************************************************************************)
EXTENDS Integers

(* n / d for a positive d. *)
Round(n, d) ==
  LET q == n \div d
      r == n % d
  IN IF 2 * r < d \/ (2 * r = d /\ q % 2 = 0) THEN q ELSE q + 1
Ceiling(n, d) == -((-n) \div d)

(* Brightness 1..255 and percent, the flame of a fireplace included.  The  *)
(* bridge's 0 is shown as no brightness.                                   *)
BondBrightness(b) == Round(b * 100, 255)
HassBrightness(p) == Round(p * 255, 100)

RoundKelvin(k) == 100 * Round(k, 100)

(* Positions run from 0, open, to 100, closed, on the bridge. *)
HassPosition(p) == IF p > 100 THEN p - 100 ELSE 100 - p
(* Mutant: the scale is not turned round. *)
SamePosition(h) == h
BondPosition(h) == 100 - h

(* Degrees of tilt, within the range of the device's properties. *)
TiltRange(props) ==
  <<props.min_tilt,
    IF props.max_tilt = props.min_tilt THEN props.min_tilt + 90 ELSE props.max_tilt>>
TiltDegrees(props) == TiltRange(props)[2] - TiltRange(props)[1]
(* Mutant: the range is taken to start at 0. *)
TiltFromZero(props, t) ==
  Round(t * 100, TiltDegrees(props))
HassTilt(props, t) ==
  Round((t - TiltRange(props)[1]) * 100, TiltDegrees(props))
BondTilt(props, h) ==
  Round(100 * TiltRange(props)[1] + h * TiltDegrees(props), 100)

(* The speed of a percentage and back: percentage_to_ranged_value and      *)
(* ranged_value_to_percentage of homeassistant.util.percentage.            *)
(* Mutants: rounded down; rounded to the nearest. *)
FloorSpeed(props, p) == (props.max_speed * p) \div 100
BondSpeed(props, p) == Ceiling(props.max_speed * p, 100)
NearestPercentage(props, s) == Round(100 * s, props.max_speed)
HassSpeed(props, s) == (100 * s) \div props.max_speed
================================================================================
