------------------------------ MODULE MCStateSync ------------------------------
(***************************************************************************)
(* A group of fans with a light, and a device without entities.  The fan   *)
(* is told first; the members of the group differ in their breeze after    *)
(* its first change, and agree again after its second.                     *)
(***************************************************************************)
EXTENDS StateSync
FanAndLight == <<1, 1>>
GroupDiffers == {<<1, 1>>}
==============================================================================
