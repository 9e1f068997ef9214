------------------------------ MODULE MCConfigFlow ------------------------------
(***************************************************************************)
(* Two bridges that may trade places, and one dialog.                      *)
(***************************************************************************)
EXTENDS ConfigFlow, TLC
CONSTANTS b1, b2, h1, h2, u1
MCHome == b1 :> h1 @@ b2 :> h2
================================================================================
