----------------------------- MODULE PushChannel -----------------------------
(***************************************************************************)
(* What the BPUP client promises to the rest of the integration: a flag    *)
(* that says whether push is alive, and an end after which it never is     *)
(* again.  coordinator.py polls slowly while the flag is up, fast while it *)
(* is down; __init__.py ends the channel when the entry is unloaded.       *)
(***************************************************************************)

VARIABLES
  alive,   \* BPUPSubscriptions.alive: a frame arrived within the timeout
  ended    \* the stop callable returned by start_bpup has been called

vars == <<alive, ended>>

Init == alive = FALSE /\ ended = FALSE

(* A frame of the bridge arrives. *)
Hear == ~ended /\ alive' = TRUE /\ UNCHANGED ended

(* The connection is lost, or no frame came in time. *)
Fall == alive' = FALSE /\ UNCHANGED ended

(* The owner stops the client for good. *)
End == ~ended /\ ended' = TRUE /\ alive' = FALSE

Next == Hear \/ Fall \/ End

SafeSpec == Init /\ [][Next]_vars

(* Self-healing: a channel that has not been ended does not stay down. *)
Spec == SafeSpec /\ WF_vars(Hear)
==============================================================================
