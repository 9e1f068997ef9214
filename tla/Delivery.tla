-------------------------------- MODULE Delivery --------------------------------
(***************************************************************************)
(* What the HTTP client promises to those who await it: the bridge runs a  *)
(* write at most once, even one whose caller was told it failed; a call    *)
(* returns only when the bridge has run it.                                *)
(***************************************************************************)
EXTENDS Naturals

CONSTANTS
  Call,   \* calls of the Bond methods
  Read    \* those that only read

VARIABLES
  state,   \* what the caller of a call knows
  ran      \* how often the bridge ran it

vars == <<state, ran>>

Init == state = [c \in Call |-> "new"] /\ ran = [c \in Call |-> 0]

Ask(c) ==
  /\ state[c] = "new" /\ state' = [state EXCEPT ![c] = "open"] /\ UNCHANGED ran

(* The bridge may run a call after its caller has given up. *)
Run(c) ==
  /\ state[c] # "new"
  /\ c \in Read \/ ran[c] = 0
  /\ ran' = [ran EXCEPT ![c] = @ + 1]
  /\ UNCHANGED state

Return(c) ==
  /\ state[c] = "open" /\ ran[c] > 0
  /\ state' = [state EXCEPT ![c] = "returned"] /\ UNCHANGED ran

Raise(c) ==
  /\ state[c] = "open" /\ state' = [state EXCEPT ![c] = "raised"] /\ UNCHANGED ran

Next == \E c \in Call : Ask(c) \/ Run(c) \/ Return(c) \/ Raise(c)

SafeSpec == Init /\ [][Next]_vars
=================================================================================
