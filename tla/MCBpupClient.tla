----------------------------- MODULE MCBpupClient -----------------------------
(***************************************************************************)
(* BpupClient on a clock of ten-second ticks: the keep-alive every 3       *)
(* ticks, the alive timeout at 7, a reconnect after 1, 2, 4 and at most 6  *)
(* ticks plus half of that (30, 70 and 60 s in bpup.py:16-20; the first    *)
(* delay of 1 s is rounded up to a tick).                                  *)
(***************************************************************************)
EXTENDS BpupClient
==============================================================================
