---------------------------- MODULE MCEntryLifecycle ----------------------------
(***************************************************************************)
(* A product with up to two optional endpoints, a device and a group.      *)
(***************************************************************************)
EXTENDS EntryLifecycle

CONSTANTS dev, grp

MCOptionalKeys == <<"faults", "bpup">>
MCKindOf == [t \in Things |-> IF t = dev THEN "device" ELSE "group"]
================================================================================
