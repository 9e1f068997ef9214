------------------------------ MODULE MCSchedules ------------------------------
(***************************************************************************)
(* A list and a write of a bridge's schedules, for a device and a scene;   *)
(* another bridge has a device of its own.                                 *)
(***************************************************************************)
EXTENDS Schedules

CONSTANTS lister, writer, home, away, fan, scene, lamp

Entries == {home, Unsaid}
Lists == [service : {"list"}, entry : Entries, owner : {fan, lamp},
          id : {1}, action : {FALSE}, body : {1}]
Writes == [service : {"create", "update", "delete"}, entry : {Unsaid}, owner : {fan, scene},
           id : {1}, action : BOOLEAN, body : {1}]
MCAsksOf(c) == IF c = lister THEN Lists ELSE Writes

MCOthers == [service : {"create", "update", "delete"}, entry : {Unsaid},
             owner : {fan}, id : Id, action : {TRUE}, body : {2}]
MCBefore == {{[id |-> 1, owner |-> o, body |-> 1], [id |-> 2, owner |-> fan, body |-> 1]}
             : o \in {fan, scene}}
MCHubOf == [o \in Owner |-> IF o = lamp THEN away ELSE home]
================================================================================
