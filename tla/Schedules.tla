------------------------------- MODULE Schedules -------------------------------
(***************************************************************************)
(* The schedules (skeds) that bridges keep for devices, groups, scenes and *)
(* channels, and the services that list, create, update and delete them    *)
(* (services.py, Bond.skeds and its siblings).  Nothing is cached: a list  *)
(* is one request for the ids and one for each schedule, and in between    *)
(* other calls and other clients of the bridge change them.                *)
(*                                                                         *)
(* The names are not those of BondCall, whose calls the requests are, so   *)
(* that one module can extend both.                                        *)
(***************************************************************************)
EXTENDS Integers, FiniteSets

CONSTANTS
  ServiceCall, \* calls of the services
  Hub,         \* config entries, one for each bridge
  Unsaid,      \* no config_entry_id
  Owner,       \* whatever has schedules
  Scenes,      \* the scenes among them
  HubOf,       \* the bridge of an owner
  Id,          \* ids of schedules; none is given twice
  Body,        \* what a schedule says: mark, seconds, days, action, ...
  Before,      \* what the bridges may have at the start
  AsksOf(_),   \* what a call may ask
  Others,      \* what other clients of the bridges may ask
  MaxFailures, \* bound: failed requests
  MaxOthers    \* bound: changes by other clients of the bridges

Sked == [id : Id, owner : Owner, body : Body]
(* A call has the fields its service needs, with an action or without. *)
Ask == [service : {"list", "create", "update", "delete"}, entry : Hub \cup {Unsaid},
        owner : Owner, id : Id, action : BOOLEAN, body : Body]

ASSUME HubsAssumption == Unsaid \notin Hub /\ HubOf \in [Owner -> Hub] /\ Scenes \subseteq Owner
ASSUME AsksAssumption ==
  /\ \A ss \in Before : ss \subseteq Sked
  /\ Others \subseteq Ask /\ \A c \in ServiceCall : AsksOf(c) \subseteq Ask

VARIABLES
  loaded,      \* entries that are loaded
  skeds,       \* the schedules the bridges have
  given,       \* ids given so far
  phase,       \* a call is idle, listing, reading, writing, or ended one way or another
  ask, hub,    \* what it asked, and the entry it resolved
  todo, found, \* Bond.skeds: ids not read yet, and the schedules read
  late,        \* writes that were given up and may still be run
  failures, others

(* History: the ids its owner had, and the schedules there were, at some   *)
(* moment since a list was asked for.                                      *)
VARIABLES moments, seen

serviceVars == <<phase, ask, hub, todo, found, late>>
skedsVars == <<loaded, skeds, given, serviceVars, failures, others, moments, seen>>

Running == {"listing", "reading", "writing"}
Ended == {"returned", "raised", "refused", "not loaded", "multiple"}
SkedsOf(owner) == {s \in skeds : s.owner = owner}
IdsOf(ss) == {s.id : s \in ss}

SkedsTypeOK ==
  /\ loaded \subseteq Hub /\ skeds \subseteq Sked /\ given \subseteq Id
  /\ phase \in [ServiceCall -> {"idle"} \cup Running \cup Ended]
  /\ ask \in [ServiceCall -> Ask \cup {Unsaid}] /\ hub \in [ServiceCall -> Hub \cup {Unsaid}]
  /\ todo \in [ServiceCall -> SUBSET Id] /\ found \in [ServiceCall -> SUBSET Sked]
  /\ late \subseteq ServiceCall
  /\ \A c \in ServiceCall : phase[c] \in Running \/ c \in late => ask[c] \in Ask /\ hub[c] \in Hub

SkedsInit ==
  /\ loaded \in SUBSET Hub
  /\ skeds \in Before /\ given = IdsOf(skeds)
  /\ phase = [c \in ServiceCall |-> "idle"]
  /\ ask = [c \in ServiceCall |-> Unsaid] /\ hub = [c \in ServiceCall |-> Unsaid]
  /\ todo = [c \in ServiceCall |-> {}] /\ found = [c \in ServiceCall |-> {}]
  /\ late = {}
  /\ failures = MaxFailures /\ others = MaxOthers
  /\ moments = [c \in ServiceCall |-> {}] /\ seen = [c \in ServiceCall |-> {}]

(* _async_get_entry: the loaded entry that is meant, if there is one.      *)
Target(entry) ==
  IF entry = Unsaid THEN IF Cardinality(loaded) = 1 THEN loaded ELSE {} ELSE {entry} \cap loaded

(* create_sked checks the action of what it is to send; update_sked does not. *)
Unfit(a) == a.service = "create" /\ (a.action <=> a.owner \in Scenes)

End(c, how) == phase' = [phase EXCEPT ![c] = how]

(* A service is called: it is refused, or its first request is made. *)
Called(c) ==
  /\ phase[c] = "idle"
  /\ \E a \in AsksOf(c) :
       /\ ask' = [ask EXCEPT ![c] = a]
       /\ \/ Unfit(a) /\ End(c, "refused") /\ UNCHANGED hub
          \/ /\ ~Unfit(a) /\ Target(a.entry) = {} /\ UNCHANGED hub
             /\ End(c, IF a.entry = Unsaid THEN "multiple" ELSE "not loaded")
          \/ \E h \in Target(a.entry) :
               /\ ~Unfit(a) /\ hub' = [hub EXCEPT ![c] = h]
               /\ End(c, IF a.service = "list" THEN "listing" ELSE "writing")
  /\ UNCHANGED <<loaded, skeds, given, todo, found, late, failures, others>>

Here(c) == HubOf[ask[c].owner] = hub[c]

(* The bridge answers the list with the ids of the owner's schedules, or   *)
(* with 404 if it has no such owner.                                       *)
Listed(c) ==
  /\ phase[c] = "listing"
  /\ LET ids == IdsOf(SkedsOf(ask[c].owner))
     IN \/ Here(c) /\ todo' = [todo EXCEPT ![c] = ids]
           /\ End(c, IF ids = {} THEN "returned" ELSE "reading")
        \/ ~Here(c) /\ End(c, "raised") /\ UNCHANGED todo
  /\ UNCHANGED <<loaded, skeds, given, ask, hub, found, late, failures, others>>

(* What the bridge answers the request for a schedule: none for 404. *)
Reads(c, i) == {s \in SkedsOf(ask[c].owner) : s.id = i}

(* Mutant: a schedule that is gone is left out. *)
ReadOrSkip(c) ==
  /\ phase[c] = "reading"
  /\ \E i \in todo[c] :
       /\ found' = [found EXCEPT ![c] = @ \cup Reads(c, i)]
       /\ todo' = [todo EXCEPT ![c] = @ \ {i}]
       /\ End(c, IF todo[c] = {i} THEN "returned" ELSE "reading")
  /\ UNCHANGED <<loaded, skeds, given, ask, hub, late, failures, others>>

(* The next schedule is read, in whatever order the list had; one that is  *)
(* gone raises.                                                            *)
ReadOne(c) ==
  /\ phase[c] = "reading"
  /\ \E i \in todo[c] :
       \/ /\ Reads(c, i) # {}
          /\ found' = [found EXCEPT ![c] = @ \cup Reads(c, i)]
          /\ todo' = [todo EXCEPT ![c] = @ \ {i}]
          /\ End(c, IF todo[c] = {i} THEN "returned" ELSE "reading")
       \/ Reads(c, i) = {} /\ End(c, "raised") /\ UNCHANGED <<found, todo>>
  /\ UNCHANGED <<loaded, skeds, given, ask, hub, late, failures, others>>

Meant(a) == {s \in SkedsOf(a.owner) : s.id = a.id}
Create(a) ==
  \E i \in Id \ given :
    /\ given' = given \cup {i}
    /\ skeds' = skeds \cup {[id |-> i, owner |-> a.owner, body |-> a.body]}
Update(a) ==
  /\ skeds' = (skeds \ Meant(a)) \cup {[id |-> s.id, owner |-> s.owner, body |-> a.body] : s \in Meant(a)}
  /\ UNCHANGED given
Delete(a) == skeds' = skeds \ Meant(a) /\ UNCHANGED given
Write(a) ==
  \/ a.service = "create" /\ Create(a)
  \/ a.service = "update" /\ Update(a)
  \/ a.service = "delete" /\ Delete(a)
Possible(a) == a.service = "create" \/ Meant(a) # {}

(* The bridge runs a write and answers, or answers 404. *)
Written(c) ==
  /\ phase[c] = "writing"
  /\ \/ Here(c) /\ Possible(ask[c]) /\ Write(ask[c]) /\ End(c, "returned")
     \/ ~(Here(c) /\ Possible(ask[c])) /\ End(c, "raised") /\ UNCHANGED <<skeds, given>>
  /\ UNCHANGED <<loaded, ask, hub, todo, found, late, failures, others>>

(* A request fails; a write may nevertheless have reached the bridge. *)
Fails(c) ==
  /\ phase[c] \in Running /\ failures > 0 /\ failures' = failures - 1
  /\ End(c, "raised")
  /\ late' \in {late, late \cup {d \in {c} : phase[d] = "writing" /\ Here(d)}}
  /\ UNCHANGED <<loaded, skeds, given, ask, hub, todo, found, others>>

RunsLate(c) ==
  /\ c \in late /\ late' = late \ {c}
  /\ Write(ask[c])
  /\ UNCHANGED <<loaded, phase, ask, hub, todo, found, failures, others>>

(* Another client of a bridge. *)
Other ==
  /\ others > 0 /\ others' = others - 1
  /\ \E a \in Others : Possible(a) /\ Write(a)
  /\ UNCHANGED <<loaded, serviceVars, failures>>

(* An entry is set up or unloaded: EntryLifecycle. *)
EntryChanges ==
  /\ \E h \in Hub : loaded' = IF h \in loaded THEN loaded \ {h} ELSE loaded \cup {h}
  /\ UNCHANGED <<skeds, given, serviceVars, failures, others>>

Step ==
  \/ \E c \in ServiceCall : Called(c) \/ Listed(c) \/ ReadOne(c) \/ Written(c) \/ Fails(c) \/ RunsLate(c)
  \/ Other \/ EntryChanges

Watch ==
  LET watched == {c \in ServiceCall : /\ phase[c] \in Running \/ phase'[c] \in Running
                               /\ ask'[c].service = "list"}
  IN /\ moments' = [c \in ServiceCall |->
                      IF c \in watched
                      THEN moments[c] \cup {IdsOf({s \in skeds' : s.owner = ask'[c].owner})}
                      ELSE moments[c]]
     /\ seen' = [c \in ServiceCall |-> IF c \in watched THEN seen[c] \cup skeds' ELSE seen[c]]

SkedsNext == Step /\ Watch
SkedsSpec == SkedsInit /\ [][SkedsNext]_skedsVars

(***************************************************************************)
(* Properties.                                                             *)
(***************************************************************************)

(* However others create, change and delete while a list is read one by    *)
(* one: what it returns are the schedules that its owner had at one moment *)
(* of the call, none missing and none too many, each as it was at some     *)
(* moment of the call (bond.py:288-299).                                   *)
ListedTogether ==
  \A c \in ServiceCall :
    phase[c] = "returned" /\ ask[c].service = "list" =>
      /\ IdsOf(found[c]) \in moments[c] /\ found[c] \subseteq seen[c]
      /\ \A s \in found[c] : s.owner = ask[c].owner
================================================================================
