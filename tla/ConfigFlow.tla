------------------------------- MODULE ConfigFlow -------------------------------
(***************************************************************************)
(* The flows that create and change config entries: discovery, user,       *)
(* reauth and reconfigure, several at a time, each from one await to the   *)
(* next.  Bridges change hosts and tokens meanwhile, and entries are set   *)
(* up again after every change.  Unique ids, flows in progress, reloads    *)
(* and forms are Home Assistant's, modelled as the flows use them.         *)
(*                                                                         *)
(* A validation, hub.setup() with one device, is three steps: the version, *)
(* which has the bond id and which a bridge may tell anybody; the list of  *)
(* devices, which takes the token; and what follows, which a bridge that   *)
(* has changed its token by then may refuse, or let pass, as lists of      *)
(* groups and scenes that it refuses count as empty.                       *)
(***************************************************************************)
EXTENDS Integers

CONSTANTS
  Bridge,        \* bridges; their bond ids are the unique ids
  Host,          \* a host for every bridge
  Home,          \* where each bridge is at first
  Announcing,    \* the bridges that are discovered
  User,          \* dialogs a user may have open
  None,
  MaxChanges,    \* bound: bridges trading places, and new tokens
  MaxFaults,     \* bound: requests that fail
  MaxSubmits     \* bound: forms filled in

ASSUME BoundsAssumption == {MaxChanges, MaxFaults, MaxSubmits} \subseteq Nat
ASSUME BridgesAssumption ==
  /\ Home \in [Bridge -> Host] /\ \A h \in Host : \E b \in Bridge : Home[b] = h
  /\ \A b, c \in Bridge : b # c => Home[b] # Home[c]
  /\ Announcing \subseteq Bridge /\ None \notin Bridge \cup Host

VARIABLES
  at,       \* the host of each bridge
  secret,   \* how often the bridge has changed its token
  entry,    \* by unique id: host, token and state, or NoEntry
  flow,     \* the flows
  changes, faults, submits,   \* what is left of the bounds
  replaced, \* history: the flows that replaced an entry, and if overtaken
  met       \* history: the tokens, and so the bridges, there have been at
            \* the host of a flow since it was discovered or typed in

worldVars == <<at, secret>>
boundVars == <<changes, faults, submits>>
stepVars == <<worldVars, entry, flow, boundVars, replaced>>
vars == <<stepVars, met>>

Token(b) == <<b, secret[b]>>
NoEntry == [state |-> "none"]
Exists(b) == entry[b] # NoEntry

(* There is one reauth flow of an entry at most, and no two discoveries    *)
(* with the same unique id: as many as bridges will do. *)
Flow == {<<kind, b>> : kind \in {"discovery", "reauth"}, b \in Bridge} \cup {<<"user", u>> : u \in User}

(* What a flow holds: its unique id; the entry it reconfigures; what was   *)
(* discovered; the data under validation, the bond id found and whether    *)
(* the token was taken.  A flow whose step raised is "stuck": in progress, *)
(* with nothing to go on with.  One that was ended while it validated is   *)
(* "dismissed": not in progress, but its coroutine goes on.  It is         *)
(* overtaken if an entry of its unique id was made in its first step       *)
(* (history). *)
Untried == [host |-> None, token |-> None]
Started(step, id, target, host) ==
  [step |-> step, uid |-> id, target |-> target, host |-> host, token |-> None,
   tried |-> Untried, found |-> None, checked |-> FALSE, overtaken |-> FALSE]
Unstarted == Started("idle", None, None, None)
Active(f) == flow[f].step # "idle"
InProgress(f, id) == \E g \in Flow \ {f} : Active(g) /\ flow[g].uid = id
Target(f) == IF f[1] = "reauth" THEN f[2] ELSE flow[f].target
Goto(f, fields) == flow' = [flow EXCEPT ![f] = fields]

Init ==
  /\ at = Home
  /\ secret = [b \in Bridge |-> 0]
  /\ entry = [b \in Bridge |-> NoEntry]
  /\ flow = [f \in Flow |-> Unstarted]
  /\ changes = MaxChanges /\ faults = MaxFaults /\ submits = MaxSubmits
  /\ replaced = {} /\ met = [f \in Flow |-> {}]

Fault == faults > 0 /\ faults' = faults - 1
At(h) == CHOOSE b \in Bridge : at[b] = h

(***************************************************************************)
(* What Home Assistant does for a flow.                                    *)
(***************************************************************************)
End(f) == Goto(f, Unstarted)
Stuck(f) == Goto(f, Started("stuck", flow[f].uid, None, None))
Form(f, id) ==
  Goto(f, [flow[f] EXCEPT !.step = "form", !.uid = id, !.tried = Untried, !.found = None,
                          !.checked = FALSE, !.overtaken = @ /\ id = flow[f].uid])
Validate(f, step, token, host, tried) ==
  Goto(f, [flow[f] EXCEPT !.step = step, !.token = token, !.tried = [host |-> host, token |-> tried]])

(* async_update_reload_and_abort, but for the abort. *)
UpdateReload(b, host, token, evenIfSame) ==
  /\ entry' = [entry EXCEPT ![b] =
       IF evenIfSame \/ @.host # host \/ @.token # token
       THEN [host |-> host, token |-> token, state |-> "setup"] ELSE @]
  /\ UNCHANGED replaced

(* _abort_if_unique_id_configured(updates = {host}). *)
UpdateHost(f, b, host) ==
  LET reload == \/ entry[b].host # host /\ entry[b].state \in {"loaded", "setup_retry"}
                \/ f[1] = "discovery" /\ entry[b].state = "setup_retry"
  IN /\ entry' = [entry EXCEPT ![b] =
          [host |-> host, token |-> @.token, state |-> IF reload THEN "setup" ELSE @.state]]
     /\ End(f)
     /\ UNCHANGED replaced

(* A flow whose unique id gets an entry ends if it has shown a form.       *)
Overtake(r) ==
  CASE r.step = "form" -> Unstarted
    [] r.step = "validating" -> [r EXCEPT !.step = "dismissed", !.uid = None]
    [] OTHER -> [r EXCEPT !.overtaken = TRUE]

(* async_create_entry: an entry with that unique id is removed, with the   *)
(* flows that are about it. *)
Create(f, b, host, token) ==
  /\ entry' = [entry EXCEPT ![b] = [host |-> host, token |-> token, state |-> "setup"]]
  /\ flow' = [g \in Flow |->
       IF g = f \/ (Exists(b) /\ Target(g) = b) THEN Unstarted
       ELSE IF flow[g].uid = b THEN Overtake(flow[g]) ELSE flow[g]]
  /\ replaced' = IF Exists(b) THEN replaced \cup {[flow |-> f, overtaken |-> flow[f].overtaken]}
                 ELSE replaced

(***************************************************************************)
(* Discovery.                                                              *)
(***************************************************************************)
(* async_step_dhcp, async_step_zeroconf and the start of                   *)
(* async_step_any_discovery.  Aborted if the unique id is in progress.     *)
Announced(b) ==
  /\ \A g \in Flow : Active(g) => flow[g].uid # b
  /\ Exists(b) /\ entry[b].state # "setup_error"
  /\ UpdateReload(b, at[b], entry[b].token, FALSE)
  /\ UNCHANGED <<worldVars, flow, boundVars>>

(* A flow remains only if there is a token to ask for. *)
Discover(f, b) ==
  /\ f[1] = "discovery" /\ ~Active(f) /\ ~InProgress(f, b)
  /\ f[2] = b \/ Active(<<"discovery", b>>)
  /\ \/ Exists(b) /\ entry[b].state = "setup_error" /\ Goto(f, Started("entry_token", b, None, at[b]))
     \/ ~Exists(b) /\ Goto(f, Started("token", b, None, at[b]))
  /\ UNCHANGED <<worldVars, entry, boundVars, replaced>>

(* Mutant: the entry's host is left alone. *)
HostAsBefore(f) ==
  /\ flow[f].step = "entry_token"
  /\ LET b == flow[f].uid IN UpdateReload(b, entry[b].host, Token(At(flow[f].host)), FALSE)
  /\ End(f)
  /\ UNCHANGED <<worldVars, boundVars>>

(* async_get_token for an entry in SETUP_ERROR: the bridge gives it away,  *)
(* or not. *)
EntryToken(f) ==
  /\ flow[f].step = "entry_token"
  /\ LET b == flow[f].uid IN
     \E token \in {entry[b].token, Token(At(flow[f].host))} :
       UpdateReload(b, flow[f].host, token, FALSE)
  /\ End(f)
  /\ UNCHANGED <<worldVars, boundVars>>

(* async_get_token of _async_try_automatic_configure. *)
FetchToken(f) ==
  /\ flow[f].step = "token"
  /\ \/ Form(f, flow[f].uid)
     \/ LET token == Token(At(flow[f].host))
        IN Validate(f, "automatic", token, flow[f].host, token)
  /\ UNCHANGED <<worldVars, entry, boundVars, replaced>>

(* Neither of them expects an error answer, nor the first a timeout. *)
TokenRaises(f) ==
  /\ flow[f].step \in {"token", "entry_token"} /\ Fault
  /\ Stuck(f)
  /\ UNCHANGED <<worldVars, entry, changes, submits, replaced>>

(***************************************************************************)
(* _validate_input.                                                        *)
(***************************************************************************)
Validating(f) == flow[f].step \in {"automatic", "validating", "dismissed"}

(* Does the bridge that is at the host now take the token? *)
Takes(f) == Token(At(flow[f].tried.host)) = flow[f].tried.token

ReadVersion(f) ==
  /\ Validating(f) /\ flow[f].found = None
  /\ Goto(f, [flow[f] EXCEPT !.found = At(flow[f].tried.host)])
  /\ UNCHANGED <<worldVars, entry, boundVars, replaced>>

ListDevices(f) ==
  /\ Validating(f) /\ flow[f].found # None /\ ~flow[f].checked /\ Takes(f)
  /\ Goto(f, [flow[f] EXCEPT !.checked = TRUE])
  /\ UNCHANGED <<worldVars, entry, boundVars, replaced>>

(* A request fails, or is refused for its token. *)
Invalid(f) ==
  \/ ~Takes(f) /\ UNCHANGED faults
  \/ Fault

(* hub.name has no name if the last request, /v2/bridge, was refused: the  *)
(* step raises.  A flow that shows a form stays at it, as if rejected.     *)
NameRaises(f) ==
  /\ flow[f].step = "automatic" /\ flow[f].checked /\ Invalid(f)
  /\ Stuck(f)
  /\ UNCHANGED <<worldVars, entry, changes, submits, replaced>>

(* async_set_unique_id aborts the flow if another one has that id. *)
Taken(f) == InProgress(f, flow[f].found) /\ End(f) /\ UNCHANGED <<entry, replaced>>
Free(f)  == ~InProgress(f, flow[f].found)

(* The automatic configuration keeps a token that is not valid. *)
KeepToken(f) ==
  /\ flow[f].step = "automatic" /\ Invalid(f)
  /\ Form(f, flow[f].uid)
  /\ UNCHANGED <<worldVars, entry, changes, submits, replaced>>

Automatic(f) ==
  /\ flow[f].step = "automatic" /\ flow[f].checked
  /\ \/ Taken(f)
     \/ Free(f) /\ Exists(flow[f].found) /\ UpdateHost(f, flow[f].found, flow[f].host)
     \/ /\ Free(f) /\ ~Exists(flow[f].found)
        /\ Form(f, flow[f].found) /\ UNCHANGED <<entry, replaced>>
  /\ UNCHANGED <<worldVars, boundVars>>

(***************************************************************************)
(* Forms.                                                                  *)
(***************************************************************************)
(* async_step_user, async_step_reconfigure: the user opens a dialog. *)
Open(f) ==
  /\ f[1] = "user" /\ ~Active(f) /\ submits > 0
  /\ \E t \in {None} \cup {b \in Bridge : Exists(b)} :
       Goto(f, Started("form", None, t, None))
  /\ UNCHANGED <<worldVars, entry, boundVars, replaced>>

(* A form is sent: a discovery or reauth flow asks for a token only, and   *)
(* reads the host, of the entry for reauth, before it validates them.      *)
Submit(f) ==
  /\ flow[f].step = "form" /\ submits > 0 /\ submits' = submits - 1
  /\ f[1] = "discovery" => flow[f].token = None
  /\ \E b \in Bridge, h \in Host :
       /\ f[1] = "discovery" => h = flow[f].host
       /\ f[1] = "reauth" => h = entry[f[2]].host
       /\ Validate(f, "validating", flow[f].token, h, Token(b))
  /\ UNCHANGED <<worldVars, entry, changes, faults, replaced>>

(* async_step_confirm of a flow that has a token, valid or not: the entry  *)
(* is not looked up again. *)
Confirm(f) ==
  /\ flow[f].step = "form" /\ flow[f].token # None
  /\ Create(f, flow[f].uid, flow[f].host, flow[f].token)
  /\ UNCHANGED <<worldVars, boundVars>>

(* The form is shown again, with an error. *)
Rejected(f) ==
  /\ flow[f].step = "validating" /\ Invalid(f)
  /\ Form(f, flow[f].uid)
  /\ UNCHANGED <<worldVars, entry, changes, submits, replaced>>

(* Mutant: the unique id is not looked up before an entry is created. *)
CreatesAnyway(f) ==
  /\ flow[f].step = "validating" /\ flow[f].checked
  /\ f[1] # "reauth" /\ flow[f].target = None
  /\ Create(f, flow[f].found, flow[f].tried.host, flow[f].tried.token)
  /\ UNCHANGED <<worldVars, boundVars>>

(* async_step_confirm and async_step_user with valid data: a new entry, or *)
(* the host of the one there is.  The user's flow does not mind others in  *)
(* progress. *)
Accepted(f) ==
  /\ flow[f].step = "validating" /\ flow[f].checked
  /\ f[1] # "reauth" /\ flow[f].target = None
  /\ \/ f[1] = "discovery" /\ Taken(f)
     \/ /\ f[1] = "discovery" => Free(f)
        /\ IF Exists(flow[f].found) THEN UpdateHost(f, flow[f].found, flow[f].tried.host)
           ELSE Create(f, flow[f].found, flow[f].tried.host, flow[f].tried.token)
  /\ UNCHANGED <<worldVars, boundVars>>

(* Mutant: the entry takes whatever bridge answered. *)
AnyDevice(f) ==
  /\ flow[f].step = "validating" /\ flow[f].checked /\ Target(f) # None /\ Free(f)
  /\ UpdateReload(Target(f), flow[f].tried.host, flow[f].tried.token, TRUE)
  /\ End(f)
  /\ UNCHANGED <<worldVars, boundVars>>

(* async_step_reauth_confirm and async_step_reconfigure with valid data:   *)
(* wrong_device, or the data are stored as they were validated. *)
Updated(f) ==
  /\ flow[f].step = "validating" /\ flow[f].checked /\ Target(f) # None
  /\ IF Free(f) /\ flow[f].found = Target(f)
     THEN UpdateReload(Target(f), flow[f].tried.host, flow[f].tried.token, TRUE)
     ELSE UNCHANGED <<entry, replaced>>
  /\ End(f)
  /\ UNCHANGED <<worldVars, boundVars>>

(* What is left of a flow that was ended while it validated: it may not    *)
(* create an entry or show a form, but the host is stored all the same.    *)
Dismissed(f) ==
  /\ flow[f].step = "dismissed"
  /\ \/ /\ flow[f].checked /\ Free(f) /\ Exists(flow[f].found)
        /\ UpdateHost(f, flow[f].found, flow[f].tried.host) /\ UNCHANGED faults
     \/ /\ flow[f].checked /\ ~(Free(f) /\ Exists(flow[f].found)) /\ UNCHANGED faults
        /\ End(f) /\ UNCHANGED <<entry, replaced>>
     \/ Invalid(f) /\ End(f) /\ UNCHANGED <<entry, replaced>>
  /\ UNCHANGED <<worldVars, changes, submits>>

(***************************************************************************)
(* Entries and bridges.                                                    *)
(***************************************************************************)
(* Reauth starts unless the entry is being reconfigured or has asked. *)
Asked(b) ==
  \/ Active(<<"reauth", b>>)
  \/ \E u \in User : Active(<<"user", u>>) /\ flow[<<"user", u>>].target = b

(* async_setup_entry, as EntryLifecycle has it: the unique id is not       *)
(* compared with what the bridge at the host says it is. *)
SetUp(b) ==
  /\ Exists(b) /\ entry[b].state = "setup"
  /\ \/ /\ Token(At(entry[b].host)) = entry[b].token
        /\ entry' = [entry EXCEPT ![b].state = "loaded"] /\ UNCHANGED <<flow, faults>>
     \/ /\ Token(At(entry[b].host)) # entry[b].token
        /\ entry' = [entry EXCEPT ![b].state = "setup_error"] /\ UNCHANGED faults
        /\ IF Asked(b) THEN UNCHANGED flow
           ELSE Goto(<<"reauth", b>>, Started("form", b, None, None))
     \/ /\ Fault /\ UNCHANGED flow
        /\ \E s \in {"setup_retry", "setup_error"} : entry' = [entry EXCEPT ![b].state = s]
  /\ UNCHANGED <<worldVars, changes, submits, replaced>>

Retry(b) ==
  /\ Exists(b) /\ entry[b].state = "setup_retry"
  /\ entry' = [entry EXCEPT ![b].state = "setup"]
  /\ UNCHANGED <<worldVars, flow, boundVars, replaced>>

(* Two bridges trade their addresses. *)
Move ==
  /\ changes > 0 /\ changes' = changes - 1
  /\ \E b, c \in Bridge : b # c /\ at' = [at EXCEPT ![b] = at[c], ![c] = at[b]]
  /\ UNCHANGED <<secret, entry, flow, faults, submits, replaced>>

Rotate(b) ==
  /\ changes > 0 /\ changes' = changes - 1
  /\ secret' = [secret EXCEPT ![b] = @ + 1]
  /\ UNCHANGED <<at, entry, flow, faults, submits, replaced>>

Validation(f) == ReadVersion(f) \/ ListDevices(f) \/ KeepToken(f) \/ Rejected(f) \/ NameRaises(f)
FlowStep(f) ==
  \/ EntryToken(f) \/ FetchToken(f) \/ Validation(f)
  \/ Automatic(f) \/ Accepted(f) \/ Updated(f) \/ Dismissed(f)

Step ==
  \/ \E f \in Flow : FlowStep(f) \/ TokenRaises(f) \/ Open(f) \/ Submit(f) \/ Confirm(f)
  \/ \E b \in Announcing : Announced(b) \/ \E f \in Flow : Discover(f, b)
  \/ \E b \in Bridge : SetUp(b) \/ Retry(b) \/ Rotate(b)
  \/ Move

(* The host a flow has been told of, and who is there. *)
Facing(f) == IF flow[f].step \in {"validating", "dismissed"} THEN flow[f].tried.host ELSE flow[f].host
There(f) == IF Facing(f) = None THEN {} ELSE {Token(At(Facing(f)))}
(* The history variable met. *)
Meets == met' = [f \in Flow |-> IF There(f)' = {} THEN {} ELSE met[f] \cup There(f)']

Next == Step /\ Meets

SafeSpec == Init /\ [][Next]_vars

(* Requests end, bridges announce themselves again and again, and Home     *)
(* Assistant gets round to setting up; no user need ever answer.           *)
Spec ==
  /\ SafeSpec
  /\ \A f \in Flow : WF_vars(FlowStep(f) /\ Meets)
  /\ \A b \in Announcing : WF_vars((Announced(b) \/ \E f \in Flow : Discover(f, b)) /\ Meets)
  /\ \A b \in Bridge : WF_vars((SetUp(b) \/ Retry(b)) /\ Meets)

(***************************************************************************)
(* Properties.                                                             *)
(***************************************************************************)
(* Whatever is stored in an entry was true of its bridge not long before,  *)
(* however bridges move and change their tokens between the requests of a  *)
(* flow: its bridge was at the host, and the host had that token, at some  *)
(* moment since the flow was discovered or the data were typed in, though  *)
(* perhaps neither now nor at the same moment.  A flow during which        *)
(* nothing changes stores what is true (config_flow.py:103-110, 141-151,   *)
(* 173-195, 216-224, 240-255, 270-277; utils.py:258-299).                  *)
Data(b) == IF Exists(b) THEN <<entry[b].host, entry[b].token>> ELSE <<>>
Vouches(f, b, old, new) ==
  /\ new.host = Facing(f)
  /\ \E token \in met[f] : token[1] = b
  /\ new.token \in met[f] \/ (old # NoEntry /\ new.token = old.token)
StoredWasTrue ==
  [][\A b \in Bridge :
       Data(b)' # Data(b) =>
         \/ Exists(b) /\ entry'[b].host = at[b] /\ entry'[b].token = entry[b].token
         \/ \E f \in Flow : ~Active(f)' /\ Vouches(f, b, entry[b], entry'[b])]_vars

(* Only a discovery that was still in its first step when the entry was    *)
(* made can replace it, by a confirmed token that could not be validated   *)
(* (the flow has not looked since); every other flow for that bridge finds *)
(* the entry, or is ended by it (config_flow.py:106-110, 173-180, 190-195, *)
(* 219-224).                                                               *)
NoReplacement == \A r \in replaced : r.overtaken

(* An entry ends up with the host its bridge has, as long as discoveries   *)
(* go on, except while another flow of that bridge waits for its user or   *)
(* is stuck: a reauth that nobody answers keeps the new host out, and the  *)
(* token discovery would have fetched (config_flow.py:119, 131, 138-151).  *)
FollowsBridge ==
  \A b \in Announcing :
    <>[](Exists(b) /\ entry[b].host # at[b] =>
           \E f \in Flow : flow[f].uid = b /\ flow[f].step \in {"form", "stuck"})
================================================================================
