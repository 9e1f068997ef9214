---------------------------- MODULE ConfigFlowProofs ----------------------------
(***************************************************************************)
(* What flows may replace, and that what they store was true of its        *)
(* bridge: for any number of bridges, dialogs, moves, new tokens, faults.  *)
(***************************************************************************)
EXTENDS ConfigFlow, TLAPS

Tokens == Bridge \X Nat
Entries == [host : Host, token : Tokens, state : {"setup", "loaded", "setup_retry", "setup_error"}]
Tries == [host : Host \cup {None}, token : Tokens \cup {None}]
Validations == {"automatic", "validating", "dismissed"}
Flows ==
  [step : {"idle", "token", "entry_token", "form", "stuck"} \cup Validations,
   uid : Bridge \cup {None}, target : Bridge \cup {None},
   host : Host \cup {None}, token : Tokens \cup {None}, tried : Tries,
   found : Bridge \cup {None}, checked : BOOLEAN, overtaken : BOOLEAN]

(* Every host has one bridge. *)
Places ==
  /\ at \in [Bridge -> Host] /\ secret \in [Bridge -> Nat]
  /\ \A h \in Host : \E b \in Bridge : at[b] = h
  /\ \A b, c \in Bridge : b # c => at[b] # at[c]
EntryTypes == entry \in [Bridge -> Entries \cup {NoEntry}]

(* What a flow f may hold.  A discovery that may yet create an entry knows *)
(* a bridge without one, unless it was overtaken in its first step; the    *)
(* other flows hold no token of their own; a reauth flow is of an entry.   *)
Pending(r) == r.step \in {"token", "automatic", "form", "validating"}
Fit(f, r) ==
  /\ r.step = "idle" => r = Unstarted
  /\ r.step \in {"token", "form"} => r.found = None /\ r.checked = FALSE
  /\ r.step \in Validations =>
       r.tried.host \in Host /\ r.tried.token \in Tokens /\ (r.checked => r.found # None)
  /\ f[1] = "discovery" /\ Pending(r) =>
       r.uid \in Bridge /\ (Exists(r.uid) => r.overtaken) /\ r.host \in Host /\ r.target = None
  /\ f[1] = "discovery" /\ r.step = "entry_token" =>
       r.uid \in Bridge /\ Exists(r.uid) /\ r.host \in Host
  /\ r.token # None => f[1] = "discovery"
  /\ r.target # None => Exists(r.target)
  /\ f[1] # "discovery" => r.step \in {"idle", "form", "validating"} /\ r.host = None
  /\ f[1] = "user" => r.uid = None
  /\ f[1] = "reauth" /\ r.step # "idle" => r.uid = f[2] /\ Exists(f[2])

(* Two discoveries never create an entry of the same bridge. *)
Apart(f, r) ==
  f[1] = "discovery" /\ Pending(r) =>
    \A g \in Flow \ {f} : g[1] = "discovery" /\ Pending(flow[g]) => flow[g].uid # r.uid

FInv ==
  /\ Places /\ EntryTypes /\ NoReplacement
  /\ flow \in [Flow -> Flows]
  /\ \A f \in Flow : Fit(f, flow[f]) /\ Apart(f, flow[f])

LEMMA TargetType == \A r \in Flows : r.target \in Bridge \cup {None}
  BY DEF Flows

LEMMA Kinds ==
  \A f \in Flow : f[1] \in {"discovery", "reauth", "user"}
                  /\ (f[1] \in {"discovery", "reauth"} => f[2] \in Bridge)
  BY DEF Flow

LEMMA IdleType == ASSUME NEW f \in Flow PROVE Unstarted \in Flows /\ Fit(f, Unstarted) /\ Apart(f, Unstarted)
  BY DEF Unstarted, Started, Untried, Flows, Tries, Validations, Fit, Apart, Pending

LEMMA FInit == Init => FInv
<1> SUFFICES ASSUME Init PROVE FInv
  OBVIOUS
<1>1. Places
  BY BridgesAssumption DEF Init, Places
<1>2. EntryTypes /\ NoReplacement
  BY DEF Init, EntryTypes, NoReplacement
<1>3. flow \in [Flow -> Flows] /\ \A f \in Flow : flow[f] = Unstarted
  BY IdleType DEF Init
<1>4. \A f \in Flow : Fit(f, flow[f]) /\ Apart(f, flow[f])
  BY <1>3, IdleType
<1> QED BY <1>1, <1>2, <1>3, <1>4 DEF FInv

(* The bridge at a host. *)
LEMMA AtHost == ASSUME Places, NEW h \in Host PROVE At(h) \in Bridge /\ at[At(h)] = h
  BY DEF Places, At

LEMMA TokenType == ASSUME Places, NEW b \in Bridge PROVE Token(b) \in Tokens
  BY DEF Places, Token, Tokens

(***************************************************************************)
(* A step of one flow, while the same entries exist.                       *)
(***************************************************************************)
LEMMA OneFlow ==
  ASSUME FInv, Places', EntryTypes', \A b \in Bridge : Exists(b)' <=> Exists(b), UNCHANGED replaced,
         NEW f \in Flow, NEW r \in Flows, Goto(f, r), Fit(f, r), Apart(f, r)
  PROVE  FInv'
<1>1. flow' \in [Flow -> Flows] /\ flow'[f] = r /\ \A g \in Flow \ {f} : flow'[g] = flow[g]
  BY DEF Goto, FInv
<1>2. ASSUME NEW g \in Flow, NEW q \in Flows, flow'[g] = q, Fit(g, q) PROVE Fit(g, flow[g])'
  BY <1>2, Kinds, TargetType DEF Fit, Pending
<1>3. \A g \in Flow : Fit(g, flow[g])'
  <2>1. Fit(f, flow[f])'
    BY <1>1, <1>2
  <2>2. ASSUME NEW g \in Flow \ {f} PROVE Fit(g, flow[g])'
    <3>1. flow[g] \in Flows /\ Fit(g, flow[g]) /\ flow'[g] = flow[g]
      BY <1>1 DEF FInv
    <3> QED BY <1>2, <3>1
  <2> QED BY <2>1, <2>2
<1>4. \A g \in Flow : Apart(g, flow[g])'
  BY <1>1 DEF FInv, Apart, Pending
<1> QED BY <1>1, <1>3, <1>4 DEF FInv, NoReplacement

LEMMA EntryExists == \A e \in Entries : e # NoEntry
  BY DEF Entries, NoEntry

LEMMA EntryType == ASSUME FInv, NEW b \in Bridge, Exists(b) PROVE entry[b] \in Entries
  BY DEF FInv, EntryTypes, Exists

LEMMA GoesOn ==
  ASSUME FInv, NEW f \in Flow, NEW r \in Flows, Goto(f, r), Fit(f, r), Apart(f, r),
         UNCHANGED <<worldVars, entry, replaced>>
  PROVE  FInv'
<1>1. Places' /\ EntryTypes' /\ \A b \in Bridge : Exists(b)' <=> Exists(b)
  BY DEF FInv, Places, EntryTypes, Exists, worldVars
<1> QED BY <1>1, OneFlow

LEMMA Ends ==
  ASSUME FInv, NEW f \in Flow, End(f), UNCHANGED <<worldVars, entry, replaced>> PROVE FInv'
  BY IdleType, GoesOn DEF End

(* The entry of a bridge changes: as many entries as before. *)
LEMMA Changes ==
  ASSUME FInv, NEW b \in Bridge, Exists(b), NEW e \in Entries,
         entry' = [entry EXCEPT ![b] = e], UNCHANGED worldVars
  PROVE  Places' /\ EntryTypes' /\ \A c \in Bridge : Exists(c)' <=> Exists(c)
<1>1. Places' /\ EntryTypes'
  BY DEF FInv, Places, EntryTypes, worldVars
<1>2. \A c \in Bridge : Exists(c)' <=> Exists(c)
  BY EntryExists DEF FInv, EntryTypes, Exists
<1> QED BY <1>1, <1>2

(* Nothing happens to flows. *)
LEMMA Around ==
  ASSUME FInv, Places', EntryTypes', \A b \in Bridge : Exists(b)' <=> Exists(b),
         UNCHANGED <<flow, replaced>>
  PROVE  FInv'
<1>1. ASSUME NEW f \in Flow, NEW r \in Flows, flow'[f] = r, Fit(f, r) PROVE Fit(f, flow[f])'
  BY <1>1, Kinds, TargetType DEF Fit, Pending
<1>2. \A f \in Flow : flow[f] \in Flows /\ flow'[f] = flow[f] /\ Fit(f, flow[f])
  BY DEF FInv
<1>3. \A f \in Flow : Fit(f, flow[f])'
  BY <1>1, <1>2
<1>4. \A f \in Flow : Apart(f, flow[f])'
  BY DEF FInv, Apart, Pending
<1> QED BY <1>3, <1>4 DEF FInv, NoReplacement

LEMMA Reloaded ==
  ASSUME FInv, NEW b \in Bridge, Exists(b), NEW host \in Host, NEW token \in Tokens,
         NEW same \in BOOLEAN, UpdateReload(b, host, token, same), UNCHANGED worldVars
  PROVE  Places' /\ EntryTypes' /\ \A c \in Bridge : Exists(c)' <=> Exists(c)
<1> DEFINE new == [host |-> host, token |-> token, state |-> "setup"]
           e == IF same \/ entry[b].host # host \/ entry[b].token # token THEN new ELSE entry[b]
<1>1. new \in Entries
  BY DEF Entries
<1>2. e \in Entries
  BY <1>1, EntryType
<1>3. entry' = [entry EXCEPT ![b] = e]
  BY DEF UpdateReload
<1> HIDE DEF e
<1> QED BY <1>2, <1>3, Changes

LEMMA Reloads ==
  ASSUME FInv, NEW f \in Flow, NEW b \in Bridge, Exists(b), NEW host \in Host, NEW token \in Tokens,
         NEW same \in BOOLEAN, UpdateReload(b, host, token, same), End(f), UNCHANGED worldVars
  PROVE  FInv'
  BY Reloaded, IdleType, OneFlow DEF End, UpdateReload

LEMMA NewHost ==
  ASSUME FInv, NEW f \in Flow, NEW b \in Bridge, Exists(b), NEW host \in Host,
         UpdateHost(f, b, host), UNCHANGED worldVars
  PROVE  FInv'
<1>1. PICK reload \in BOOLEAN :
        entry' = [entry EXCEPT ![b] =
          [host |-> host, token |-> @.token, state |-> IF reload THEN "setup" ELSE @.state]]
  BY DEF UpdateHost
<1> DEFINE e == [host |-> host, token |-> entry[b].token,
                 state |-> IF reload THEN "setup" ELSE entry[b].state]
<1>2. e \in Entries
  BY EntryType DEF Entries
<1>3. entry' = [entry EXCEPT ![b] = e] /\ End(f) /\ UNCHANGED replaced
  BY <1>1 DEF UpdateHost
<1> HIDE DEF e
<1>4. Places' /\ EntryTypes' /\ \A c \in Bridge : Exists(c)' <=> Exists(c)
  BY <1>2, <1>3, Changes
<1> QED BY <1>3, <1>4, IdleType, OneFlow DEF End

(* A flow of the unique id that gets an entry. *)
LEMMA OvertakenType ==
  ASSUME NEW r \in Flows
  PROVE  /\ Overtake(r) \in Flows
         /\ Pending(Overtake(r)) => Pending(r) /\ Overtake(r).uid = r.uid
  BY DEF Overtake, Flows, Tries, Validations, Pending, Unstarted, Started, Untried

(* An entry replaced by a flow that was overtaken, or a new one, ends the  *)
(* flows that show a form for it, and overtakes the others.                *)
LEMMA Creates ==
  ASSUME FInv, NEW f \in Flow, NEW b \in Bridge, Exists(b) => flow[f].overtaken,
         NEW host \in Host, NEW token \in Tokens, Create(f, b, host, token), UNCHANGED worldVars
  PROVE  FInv'
<1> DEFINE e == [host |-> host, token |-> token, state |-> "setup"]
           Gone(g) == g = f \/ (Exists(b) /\ Target(g) = b)
<1>1. e \in Entries
  BY DEF Entries
<1>2. /\ entry' = [entry EXCEPT ![b] = e]
      /\ \A g \in Flow : flow'[g] = IF Gone(g) THEN Unstarted
                                   ELSE IF flow[g].uid = b THEN Overtake(flow[g]) ELSE flow[g]
      /\ flow' = [g \in Flow |-> flow'[g]]
  BY DEF Create
<1>3. NoReplacement'
  BY DEF Create, FInv, NoReplacement
<1>4. flow' \in [Flow -> Flows]
  BY <1>2, IdleType, OvertakenType DEF FInv
<1> HIDE DEF e
<1>5. Places' /\ EntryTypes'
  BY <1>1, <1>2 DEF FInv, Places, EntryTypes, worldVars
<1>6. \A c \in Bridge : Exists(c)' <=> c = b \/ Exists(c)
  BY <1>1, <1>2, EntryExists DEF FInv, EntryTypes, Exists
<1>7. ASSUME NEW g \in Flow PROVE Fit(g, flow[g])'
  <2>1. CASE flow'[g] = Unstarted
    BY <2>1 DEF Unstarted, Started, Untried, Fit, Pending, Validations
  <2>2. PICK q \in Flows : q = flow[g] /\ Fit(g, q)
    BY DEF FInv
  <2>3. CASE flow'[g] = flow[g] /\ flow[g].uid # b
    BY <2>2, <2>3, <1>6, Kinds, TargetType DEF Fit, Pending
  <2>4. CASE ~Gone(g) /\ q.uid = b /\ q.step \notin {"form", "validating"}
    <3>1. flow'[g] = [q EXCEPT !.overtaken = TRUE]
      BY <2>2, <2>4, <1>2 DEF Overtake
    <3>2. q.step # "idle"
      BY <2>2, <2>4, BridgesAssumption DEF Fit, Unstarted, Started
    <3>3. g[1] = "discovery"
      BY <2>2, <2>4, <3>2 DEF Fit
    <3>4. PICK p \in Flows : p = [q EXCEPT !.overtaken = TRUE]
      BY DEF Flows
    <3>5. /\ p.step = q.step /\ p.uid = b /\ p.target = q.target /\ p.host = q.host /\ p.token = q.token
          /\ p.tried = q.tried /\ p.found = q.found /\ p.checked = q.checked /\ p.overtaken
      BY <2>4, <3>4 DEF Flows
    <3> QED BY <2>2, <2>4, <3>1, <3>2, <3>3, <3>4, <3>5, <1>6, TargetType DEF Fit, Pending
  <2>5. CASE ~Gone(g) /\ q.uid = b /\ q.step = "validating"
    <3>1. flow'[g] = [q EXCEPT !.step = "dismissed", !.uid = None]
      BY <2>2, <2>5, <1>2 DEF Overtake
    <3>2. g[1] = "discovery"
      BY <2>2, <2>5, Kinds, BridgesAssumption DEF Fit, Target
    <3>3. PICK p \in Flows : p = [q EXCEPT !.step = "dismissed", !.uid = None]
      BY DEF Flows, Validations
    <3>4. /\ p.step = "dismissed" /\ p.target = q.target /\ p.host = q.host /\ p.token = q.token
          /\ p.tried = q.tried /\ p.found = q.found /\ p.checked = q.checked
      BY <3>3 DEF Flows
    <3> QED BY <2>2, <2>5, <3>1, <3>2, <3>3, <3>4, <1>6, TargetType DEF Fit, Pending, Validations
  <2>6. CASE ~Gone(g) /\ q.uid = b /\ q.step = "form"
    BY <2>1, <2>2, <2>6, <1>2 DEF Overtake
  <2> QED BY <2>1, <2>2, <2>3, <2>4, <2>5, <2>6, <1>2
<1>8. ASSUME NEW g \in Flow PROVE Apart(g, flow[g])'
  <2>1. ~Pending(Unstarted)
    BY DEF Unstarted, Started, Pending
  <2>2. \A k \in Flow : Pending(flow'[k]) => Pending(flow[k]) /\ flow'[k].uid = flow[k].uid
    BY <1>2, <2>1, OvertakenType DEF FInv
  <2> QED BY <2>2 DEF FInv, Apart, Pending
<1> QED BY <1>3, <1>4, <1>5, <1>7, <1>8 DEF FInv

(***************************************************************************)
(* One lemma per action.                                                   *)
(***************************************************************************)
LEMMA FAnnounced == ASSUME FInv, NEW b \in Bridge, Announced(b) PROVE FInv'
<1>1. /\ Exists(b) /\ at[b] \in Host /\ entry[b].token \in Tokens
      /\ UNCHANGED <<worldVars, flow, replaced>>
  BY EntryType DEF Announced, UpdateReload, FInv, Places, Entries
<1>2. UpdateReload(b, at[b], entry[b].token, FALSE)
  BY DEF Announced
<1> QED BY <1>1, <1>2, Reloaded, Around

LEMMA FDiscover == ASSUME FInv, NEW f \in Flow, NEW b \in Bridge, Discover(f, b) PROVE FInv'
<1>1. PICK step \in {"token", "entry_token"} :
        Goto(f, Started(step, b, None, at[b])) /\ (step = "entry_token" <=> Exists(b))
  BY DEF Discover
<1> DEFINE r == Started(step, b, None, at[b])
<1>2. /\ f[1] = "discovery" /\ ~InProgress(f, b) /\ at[b] \in Host
      /\ UNCHANGED <<worldVars, entry, replaced>>
  BY DEF Discover, FInv, Places
<1>3. r \in Flows
  BY <1>2 DEF Started, Untried, Flows, Tries
<1>4. Fit(f, r)
  BY <1>1, <1>2 DEF Fit, Started, Pending, Validations
<1>5. Apart(f, r)
  BY <1>2 DEF Apart, Started, InProgress, Active, Pending
<1> HIDE DEF r
<1>6. Goto(f, r)
  BY <1>1 DEF r
<1> QED BY <1>2, <1>3, <1>4, <1>5, <1>6, GoesOn

LEMMA FEntryToken == ASSUME FInv, NEW f \in Flow, EntryToken(f) PROVE FInv'
<1>1. /\ flow[f] \in Flows /\ Fit(f, flow[f]) /\ Places
      /\ flow[f].step = "entry_token" /\ End(f) /\ UNCHANGED worldVars
  BY DEF FInv, EntryToken
<1>2. flow[f].uid \in Bridge /\ Exists(flow[f].uid) /\ flow[f].host \in Host
  BY <1>1, Kinds DEF Fit
<1>3. PICK token \in {entry[flow[f].uid].token, Token(At(flow[f].host))} :
        UpdateReload(flow[f].uid, flow[f].host, token, FALSE)
  BY DEF EntryToken
<1>4. token \in Tokens
  BY <1>1, <1>2, EntryType, AtHost, TokenType DEF Entries
<1> QED BY <1>1, <1>2, <1>3, <1>4, Reloads

(* A flow that goes on with the same bridge keeps apart from the others. *)
LEMMA StaysApart ==
  ASSUME FInv, NEW f \in Flow, NEW r,
         f[1] = "discovery" => Pending(flow[f]) /\ r.uid = flow[f].uid
  PROVE  Apart(f, r)
  BY DEF FInv, Apart

(* The records that Form and Validate make. *)
FormRecord(q, id) ==
  [q EXCEPT !.step = "form", !.uid = id, !.tried = Untried, !.found = None, !.checked = FALSE,
            !.overtaken = @ /\ id = q.uid]
TriedRecord(q, step, token, host, tried) ==
  [q EXCEPT !.step = step, !.token = token, !.tried = [host |-> host, token |-> tried]]

LEMMA FormType ==
  ASSUME NEW q \in Flows, NEW id \in Bridge \cup {None}, NEW r, r = FormRecord(q, id)
  PROVE  r \in Flows
<1>1. Untried \in Tries
  BY DEF Untried, Tries
<1> QED BY <1>1 DEF Flows, FormRecord

LEMMA TriedFields ==
  ASSUME NEW q \in Flows, NEW step \in Validations, NEW token \in Tokens \cup {None},
         NEW host \in Host, NEW tried \in Tokens, NEW r, r = TriedRecord(q, step, token, host, tried)
  PROVE  /\ r \in Flows /\ r.step = step /\ r.uid = q.uid /\ r.target = q.target /\ r.host = q.host
         /\ r.token = token /\ r.tried.host = host /\ r.tried.token = tried /\ r.found = q.found
         /\ r.checked = q.checked /\ r.overtaken = q.overtaken
  BY DEF Flows, TriedRecord, Validations, Tries

LEMMA Forms ==
  ASSUME FInv, NEW f \in Flow, NEW id \in Bridge \cup {None}, Form(f, id),
         f[1] = "discovery" =>
           /\ Pending(flow[f]) /\ id \in Bridge
           /\ id = flow[f].uid \/ (~Exists(id) /\ ~InProgress(f, id)),
         f[1] # "discovery" => id = flow[f].uid /\ flow[f].step # "idle",
         UNCHANGED <<worldVars, entry, replaced>>
  PROVE  FInv'
<1> DEFINE r == FormRecord(flow[f], id)
<1>1. flow[f] \in Flows /\ Fit(f, flow[f])
  BY DEF FInv
<1>2. Goto(f, r)
  BY DEF Form, FormRecord
<1>3. /\ r \in Flows /\ r.step = "form" /\ r.uid = id /\ r.target = flow[f].target
      /\ r.host = flow[f].host /\ r.token = flow[f].token /\ r.found = None /\ r.checked = FALSE
      /\ flow[f].overtaken /\ id = flow[f].uid => r.overtaken
  <2>1. r \in Flows
    BY <1>1, FormType
  <2>2. r.step = "form" /\ r.uid = id /\ r.target = flow[f].target /\ r.host = flow[f].host
        /\ r.token = flow[f].token
    BY <1>1 DEF Flows, FormRecord
  <2>3. r.found = None /\ r.checked = FALSE /\ (flow[f].overtaken /\ id = flow[f].uid => r.overtaken)
    BY <1>1 DEF Flows, FormRecord
  <2> QED BY <2>1, <2>2, <2>3
<1> HIDE DEF r
<1>4. Fit(f, r)
  BY <1>1, <1>3, Kinds DEF Fit, Pending, Flows, Validations
<1>5. Apart(f, r)
  <2>1. CASE f[1] = "discovery" /\ id # flow[f].uid
    BY <1>3, <2>1 DEF Apart, InProgress, Active, Pending
  <2>2. CASE f[1] = "discovery" => id = flow[f].uid
    BY <1>3, <2>2, StaysApart
  <2> QED BY <2>1, <2>2
<1> QED BY <1>2, <1>3, <1>4, <1>5, GoesOn

(* A discovery and its unique id, as long as it may create an entry. *)
LEMMA Discovery ==
  ASSUME FInv, NEW f \in Flow, flow[f].step \in {"token", "automatic"} \/ f[1] = "discovery",
         Pending(flow[f])
  PROVE  /\ f[1] = "discovery" /\ flow[f].uid \in Bridge /\ flow[f].host \in Host
         /\ Exists(flow[f].uid) => flow[f].overtaken
  BY DEF FInv, Fit, Pending

LEMMA FFetchToken == ASSUME FInv, NEW f \in Flow, FetchToken(f) PROVE FInv'
<1>1. /\ flow[f] \in Flows /\ Fit(f, flow[f]) /\ Places /\ flow[f].step = "token"
      /\ UNCHANGED <<worldVars, entry, replaced>>
  BY DEF FInv, FetchToken
<1>2. /\ f[1] = "discovery" /\ Pending(flow[f]) /\ flow[f].uid \in Bridge /\ flow[f].host \in Host
      /\ Exists(flow[f].uid) => flow[f].overtaken
  BY <1>1, Discovery DEF Pending
<1>3. CASE Form(f, flow[f].uid)
  BY <1>1, <1>2, <1>3, Forms
<1>4. CASE ~Form(f, flow[f].uid)
  <2> DEFINE token == Token(At(flow[f].host))
             r == TriedRecord(flow[f], "automatic", token, flow[f].host, token)
  <2>1. token \in Tokens
    BY <1>1, <1>2, AtHost, TokenType
  <2>2. Goto(f, r)
    BY <1>4 DEF FetchToken, Validate, TriedRecord
  <2> HIDE DEF token, r
  <2>3. /\ r \in Flows /\ r.step = "automatic" /\ r.uid = flow[f].uid /\ r.target = flow[f].target
        /\ r.host = flow[f].host /\ r.token = token /\ r.tried.host = flow[f].host
        /\ r.tried.token = token /\ r.found = flow[f].found /\ r.checked = flow[f].checked
        /\ r.overtaken = flow[f].overtaken
    BY <1>1, <1>2, <2>1, TriedFields DEF Validations, r
  <2>4. Fit(f, r)
    BY <1>1, <1>2, <2>1, <2>3, BridgesAssumption DEF Fit, Pending
  <2>5. Apart(f, r)
    BY <1>2, <2>3, StaysApart
  <2> QED BY <1>1, <2>2, <2>3, <2>4, <2>5, GoesOn
<1> QED BY <1>3, <1>4

LEMMA FStuck ==
  ASSUME FInv, NEW f \in Flow, flow[f].step \in {"token", "entry_token", "automatic"}, Stuck(f),
         UNCHANGED <<worldVars, entry, replaced>>
  PROVE  FInv'
<1> DEFINE r == Started("stuck", flow[f].uid, None, None)
<1>1. flow[f] \in Flows /\ Fit(f, flow[f]) /\ Goto(f, r)
  BY DEF FInv, Stuck
<1>2. r \in Flows
  BY <1>1 DEF Started, Untried, Flows, Tries
<1>3. Fit(f, r) /\ Apart(f, r)
  BY <1>1, Kinds DEF Fit, Apart, Started, Pending, Validations
<1> HIDE DEF r
<1> QED BY <1>1, <1>2, <1>3, GoesOn

LEMMA FTokenRaises == ASSUME FInv, NEW f \in Flow, TokenRaises(f) \/ NameRaises(f) PROVE FInv'
  BY FStuck DEF TokenRaises, NameRaises

(* What is validated is a host with a bridge. *)
LEMMA TriedType ==
  ASSUME FInv, NEW f \in Flow, Validating(f)
  PROVE  /\ flow[f].tried.host \in Host /\ flow[f].tried.token \in Tokens
         /\ At(flow[f].tried.host) \in Bridge /\ at[At(flow[f].tried.host)] = flow[f].tried.host
         /\ flow[f].checked => flow[f].found \in Bridge
  BY AtHost DEF FInv, Fit, Validating, Validations, Flows

(* A validation that goes on: the flow learns more of the bridge. *)
LEMMA Learns ==
  ASSUME FInv, NEW f \in Flow, Validating(f), NEW b \in Bridge, NEW c \in BOOLEAN,
         Goto(f, [flow[f] EXCEPT !.found = b, !.checked = c]), UNCHANGED <<worldVars, entry, replaced>>
  PROVE  FInv'
<1> DEFINE r == [flow[f] EXCEPT !.found = b, !.checked = c]
<1>1. flow[f] \in Flows /\ Fit(f, flow[f])
  BY DEF FInv
<1>2. r \in Flows
  BY <1>1 DEF Flows
<1>3. /\ r.step = flow[f].step /\ r.uid = flow[f].uid /\ r.target = flow[f].target
      /\ r.host = flow[f].host /\ r.token = flow[f].token /\ r.tried = flow[f].tried
      /\ r.found = b /\ r.checked = c /\ r.overtaken = flow[f].overtaken
  BY <1>1 DEF Flows
<1> HIDE DEF r
<1>4. Fit(f, r)
  BY <1>1, <1>3, BridgesAssumption DEF Fit, Pending, Validating
<1>5. Apart(f, r)
  BY <1>3 DEF FInv, Apart, Pending
<1>6. Goto(f, r)
  BY DEF r
<1> QED BY <1>2, <1>4, <1>5, <1>6, GoesOn

LEMMA FReadVersion == ASSUME FInv, NEW f \in Flow, ReadVersion(f) PROVE FInv'
<1>1. flow[f] \in Flows /\ Fit(f, flow[f]) /\ flow[f].found = None /\ Validating(f)
  BY DEF FInv, ReadVersion
<1>2. flow[f].checked = FALSE
  BY <1>1 DEF Fit, Flows, Validating, Validations
<1>3. Goto(f, [flow[f] EXCEPT !.found = At(flow[f].tried.host), !.checked = FALSE])
  BY <1>1, <1>2 DEF ReadVersion, Flows
<1> QED BY <1>1, <1>3, TriedType, Learns DEF ReadVersion

LEMMA FListDevices == ASSUME FInv, NEW f \in Flow, ListDevices(f) PROVE FInv'
<1>1. flow[f] \in Flows /\ flow[f].found \in Bridge /\ Validating(f)
  BY DEF FInv, ListDevices, Flows
<1>2. Goto(f, [flow[f] EXCEPT !.found = flow[f].found, !.checked = TRUE])
  BY <1>1 DEF ListDevices, Flows
<1> QED BY <1>1, <1>2, Learns DEF ListDevices

LEMMA FKeepToken == ASSUME FInv, NEW f \in Flow, KeepToken(f) PROVE FInv'
<1>1. flow[f].step = "automatic" /\ Form(f, flow[f].uid) /\ UNCHANGED <<worldVars, entry, replaced>>
  BY DEF KeepToken
<1>2. f[1] = "discovery" /\ Pending(flow[f]) /\ flow[f].uid \in Bridge
  BY <1>1, Discovery DEF Pending
<1> QED BY <1>1, <1>2, Forms

LEMMA FAutomatic == ASSUME FInv, NEW f \in Flow, Automatic(f) PROVE FInv'
<1>1. /\ flow[f].step = "automatic" /\ UNCHANGED worldVars /\ flow[f].found \in Bridge
  BY TriedType DEF Automatic, Validating
<1>2. f[1] = "discovery" /\ Pending(flow[f]) /\ flow[f].uid \in Bridge /\ flow[f].host \in Host
  BY <1>1, Discovery DEF Pending
<1>3. CASE Taken(f)
  BY <1>1, <1>3, Ends DEF Taken
<1>4. CASE Exists(flow[f].found) /\ UpdateHost(f, flow[f].found, flow[f].host)
  BY <1>1, <1>2, <1>4, NewHost
<1>5. CASE /\ Free(f) /\ ~Exists(flow[f].found)
           /\ Form(f, flow[f].found) /\ UNCHANGED <<entry, replaced>>
  BY <1>1, <1>2, <1>5, Forms DEF Free
<1> QED BY <1>3, <1>4, <1>5 DEF Automatic

LEMMA FOpen == ASSUME FInv, NEW f \in Flow, Open(f) PROVE FInv'
<1>1. PICK t \in {None} \cup {b \in Bridge : Exists(b)} : Goto(f, Started("form", None, t, None))
  BY DEF Open
<1> DEFINE r == Started("form", None, t, None)
<1>2. f[1] = "user" /\ UNCHANGED <<worldVars, entry, replaced>>
  BY DEF Open
<1>3. r \in Flows
  BY DEF Started, Untried, Flows, Tries
<1>4. Fit(f, r) /\ Apart(f, r)
  BY <1>2 DEF Fit, Apart, Started, Pending, Validations
<1> HIDE DEF r
<1>5. Goto(f, r)
  BY <1>1 DEF r
<1> QED BY <1>2, <1>3, <1>4, <1>5, GoesOn

LEMMA FSubmit == ASSUME FInv, NEW f \in Flow, Submit(f) PROVE FInv'
<1>1. PICK b \in Bridge, h \in Host : Validate(f, "validating", flow[f].token, h, Token(b))
  BY DEF Submit
<1> DEFINE r == TriedRecord(flow[f], "validating", flow[f].token, h, Token(b))
<1>2. /\ flow[f] \in Flows /\ Fit(f, flow[f]) /\ flow[f].step = "form"
      /\ UNCHANGED <<worldVars, entry, replaced>> /\ Token(b) \in Tokens
  BY TokenType DEF FInv, Submit
<1>3. Goto(f, r)
  BY <1>1 DEF Validate, TriedRecord
<1> HIDE DEF r
<1>4. /\ r \in Flows /\ r.step = "validating" /\ r.uid = flow[f].uid /\ r.target = flow[f].target
      /\ r.host = flow[f].host /\ r.token = flow[f].token /\ r.tried.host = h
      /\ r.tried.token = Token(b) /\ r.found = flow[f].found /\ r.checked = flow[f].checked
      /\ r.overtaken = flow[f].overtaken
  BY <1>2, TriedFields DEF Validations, Flows, r
<1>5. Fit(f, r)
  BY <1>2, <1>4 DEF Fit, Pending
<1>6. Apart(f, r)
  BY <1>2, <1>4, StaysApart DEF Pending
<1> QED BY <1>2, <1>3, <1>4, <1>5, <1>6, GoesOn

LEMMA FConfirm == ASSUME FInv, NEW f \in Flow, Confirm(f) PROVE FInv'
<1>1. flow[f] \in Flows /\ Fit(f, flow[f]) /\ flow[f].step = "form" /\ flow[f].token # None
  BY DEF FInv, Confirm
<1>2. f[1] = "discovery" /\ flow[f].token \in Tokens
  BY <1>1 DEF Fit, Flows
<1> QED BY <1>1, <1>2, Discovery, Creates DEF Confirm, Pending

LEMMA FRejected == ASSUME FInv, NEW f \in Flow, Rejected(f) PROVE FInv'
<1>1. /\ flow[f] \in Flows /\ flow[f].step = "validating"
      /\ Form(f, flow[f].uid) /\ UNCHANGED <<worldVars, entry, replaced>>
  BY DEF FInv, Rejected
<1>2. flow[f].uid \in Bridge \cup {None}
  BY <1>1 DEF Flows
<1>3. f[1] = "discovery" => Pending(flow[f]) /\ flow[f].uid \in Bridge
  BY <1>1, Discovery DEF Pending
<1> QED BY <1>1, <1>2, <1>3, Forms

LEMMA FAccepted == ASSUME FInv, NEW f \in Flow, Accepted(f) PROVE FInv'
<1>1. /\ flow[f].found \in Bridge /\ flow[f].tried.host \in Host /\ flow[f].tried.token \in Tokens
      /\ UNCHANGED worldVars
  BY TriedType DEF Accepted, Validating
<1>2. CASE Taken(f)
  BY <1>1, <1>2, Ends DEF Taken
<1>3. CASE Exists(flow[f].found) /\ UpdateHost(f, flow[f].found, flow[f].tried.host)
  BY <1>1, <1>3, NewHost
<1>4. CASE ~Exists(flow[f].found) /\ Create(f, flow[f].found, flow[f].tried.host, flow[f].tried.token)
  BY <1>1, <1>4, Creates
<1> QED BY <1>2, <1>3, <1>4 DEF Accepted

LEMMA FUpdated == ASSUME FInv, NEW f \in Flow, Updated(f) PROVE FInv'
<1>1. /\ flow[f].tried.host \in Host /\ flow[f].tried.token \in Tokens
      /\ End(f) /\ UNCHANGED worldVars
  BY TriedType DEF Updated, Validating
<1>2. Target(f) \in Bridge /\ Exists(Target(f))
  BY Kinds DEF Updated, Target, FInv, Fit, Flows
<1>3. CASE UNCHANGED <<entry, replaced>>
  BY <1>1, <1>3, Ends
<1>4. CASE UpdateReload(Target(f), flow[f].tried.host, flow[f].tried.token, TRUE)
  BY <1>1, <1>2, <1>4, Reloads
<1> QED BY <1>3, <1>4 DEF Updated

LEMMA FDismissed == ASSUME FInv, NEW f \in Flow, Dismissed(f) PROVE FInv'
<1>1. /\ flow[f].tried.host \in Host /\ UNCHANGED worldVars
      /\ flow[f].checked => flow[f].found \in Bridge
  BY TriedType DEF Dismissed, Validating
<1>2. CASE End(f) /\ UNCHANGED <<entry, replaced>>
  BY <1>1, <1>2, Ends
<1>3. CASE /\ flow[f].checked /\ Exists(flow[f].found)
           /\ UpdateHost(f, flow[f].found, flow[f].tried.host)
  BY <1>1, <1>3, NewHost
<1> QED BY <1>2, <1>3 DEF Dismissed

(* The state of an entry changes, its data do not. *)
LEMMA Restates ==
  ASSUME FInv, NEW b \in Bridge, Exists(b), NEW s \in {"setup", "loaded", "setup_retry", "setup_error"},
         entry' = [entry EXCEPT ![b].state = s], UNCHANGED worldVars
  PROVE  Places' /\ EntryTypes' /\ \A c \in Bridge : Exists(c)' <=> Exists(c)
<1> DEFINE e == [entry[b] EXCEPT !.state = s]
<1>1. e \in Entries
  BY EntryType DEF Entries
<1>2. entry' = [entry EXCEPT ![b] = e]
  OBVIOUS
<1> HIDE DEF e
<1> QED BY <1>1, <1>2, Changes

LEMMA FSetUp == ASSUME FInv, NEW b \in Bridge, SetUp(b) PROVE FInv'
<1>1. PICK s \in {"loaded", "setup_retry", "setup_error"} : entry' = [entry EXCEPT ![b].state = s]
  BY DEF SetUp
<1>2. Exists(b) /\ UNCHANGED <<worldVars, replaced>>
  BY DEF SetUp
<1>3. Places' /\ EntryTypes' /\ \A c \in Bridge : Exists(c)' <=> Exists(c)
  BY <1>1, <1>2, Restates
<1>4. CASE UNCHANGED flow
  BY <1>2, <1>3, <1>4, Around
<1>5. CASE Goto(<<"reauth", b>>, Started("form", b, None, None))
  <2> DEFINE f == <<"reauth", b>>
             r == Started("form", b, None, None)
  <2>1. f \in Flow /\ f[1] = "reauth" /\ f[2] = b
    BY DEF Flow
  <2>2. r \in Flows
    BY DEF Started, Untried, Flows, Tries
  <2> HIDE DEF f
  <2>3. Fit(f, r) /\ Apart(f, r)
    BY <1>2, <2>1 DEF Fit, Apart, Started, Pending, Validations
  <2> HIDE DEF r
  <2>4. Goto(f, r)
    BY <1>5 DEF f, r
  <2> QED BY <1>2, <1>3, <2>1, <2>2, <2>3, <2>4, OneFlow
<1> QED BY <1>4, <1>5 DEF SetUp

LEMMA FRetry == ASSUME FInv, NEW b \in Bridge, Retry(b) PROVE FInv'
  BY Restates, Around DEF Retry

(* Bridges that move or change their tokens. *)
LEMMA FWorld == ASSUME FInv, Move \/ (\E b \in Bridge : Rotate(b)) \/ UNCHANGED stepVars PROVE FInv'
<1>1. UNCHANGED <<entry, flow, replaced>>
  BY DEF Move, Rotate, stepVars
<1>2. Places'
  <2>1. CASE Move
    <3>1. PICK b \in Bridge, c \in Bridge : b # c /\ at' = [at EXCEPT ![b] = at[c], ![c] = at[b]]
      BY <2>1 DEF Move
    <3>2. secret' = secret /\ Places
      BY <2>1 DEF Move, FInv
    <3>3. at' \in [Bridge -> Host] /\ at'[b] = at[c] /\ at'[c] = at[b]
          /\ \A d \in Bridge \ {b, c} : at'[d] = at[d]
      BY <3>1, <3>2 DEF Places
    <3>4. \A h \in Host : \E d \in Bridge : at'[d] = h
      BY <3>2, <3>3 DEF Places
    <3>5. \A d, e \in Bridge : d # e => at'[d] # at'[e]
      BY <3>1, <3>2, <3>3 DEF Places
    <3> QED BY <3>2, <3>3, <3>4, <3>5 DEF Places
  <2>2. CASE \E b \in Bridge : Rotate(b)
    BY <2>2 DEF Rotate, FInv, Places
  <2>3. CASE UNCHANGED stepVars
    BY <2>3 DEF stepVars, worldVars, FInv, Places
  <2> QED BY <2>1, <2>2, <2>3
<1>3. EntryTypes' /\ \A b \in Bridge : Exists(b)' <=> Exists(b)
  BY <1>1 DEF FInv, EntryTypes, Exists
<1> QED BY <1>1, <1>2, <1>3, Around

LEMMA FNext == ASSUME FInv, Step \/ UNCHANGED stepVars PROVE FInv'
<1>1. ASSUME NEW f \in Flow, FlowStep(f) \/ TokenRaises(f) \/ Open(f) \/ Submit(f) \/ Confirm(f)
      PROVE  FInv'
  <2>1. CASE Validation(f)
    BY <2>1, FReadVersion, FListDevices, FKeepToken, FRejected, FTokenRaises DEF Validation
  <2> QED BY <1>1, <2>1, FEntryToken, FFetchToken, FAutomatic, FAccepted, FUpdated, FDismissed,
             FTokenRaises, FOpen, FSubmit, FConfirm DEF FlowStep
<1>2. ASSUME NEW b \in Bridge, Announced(b) \/ \E f \in Flow : Discover(f, b) PROVE FInv'
  BY <1>2, FAnnounced, FDiscover
<1>3. ASSUME NEW b \in Bridge, SetUp(b) \/ Retry(b) PROVE FInv'
  BY <1>3, FSetUp, FRetry
<1>4. CASE Move \/ (\E b \in Bridge : Rotate(b)) \/ UNCHANGED stepVars
  BY <1>4, FWorld
<1> QED BY <1>1, <1>2, <1>3, <1>4, BridgesAssumption DEF Step

(* A discovery that may yet create an entry knows a bridge without one     *)
(* that no other discovery is about, unless the entry was made while the   *)
(* discovery was in its first step: whatever became of both while requests *)
(* and users were waited for (config_flow.py:101-111, 138-151, 172-195).   *)
THEOREM FlowsFit == SafeSpec => []FInv
<1>1. FInv /\ [Next]_vars => FInv'
  BY FNext DEF Next, vars
<1> QED BY FInit, <1>1, PTL DEF SafeSpec

(* Only a discovery overtaken in its first step replaces an entry, whatever *)
(* the order in which flows validate, show forms and create entries         *)
(* (config_flow.py:106-110, 173-180, 190-195, 219-224).                     *)
THEOREM NoReplacementTheorem == Spec => []NoReplacement
<1>1. FInv => NoReplacement
  BY DEF FInv
<1> QED BY <1>1, FlowsFit, PTL DEF Spec

(***************************************************************************)
(* What a flow has met.                                                    *)
(***************************************************************************)
Faces(r) == IF r.step \in {"validating", "dismissed"} THEN r.tried.host ELSE r.host

(* What flow f, in state r, owes to the tokens m it has met. *)
Owes(f, r, m) ==
  /\ f[1] = "discovery" /\ (Pending(r) \/ r.step = "entry_token") => \E t \in m : t[1] = r.uid
  /\ r.step \in Validations /\ r.found # None => \E t \in m : t[1] = r.found
  /\ r.step \in Validations /\ r.checked => r.tried.token \in m
  /\ r.token # None => r.token \in m
  /\ f[1] = "discovery" /\ r.step \in Validations => r.tried.host = r.host

Met(f) ==
  /\ There(f) \subseteq met[f]
  /\ Facing(f) = None => met[f] = {}
  /\ Owes(f, flow[f], met[f])

MInv == FInv /\ met \in [Flow -> SUBSET Tokens] /\ \A f \in Flow : Met(f)

LEMMA MoreMet ==
  ASSUME NEW f, NEW r, NEW m, NEW n, Owes(f, r, m), m \subseteq n PROVE Owes(f, r, n)
  BY DEF Owes

LEMMA FacesWhom == \A f \in Flow : Facing(f) = Faces(flow[f])
  BY DEF Facing, Faces

LEMMA IdleMeets == \A f : Owes(f, Unstarted, {}) /\ Faces(Unstarted) = None
  BY DEF Owes, Unstarted, Started, Untried, Pending, Validations, Faces

LEMMA MInit == Init => MInv
<1> SUFFICES ASSUME Init PROVE MInv
  OBVIOUS
<1>1. FInv /\ met \in [Flow -> SUBSET Tokens]
  BY FInit DEF Init
<1>2. ASSUME NEW f \in Flow PROVE Met(f)
  <2>1. flow[f] = Unstarted /\ met[f] = {}
    BY DEF Init
  <2>2. There(f) = {}
    BY <2>1, FacesWhom, IdleMeets DEF There
  <2> QED BY <2>1, <2>2, IdleMeets DEF Met
<1> QED BY <1>1, <1>2 DEF MInv

(* The flow f goes on as it was, owing nothing, or facing the same host. *)
Goes(f) ==
  \/ flow'[f] = flow[f]
  \/ Owes(f, flow'[f], {})
  \/ Facing(f)' # None /\ Owes(f, flow'[f], met[f] \cup There(f)')

FaceTypes == \A f \in Flow : Facing(f) \in Host \cup {None} /\ There(f) \subseteq Tokens

LEMMA FaceType == FInv => FaceTypes
<1> SUFFICES ASSUME FInv, NEW f \in Flow
             PROVE  Facing(f) \in Host \cup {None} /\ There(f) \subseteq Tokens
  BY DEF FaceTypes
<1>1. flow[f] \in Flows /\ Places
  BY DEF FInv
<1>2. Facing(f) \in Host \cup {None}
  BY <1>1 DEF Flows, Tries, Facing
<1> QED BY <1>1, <1>2, AtHost, TokenType DEF There

LEMMA Meeting ==
  ASSUME MInv, FInv', Meets, NEW f \in Flow, Goes(f) PROVE met'[f] \subseteq Tokens /\ Met(f)'
<1>1. met'[f] = IF There(f)' = {} THEN {} ELSE met[f] \cup There(f)'
  BY DEF Meets
<1>2. There(f)' = {} <=> Facing(f)' = None
  BY DEF There
<1>3. There(f)' \subseteq Tokens
  <2>1. FInv' => FaceTypes'
    BY FaceType, PTL
  <2> QED BY <2>1 DEF FaceTypes
<1>4. met'[f] \subseteq Tokens
  BY <1>1, <1>3 DEF MInv
<1>5. There(f)' \subseteq met'[f] /\ (Facing(f)' = None => met'[f] = {})
  BY <1>1, <1>2
<1>6. Owes(f, flow'[f], met'[f])
  <2>1. CASE flow'[f] = flow[f]
    <3>1. Facing(f)' = Facing(f)
      BY <2>1 DEF Facing
    <3>2. Met(f)
      BY DEF MInv
    <3>3. met[f] \subseteq met'[f]
      BY <1>1, <1>2, <3>1, <3>2 DEF Met
    <3> QED BY <2>1, <3>2, <3>3, MoreMet DEF Met
  <2>2. CASE Owes(f, flow'[f], {})
    BY <2>2, MoreMet
  <2>3. CASE Facing(f)' # None /\ Owes(f, flow'[f], met[f] \cup There(f)')
    BY <1>1, <1>2, <2>3
  <2> QED BY <2>1, <2>2, <2>3 DEF Goes
<1> QED BY <1>4, <1>5, <1>6 DEF Met

LEMMA AllMeet == ASSUME MInv, FInv', Meets, \A f \in Flow : Goes(f) PROVE MInv'
<1>1. \A f \in Flow : met'[f] \subseteq Tokens /\ Met(f)'
  BY Meeting
<1>2. met' = [f \in Flow |-> met'[f]]
  BY DEF Meets
<1> QED BY <1>1, <1>2 DEF MInv

(* One flow goes to r. *)
LEMMA OneGoes ==
  ASSUME FInv, NEW f \in Flow, NEW r, Goto(f, r),
         Owes(f, r, {}) \/ (Faces(r) # None /\ Owes(f, r, met[f] \cup There(f)'))
  PROVE  \A g \in Flow : Goes(g)
<1>1. flow'[f] = r /\ \A g \in Flow \ {f} : flow'[g] = flow[g]
  BY DEF Goto, FInv
<1>2. Facing(f)' = Faces(r)
  BY <1>1 DEF Facing, Faces
<1> QED BY <1>1, <1>2 DEF Goes

LEMMA GEnds == ASSUME FInv, NEW f \in Flow, End(f) PROVE \A g \in Flow : Goes(g)
  BY IdleMeets, OneGoes DEF End

(* What a discovery or a validation has met. *)
LEMMA MetThere ==
  ASSUME MInv, NEW f \in Flow, Facing(f) # None PROVE Token(At(Facing(f))) \in met[f]
  BY DEF MInv, Met, There

LEMMA MetTried ==
  ASSUME MInv, NEW f \in Flow, Validating(f)
  PROVE  /\ Facing(f) = flow[f].tried.host /\ Facing(f) # None
         /\ Token(At(flow[f].tried.host)) \in met[f]
<1>1. Fit(f, flow[f]) /\ flow[f].tried.host \in Host
  BY TriedType DEF MInv, FInv
<1>2. flow[f].step = "automatic" => flow[f].tried.host = flow[f].host
  BY <1>1 DEF MInv, Met, Owes, Validations, Fit
<1>3. Facing(f) = flow[f].tried.host
  BY <1>2 DEF Facing, Validating
<1> QED BY <1>1, <1>3, MetThere, BridgesAssumption

LEMMA GDiscover ==
  ASSUME MInv, NEW f \in Flow, NEW b \in Bridge, Discover(f, b) PROVE \A g \in Flow : Goes(g)
<1>1. PICK step \in {"token", "entry_token"} : Goto(f, Started(step, b, None, at[b]))
  BY DEF Discover
<1> DEFINE r == Started(step, b, None, at[b])
<1>2. FInv /\ Places /\ at[b] \in Host /\ UNCHANGED worldVars /\ flow'[f] = r
  BY <1>1 DEF MInv, FInv, Places, Discover, Goto
<1>3. Faces(r) = at[b] /\ Faces(r) # None
  BY <1>2, BridgesAssumption DEF Faces, Started
<1>4. At(at[b]) = b
  BY <1>2, AtHost DEF Places
<1>5. There(f)' = {<<b, secret[b]>>}
  <2>1. Facing(f)' = at[b]
    BY <1>2, <1>3 DEF Facing, Faces
  <2>2. at' = at /\ secret' = secret
    BY <1>2 DEF worldVars
  <2>3. At(at[b])' = At(at[b])
    BY <2>2 DEF At
  <2> QED BY <1>2, <1>4, <2>1, <2>2, BridgesAssumption DEF There, Token, At
<1>6. Owes(f, r, met[f] \cup {<<b, secret[b]>>})
  <2>1. <<b, secret[b]>>[1] = b /\ <<b, secret[b]>> \in met[f] \cup {<<b, secret[b]>>}
    OBVIOUS
  <2>2. \E t \in met[f] \cup {<<b, secret[b]>>} : t[1] = b
    BY <2>1
  <2>3. r.step = step /\ r.uid = b /\ r.token = None /\ step \notin Validations
    BY DEF Started, Validations
  <2> QED BY <2>2, <2>3 DEF Owes
<1> HIDE DEF r
<1>7. Goto(f, r)
  BY <1>1 DEF r
<1> QED BY <1>2, <1>3, <1>5, <1>6, <1>7, OneGoes

(* A discovery that may yet create an entry has met its bridge. *)
LEMMA MetDiscovered ==
  ASSUME MInv, NEW f \in Flow, f[1] = "discovery", Pending(flow[f]) \/ flow[f].step = "entry_token"
  PROVE  /\ \E t \in met[f] : t[1] = flow[f].uid
         /\ flow[f].host \in Host /\ Facing(f) = flow[f].host
<1>1. Fit(f, flow[f]) /\ Owes(f, flow[f], met[f])
  BY DEF MInv, FInv, Met
<1>2. flow[f].host \in Host
  BY <1>1 DEF Fit
<1>3. Facing(f) = flow[f].host
  BY <1>1 DEF Facing, Owes, Pending, Validations
<1> QED BY <1>1, <1>2, <1>3 DEF Owes

LEMMA GForms ==
  ASSUME MInv, NEW f \in Flow, NEW id \in Bridge \cup {None}, Form(f, id),
         f[1] = "discovery" => Pending(flow[f]) /\ \E t \in met[f] : t[1] = id
  PROVE  \A g \in Flow : Goes(g)
<1> DEFINE r == FormRecord(flow[f], id)
<1>1. FInv /\ flow[f] \in Flows /\ Fit(f, flow[f]) /\ Owes(f, flow[f], met[f])
  BY DEF MInv, FInv, Met
<1>2. Goto(f, r)
  BY DEF Form, FormRecord
<1>3. r.step = "form" /\ r.uid = id /\ r.host = flow[f].host /\ r.token = flow[f].token
  BY <1>1 DEF Flows, FormRecord
<1> HIDE DEF r
<1>4. Owes(f, r, met[f])
  BY <1>1, <1>3 DEF Owes, Pending, Validations
<1>5. CASE f[1] = "discovery"
  <2>1. Faces(r) # None
    BY <1>3, <1>5, MetDiscovered, BridgesAssumption DEF Faces
  <2> QED BY <1>1, <1>2, <1>4, <2>1, MoreMet, OneGoes
<1>6. CASE f[1] # "discovery"
  <2>1. Owes(f, r, {})
    BY <1>1, <1>3, <1>6 DEF Owes, Pending, Validations, Fit
  <2> QED BY <1>1, <1>2, <2>1, OneGoes
<1> QED BY <1>5, <1>6

LEMMA GFetchToken == ASSUME MInv, NEW f \in Flow, FetchToken(f) PROVE \A g \in Flow : Goes(g)
<1>1. FInv /\ flow[f] \in Flows /\ Fit(f, flow[f]) /\ Owes(f, flow[f], met[f]) /\ flow[f].step = "token"
  BY DEF MInv, FInv, Met, FetchToken
<1>2. f[1] = "discovery" /\ Pending(flow[f]) /\ flow[f].uid \in Bridge
  BY <1>1, Discovery DEF Pending
<1>3. /\ \E t \in met[f] : t[1] = flow[f].uid
      /\ flow[f].host \in Host /\ Facing(f) = flow[f].host
  BY <1>2, MetDiscovered
<1>4. CASE Form(f, flow[f].uid)
  BY <1>2, <1>3, <1>4, GForms
<1>5. CASE ~Form(f, flow[f].uid)
  <2> DEFINE token == Token(At(flow[f].host))
             r == TriedRecord(flow[f], "automatic", token, flow[f].host, token)
  <2>1. Goto(f, r)
    BY <1>5 DEF FetchToken, Validate, TriedRecord
  <2>2. token \in Tokens /\ token \in met[f]
    BY <1>1, <1>3, AtHost, TokenType, MetThere, BridgesAssumption DEF FInv
  <2> HIDE DEF token, r
  <2>3. /\ r.step = "automatic" /\ r.uid = flow[f].uid /\ r.host = flow[f].host /\ r.token = token
        /\ r.tried.host = flow[f].host /\ r.tried.token = token /\ r.found = flow[f].found
    BY <1>1, <1>3, <2>2, TriedFields DEF Validations, r
  <2>4. Owes(f, r, met[f]) /\ Faces(r) # None
    BY <1>1, <1>3, <2>2, <2>3, BridgesAssumption DEF Owes, Fit, Faces
  <2> QED BY <1>1, <2>1, <2>4, MoreMet, OneGoes
<1> QED BY <1>4, <1>5

LEMMA GStuck ==
  ASSUME FInv, NEW f \in Flow, TokenRaises(f) \/ NameRaises(f) PROVE \A g \in Flow : Goes(g)
<1> DEFINE r == Started("stuck", flow[f].uid, None, None)
<1>1. Owes(f, r, {}) /\ Goto(f, r)
  BY DEF Owes, Started, Pending, Validations, TokenRaises, NameRaises, Stuck
<1> HIDE DEF r
<1> QED BY <1>1, OneGoes

LEMMA GLearns ==
  ASSUME MInv, NEW f \in Flow, ReadVersion(f) \/ ListDevices(f) PROVE \A g \in Flow : Goes(g)
<1>1. /\ FInv /\ flow[f] \in Flows /\ Fit(f, flow[f]) /\ Owes(f, flow[f], met[f])
      /\ Validating(f) /\ flow[f].step \in Validations
  BY DEF MInv, FInv, Met, ReadVersion, ListDevices, Validating, Validations
<1>2. /\ Facing(f) = flow[f].tried.host /\ Facing(f) # None
      /\ Token(At(flow[f].tried.host)) \in met[f]
  BY <1>1, MetTried
<1>3. CASE ReadVersion(f)
  <2> DEFINE b == At(flow[f].tried.host)
             r == [flow[f] EXCEPT !.found = b]
  <2>1. Goto(f, r) /\ flow[f].found = None /\ b \in Bridge
    BY <1>1, <1>3, TriedType DEF ReadVersion
  <2>2. \E t \in met[f] : t[1] = b
    <3>1. Token(b)[1] = b
      BY DEF Token
    <3> QED BY <1>2, <3>1
  <2>3. /\ r.step = flow[f].step /\ r.uid = flow[f].uid /\ r.host = flow[f].host
        /\ r.token = flow[f].token /\ r.tried = flow[f].tried /\ r.found = b
        /\ r.checked = flow[f].checked
    BY <1>1 DEF Flows
  <2> HIDE DEF r, b
  <2>4. Owes(f, r, met[f])
    BY <1>1, <2>2, <2>3 DEF Owes, Pending
  <2>5. Faces(r) # None
    BY <1>2, <2>3 DEF Faces, Facing
  <2> QED BY <1>1, <2>1, <2>4, <2>5, MoreMet, OneGoes
<1>4. CASE ListDevices(f)
  <2> DEFINE r == [flow[f] EXCEPT !.checked = TRUE]
  <2>1. Goto(f, r) /\ flow[f].tried.token \in met[f]
    BY <1>2, <1>4 DEF ListDevices, Takes
  <2>2. /\ r.step = flow[f].step /\ r.uid = flow[f].uid /\ r.host = flow[f].host
        /\ r.token = flow[f].token /\ r.tried = flow[f].tried /\ r.found = flow[f].found
    BY <1>1 DEF Flows
  <2> HIDE DEF r
  <2>3. Owes(f, r, met[f])
    BY <1>1, <2>1, <2>2 DEF Owes, Pending
  <2>4. Faces(r) # None
    BY <1>2, <2>2 DEF Faces, Facing
  <2> QED BY <1>1, <2>1, <2>3, <2>4, MoreMet, OneGoes
<1> QED BY <1>3, <1>4

LEMMA GBackToForm ==
  ASSUME MInv, NEW f \in Flow, KeepToken(f) \/ Rejected(f) PROVE \A g \in Flow : Goes(g)
<1>1. /\ FInv /\ flow[f] \in Flows /\ Form(f, flow[f].uid) /\ Pending(flow[f])
      /\ flow[f].uid \in Bridge \cup {None}
  BY DEF MInv, FInv, KeepToken, Rejected, Pending, Flows
<1> QED BY <1>1, MetDiscovered, GForms

(* A bridge that a validation found. *)
LEMMA MetFound ==
  ASSUME MInv, NEW f \in Flow, Validating(f), flow[f].checked
  PROVE  /\ \E t \in met[f] : t[1] = flow[f].found
         /\ flow[f].tried.token \in met[f] /\ flow[f].tried.host \in Host
         /\ flow[f].found \in Bridge /\ Facing(f) = flow[f].tried.host
<1>1. /\ flow[f].tried.host \in Host /\ flow[f].found \in Bridge
      /\ Owes(f, flow[f], met[f]) /\ flow[f].step \in Validations
  BY TriedType DEF MInv, Met, Validating, Validations
<1> QED BY <1>1, MetTried, BridgesAssumption DEF Owes

LEMMA GAutomatic == ASSUME MInv, NEW f \in Flow, Automatic(f) PROVE \A g \in Flow : Goes(g)
<1>1. FInv /\ flow[f].step = "automatic" /\ Validating(f) /\ flow[f].checked /\ Pending(flow[f])
  BY DEF MInv, Automatic, Validating, Pending
<1>2. CASE End(f)
  BY <1>1, <1>2, GEnds
<1>3. CASE Form(f, flow[f].found)
  BY <1>1, <1>3, MetFound, GForms
<1> QED BY <1>2, <1>3 DEF Automatic, Taken, UpdateHost

LEMMA GOpen == ASSUME FInv, NEW f \in Flow, Open(f) PROVE \A g \in Flow : Goes(g)
<1>1. PICK t \in {None} \cup {b \in Bridge : Exists(b)} : Goto(f, Started("form", None, t, None))
  BY DEF Open
<1> DEFINE r == Started("form", None, t, None)
<1>2. Owes(f, r, {})
  BY DEF Open, Owes, Started, Validations
<1> HIDE DEF r
<1>3. Goto(f, r)
  BY <1>1 DEF r
<1> QED BY <1>2, <1>3, OneGoes

LEMMA GSubmit == ASSUME MInv, NEW f \in Flow, Submit(f) PROVE \A g \in Flow : Goes(g)
<1>1. PICK b \in Bridge, h \in Host :
        /\ f[1] = "discovery" => h = flow[f].host
        /\ Validate(f, "validating", flow[f].token, h, Token(b))
  BY DEF Submit
<1> DEFINE r == TriedRecord(flow[f], "validating", flow[f].token, h, Token(b))
<1>2. /\ FInv /\ flow[f] \in Flows /\ Fit(f, flow[f]) /\ Owes(f, flow[f], met[f])
      /\ flow[f].step = "form" /\ Token(b) \in Tokens
  BY TokenType DEF MInv, FInv, Met, Submit
<1>3. Goto(f, r)
  BY <1>1 DEF Validate, TriedRecord
<1> HIDE DEF r
<1>4. /\ r.step = "validating" /\ r.uid = flow[f].uid /\ r.host = flow[f].host
      /\ r.token = flow[f].token /\ r.tried.host = h /\ r.found = flow[f].found
      /\ r.checked = flow[f].checked
  BY <1>2, TriedFields DEF Validations, Flows, r
<1>5. Owes(f, r, met[f]) /\ Faces(r) # None
  BY <1>1, <1>2, <1>4, BridgesAssumption DEF Owes, Fit, Pending, Faces
<1> QED BY <1>2, <1>3, <1>5, MoreMet, OneGoes

(* Flows that an entry of their unique id overtakes face the same host. *)
LEMMA GCreates ==
  ASSUME MInv, NEW f \in Flow, NEW b, NEW host, NEW token, Create(f, b, host, token), NEW g \in Flow
  PROVE  Goes(g)
<1>1. PICK q \in Flows : q = flow[g] /\ Owes(g, q, met[g]) /\ Fit(g, q)
  BY DEF MInv, FInv, Met
<1>2. CASE flow'[g] = Unstarted
  BY <1>2, IdleMeets DEF Goes
<1>3. CASE flow'[g] = flow[g]
  BY <1>3 DEF Goes
<1>4. CASE flow'[g] = Overtake(q) /\ q.step \notin {"form", "validating"}
  <2> DEFINE r == [q EXCEPT !.overtaken = TRUE]
  <2>1. flow'[g] = r
    BY <1>4 DEF Overtake
  <2>2. /\ r.step = q.step /\ r.uid = q.uid /\ r.host = q.host /\ r.token = q.token
        /\ r.tried = q.tried /\ r.found = q.found /\ r.checked = q.checked
    BY DEF Flows
  <2> HIDE DEF r
  <2>3. Owes(g, r, met[g]) /\ Facing(g)' = Facing(g)
    BY <1>1, <2>1, <2>2 DEF Owes, Facing, Pending
  <2>4. Facing(g) = None => met[g] = {}
    BY DEF MInv, Met
  <2> QED BY <2>1, <2>3, <2>4, MoreMet DEF Goes
<1>5. CASE flow'[g] = Overtake(q) /\ q.step = "validating"
  <2> DEFINE r == [q EXCEPT !.step = "dismissed", !.uid = None]
  <2>1. flow'[g] = r
    BY <1>5 DEF Overtake
  <2>2. /\ r.step = "dismissed" /\ r.host = q.host /\ r.token = q.token
        /\ r.tried = q.tried /\ r.found = q.found /\ r.checked = q.checked
    BY DEF Flows
  <2> HIDE DEF r
  <2>3. Owes(g, r, met[g]) /\ Facing(g)' = Facing(g)
    BY <1>1, <1>5, <2>1, <2>2 DEF Owes, Facing, Pending, Validations
  <2>4. Facing(g) = None => met[g] = {}
    BY DEF MInv, Met
  <2> QED BY <2>1, <2>3, <2>4, MoreMet DEF Goes
<1>6. CASE flow'[g] = Overtake(q) /\ q.step = "form"
  BY <1>2, <1>6 DEF Overtake
<1>7. flow'[g] \in {Unstarted, flow[g], Overtake(q)}
  BY <1>1 DEF Create
<1> QED BY <1>2, <1>3, <1>4, <1>5, <1>6, <1>7

LEMMA GSetUp == ASSUME FInv, NEW b \in Bridge, SetUp(b) PROVE \A g \in Flow : Goes(g)
<1>1. CASE UNCHANGED flow
  BY <1>1 DEF Goes
<1>2. CASE Goto(<<"reauth", b>>, Started("form", b, None, None))
  <2> DEFINE f == <<"reauth", b>>
             r == Started("form", b, None, None)
  <2>1. f \in Flow /\ f[1] # "discovery"
    BY DEF Flow
  <2> HIDE DEF f
  <2>2. Owes(f, r, {})
    BY <2>1 DEF Owes, Started, Validations
  <2> HIDE DEF r
  <2>3. Goto(f, r)
    BY <1>2 DEF f, r
  <2> QED BY <2>1, <2>2, <2>3, OneGoes
<1> QED BY <1>1, <1>2 DEF SetUp

LEMMA MNext == ASSUME MInv, [Next]_vars PROVE MInv'
<1>1. FInv'
  BY FNext DEF MInv, Next, vars
<1>2. CASE UNCHANGED vars
  BY <1>1, <1>2 DEF vars, stepVars, worldVars, MInv, Met, There, Facing, At, Token
<1>3. ASSUME Step PROVE \A g \in Flow : Goes(g)
  <2>0. FInv
    BY DEF MInv
  <2>1. ASSUME NEW f \in Flow, FlowStep(f) \/ TokenRaises(f) \/ Open(f) \/ Submit(f) \/ Confirm(f)
        PROVE  \A g \in Flow : Goes(g)
    <3>1. CASE EntryToken(f) \/ Updated(f) \/ Dismissed(f)
      BY <2>0, <3>1, GEnds DEF EntryToken, Updated, Dismissed, UpdateHost
    <3>2. CASE Accepted(f)
      BY <2>0, <3>2, GEnds, GCreates DEF Accepted, Taken, UpdateHost
    <3>3. CASE Confirm(f)
      BY <3>3, GCreates DEF Confirm
    <3>4. CASE Validation(f)
      BY <2>0, <3>4, GLearns, GBackToForm, GStuck DEF Validation
    <3> QED BY <2>0, <2>1, <3>1, <3>2, <3>3, <3>4, GFetchToken, GAutomatic, GStuck, GOpen, GSubmit
            DEF FlowStep
  <2>2. ASSUME NEW b \in Bridge, SetUp(b) PROVE \A g \in Flow : Goes(g)
    BY <2>0, <2>2, GSetUp
  <2>3. ASSUME NEW b \in Bridge, NEW f \in Flow, Discover(f, b) PROVE \A g \in Flow : Goes(g)
    BY <2>3, GDiscover
  <2>4. CASE Move \/ \E b \in Bridge : Announced(b) \/ Retry(b) \/ Rotate(b)
    BY <2>4 DEF Move, Announced, Retry, Rotate, Goes
  <2> QED BY <1>3, <2>1, <2>2, <2>3, <2>4, BridgesAssumption DEF Step
<1> QED BY <1>1, <1>2, <1>3, AllMeet DEF Next

(***************************************************************************)
(* What a step stores.                                                     *)
(***************************************************************************)
Stored(b) ==
  \/ Exists(b) /\ entry'[b].host = at[b] /\ entry'[b].token = entry[b].token
  \/ \E f \in Flow : ~Active(f)' /\ Vouches(f, b, entry[b], entry'[b])

(* One entry changes, to e. *)
LEMMA SUpdates ==
  ASSUME MInv, NEW f \in Flow, NEW c \in Bridge, NEW e, entry' = [entry EXCEPT ![c] = e], End(f),
         e.host = Facing(f), \E t \in met[f] : t[1] = c,
         e.token \in met[f] \/ (Exists(c) /\ e.token = entry[c].token),
         NEW b \in Bridge, Data(b)' # Data(b)
  PROVE  Stored(b)
<1>1. DOMAIN entry = Bridge /\ DOMAIN flow = Flow
  BY DEF MInv, FInv, EntryTypes
<1>2. b = c /\ entry'[b] = e
  <2>1. b # c => entry'[b] = entry[b]
    BY <1>1
  <2>2. entry'[b] = entry[b] => Data(b)' = Data(b)
    BY DEF Data, Exists
  <2> QED BY <1>1, <2>1, <2>2
<1>3. ~Active(f)'
  BY <1>1 DEF End, Goto, Active, Unstarted, Started
<1>4. Vouches(f, b, entry[b], entry'[b])
  BY <1>2 DEF Vouches, Exists
<1> QED BY <1>3, <1>4 DEF Stored

LEMMA SReload ==
  ASSUME MInv, NEW f \in Flow, NEW c \in Bridge, Exists(c), NEW token, NEW same \in BOOLEAN,
         UpdateReload(c, Facing(f), token, same), End(f), \E t \in met[f] : t[1] = c,
         token \in met[f] \/ token = entry[c].token, NEW b \in Bridge, Data(b)' # Data(b)
  PROVE  Stored(b)
<1> DEFINE e == [host |-> Facing(f), token |-> token, state |-> "setup"]
<1>1. CASE entry' = [entry EXCEPT ![c] = e]
  <2>1. e.host = Facing(f) /\ e.token = token
    OBVIOUS
  <2> HIDE DEF e
  <2> QED BY <1>1, <2>1, SUpdates
<1>2. CASE entry' = entry
  BY <1>2 DEF Data, Exists
<1>3. entry' = [entry EXCEPT ![c] = e] \/ entry' = [entry EXCEPT ![c] = entry[c]]
  BY DEF UpdateReload
<1>4. [entry EXCEPT ![c] = entry[c]] = entry
  BY DEF MInv, FInv, EntryTypes
<1> QED BY <1>1, <1>2, <1>3, <1>4

LEMMA SNewHost ==
  ASSUME MInv, NEW f \in Flow, NEW c \in Bridge, Exists(c), UpdateHost(f, c, Facing(f)),
         \E t \in met[f] : t[1] = c, NEW b \in Bridge, Data(b)' # Data(b)
  PROVE  Stored(b)
<1>1. PICK s : entry' = [entry EXCEPT ![c] = [host |-> Facing(f), token |-> @.token, state |-> s]]
  BY DEF UpdateHost
<1> DEFINE e == [host |-> Facing(f), token |-> entry[c].token, state |-> s]
<1>2. e.host = Facing(f) /\ e.token = entry[c].token /\ entry' = [entry EXCEPT ![c] = e] /\ End(f)
  BY <1>1 DEF UpdateHost
<1> HIDE DEF e
<1> QED BY <1>2, SUpdates

LEMMA SCreate ==
  ASSUME MInv, NEW f \in Flow, NEW c \in Bridge, NEW token, Create(f, c, Facing(f), token),
         token \in met[f], \E t \in met[f] : t[1] = c, NEW b \in Bridge, Data(b)' # Data(b)
  PROVE  Stored(b)
<1> DEFINE e == [host |-> Facing(f), token |-> token, state |-> "setup"]
<1>1. e.host = Facing(f) /\ e.token = token /\ entry' = [entry EXCEPT ![c] = e]
  BY DEF Create
<1>2. flow'[f] = Unstarted
  BY DEF Create
<1> HIDE DEF e
<1>3. DOMAIN entry = Bridge
  BY DEF MInv, FInv, EntryTypes
<1>4. b = c /\ entry'[b] = e
  <2>1. b # c => entry'[b] = entry[b]
    BY <1>1, <1>3
  <2>2. entry'[b] = entry[b] => Data(b)' = Data(b)
    BY DEF Data, Exists
  <2> QED BY <1>1, <1>3, <2>1, <2>2
<1>5. ~Active(f)'
  BY <1>2 DEF Active, Unstarted, Started
<1>6. Vouches(f, b, entry[b], entry'[b])
  BY <1>1, <1>4 DEF Vouches
<1> QED BY <1>5, <1>6 DEF Stored

LEMMA SEntryToken ==
  ASSUME MInv, NEW f \in Flow, EntryToken(f), NEW b \in Bridge, Data(b)' # Data(b) PROVE Stored(b)
<1>1. /\ FInv /\ Fit(f, flow[f]) /\ flow[f].step = "entry_token" /\ End(f)
  BY DEF MInv, FInv, EntryToken
<1>2. f[1] = "discovery" /\ flow[f].uid \in Bridge /\ Exists(flow[f].uid)
  BY <1>1, Kinds DEF Fit
<1>3. /\ \E t \in met[f] : t[1] = flow[f].uid
      /\ flow[f].host \in Host /\ Facing(f) = flow[f].host
  BY <1>1, <1>2, MetDiscovered
<1>4. PICK token \in {entry[flow[f].uid].token, Token(At(flow[f].host))} :
        UpdateReload(flow[f].uid, flow[f].host, token, FALSE)
  BY DEF EntryToken
<1>5. token \in met[f] \/ token = entry[flow[f].uid].token
  BY <1>3, <1>4, MetThere, BridgesAssumption
<1> QED BY <1>1, <1>2, <1>3, <1>4, <1>5, SReload

LEMMA SFound ==
  ASSUME MInv, NEW f \in Flow, Automatic(f) \/ Accepted(f) \/ Dismissed(f), flow[f].checked,
         NEW b \in Bridge, Data(b)' # Data(b)
  PROVE  Stored(b)
<1>1. Validating(f)
  BY DEF Automatic, Accepted, Dismissed, Validating
<1>2. /\ \E t \in met[f] : t[1] = flow[f].found
      /\ flow[f].tried.token \in met[f] /\ flow[f].tried.host \in Host
      /\ flow[f].found \in Bridge /\ Facing(f) = flow[f].tried.host
  BY <1>1, MetFound
<1>3. Automatic(f) => flow[f].host = Facing(f)
  BY DEF Automatic, Facing
<1>4. CASE Exists(flow[f].found) /\ UpdateHost(f, flow[f].found, Facing(f))
  BY <1>2, <1>4, SNewHost
<1>5. CASE Create(f, flow[f].found, Facing(f), flow[f].tried.token)
  BY <1>2, <1>5, SCreate
<1>6. entry' # entry
  BY DEF Data, Exists
<1> QED BY <1>2, <1>3, <1>4, <1>5, <1>6 DEF Automatic, Accepted, Dismissed, Taken

LEMMA SConfirm ==
  ASSUME MInv, NEW f \in Flow, Confirm(f), NEW b \in Bridge, Data(b)' # Data(b) PROVE Stored(b)
<1>1. /\ FInv /\ Fit(f, flow[f]) /\ Owes(f, flow[f], met[f])
      /\ flow[f].step = "form" /\ flow[f].token # None
  BY DEF MInv, FInv, Met, Confirm
<1>2. f[1] = "discovery" /\ Pending(flow[f]) /\ flow[f].uid \in Bridge
  BY <1>1 DEF Fit, Pending
<1>3. flow[f].token \in met[f] /\ Facing(f) = flow[f].host /\ \E t \in met[f] : t[1] = flow[f].uid
  BY <1>1, <1>2, MetDiscovered DEF Owes
<1>4. Create(f, flow[f].uid, Facing(f), flow[f].token)
  BY <1>3 DEF Confirm
<1> QED BY <1>2, <1>3, <1>4, SCreate

LEMMA SUpdated ==
  ASSUME MInv, NEW f \in Flow, Updated(f), NEW b \in Bridge, Data(b)' # Data(b) PROVE Stored(b)
<1>1. Validating(f) /\ flow[f].checked /\ End(f)
  BY DEF Updated, Validating
<1>2. /\ \E t \in met[f] : t[1] = flow[f].found
      /\ flow[f].tried.token \in met[f] /\ Facing(f) = flow[f].tried.host
      /\ flow[f].found \in Bridge
  BY <1>1, MetFound
<1>3. entry' # entry
  BY DEF Data, Exists
<1>4. /\ flow[f].found = Target(f)
      /\ UpdateReload(flow[f].found, Facing(f), flow[f].tried.token, TRUE)
  BY <1>2, <1>3 DEF Updated
<1>5. Exists(flow[f].found)
  BY <1>2, <1>4, BridgesAssumption DEF Target, MInv, FInv, Fit, Updated
<1> QED BY <1>1, <1>2, <1>4, <1>5, SReload

(* Setting up changes the state of an entry only. *)
LEMMA SStates ==
  ASSUME MInv, NEW c \in Bridge, SetUp(c) \/ Retry(c), NEW b \in Bridge PROVE Data(b)' = Data(b)
<1>1. PICK s \in {"setup", "loaded", "setup_retry", "setup_error"} :
        Exists(c) /\ entry' = [entry EXCEPT ![c].state = s]
  BY DEF SetUp, Retry
<1>2. FInv /\ entry[c] \in Entries /\ entry \in [Bridge -> Entries \cup {NoEntry}]
  BY <1>1, EntryType DEF MInv, FInv, EntryTypes
<1> DEFINE e == [entry[c] EXCEPT !.state = s]
<1>3. e \in Entries /\ e.host = entry[c].host /\ e.token = entry[c].token
  BY <1>1, <1>2 DEF Entries
<1>4. entry' = [entry EXCEPT ![c] = e]
  BY <1>1
<1> HIDE DEF e
<1>5. CASE b = c
  BY <1>1, <1>2, <1>3, <1>4, <1>5, EntryExists DEF Data, Exists
<1>6. CASE b # c
  <2>1. entry'[b] = entry[b]
    BY <1>2, <1>4, <1>6
  <2> QED BY <2>1 DEF Data, Exists
<1> QED BY <1>5, <1>6

LEMMA Storing ==
  ASSUME MInv, Step, NEW b \in Bridge, Data(b)' # Data(b) PROVE Stored(b)
<1>1. entry' # entry
  BY DEF Data, Exists
<1>2. ASSUME NEW f \in Flow, FlowStep(f) \/ TokenRaises(f) \/ Open(f) \/ Submit(f) \/ Confirm(f)
      PROVE  Stored(b)
  <2>1. ~Validation(f) /\ ~FetchToken(f) /\ ~TokenRaises(f) /\ ~Open(f) /\ ~Submit(f)
    BY <1>1 DEF Validation, ReadVersion, ListDevices, KeepToken, Rejected, NameRaises, FetchToken,
                TokenRaises, Open, Submit
  <2>2. CASE Automatic(f) \/ Accepted(f)
    BY <2>2, SFound DEF Automatic, Accepted
  <2>3. CASE Dismissed(f)
    BY <1>1, <2>3, SFound DEF Dismissed
  <2> QED BY <1>2, <2>1, <2>2, <2>3, SEntryToken, SUpdated, SConfirm DEF FlowStep
<1>3. ASSUME NEW c \in Bridge, Announced(c) PROVE Stored(b)
  <2>1. /\ Exists(c) /\ DOMAIN entry = Bridge
        /\ UpdateReload(c, at[c], entry[c].token, FALSE)
    BY <1>3 DEF Announced, MInv, FInv, EntryTypes
  <2>2. entry' = [entry EXCEPT ![c] = IF @.host # at[c]
                    THEN [host |-> at[c], token |-> @.token, state |-> "setup"] ELSE @]
    BY <2>1 DEF UpdateReload
  <2>3. entry'[b] # entry[b]
    BY DEF Data, Exists
  <2>4. b = c /\ entry'[b] = [host |-> at[b], token |-> entry[b].token, state |-> "setup"]
    BY <2>1, <2>2, <2>3
  <2> QED BY <2>1, <2>4 DEF Stored
<1>4. ASSUME NEW c \in Bridge, SetUp(c) \/ Retry(c) PROVE FALSE
  BY <1>4, SStates
<1>5. ~Move /\ \A c \in Bridge : ~Rotate(c) /\ \A f \in Flow : ~Discover(f, c)
  BY <1>1 DEF Move, Rotate, Discover
<1> QED BY <1>2, <1>3, <1>4, <1>5, BridgesAssumption DEF Step

(* Whatever a flow stores in an entry was true of its bridge since the     *)
(* flow was discovered or filled in, however bridges move, change their    *)
(* tokens, and fail between the requests of its validation                 *)
(* (config_flow.py:103-110, 141-151, 173-195, 216-224, 240-255, 270-277;   *)
(* utils.py:258-299).                                                      *)
THEOREM StoredTheorem == Spec => StoredWasTrue
<1>1. SafeSpec => []MInv
  BY MInit, MNext, PTL DEF SafeSpec
<1>2. ASSUME MInv, [Next]_vars
      PROVE  [\A b \in Bridge :
                Data(b)' # Data(b) =>
                  \/ Exists(b) /\ entry'[b].host = at[b] /\ entry'[b].token = entry[b].token
                  \/ \E f \in Flow : ~Active(f)' /\ Vouches(f, b, entry[b], entry'[b])]_vars
  BY <1>2, Storing DEF Stored, Next
<1> QED BY <1>1, <1>2, PTL DEF Spec, SafeSpec, StoredWasTrue
================================================================================
