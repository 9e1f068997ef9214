----------------------------- MODULE CommandsProofs -----------------------------
(***************************************************************************)
(* The order in which the bridge runs the requests of commands, and what   *)
(* becomes of the device, for any devices and calls, any number of         *)
(* commands and any use of the remote.                                     *)
(***************************************************************************)
EXTENDS Commands, PlatformsProofs

Deliveries == {"new", "open", "returned", "raised"}
Types ==
  /\ device \in Devices /\ breeze \in BOOLEAN
  /\ at \in [Command -> 0..MaxRequests]
  /\ DOMAIN phase = Command /\ DOMAIN requests = Command
  /\ delivered \in [Request -> Deliveries]
  /\ ran \in [Request -> Nat]

(* Requests before the current one have returned, those after it are not   *)
(* sent yet; and what returned has been run, what is not sent has not.     *)
Turn(c) ==
  \A i \in 1..MaxRequests :
    /\ i < at[c] => delivered[<<c, i>>] = "returned"
    /\ i > at[c] => delivered[<<c, i>>] = "new"
    /\ delivered[<<c, i>>] = "returned" => ran[<<c, i>>] > 0
    /\ delivered[<<c, i>>] = "new" => ran[<<c, i>>] = 0

(* A running command has a request left, unless it awaits its last one. *)
Underway(c) ==
  /\ phase[c] = "idle" => at[c] = 0
  /\ phase[c] = "running" =>
       /\ Len(requests[c]) \in 1..MaxRequests
       /\ at[c] <= Len(requests[c])
       /\ at[c] > 0 => delivered[<<c, at[c]>>] \in {"open", "returned"}
       /\ at[c] > 0 /\ delivered[<<c, at[c]>>] = "returned" => at[c] < Len(requests[c])

CInv == Types /\ \A c \in Command : Turn(c) /\ Underway(c)

LEMMA CInit == Init => CInv
<1> SUFFICES ASSUME Init PROVE CInv
  OBVIOUS
<1>1. Types
  <2>1. breeze \in BOOLEAN
    BY Zenon DEF Init
  <2>2. at \in [Command -> 0..MaxRequests]
    BY DEF Init, MaxRequests
  <2>3. DOMAIN phase = Command /\ DOMAIN requests = Command
    BY Zenon DEF Init
  <2>4. delivered \in [Request -> Deliveries] /\ ran \in [Request -> Nat]
    BY DEF Init, Deliveries, Transport!Init
  <2> QED BY <2>1, <2>2, <2>3, <2>4 DEF Init, Types
<1>2. ASSUME NEW c \in Command PROVE Turn(c) /\ Underway(c)
  BY DEF Init, Turn, Underway, MaxRequests, Request, Transport!Init
<1> QED BY <1>1, <1>2 DEF CInv

(***************************************************************************)
(* A step of one command leaves the others alone.                          *)
(***************************************************************************)
Same(k) ==
  /\ phase'[k] = phase[k] /\ requests'[k] = requests[k] /\ at'[k] = at[k]
  /\ \A i \in 1..MaxRequests :
       delivered'[<<k, i>>] = delivered[<<k, i>>] /\ ran'[<<k, i>>] = ran[<<k, i>>]

LEMMA Elsewhere ==
  ASSUME CInv, NEW k \in Command, Same(k) PROVE Turn(k)' /\ Underway(k)'
<1>1. Turn(k) /\ Underway(k) /\ at[k] \in 0..MaxRequests
  BY DEF CInv, Types
<1>2. Turn(k)'
  BY <1>1 DEF Turn, Same
<1>3. at[k] > 0 => delivered'[<<k, at[k]>>] = delivered[<<k, at[k]>>]
  BY <1>1 DEF Same, MaxRequests
<1>4. Underway(k)'
  BY <1>1, <1>3 DEF Underway, Same
<1> QED BY <1>2, <1>4

LEMMA OneCommand ==
  ASSUME CInv, NEW c \in Command, Types', Turn(c)', Underway(c)',
         \A k \in Command \ {c} : Same(k)
  PROVE  CInv'
  BY Elsewhere DEF CInv

(* What a command sends is one request, or two, or none. *)
LEMMA AskedShort ==
  ASSUME device \in Devices, NEW a \in Asks(device), NEW shown \in BOOLEAN
  PROVE  /\ Len(Requests(device, a.entity, a.call, shown)) \in 0..MaxRequests
         /\ Len(Requests(device, a.entity, a.call, shown)) = 0 =>
              Requests(device, a.entity, a.call, shown) = <<>>
<1>1. a.entity \in Entities(device) /\ Callable(device, a.entity, a.call)
  BY AsksAssumption
<1>2. Short(Requests(device, a.entity, a.call, shown))
  BY <1>1, RequestsShort
<1> QED BY <1>2, ShortLength DEF MaxRequests

LEMMA CBegin == ASSUME CInv, NEW c \in Command, Begin(c) PROVE CInv'
<1>1. PICK a \in Asks(device) :
        /\ requests' = [requests EXCEPT ![c] = Requests(device, a.entity, a.call, breeze)]
        /\ phase' = [phase EXCEPT ![c] =
                       IF Requests(device, a.entity, a.call, breeze) = <<>> THEN "failed" ELSE "running"]
  BY DEF Begin
<1> DEFINE rs == Requests(device, a.entity, a.call, breeze)
<1>2. Len(rs) \in 0..MaxRequests /\ (Len(rs) = 0 => rs = <<>>)
  BY AskedShort DEF CInv, Types
<1>3. phase[c] = "idle" /\ at[c] = 0 /\ UNCHANGED <<device, at, delivered, ran, breeze>>
  BY DEF Begin, CInv, Underway
<1>4. Types'
  BY <1>1, <1>3 DEF CInv, Types
<1>5. Turn(c)'
  BY <1>3 DEF CInv, Turn
<1>6. Underway(c)'
  <2>1. phase'[c] = (IF rs = <<>> THEN "failed" ELSE "running") /\ requests'[c] = rs
    BY <1>1 DEF CInv, Types
  <2> QED BY <1>2, <1>3, <2>1 DEF Underway, MaxRequests
<1>7. \A k \in Command \ {c} : Same(k)
  BY <1>1, <1>3 DEF Same, CInv, Types
<1> QED BY <1>4, <1>5, <1>6, <1>7, OneCommand

(* What the transport reports of one request changes nothing of others. *)
LEMMA Delivered ==
  ASSUME CInv, NEW c \in Command, NEW i \in 1..MaxRequests, NEW v \in Deliveries,
         delivered' = [delivered EXCEPT ![<<c, i>>] = v]
  PROVE  /\ delivered' \in [Request -> Deliveries]
         /\ \A j \in 1..MaxRequests :
              delivered'[<<c, j>>] = IF j = i THEN v ELSE delivered[<<c, j>>]
         /\ \A k \in Command \ {c}, j \in 1..MaxRequests : delivered'[<<k, j>>] = delivered[<<k, j>>]
<1>1. delivered \in [Request -> Deliveries] /\ <<c, i>> \in Request
  BY DEF CInv, Types, Request
<1>2. \A k \in Command, j \in 1..MaxRequests :
        delivered'[<<k, j>>] = IF k = c /\ j = i THEN v ELSE delivered[<<k, j>>]
  BY <1>1 DEF Request
<1> QED BY <1>1, <1>2

LEMMA CSend == ASSUME CInv, NEW c \in Command, Send(c) PROVE CInv'
<1> DEFINE i == at[c] + 1
<1>1. /\ at[c] \in 0..MaxRequests /\ at \in [Command -> 0..MaxRequests]
      /\ phase[c] = "running" /\ Turn(c) /\ Underway(c)
  BY DEF CInv, Types, Send
<1>2. at[c] > 0 => delivered[<<c, at[c]>>] = "returned"
  BY <1>1 DEF Send, Awaiting, Underway
<1>3. i \in 1..MaxRequests /\ i <= Len(requests[c]) /\ Len(requests[c]) \in 1..MaxRequests
  <2>1. Len(requests[c]) \in 1..MaxRequests
    BY <1>1 DEF Underway
  <2>2. at[c] = 0 \/ at[c] < Len(requests[c])
    BY <1>1, <1>2 DEF Underway, MaxRequests
  <2>3. PICK n \in 1..MaxRequests : n = Len(requests[c])
    BY <2>1
  <2>4. PICK m \in 0..MaxRequests : m = at[c]
    BY <1>1
  <2>5. m = 0 \/ m < n
    BY <2>2, <2>3, <2>4
  <2>6. m + 1 \in 1..MaxRequests /\ m + 1 <= n
    BY <2>5 DEF MaxRequests
  <2> QED BY <2>1, <2>3, <2>4, <2>6
<1>4. /\ at' = [at EXCEPT ![c] = i]
      /\ delivered[<<c, i>>] = "new" /\ delivered' = [delivered EXCEPT ![<<c, i>>] = "open"]
      /\ UNCHANGED <<device, phase, requests, breeze, ran>>
  BY DEF Send, Transport!Ask
<1>5. /\ delivered' \in [Request -> Deliveries]
      /\ \A j \in 1..MaxRequests :
           delivered'[<<c, j>>] = IF j = i THEN "open" ELSE delivered[<<c, j>>]
      /\ \A k \in Command \ {c}, j \in 1..MaxRequests : delivered'[<<k, j>>] = delivered[<<k, j>>]
  BY <1>3, <1>4, Delivered DEF Deliveries
<1>6. at' \in [Command -> 0..MaxRequests] /\ at'[c] = i
  BY <1>1, <1>3, <1>4
<1>7. Types'
  BY <1>4, <1>5, <1>6 DEF CInv, Types
<1>8. Turn(c)'
  <2> SUFFICES ASSUME NEW j \in 1..MaxRequests
               PROVE  /\ j < i => delivered'[<<c, j>>] = "returned"
                      /\ j > i => delivered'[<<c, j>>] = "new"
                      /\ delivered'[<<c, j>>] = "returned" => ran[<<c, j>>] > 0
                      /\ delivered'[<<c, j>>] = "new" => ran[<<c, j>>] = 0
    BY <1>4, <1>6 DEF Turn
  <2>1. j < i => j < at[c] \/ j = at[c]
    BY <1>1 DEF MaxRequests
  <2> QED BY <1>1, <1>2, <1>3, <1>5, <2>1 DEF Turn, MaxRequests
<1>9. Underway(c)'
  BY <1>1, <1>3, <1>4, <1>5, <1>6 DEF Underway
<1>10. \A k \in Command \ {c} : Same(k)
  BY <1>1, <1>4, <1>5 DEF Same
<1> QED BY <1>7, <1>8, <1>9, <1>10, OneCommand

LEMMA CRefuse == ASSUME CInv, NEW c \in Command, Refuse(c) PROVE CInv'
<1>1. /\ phase[c] = "running" /\ phase' = [phase EXCEPT ![c] = "failed"]
      /\ UNCHANGED <<device, requests, at, delivered, ran, breeze>>
  BY DEF Refuse
<1>2. phase'[c] = "failed" /\ DOMAIN phase' = Command
      /\ \A k \in Command \ {c} : phase'[k] = phase[k]
  BY <1>1 DEF CInv, Types
<1>3. Types'
  BY <1>1, <1>2 DEF CInv, Types
<1>4. Turn(c)' /\ Underway(c)'
  <2>1. Turn(c)
    BY DEF CInv
  <2>2. Turn(c)'
    BY <1>1, <2>1 DEF Turn
  <2>3. Underway(c)'
    BY <1>2 DEF Underway
  <2> QED BY <2>2, <2>3
<1>5. \A k \in Command \ {c} : Same(k)
  BY <1>1, <1>2 DEF Same
<1> QED BY <1>3, <1>4, <1>5, OneCommand

(* A command whose current request ends is done, failed or goes on. *)
LEMMA Ended ==
  ASSUME CInv, NEW c \in Command, phase[c] = "running", Awaiting(c),
         NEW v \in Deliveries, v \in {"returned", "raised"}, NEW p \in {"running", "done", "failed"},
         delivered' = [delivered EXCEPT ![<<c, at[c]>>] = v],
         phase' = [phase EXCEPT ![c] = p],
         v = "returned" => ran[<<c, at[c]>>] > 0,
         p = "running" => v = "returned" /\ at[c] # Len(requests[c]),
         UNCHANGED <<device, requests, at, ran, breeze>>
  PROVE  CInv'
<1>1. /\ at[c] \in 1..MaxRequests /\ delivered[<<c, at[c]>>] = "open"
      /\ Turn(c) /\ Underway(c)
  BY DEF CInv, Types, Awaiting, MaxRequests
<1>2. /\ delivered' \in [Request -> Deliveries]
      /\ \A j \in 1..MaxRequests :
           delivered'[<<c, j>>] = IF j = at[c] THEN v ELSE delivered[<<c, j>>]
      /\ \A k \in Command \ {c}, j \in 1..MaxRequests : delivered'[<<k, j>>] = delivered[<<k, j>>]
  BY <1>1, Delivered
<1>3. phase'[c] = p /\ DOMAIN phase' = Command /\ \A k \in Command \ {c} : phase'[k] = phase[k]
  BY DEF CInv, Types
<1>4. Types'
  BY <1>2, <1>3 DEF CInv, Types
<1>5. Turn(c)'
  BY <1>1, <1>2 DEF Turn
<1>6. Underway(c)'
  BY <1>1, <1>2, <1>3 DEF Underway, MaxRequests
<1>7. \A k \in Command \ {c} : Same(k)
  BY <1>2, <1>3 DEF Same
<1> QED BY <1>4, <1>5, <1>6, <1>7, OneCommand

LEMMA CAnswer == ASSUME CInv, NEW c \in Command, Answer(c) PROVE CInv'
<1> DEFINE p == IF at[c] = Len(requests[c]) THEN "done" ELSE "running"
<1>1. /\ phase[c] = "running" /\ Awaiting(c)
      /\ delivered' = [delivered EXCEPT ![<<c, at[c]>>] = "returned"]
      /\ ran[<<c, at[c]>>] > 0
      /\ UNCHANGED <<device, requests, at, ran, breeze>>
  BY DEF Answer, Transport!Return
<1>4. "returned" \in Deliveries
  BY DEF Deliveries
<1>2. phase' = [phase EXCEPT ![c] = p]
  BY DEF Answer
<1>3. p \in {"running", "done", "failed"} /\ (p = "running" => at[c] # Len(requests[c]))
  OBVIOUS
<1> HIDE DEF p
<1> QED BY <1>1, <1>2, <1>3, <1>4, Ended

LEMMA CFail == ASSUME CInv, NEW c \in Command, Fail(c) PROVE CInv'
<1>1. /\ phase[c] = "running" /\ Awaiting(c)
      /\ delivered' = [delivered EXCEPT ![<<c, at[c]>>] = "raised"]
      /\ phase' = [phase EXCEPT ![c] = "failed"]
      /\ UNCHANGED <<device, requests, at, ran, breeze>>
  BY DEF Fail, Transport!Raise
<1>2. "raised" \in Deliveries
  BY DEF Deliveries
<1> QED BY <1>1, <1>2, Ended

LEMMA CBridgeRuns == ASSUME CInv, NEW c \in Command, BridgeRuns(c) PROVE CInv'
<1>1. PICK i \in 1..at[c] : Transport!Run(<<c, i>>)
  BY DEF BridgeRuns
<1>2. /\ delivered[<<c, i>>] # "new"
      /\ ran' = [ran EXCEPT ![<<c, i>>] = @ + 1]
      /\ UNCHANGED <<device, phase, requests, at, delivered, breeze>>
  BY <1>1 DEF Transport!Run, BridgeRuns, commandVars
<1>3. i \in 1..MaxRequests /\ <<c, i>> \in Request
  BY DEF CInv, Types, MaxRequests, Request
<1>4. /\ ran' \in [Request -> Nat]
      /\ \A k \in Command, j \in 1..MaxRequests :
           ran'[<<k, j>>] = IF k = c /\ j = i THEN ran[<<k, j>>] + 1 ELSE ran[<<k, j>>]
  BY <1>2, <1>3 DEF CInv, Types, Request
<1>5. Types'
  BY <1>2, <1>4 DEF CInv, Types
<1>6. \A j \in 1..MaxRequests : ran[<<c, j>>] \in Nat
  BY DEF CInv, Types, Request
<1>7. Turn(c)' /\ Underway(c)'
  <2>1. Turn(c) /\ Underway(c)
    BY DEF CInv
  <2>2. \A j \in 1..MaxRequests :
          ran'[<<c, j>>] = IF j = i THEN ran[<<c, j>>] + 1 ELSE ran[<<c, j>>]
    BY <1>4
  <2>3. ASSUME NEW j \in 1..MaxRequests
        PROVE  /\ delivered'[<<c, j>>] = "returned" => ran'[<<c, j>>] > 0
               /\ delivered'[<<c, j>>] = "new" => ran'[<<c, j>>] = 0
    <3>1. CASE j = i
      BY <1>2, <1>6, <2>2, <3>1
    <3>2. CASE j # i
      BY <1>2, <2>1, <2>2, <3>2 DEF Turn
    <3> QED BY <3>1, <3>2
  <2>4. Turn(c)'
    BY <1>2, <2>1, <2>3 DEF Turn
  <2>5. Underway(c)'
    BY <1>2, <2>1 DEF Underway
  <2> QED BY <2>4, <2>5
<1>8. \A k \in Command \ {c} : Same(k)
  BY <1>2, <1>4 DEF Same
<1> QED BY <1>5, <1>7, <1>8, OneCommand

(* The entity and the remote touch no command. *)
LEMMA CAround ==
  ASSUME CInv, Shown \/ Remote \/ UNCHANGED vars PROVE CInv'
<1>1. UNCHANGED <<device, phase, requests, at, delivered, ran>>
  BY DEF Shown, Remote, vars, commandVars
<1>2. breeze' \in BOOLEAN
  BY Zenon DEF Shown, Remote, vars, CInv, Types
<1>3. Types'
  BY <1>1, <1>2 DEF CInv, Types
<1>4. \A k \in Command : Turn(k)' /\ Underway(k)'
  BY <1>1, Elsewhere DEF Same
<1> QED BY <1>3, <1>4 DEF CInv

LEMMA CNext == ASSUME CInv, [Next]_vars PROVE CInv'
<1>1. ASSUME NEW c \in Command,
             Begin(c) \/ Send(c) \/ Refuse(c) \/ Answer(c) \/ Fail(c) \/ BridgeRuns(c)
      PROVE  CInv'
  BY <1>1, CBegin, CSend, CRefuse, CAnswer, CFail, CBridgeRuns
<1>2. ASSUME Shown \/ Remote \/ UNCHANGED vars PROVE CInv'
  BY <1>2, CAround
<1> QED BY <1>1, <1>2 DEF Next

(* Requests of a command return in the order of the code, and no later     *)
(* one is sent before the one ahead of it returned (light.py:160-180).     *)
THEOREM CommandsInvariant == SafeSpec => []CInv
<1> QED BY CInit, CNext, PTL DEF SafeSpec

LEMMA Follows == CInv => InOrder
<1> SUFFICES ASSUME CInv, NEW c \in Command, NEW i \in 1..MaxRequests, NEW j \in 1..MaxRequests,
                    i < j, ran[<<c, j>>] > 0
             PROVE  ran[<<c, i>>] > 0
  BY DEF InOrder
<1>1. Turn(c) /\ at[c] \in 0..MaxRequests
  BY DEF CInv, Types
<1>2. ~(j > at[c])
  BY <1>1 DEF Turn
<1>3. i < at[c]
  BY <1>1, <1>2 DEF MaxRequests
<1> QED BY <1>1, <1>3 DEF Turn

(* The bridge never runs a request of a command before those ahead of it,  *)
(* whatever fails and whatever else is in flight (light.py:160-180,        *)
(* fan.py:143-149, 176-180).                                               *)
THEOREM OrderTheorem == Spec => []InOrder
<1> QED BY CommandsInvariant, Follows, PTL DEF Spec

(***************************************************************************)
(* What becomes of the device.                                             *)
(***************************************************************************)
Breezy(st) == "breeze" \in DOMAIN st /\ st.breeze \in {0, 1}
StateTypes ==
  /\ DOMAIN ask = Command /\ DOMAIN sawBreeze = Command /\ DOMAIN before = Command
  /\ alone \in [Command -> BOOLEAN]
  /\ Breezy(state) /\ \A c \in Command : Breezy(before[c])

(* A command sends what its call asks of the entity as it showed itself. *)
Asked(c) ==
  phase[c] # "idle" =>
    /\ ask[c] \in Asks(device)
    /\ \E shown \in BOOLEAN :
         /\ requests[c] = Requests(device, ask[c].entity, ask[c].call, shown)
         /\ sawBreeze[c] = (shown = (before[c].breeze = 1))

(* The last of a command's requests that the bridge has run. *)
Reached(c) == IF ran[<<c, 2>>] = 1 THEN 2 ELSE ran[<<c, 1>>]

(* Each request is run once at most; a command that is done has them all   *)
(* answered; and the device of one left alone is where they brought it.    *)
Progress(c) ==
  /\ at[c] <= Len(requests[c])
  /\ phase[c] = "done" =>
       at[c] = Len(requests[c]) /\ at[c] > 0 /\ delivered[<<c, at[c]>>] = "returned"
  /\ \A i \in 1..MaxRequests : ran[<<c, i>>] \in 0..1
  /\ alone[c] => phase[c] # "idle" /\ state = Ran(before[c], requests[c])[Reached(c)]

SInv == StateTypes /\ \A c \in Command : Asked(c) /\ Progress(c)

LEMMA SInit == Init => SInv
<1> SUFFICES ASSUME Init PROVE SInv
  OBVIOUS
<1>1. Breezy(InitialState)
  BY DEF Breezy, InitialState
<1>2. StateTypes
  <2>1. DOMAIN ask = Command /\ DOMAIN sawBreeze = Command /\ alone \in [Command -> BOOLEAN]
    BY DEF Init
  <2>2. before = [c \in Command |-> InitialState] /\ state = InitialState
    BY DEF Init
  <2> QED BY <1>1, <2>1, <2>2 DEF StateTypes
<1>3. ASSUME NEW c \in Command PROVE Asked(c) /\ Progress(c)
  <2>1. phase[c] = "idle" /\ at[c] = 0 /\ requests[c] = <<>> /\ alone[c] = FALSE
    BY DEF Init
  <2>2. \A i \in 1..MaxRequests : ran[<<c, i>>] = 0
    BY DEF Init, Transport!Init, Request
  <2> QED BY <2>1, <2>2 DEF Asked, Progress
<1> QED BY <1>2, <1>3 DEF SInv

(* A step that does nothing for a command, except perhaps disturb it. *)
Steady(k) ==
  /\ Same(k) /\ UNCHANGED <<device, ask[k], before[k], sawBreeze[k]>>
  /\ alone'[k] => alone[k] /\ state' = state

LEMMA SteadyKeeps ==
  ASSUME CInv, SInv, NEW k \in Command, Steady(k) PROVE Asked(k)' /\ Progress(k)'
<1>1. Asked(k) /\ Progress(k) /\ at[k] \in 0..MaxRequests
  BY DEF SInv, CInv, Types
<1>2. Asked(k)'
  BY <1>1 DEF Asked, Steady, Same
<1>3. at[k] > 0 => delivered'[<<k, at[k]>>] = delivered[<<k, at[k]>>]
  BY <1>1 DEF Steady, Same, MaxRequests
<1>4. Reached(k)' = Reached(k)
  BY DEF Reached, Steady, Same, MaxRequests
<1>5. Progress(k)'
  BY <1>1, <1>3, <1>4 DEF Progress, Steady, Same
<1> QED BY <1>2, <1>5

LEMMA SBegin == ASSUME CInv, SInv, NEW c \in Command, Begin(c) PROVE SInv'
<1>1. PICK a \in Asks(device) :
        /\ ask' = [ask EXCEPT ![c] = a]
        /\ requests' = [requests EXCEPT ![c] = Requests(device, a.entity, a.call, breeze)]
        /\ phase' = [phase EXCEPT ![c] =
                       IF Requests(device, a.entity, a.call, breeze) = <<>> THEN "failed" ELSE "running"]
  BY DEF Begin
<1> DEFINE rs == Requests(device, a.entity, a.call, breeze)
<1>2. /\ phase[c] = "idle" /\ UNCHANGED <<device, at, delivered, ran, state, breeze>>
      /\ before' = [before EXCEPT ![c] = state]
      /\ sawBreeze' = [sawBreeze EXCEPT ![c] = breeze = (state.breeze = 1)]
  BY DEF Begin
<1>3. \A k \in Command \ {c} : alone'[k] = FALSE
  BY DEF Begin, Disturb
<1>4. alone' \in [Command -> BOOLEAN]
  BY DEF Begin, Disturb
<1>5. /\ Turn(c) /\ Underway(c) /\ Progress(c) /\ StateTypes /\ breeze \in BOOLEAN
      /\ device \in Devices /\ DOMAIN phase = Command /\ DOMAIN requests = Command
  BY DEF CInv, SInv, Types
<1>6. StateTypes'
  BY <1>1, <1>2, <1>4, <1>5 DEF StateTypes, Breezy
<1>7. \A k \in Command \ {c} : Steady(k)
  <2> SUFFICES ASSUME NEW k \in Command \ {c} PROVE Steady(k)
    OBVIOUS
  <2>1. Same(k)
    BY <1>1, <1>2, <1>5 DEF Same
  <2>2. UNCHANGED <<device, ask[k], before[k], sawBreeze[k]>>
    BY <1>1, <1>2, <1>5 DEF StateTypes
  <2> QED BY <1>3, <2>1, <2>2 DEF Steady
<1>8. /\ ask'[c] = a /\ requests'[c] = rs /\ before'[c] = state
      /\ phase'[c] = (IF rs = <<>> THEN "failed" ELSE "running")
  BY <1>1, <1>2, <1>5 DEF StateTypes
<1>9. Asked(c)'
  <2>1. sawBreeze'[c] = (breeze = (state.breeze = 1))
    BY <1>2, <1>5, Zenon DEF StateTypes
  <2> QED BY <1>2, <1>5, <1>8, <2>1 DEF Asked
<1>10. Progress(c)'
  <2>1. Len(rs) \in 0..MaxRequests
    BY <1>5, AskedShort
  <2>2. Ran(state, rs)[0] = state
    BY <2>1, RanUnfolds DEF MaxRequests
  <2>3. at[c] = 0 /\ \A i \in 1..MaxRequests : ran[<<c, i>>] = 0
    BY <1>2, <1>5 DEF Underway, Turn
  <2>4. Reached(c)' = 0
    BY <1>2, <2>3 DEF Reached, MaxRequests
  <2> QED BY <1>2, <1>8, <2>1, <2>2, <2>3, <2>4 DEF Progress, MaxRequests
<1> QED BY <1>6, <1>7, <1>9, <1>10, SteadyKeeps DEF SInv

(* What a command sends and is answered runs nothing. *)
LEMMA Talks ==
  ASSUME CInv, CInv', SInv, NEW c \in Command, phase[c] = "running",
         phase'[c] \in {"running", "done", "failed"}, at'[c] <= Len(requests[c]),
         phase'[c] = "done" =>
           at'[c] = Len(requests[c]) /\ at'[c] > 0 /\ delivered'[<<c, at'[c]>>] = "returned",
         \A k \in Command \ {c} : Same(k),
         UNCHANGED <<device, ask, requests, ran, state, historyVars>>
  PROVE  SInv'
<1>1. Asked(c) /\ Progress(c) /\ StateTypes
  BY DEF SInv
<1>2. StateTypes'
  BY <1>1 DEF StateTypes, Breezy, historyVars
<1>3. Asked(c)'
  BY <1>1 DEF Asked, historyVars
<1>4. Progress(c)'
  BY <1>1 DEF Progress, Reached, historyVars
<1>5. \A k \in Command \ {c} : Steady(k)
  BY DEF Steady, historyVars
<1> QED BY <1>2, <1>3, <1>4, <1>5, SteadyKeeps DEF SInv

LEMMA SSend == ASSUME CInv, CInv', SInv, NEW c \in Command, Send(c) PROVE SInv'
<1>1. /\ phase[c] = "running" /\ at' = [at EXCEPT ![c] = @ + 1]
      /\ delivered' = [delivered EXCEPT ![<<c, at[c] + 1>>] = "open"]
      /\ UNCHANGED <<device, phase, ask, requests, ran, state, historyVars>>
  BY DEF Send, Transport!Ask
<1>2. phase'[c] = "running" /\ at'[c] <= Len(requests[c])
  BY <1>1 DEF CInv, Underway
<1>3. at[c] + 1 \in 1..MaxRequests
  <2>1. at'[c] = at[c] + 1 /\ at'[c] \in 0..MaxRequests /\ at[c] \in 0..MaxRequests
    BY <1>1 DEF CInv, Types
  <2> QED BY <2>1 DEF MaxRequests
<1>4. \A k \in Command \ {c}, j \in 1..MaxRequests : delivered'[<<k, j>>] = delivered[<<k, j>>]
  BY <1>1, <1>3, Delivered DEF Deliveries
<1>5. \A k \in Command \ {c} : Same(k)
  BY <1>1, <1>4 DEF Same, CInv, Types
<1> QED BY <1>1, <1>2, <1>5, Talks

LEMMA SRefuse == ASSUME CInv, CInv', SInv, NEW c \in Command, Refuse(c) PROVE SInv'
<1>1. /\ phase[c] = "running" /\ phase' = [phase EXCEPT ![c] = "failed"]
      /\ UNCHANGED <<device, ask, requests, at, delivered, ran, state, historyVars>>
  BY DEF Refuse
<1>2. phase'[c] = "failed" /\ at'[c] <= Len(requests[c])
  BY <1>1 DEF CInv, Types, SInv, Progress
<1>3. \A k \in Command \ {c} : Same(k)
  BY <1>1 DEF Same, CInv, Types
<1> QED BY <1>1, <1>2, <1>3, Talks

LEMMA SEnds ==
  ASSUME CInv, CInv', SInv, NEW c \in Command, Answer(c) \/ Fail(c) PROVE SInv'
<1>1. phase[c] = "running" /\ UNCHANGED <<device, ask, requests, at, ran, state, historyVars>>
  BY DEF Answer, Fail, Transport!Return, Transport!Raise
<1>2. /\ at[c] \in 1..MaxRequests /\ delivered \in [Request -> Deliveries]
      /\ <<c, at[c]>> \in Request /\ DOMAIN phase = Command /\ at[c] <= Len(requests[c])
  <2>1. at[c] > 0 /\ at[c] \in 0..MaxRequests /\ DOMAIN phase = Command
    BY DEF Answer, Fail, Awaiting, CInv, Types
  <2>2. at[c] \in 1..MaxRequests /\ <<c, at[c]>> \in Request
    BY <2>1 DEF MaxRequests, Request
  <2> QED BY <2>1, <2>2 DEF CInv, SInv, Progress, Types
<1>3. PICK v \in Deliveries : delivered' = [delivered EXCEPT ![<<c, at[c]>>] = v]
  BY DEF Answer, Fail, Transport!Return, Transport!Raise, Deliveries
<1>4. /\ phase'[c] \in {"running", "done", "failed"}
      /\ phase'[c] = "done" =>
           at[c] = Len(requests[c]) /\ delivered'[<<c, at[c]>>] = "returned"
      /\ \A k \in Command \ {c} : phase'[k] = phase[k]
  BY <1>1, <1>2 DEF Answer, Fail, Transport!Return, Transport!Raise
<1>5. \A k \in Command \ {c}, j \in 1..MaxRequests : delivered'[<<k, j>>] = delivered[<<k, j>>]
  BY <1>2, <1>3, Delivered
<1>6. \A k \in Command \ {c} : Same(k)
  BY <1>1, <1>4, <1>5 DEF Same
<1>7. phase'[c] = "done" =>
        at'[c] = Len(requests[c]) /\ at'[c] > 0 /\ delivered'[<<c, at'[c]>>] = "returned"
  BY <1>1, <1>2, <1>4 DEF MaxRequests
<1> QED BY <1>1, <1>2, <1>4, <1>6, <1>7, Talks

(* Whatever the bridge runs, the breeze is on or off. *)
LEMMA EffectBreezy == ASSUME NEW st, Breezy(st), NEW r PROVE Breezy(Effect(st, r))
BY DEF Breezy, Effect, Updated

LEMMA SBridgeRuns ==
  ASSUME CInv, CInv', SInv, NEW c \in Command, BridgeRuns(c) PROVE SInv'
<1>1. PICK i \in 1..at[c] :
        Transport!Run(<<c, i>>) /\ state' = Effect(state, requests[c][i])
  BY DEF BridgeRuns
<1>2. /\ delivered[<<c, i>>] # "new" /\ ran[<<c, i>>] = 0
      /\ ran' = [ran EXCEPT ![<<c, i>>] = @ + 1]
      /\ alone' = Disturb(c)
      /\ UNCHANGED <<device, phase, ask, requests, at, delivered, before, sawBreeze>>
  BY <1>1 DEF Transport!Run, BridgeRuns, commandVars
<1>3. i \in 1..MaxRequests /\ <<c, i>> \in Request /\ at[c] \in 0..MaxRequests
  <2>1. at[c] \in 0..MaxRequests
    BY DEF CInv, Types
  <2> QED BY <2>1 DEF MaxRequests, Request
<1>4. \A k \in Command, j \in 1..MaxRequests :
        ran'[<<k, j>>] = IF k = c /\ j = i THEN 1 ELSE ran[<<k, j>>]
  BY <1>2, <1>3 DEF CInv, Types, Request
<1>5. /\ Turn(c) /\ Asked(c) /\ Progress(c) /\ StateTypes
  BY DEF CInv, SInv
<1>6. alone' \in [Command -> BOOLEAN] /\ \A k \in Command \ {c} : alone'[k] = FALSE
  BY <1>2 DEF Disturb
<1>7. StateTypes'
  <2>1. Breezy(state') /\ \A k \in Command : Breezy(before'[k])
    BY <1>1, <1>2, <1>5, EffectBreezy DEF StateTypes
  <2> QED BY <1>2, <1>5, <1>6, <2>1 DEF StateTypes, Breezy
<1>8. \A k \in Command \ {c} : Steady(k)
  BY <1>2, <1>4, <1>6 DEF Steady, Same
<1>9. Asked(c)'
  BY <1>2, <1>5 DEF Asked
<1>10. Progress(c)'
  <2>1. \A j \in 1..MaxRequests : ran'[<<c, j>>] \in 0..1
    BY <1>4, <1>5 DEF Progress
  <2>2. ASSUME alone'[c]
        PROVE  phase[c] # "idle" /\ state' = Ran(before[c], requests[c])[Reached(c)']
    <3>1. phase[c] # "idle" /\ state = Ran(before[c], requests[c])[Reached(c)]
      BY <1>2, <1>5, <2>2 DEF Progress, Disturb
    <3>2. Reached(c) = i - 1 /\ Reached(c)' = i
      <4>1. i < at[c] => ran[<<c, i>>] > 0
        BY <1>3, <1>5 DEF Turn
      <4>2. i = at[c]
        BY <1>2, <4>1, <1>3 DEF MaxRequests
      <4>3. \A j \in 1..MaxRequests : j < i => ran[<<c, j>>] = 1
        BY <1>5, <4>2 DEF Turn, Progress
      <4>4. \A j \in 1..MaxRequests : j > i => ran[<<c, j>>] = 0
        BY <1>5, <4>2 DEF Turn
      <4> QED BY <1>2, <1>3, <1>4, <4>3, <4>4 DEF Reached, MaxRequests
    <3>3. Len(requests[c]) \in 0..MaxRequests
      <4>1. device \in Devices
        BY DEF CInv, Types
      <4> QED BY <1>5, <3>1, <4>1, AskedShort DEF Asked
    <3>4. i <= Len(requests[c])
      BY <1>3, <1>5, <3>3 DEF Progress, MaxRequests
    <3>5. Ran(before[c], requests[c])[i] = Effect(Ran(before[c], requests[c])[i - 1], requests[c][i])
      BY <1>3, <3>3, <3>4, RanUnfolds DEF MaxRequests
    <3> QED BY <1>1, <3>1, <3>2, <3>5
  <2> QED BY <1>2, <1>5, <2>1, <2>2 DEF Progress
<1> QED BY <1>7, <1>8, <1>9, <1>10, SteadyKeeps DEF SInv

LEMMA SAround ==
  ASSUME CInv, SInv, Shown \/ Remote \/ UNCHANGED vars PROVE SInv'
<1>1. UNCHANGED <<device, phase, ask, requests, at, delivered, ran, before, sawBreeze>>
  BY DEF Shown, Remote, vars, commandVars, historyVars
<1>2. alone' \in [Command -> BOOLEAN] /\ \A k \in Command : alone'[k] => alone[k] /\ state' = state
  BY DEF Shown, Remote, vars, historyVars, SInv, StateTypes
<1>3. Breezy(state')
  <2>1. Breezy(state)
    BY DEF SInv, StateTypes
  <2>2. CASE Remote
    BY <2>1, <2>2, EffectBreezy DEF Remote
  <2>3. CASE Shown \/ UNCHANGED vars
    BY <2>1, <2>3 DEF Shown, vars
  <2> QED BY <2>2, <2>3
<1>4. StateTypes'
  BY <1>1, <1>2, <1>3 DEF SInv, StateTypes, Breezy
<1>5. \A k \in Command : Steady(k)
  BY <1>1, <1>2 DEF Steady, Same
<1> QED BY <1>4, <1>5, SteadyKeeps DEF SInv

LEMMA SNext == ASSUME CInv, CInv', SInv, [Next]_vars PROVE SInv'
<1>1. ASSUME NEW c \in Command,
             Begin(c) \/ Send(c) \/ Refuse(c) \/ Answer(c) \/ Fail(c) \/ BridgeRuns(c)
      PROVE  SInv'
  BY <1>1, SBegin, SSend, SRefuse, SEnds, SBridgeRuns
<1>2. ASSUME Shown \/ Remote \/ UNCHANGED vars PROVE SInv'
  BY <1>2, SAround
<1> QED BY <1>1, <1>2 DEF Next

(* The bridge runs each request once at most, and the device of a command  *)
(* left alone is where the requests run so far bring it from the state the *)
(* command found (light.py:160-180, fan.py:136-149, 176-180).              *)
THEOREM ProgressTheorem == SafeSpec => [](CInv /\ SInv)
<1>1. CInv /\ SInv /\ [Next]_vars => CInv' /\ SInv'
  BY CNext, SNext
<1> QED BY <1>1, CInit, SInit, PTL DEF SafeSpec

LEMMA ReachedSent == ASSUME CInv, SInv, NEW c \in Command PROVE Reached(c) \in 0..at[c]
<1>1. at[c] \in 0..MaxRequests /\ Turn(c) /\ Progress(c)
  BY DEF CInv, SInv, Types
<1>2. \A i \in 1..MaxRequests : ran[<<c, i>>] = 1 => i <= at[c]
  BY <1>1 DEF Turn, MaxRequests
<1>3. ran[<<c, 1>>] \in 0..1 /\ ran[<<c, 2>>] \in 0..1
  BY <1>1 DEF Progress, MaxRequests
<1> QED BY <1>1, <1>2, <1>3 DEF Reached, MaxRequests

(* However a command ends, a device nothing else interfered with is left   *)
(* as some of its first requests would leave it: never with a later one    *)
(* alone, and with none run twice (light.py:160-180, fan.py:136-149).      *)
THEOREM PrefixTheorem == Spec => []PrefixRan
<1>1. CInv /\ SInv => PrefixRan
  <2> SUFFICES ASSUME CInv, SInv, NEW c \in Command, alone[c]
               PROVE  \E n \in 0..at[c] : state = Ran(before[c], requests[c])[n]
    BY DEF PrefixRan
  <2>1. state = Ran(before[c], requests[c])[Reached(c)]
    BY DEF SInv, Progress
  <2> QED BY <2>1, ReachedSent
<1> QED BY <1>1, ProgressTheorem, PTL DEF Spec

(* A command that is done and was left alone has all its requests run. *)
LEMMA AllRan ==
  ASSUME CInv, SInv, NEW c \in Command, alone[c], phase[c] = "done"
  PROVE  /\ device \in Devices /\ ask[c] \in Asks(device)
         /\ \E shown \in BOOLEAN :
              /\ requests[c] = Requests(device, ask[c].entity, ask[c].call, shown)
              /\ sawBreeze[c] = (shown = (before[c].breeze = 1))
              /\ state = Final(before[c], Requests(device, ask[c].entity, ask[c].call, shown))
<1>1. device \in Devices /\ at[c] \in 0..MaxRequests /\ Turn(c) /\ Progress(c) /\ Asked(c)
  BY DEF CInv, SInv, Types
<1>2. PICK shown \in BOOLEAN :
        /\ requests[c] = Requests(device, ask[c].entity, ask[c].call, shown)
        /\ sawBreeze[c] = (shown = (before[c].breeze = 1))
  BY <1>1 DEF Asked
<1>3. at[c] = Len(requests[c]) /\ at[c] \in 1..MaxRequests /\ delivered[<<c, at[c]>>] = "returned"
  BY <1>1 DEF Progress, MaxRequests
<1>4. Reached(c) = at[c]
  <2>1. ran[<<c, at[c]>>] = 1
    BY <1>1, <1>3 DEF Turn, Progress
  <2>2. ran[<<c, 2>>] \in 0..1 /\ (2 > at[c] => ran[<<c, 2>>] = 0)
    BY <1>1 DEF Turn, Progress, MaxRequests
  <2>3. CASE at[c] = 1
    BY <2>1, <2>2, <2>3 DEF Reached
  <2>4. CASE at[c] = 2
    BY <2>1, <2>4 DEF Reached
  <2> QED BY <1>3, <2>3, <2>4 DEF MaxRequests
<1>5. state = Final(before[c], requests[c])
  BY <1>1, <1>3, <1>4 DEF Progress, Final
<1> QED BY <1>1, <1>2, <1>5 DEF Asked

LEMMA LightObeys ==
  ASSUME CInv, SInv, NEW c \in Command, alone[c], phase[c] = "done",
         ask[c].entity.class = "BondLight"
  PROVE  LightWish(ask[c].call)
<1> DEFINE call == ask[c].call
<1>1. PICK shown \in BOOLEAN :
        state = Final(before[c], Requests(device, ask[c].entity, call, shown))
  BY AllRan
<1>2. Callable(device, ask[c].entity, call)
  BY AllRan, AsksAssumption
<1>3. Requests(device, ask[c].entity, call, shown) = LightRequests(device, "BondLight", call)
  BY DEF Requests, Lights
<1>4. CASE call.service = "TURN_ON"
  <2>1. state = Final(before[c], turn_on("BondLight", call))
    BY <1>1, <1>3, <1>4 DEF LightRequests
  <2>2. /\ Given(call, "brightness") => call.brightness \in 1..255
        /\ Given(call, "color_temp") => call.color_temp \in Nat \ {0}
    BY <1>2, <1>4 DEF Callable
  <2> HIDE DEF call
  <2>3. /\ state.light = 1
        /\ Given(call, "brightness") => state.brightness = BondBrightness(call.brightness)
        /\ Given(call, "color_temp") => state.color_temp = RoundKelvin(call.color_temp)
    BY <2>1, <2>2, LightTurnedOn
  <2> QED BY <1>4, <2>3 DEF LightWish, call
<1>5. CASE call.service = "TURN_OFF"
  <2>1. state = Final(before[c], <<Action("TurnLightOff")>>)
    BY <1>1, <1>3, <1>5 DEF LightRequests, turn_off, OffAction
  <2>2. state = Effect(before[c], Action("TurnLightOff"))
    BY <2>1, FinalOne
  <2>3. state.light = 0
    BY <2>2 DEF Effect, Action, Updated
  <2> QED BY <1>5, <2>3 DEF LightWish
<1> QED BY <1>4, <1>5 DEF LightWish

LEMMA FanObeys ==
  ASSUME CInv, SInv, NEW c \in Command, alone[c], phase[c] = "done",
         ask[c].entity.class = "BondFan"
  PROVE  FanWish(ask[c].call)
<1> DEFINE call == ask[c].call
           p == Percentage(call)
<1>1. PICK shown \in BOOLEAN :
        state = Final(before[c], Requests(device, ask[c].entity, call, shown))
  BY AllRan
<1>2. Callable(device, ask[c].entity, call)
  BY AllRan, AsksAssumption
<1>3. /\ Requests(device, ask[c].entity, call, shown) = FanRequests(device, call, shown)
      /\ call.service \in FanFeatures(device) \cup {"speed_belief"}
  BY <1>2 DEF Requests, Lights, Callable, Offered
<1>4. state = Final(before[c], FanRequests(device, call, shown))
  BY <1>1, <1>3
<1> HIDE DEF call
(* A percentage. *)
<1>5. CASE \/ call.service \in {"SET_SPEED", "speed_belief"}
           \/ /\ call.service = "TURN_ON" /\ Given(call, "percentage")
              /\ ~Given(call, "preset_mode")
  <2>1. p \in 0..100
    BY <1>2, <1>5 DEF Percentage, Callable
  <2>2. state \in {Final(before[c], set_percentage(device, p, shown)),
                    Final(before[c], set_speed_belief(device, p))}
    BY <1>4, <1>5 DEF FanRequests, Percentage
  <2>3. RunsAt(device, state, p)
    <3> HIDE DEF p
    <3> QED BY <2>1, <2>2, FanSpeedSet
  <2>4. call.service # "TURN_OFF" /\ call.service # "PRESET_MODE"
        /\ ~(call.service = "TURN_ON" /\ Given(call, "preset_mode"))
    BY <1>5
  <2> HIDE DEF p
  <2>5. FanWish(call)
    BY <2>1, <2>3, <2>4 DEF FanWish, RunsAt, p
  <2> QED BY <2>5 DEF call
(* The breeze. *)
<1>6. CASE \/ call.service = "PRESET_MODE"
           \/ call.service = "TURN_ON" /\ Given(call, "preset_mode")
  <2>1. FanRequests(device, call, shown) = <<Action("BreezeOn")>>
    BY <1>6 DEF FanRequests
  <2>2. state = Effect(before[c], Action("BreezeOn"))
    BY <1>4, <2>1, FinalOne
  <2>3. state.power = 1 /\ state.breeze = 1
    BY <2>2 DEF Effect, Action, Updated
  <2>4. p = Null /\ call.service # "TURN_OFF"
    BY <1>6 DEF Percentage
  <2>5. FanWish(call)
    BY <2>3, <2>4 DEF FanWish, Null
  <2> QED BY <2>5 DEF call
(* On, and off. *)
<1>7. CASE /\ call.service = "TURN_ON" /\ ~Given(call, "percentage")
           /\ ~Given(call, "preset_mode")
  <2>1. FanRequests(device, call, shown) = <<Action("TurnOn")>>
    BY <1>7 DEF FanRequests
  <2>2. state = Effect(before[c], Action("TurnOn"))
    BY <1>4, <2>1, FinalOne
  <2>3. state.power = 1
    BY <2>2 DEF Effect, Action, Updated
  <2>4. p = Null
    BY <1>7 DEF Percentage
  <2>5. FanWish(call)
    BY <1>7, <2>3, <2>4 DEF FanWish, Null
  <2> QED BY <2>5 DEF call
<1>8. CASE call.service = "TURN_OFF"
  <2>1. state = Final(before[c], FanTurnOff(shown))
    BY <1>4, <1>8 DEF FanRequests
  <2>2. state.power = 0
    BY <2>1, FanTurnedOff
  <2>3. p = Null
    BY <1>8 DEF Percentage
  <2>4. FanWish(call)
    BY <1>8, <2>2, <2>3 DEF FanWish, Null
  <2> QED BY <2>4 DEF call
<1>9. CASE call.service = "DIRECTION"
  <2>1. p = Null
    BY <1>9 DEF Percentage
  <2>2. FanWish(call)
    BY <1>9, <2>1 DEF FanWish, Null
  <2> QED BY <2>2 DEF call
<1> QED BY <1>3, <1>5, <1>6, <1>7, <1>8, <1>9 DEF FanFeatures

(* A command that returned, and that nothing interfered with or followed,  *)
(* has been obeyed, whatever was lost on the way back: the light is on at  *)
(* the level and the colour asked for, the fan at the speed                *)
(* (light.py:160-184, fan.py:111-187).                                     *)
THEOREM ObeyedTheorem == Spec => []Obeyed
<1>1. CInv /\ SInv => Obeyed
  BY LightObeys, FanObeys DEF Obeyed, Wish
<1> QED BY <1>1, ProgressTheorem, PTL DEF Spec

(* A fan that showed the breeze as it was is without it once it has been   *)
(* turned off (fan.py:176-180).                                            *)
THEOREM OffTheorem == Spec => []OffEndsBreeze
<1>1. CInv /\ SInv => OffEndsBreeze
  <2> SUFFICES ASSUME CInv, SInv, NEW c \in Command,
                      alone[c], phase[c] = "done", sawBreeze[c],
                      ask[c].entity.class = "BondFan", ask[c].call.service = "TURN_OFF"
               PROVE  state.breeze = 0
    BY DEF OffEndsBreeze
  <2>1. PICK shown \in BOOLEAN :
          /\ sawBreeze[c] = (shown = (before[c].breeze = 1))
          /\ state = Final(before[c], Requests(device, ask[c].entity, ask[c].call, shown))
    BY AllRan
  <2>2. state = Final(before[c], FanTurnOff(shown))
    BY <2>1 DEF Requests, FanRequests, Lights
  <2>3. Breezy(before[c])
    BY DEF SInv, StateTypes
  <2>4. shown \/ before[c].breeze = 0
    BY <2>1, <2>3 DEF Breezy
  <2>5. (shown => state.breeze = 0)
        /\ (~shown /\ "breeze" \in DOMAIN before[c] => state.breeze = before[c].breeze)
    BY <2>2, FanTurnedOff
  <2> QED BY <2>3, <2>4, <2>5 DEF Breezy
<1> QED BY <1>1, ProgressTheorem, PTL DEF Spec
================================================================================
