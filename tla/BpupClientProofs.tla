--------------------------- MODULE BpupClientProofs ---------------------------
(***************************************************************************)
(* What BpupClient guarantees for every set of endpoints and tasks and for *)
(* every choice of its times: one endpoint at a time, no leaked socket, a  *)
(* final stop(), the safety half of PushChannel, and how the timers add    *)
(* up: the keep-alives keep the bridge's session, and the watchdog notices *)
(* an endpoint that went deaf.                                             *)
(***************************************************************************)
EXTENDS BpupClient, TLAPS

(***************************************************************************)
(* Type correctness.                                                       *)
(***************************************************************************)
LEMMA NextDelayType ==
  ASSUME NEW d \in 1..RECONNECT_MAX_DELAY
  PROVE  NextDelay(d) \in 1..RECONNECT_MAX_DELAY
BY TimesAssumption DEF NextDelay, Min

LEMMA JitteredType ==
  ASSUME NEW d \in 1..RECONNECT_MAX_DELAY, NEW w \in Jittered(d)
  PROVE  w \in Remaining(MaxSleep)
BY TimesAssumption, SMTT(30) DEF Jittered, Remaining, MaxSleep

(* A step of the backoff keeps the coroutines' state well typed. *)
LEMMA ScheduleReconnectType ==
  ASSUME TypeOK, NEW d \in 1..RECONNECT_MAX_DELAY,
         NEW rest \in [Coroutine -> PC], ScheduleReconnect(d, rest)
  PROVE  /\ pc' \in [Coroutine -> PC]
         /\ wake' \in [Coroutine -> Remaining(MaxSleep)]
         /\ reconnectTask' \in Task \cup {None}
         /\ delay' \in 1..RECONNECT_MAX_DELAY
<1>1. CASE stopped \/ Busy
  BY <1>1 DEF ScheduleReconnect, TypeOK
<1>2. CASE ~stopped /\ ~Busy
  BY <1>2, NextDelayType, JitteredType DEF ScheduleReconnect, TypeOK, Coroutine, PC
<1> QED BY <1>1, <1>2

LEMMA SendToType ==
  ASSUME TypeOK, NEW e \in Endpoint, SendTo(e)
  PROVE  /\ faults' \in 0..MaxFaults
         /\ mail' \subseteq Endpoint
         /\ session' \in [Endpoint -> 0..Lapsed]
         /\ missed' \in [Endpoint -> 0..2]
<1> USE TimesAssumption, EnvironmentAssumption
<1>1. 0 \in 0..Lapsed BY DEF Lapsed, SessionTimeout
<1>2. CASE Acknowledged(e) BY <1>1, <1>2 DEF Acknowledged, TypeOK
<1>3. CASE AckLost(e) BY <1>1, <1>3 DEF AckLost, TypeOK
<1>4. CASE KeepAliveLost(e)
  <2>1. Min(missed[e] + 1, 2) \in 0..2 BY DEF TypeOK, Min
  <2> QED BY <1>4, <2>1 DEF KeepAliveLost, TypeOK
<1> QED BY <1>2, <1>3, <1>4 DEF SendTo

LEMMA SendKeepAliveType ==
  ASSUME TypeOK, NEW e \in Endpoint, SendKeepAlive(e)
  PROVE  /\ keepAlive' \in [Endpoint -> Remaining(BPUP_KEEP_ALIVE_INTERVAL)]
         /\ faults' \in 0..MaxFaults
         /\ mail' \subseteq Endpoint
         /\ session' \in [Endpoint -> 0..Lapsed]
         /\ missed' \in [Endpoint -> 0..2]
<1>1. BPUP_KEEP_ALIVE_INTERVAL \in Remaining(BPUP_KEEP_ALIVE_INTERVAL)
  BY TimesAssumption DEF Remaining
<1> QED BY <1>1, SendToType DEF SendKeepAlive, TypeOK

LEMMA StopProtocolType ==
  ASSUME TypeOK, NEW e \in Endpoint, StopProtocol(e)
  PROVE  /\ linked' \in [Endpoint -> BOOLEAN]
         /\ age' \in 0..BPUP_ALIVE_TIMEOUT
         /\ keepAlive' \in [Endpoint -> Remaining(BPUP_KEEP_ALIVE_INTERVAL)]
         /\ sock' \in [Endpoint -> {"closed", "open", "closing"}]
BY TimesAssumption DEF StopProtocol, TypeOK, Forgotten, Remaining

LEMMA LessType ==
  ASSUME NEW n \in Nat, NEW r \in Remaining(n), r # 0
  PROVE  Less(r) \in Remaining(n)
BY DEF Less, Remaining, Off

LEMMA TypeInit == Init => TypeOK
<1> SUFFICES ASSUME Init PROVE TypeOK
  OBVIOUS
<1>1. pc \in [Coroutine -> PC]
  BY DEF Init, PC
<1>2. /\ wake \in [Coroutine -> Remaining(MaxSleep)]
      /\ keepAlive \in [Endpoint -> Remaining(BPUP_KEEP_ALIVE_INTERVAL)]
      /\ watchdog \in Remaining(BPUP_ALIVE_TIMEOUT)
  BY DEF Init, Remaining
<1>3. /\ delay \in 1..RECONNECT_MAX_DELAY
      /\ age \in 0..BPUP_ALIVE_TIMEOUT
      /\ faults \in 0..MaxFaults
  BY TimesAssumption, EnvironmentAssumption DEF Init
<1>4. /\ session \in [Endpoint -> 0..Lapsed]
      /\ missed \in [Endpoint -> 0..2]
      /\ silent \in [Endpoint -> 0..Deaf]
  BY TimesAssumption DEF Init, Lapsed, SessionTimeout, Deaf
<1> QED BY <1>1, <1>2, <1>3, <1>4 DEF Init, TypeOK

LEMMA TypeNext == TypeOK /\ [Next]_vars => TypeOK'
<1> SUFFICES ASSUME TypeOK, [Next]_vars PROVE TypeOK'
  OBVIOUS
<1> USE TimesAssumption, EnvironmentAssumption
<1>1. ASSUME NEW c \in Coroutine, ConnectOk(c) PROVE TypeOK'
  <2>1. PICK e \in Endpoint : 
          /\ sock' = [sock EXCEPT ![e] = "open"]
          /\ linked' = [linked EXCEPT ![e] = TRUE]
          /\ got' = [got EXCEPT ![c] = e]
          /\ SendKeepAlive(e)
    BY <1>1 DEF ConnectOk
  <2>2. pc' \in [Coroutine -> PC] BY <1>1 DEF ConnectOk, TypeOK, PC
  <2> QED BY <1>1, <2>1, <2>2, SendKeepAliveType DEF ConnectOk, TypeOK, clientVars
<1>2. ASSUME NEW c \in Coroutine, Handover(c) PROVE TypeOK'
  BY <1>2 DEF Handover, TypeOK, ScheduleWatchdog, Remaining, PC, protoVars, envVars
<1>3. ASSUME NEW c \in Coroutine, ConnectRaises(c) PROVE TypeOK'
  <2>1. [pc EXCEPT ![c] = "idle"] \in [Coroutine -> PC]
        /\ [pc EXCEPT ![c] = "raised"] \in [Coroutine -> PC]
    BY DEF TypeOK, PC
  <2>2. delay \in 1..RECONNECT_MAX_DELAY BY DEF TypeOK
  <2>3. CASE c = Start
    BY <1>3, <2>1, <2>3 DEF ConnectRaises, TypeOK, protoVars, envVars
  <2>4. CASE c # Start
    BY <1>3, <2>1, <2>2, <2>4, ScheduleReconnectType
    DEF ConnectRaises, TypeOK, protoVars, envVars
  <2> QED BY <2>3, <2>4
<1>4. ASSUME NEW t \in Task, CancelledResumes(t) PROVE TypeOK'
  BY <1>4 DEF CancelledResumes, TypeOK, Coroutine, PC, clientVars, envVars
<1>5. ASSUME NEW t \in Task, WakeUp(t) PROVE TypeOK'
  BY <1>5 DEF WakeUp, TypeOK, Coroutine, PC, Remaining, clientVars, protoVars, envVars
<1>6. ASSUME NEW e \in Endpoint, KeepAliveFires(e) PROVE TypeOK'
  <2>1. CASE sock[e] = "open" /\ SendKeepAlive(e)
    BY <1>6, <2>1, SendKeepAliveType DEF KeepAliveFires, TypeOK, clientVars, coVars
  <2>2. CASE keepAlive' = [keepAlive EXCEPT ![e] = Off]
             /\ UNCHANGED <<faults, mail, session, missed>>
    BY <1>6, <2>2 DEF KeepAliveFires, TypeOK, Remaining, clientVars, coVars
  <2> QED BY <1>6, <2>1, <2>2 DEF KeepAliveFires
<1>7. ASSUME NEW e \in Endpoint, DatagramReceived(e) PROVE TypeOK'
  BY <1>7 DEF DatagramReceived, TypeOK, Deaf, clientVars, coVars
<1>8. ASSUME NEW e \in Endpoint, ConnectionLost(e) PROVE TypeOK'
  <2>1. /\ pc' \in [Coroutine -> PC]
        /\ wake' \in [Coroutine -> Remaining(MaxSleep)]
        /\ reconnectTask' \in Task \cup {None}
        /\ delay' \in 1..RECONNECT_MAX_DELAY
    <3>1. pc \in [Coroutine -> PC] /\ delay \in 1..RECONNECT_MAX_DELAY
      BY DEF TypeOK
    <3>2. CASE linked[e] /\ ScheduleReconnect(delay, pc)
      BY <3>1, <3>2, ScheduleReconnectType
    <3>3. CASE UNCHANGED <<pc, wake, delay, reconnectTask>>
      BY <3>3 DEF TypeOK
    <3> QED BY <1>8, <3>2, <3>3 DEF ConnectionLost
  <2> QED BY <1>8, <2>1
      DEF ConnectionLost, TypeOK, Forgotten, Lapsed, SessionTimeout, Deaf, Remaining
<1>9. ASSUME NEW e \in Endpoint, AddressGone(e) PROVE TypeOK'
  BY <1>9 DEF AddressGone, TypeOK, clientVars, coVars, protoVars
<1>10. ASSUME NEW e \in Endpoint, TransportFails(e) PROVE TypeOK'
  BY <1>10 DEF TransportFails, TypeOK, clientVars, coVars
<1>11. ASSUME NEW e \in Endpoint, BridgePush(e) PROVE TypeOK'
  BY <1>11 DEF BridgePush, TypeOK, clientVars, coVars, protoVars
<1>12. ASSUME CheckAlive PROVE TypeOK'
  <2>1. watchdog' \in Remaining(BPUP_ALIVE_TIMEOUT)
    BY <1>12 DEF CheckAlive, ScheduleWatchdog, Remaining
  <2>2. CASE Alive /\ UNCHANGED <<protocol, delay, pc, wake, reconnectTask, protoVars>>
    BY <1>12, <2>1, <2>2 DEF CheckAlive, TypeOK, protoVars, envVars
  <2>3. CASE delay' = RECONNECT_MIN_DELAY
             /\ UNCHANGED <<protocol, pc, wake, reconnectTask, protoVars>>
    BY <1>12, <2>1, <2>3 DEF CheckAlive, TypeOK, protoVars, envVars
  <2>4. CASE /\ protocol # None /\ protocol' = None
             /\ StopProtocol(protocol)
             /\ ScheduleReconnect(RECONNECT_MIN_DELAY, pc)
    <3>1. protocol \in Endpoint /\ pc \in [Coroutine -> PC] BY <2>4 DEF TypeOK
    <3>2. RECONNECT_MIN_DELAY \in 1..RECONNECT_MAX_DELAY OBVIOUS
    <3> QED BY <1>12, <2>1, <2>4, <3>1, <3>2, StopProtocolType, ScheduleReconnectType
        DEF CheckAlive, TypeOK, envVars
  <2> QED BY <1>12, <2>2, <2>3, <2>4 DEF CheckAlive
<1>13. ASSUME Stop PROVE TypeOK'
  <2>1. /\ pc' \in [Coroutine -> PC]
        /\ wake' \in [Coroutine -> Remaining(MaxSleep)]
    BY <1>13 DEF Stop, TypeOK, Cancelled, PC, Coroutine, Remaining
  <2>2. /\ linked' \in [Endpoint -> BOOLEAN]
        /\ age' \in 0..BPUP_ALIVE_TIMEOUT
        /\ keepAlive' \in [Endpoint -> Remaining(BPUP_KEEP_ALIVE_INTERVAL)]
        /\ sock' \in [Endpoint -> {"closed", "open", "closing"}]
    <3>1. CASE protocol = None
      BY <1>13, <3>1 DEF Stop, TypeOK, protoVars
    <3>2. CASE protocol # None
      <4>1. protocol \in Endpoint BY <3>2 DEF TypeOK
      <4> QED BY <1>13, <3>2, <4>1, StopProtocolType DEF Stop
    <3> QED BY <3>1, <3>2
  <2> QED BY <1>13, <2>1, <2>2 DEF Stop, TypeOK, Remaining, envVars
<1>14. ASSUME Tick PROVE TypeOK'
  <2>1. wake' \in [Coroutine -> Remaining(MaxSleep)]
    <3>1. MaxSleep \in Nat BY DEF MaxSleep
    <3> QED BY <1>14, <3>1, LessType DEF Tick, NothingDue, TypeOK
  <2>2. keepAlive' \in [Endpoint -> Remaining(BPUP_KEEP_ALIVE_INTERVAL)]
    BY <1>14, LessType DEF Tick, NothingDue, TypeOK
  <2>3. watchdog' \in Remaining(BPUP_ALIVE_TIMEOUT)
    BY <1>14, LessType DEF Tick, NothingDue, TypeOK
  <2>4. age' \in 0..BPUP_ALIVE_TIMEOUT
    BY <1>14 DEF Tick, TypeOK, Min
  <2>5. session' \in [Endpoint -> 0..Lapsed]
    BY <1>14 DEF Tick, TypeOK, Min, Lapsed, SessionTimeout
  <2>6. silent' \in [Endpoint -> 0..Deaf]
    BY <1>14 DEF Tick, TypeOK, Min, Deaf
  <2> QED BY <1>14, <2>1, <2>2, <2>3, <2>4, <2>5, <2>6 DEF Tick, TypeOK
<1>15. ASSUME NetDown PROVE TypeOK'
  BY <1>15 DEF NetDown, TypeOK, clientVars, coVars, protoVars
<1>16. ASSUME NetUp PROVE TypeOK'
  BY <1>16 DEF NetUp, TypeOK, clientVars, coVars, protoVars
<1>17. CASE UNCHANGED vars
  BY <1>17 DEF vars, TypeOK, clientVars, coVars, protoVars, envVars
<1> QED BY <1>1, <1>2, <1>3, <1>4, <1>5, <1>6, <1>7, <1>8, <1>9, <1>10, <1>11,
           <1>12, <1>13, <1>14, <1>15, <1>16, <1>17 DEF Next

(* Every variable keeps its type: the backoff stays between its bounds, a  *)
(* sleep never exceeds the jittered ceiling, no timer is overdue.          *)
THEOREM TypeCorrect == SafeSpec => []TypeOK
BY TypeInit, TypeNext, PTL DEF SafeSpec

(***************************************************************************)
(* One endpoint at a time.  AtMostOneEndpoint is not inductive: that the   *)
(* watchdog may start a reconnect only when nothing else holds an endpoint *)
(* needs to know who may hold one, and which task the client remembers.    *)
(***************************************************************************)
Working(c) == pc[c] \in {"sleeping", "connecting", "handover"}

(* One coroutine at most is on its way to an endpoint. *)
OneWorking == \A c, d \in Coroutine : Working(c) /\ Working(d) => c = d

(* An endpoint that reports to the client is its protocol or is held. *)
ConnectedIsOwned ==
  \A e \in Connected : e = protocol \/ Held(e) \/ stopped

(* What a coroutine holds is open and linked, and not yet the protocol. *)
HandoverIsOpen ==
  \A c \in Coroutine : pc[c] = "handover" =>
    got[c] \in Endpoint /\ sock[got[c]] = "open" /\ linked[got[c]] /\ got[c] # protocol

(* The client remembers every task that is not done, and cancels it last. *)
TaskIsKnown ==
  \A t \in Task : /\ pc[t] # "idle" => reconnectTask = t \/ stopped
                  /\ pc[t] # "raised"

CancelledIsStopped == \A c \in Coroutine : pc[c] = "cancelled" => stopped

(* Nothing but start() runs before start() is over. *)
StartIsFirst == /\ watchdog # Off => pc[Start] = "idle"
                /\ pc[Start] # "sleeping"

IInv ==
  /\ AtMostOneEndpoint /\ OpenIsOwned /\ StopIsFinal /\ AliveHasEndpoint
  /\ OneWorking /\ ConnectedIsOwned /\ HandoverIsOpen /\ TaskIsKnown
  /\ CancelledIsStopped /\ StartIsFirst

LEMMA IInvInit == Init => IInv
<1> SUFFICES ASSUME Init PROVE IInv
  OBVIOUS
<1>1. Connected = {} /\ ~Alive
  BY TimesAssumption DEF Init, Connected, Alive
<1>2. \A c \in Coroutine : pc[c] # "idle" => c = Start /\ pc[c] = "connecting"
  BY DEF Init
<1>3. \A t \in Task : t \in Coroutine /\ t # Start
  BY NamesAssumption DEF Coroutine
<1>4. pc[Start] = "connecting" BY DEF Init, Coroutine
<1>5. AtMostOneEndpoint /\ AliveHasEndpoint /\ ConnectedIsOwned
  BY <1>1 DEF AtMostOneEndpoint, AliveHasEndpoint, ConnectedIsOwned
<1>6. OpenIsOwned /\ StopIsFinal
  <2>1. \A e \in Endpoint : sock[e] # "open" BY DEF Init
  <2>2. ~stopped BY DEF Init
  <2> QED BY <2>1, <2>2 DEF OpenIsOwned, StopIsFinal
<1>7. OneWorking /\ HandoverIsOpen /\ CancelledIsStopped
  BY <1>2 DEF OneWorking, HandoverIsOpen, CancelledIsStopped, Working
<1>8. TaskIsKnown
  BY <1>2, <1>3 DEF TaskIsKnown
<1>9. StartIsFirst
  BY <1>4 DEF StartIsFirst, Init
<1> QED BY <1>5, <1>6, <1>7, <1>8, <1>9 DEF IInv

(* Steps that touch neither a coroutine nor a transport, and do not raise  *)
(* the flag: keep-alives, the clock, the network, a contented watchdog.    *)
LEMMA QuietStep ==
  ASSUME IInv,
         UNCHANGED <<pc, got, reconnectTask, protocol, stopped, sock, linked>>,
         Alive' => Alive,
         watchdog' # Off => watchdog # Off
  PROVE  IInv'
<1>1. Connected' = Connected /\ \A e \in Endpoint : Held(e)' = Held(e)
  BY DEF Connected, Held
<1>2. (AtMostOneEndpoint /\ OpenIsOwned /\ AliveHasEndpoint)'
  BY <1>1 DEF IInv, AtMostOneEndpoint, OpenIsOwned, AliveHasEndpoint, Active
<1>3. StopIsFinal' BY DEF IInv, StopIsFinal, Active
<1>4. (OneWorking /\ HandoverIsOpen /\ TaskIsKnown /\ CancelledIsStopped /\ StartIsFirst)'
  BY DEF IInv, OneWorking, HandoverIsOpen, TaskIsKnown, CancelledIsStopped, StartIsFirst, Working
<1>5. ConnectedIsOwned'
  BY <1>1 DEF IInv, ConnectedIsOwned, Connected
<1> QED BY <1>2, <1>3, <1>4, <1>5 DEF IInv

(* A reconnect that really starts does so when no coroutine is working and *)
(* the only linked endpoint, if any, is the one being given up.            *)
LEMMA NobodyElse ==
  ASSUME TypeOK, IInv, ~stopped, ~Busy, NEW e \in Endpoint,
         \/ pc[Start] = "idle" /\ e = protocol
         \/ e \in Connected /\ sock[e] = "closing"
  PROVE  /\ \A c \in Coroutine : ~Working(c)
         /\ Connected \subseteq {e}
<1>1. \A t \in Task : pc[t] = "idle"
  BY NamesAssumption DEF IInv, TaskIsKnown, Busy
<1>2. pc[Start] \notin {"connecting", "handover"}
  <2>1. CASE pc[Start] = "idle" BY <2>1
  <2>2. CASE e \in Connected /\ sock[e] = "closing"
    <3>1. Start \in Coroutine BY DEF Coroutine
    <3>2. pc[Start] # "connecting"
      BY <2>2, <3>1 DEF IInv, AtMostOneEndpoint, Active
    <3>3. pc[Start] # "handover"
      BY <2>2, <3>1 DEF IInv, AtMostOneEndpoint, HandoverIsOpen, Connected
    <3> QED BY <3>2, <3>3
  <2> QED BY <2>1, <2>2
<1>3. \A c \in Coroutine : ~Working(c)
  BY <1>1, <1>2 DEF Working, Coroutine, IInv, StartIsFirst
<1>4. Connected \subseteq {e}
  <2>1. CASE e = protocol
    <3>1. \A f \in Endpoint : ~Held(f)
      BY <1>3 DEF Held, Working, IInv, CancelledIsStopped
    <3> QED BY <2>1, <3>1 DEF IInv, ConnectedIsOwned, Connected
  <2>2. CASE e \in Connected
    BY <2>2 DEF IInv, AtMostOneEndpoint
  <2> QED BY <2>1, <2>2
<1> QED BY <1>3, <1>4

LEMMA ConnectKeeps ==
  ASSUME TypeOK, IInv, NEW c \in Coroutine, ConnectOk(c)
  PROVE  IInv'
<1>1. PICK e \in Endpoint :
        /\ Free(e)
        /\ sock' = [sock EXCEPT ![e] = "open"]
        /\ linked' = [linked EXCEPT ![e] = TRUE]
        /\ got' = [got EXCEPT ![c] = e]
  BY DEF ConnectOk
<1>2. /\ pc[c] = "connecting" /\ pc' = [pc EXCEPT ![c] = "handover"]
      /\ UNCHANGED <<reconnectTask, protocol, watchdog, stopped, age>>
  BY DEF ConnectOk, clientVars
<1>3. Connected = {} /\ Active(c)
  BY <1>2 DEF IInv, AtMostOneEndpoint, Active
<1>4. ~stopped /\ ~Alive
  BY <1>3 DEF IInv, StopIsFinal, AliveHasEndpoint
<1>5. \A d \in Coroutine : d # c => ~Working(d)
  BY <1>3 DEF IInv, OneWorking, Working, Active
<1>6. Connected' = {e}
  BY <1>1, <1>3 DEF Connected, TypeOK
<1>7. got'[c] = e /\ pc'[c] = "handover" /\ Held(e)'
  BY <1>1, <1>2 DEF TypeOK, Held
<1>8. \A d \in Coroutine : d # c => pc'[d] = pc[d] /\ got'[d] = got[d]
  BY <1>1, <1>2 DEF TypeOK
<1>9. AtMostOneEndpoint'
  BY <1>5, <1>6, <1>7, <1>8 DEF AtMostOneEndpoint, Active, Working
<1>10. OpenIsOwned'
  <2> SUFFICES ASSUME NEW f \in Endpoint, sock'[f] = "open"
               PROVE  linked'[f] /\ (f = protocol' \/ Held(f)')
    BY DEF OpenIsOwned
  <2>1. CASE f = e BY <1>1, <1>7, <2>1 DEF TypeOK
  <2>2. CASE f # e
    BY <1>1, <1>3, <2>2 DEF TypeOK, IInv, OpenIsOwned, Connected
  <2> QED BY <2>1, <2>2
<1>11. StopIsFinal' /\ CancelledIsStopped'
  BY <1>2, <1>4, <1>7, <1>8 DEF IInv, StopIsFinal, CancelledIsStopped
<1>12. AliveHasEndpoint'
  BY <1>2, <1>4 DEF AliveHasEndpoint, Alive
<1>13. OneWorking'
  BY <1>5, <1>8 DEF OneWorking, Working
<1>14. ConnectedIsOwned'
  BY <1>6, <1>7 DEF ConnectedIsOwned
<1>15. HandoverIsOpen'
  BY <1>1, <1>2, <1>5, <1>7, <1>8 DEF HandoverIsOpen, Working, Free, TypeOK
<1>16. TaskIsKnown'
  BY <1>2, <1>7, <1>8 DEF IInv, TaskIsKnown, Coroutine
<1>17. StartIsFirst'
  BY <1>2, <1>7, <1>8 DEF IInv, StartIsFirst, Coroutine
<1> QED BY <1>9, <1>10, <1>11, <1>12, <1>13, <1>14, <1>15, <1>16, <1>17 DEF IInv

LEMMA HandoverKeeps ==
  ASSUME TypeOK, IInv, NEW c \in Coroutine, Handover(c)
  PROVE  IInv'
<1> DEFINE e == got[c]
<1>1. /\ pc[c] = "handover" /\ pc' = [pc EXCEPT ![c] = "idle"]
      /\ protocol' = e /\ got' = [got EXCEPT ![c] = None]
      /\ UNCHANGED <<reconnectTask, stopped, age, sock, linked>>
  BY DEF Handover, protoVars
<1>2. e \in Connected /\ sock[e] = "open" /\ linked[e] /\ e # protocol
  BY <1>1 DEF IInv, HandoverIsOpen, Connected
<1>3. Connected = {e} /\ Connected' = {e}
  BY <1>1, <1>2 DEF IInv, AtMostOneEndpoint, Connected
<1>4. ~stopped
  BY <1>1 DEF IInv, StopIsFinal
<1>5. ~Alive
  BY <1>2, <1>3 DEF IInv, AliveHasEndpoint
<1>6. pc'[c] = "idle" /\ \A d \in Coroutine : d # c => pc'[d] = pc[d] /\ got'[d] = got[d]
  BY <1>1 DEF TypeOK
<1>7. \A d \in Coroutine : d # c => ~Working(d)
  BY <1>1 DEF IInv, OneWorking, Working
<1>8. AtMostOneEndpoint' /\ OneWorking' /\ HandoverIsOpen'
  BY <1>3, <1>6, <1>7 DEF AtMostOneEndpoint, Active, Working, OneWorking, HandoverIsOpen
<1>9. OpenIsOwned' /\ ConnectedIsOwned'
  BY <1>1, <1>2, <1>3 DEF IInv, OpenIsOwned, ConnectedIsOwned, Connected
<1>10. StopIsFinal' /\ CancelledIsStopped' /\ AliveHasEndpoint'
  BY <1>1, <1>4, <1>5, <1>6
  DEF IInv, StopIsFinal, CancelledIsStopped, AliveHasEndpoint, Alive
<1>11. TaskIsKnown'
  BY <1>1, <1>6 DEF IInv, TaskIsKnown, Coroutine
<1>12. StartIsFirst'
  <2>1. CASE c = Start BY <1>6, <2>1 DEF StartIsFirst
  <2>2. CASE c # Start
    BY <1>6, <2>2 DEF IInv, StartIsFirst, Handover, Coroutine
  <2> QED BY <2>1, <2>2
<1> QED BY <1>8, <1>9, <1>10, <1>11, <1>12 DEF IInv

(* A raised connect never starts another reconnect: the task that asks is  *)
(* the one the client remembers.                                           *)
LEMMA ConnectRaisesKeeps ==
  ASSUME TypeOK, IInv, NEW c \in Coroutine, ConnectRaises(c)
  PROVE  IInv'
<1>1. /\ pc[c] = "connecting"
      /\ UNCHANGED <<got, protocol, watchdog, stopped, age, sock, linked>>
  BY DEF ConnectRaises, protoVars
<1>2. /\ pc' = [pc EXCEPT ![c] = IF c = Start THEN "raised" ELSE "idle"]
      /\ UNCHANGED reconnectTask
  <2>1. CASE c = Start BY <2>1 DEF ConnectRaises
  <2>2. CASE c # Start
    <3>1. stopped \/ Busy
      <4>1. c \in Task BY <2>2 DEF Coroutine
      <4>2. c # None BY <4>1, NamesAssumption
      <4> QED BY <1>1, <4>1, <4>2 DEF IInv, TaskIsKnown, Busy
    <3> QED BY <2>2, <3>1 DEF ConnectRaises, ScheduleReconnect
  <2> QED BY <2>1, <2>2
<1>3. \A d \in Coroutine : d # c => pc'[d] = pc[d]
  BY <1>2 DEF TypeOK
<1>4. pc'[c] = IF c = Start THEN "raised" ELSE "idle"
  BY <1>2 DEF TypeOK
<1>5. Connected' = Connected /\ Connected = {}
  BY <1>1 DEF IInv, Connected, AtMostOneEndpoint, Active
<1>6. AtMostOneEndpoint' /\ ConnectedIsOwned' /\ AliveHasEndpoint' 
  BY <1>1, <1>5 DEF IInv, AtMostOneEndpoint, ConnectedIsOwned, AliveHasEndpoint, Alive
<1>7. OpenIsOwned'
  BY <1>1, <1>5 DEF IInv, OpenIsOwned, Connected
<1>8. StopIsFinal' /\ OneWorking' /\ HandoverIsOpen' /\ CancelledIsStopped'
  BY <1>1, <1>2, <1>3, <1>4
  DEF IInv, StopIsFinal, Active, OneWorking, Working, HandoverIsOpen, CancelledIsStopped
<1>9. TaskIsKnown'
  BY <1>1, <1>2, <1>3, <1>4, NamesAssumption DEF IInv, TaskIsKnown, Coroutine
<1>10. StartIsFirst'
  BY <1>1, <1>3, <1>4 DEF IInv, StartIsFirst, Coroutine
<1> QED BY <1>6, <1>7, <1>8, <1>9, <1>10 DEF IInv

LEMMA CancelledResumesKeeps ==
  ASSUME TypeOK, IInv, NEW t \in Task, CancelledResumes(t)
  PROVE  IInv'
<1>1. /\ pc[t] = "cancelled" /\ pc' = [pc EXCEPT ![t] = "idle"]
      /\ got' = [got EXCEPT ![t] = None]
      /\ sock' = [sock EXCEPT ![got[t]] = IF @ = "open" THEN "closing" ELSE @]
      /\ UNCHANGED <<reconnectTask, protocol, watchdog, stopped, linked, age>>
  BY DEF CancelledResumes, clientVars
<1>2. t \in Coroutine BY DEF Coroutine
<1>3. /\ pc'[t] = "idle"
      /\ \A d \in Coroutine : d # t => pc'[d] = pc[d] /\ got'[d] = got[d]
  BY <1>1, <1>2 DEF TypeOK
<1>4. stopped BY <1>1, <1>2 DEF IInv, CancelledIsStopped
<1>5. \A c \in Coroutine : ~Working(c)
  BY <1>4 DEF IInv, StopIsFinal, Active, Working
<1>6. Connected' = Connected
  BY <1>1 DEF Connected, TypeOK
<1>7. AtMostOneEndpoint' /\ OneWorking' /\ HandoverIsOpen' /\ StopIsFinal'
  BY <1>1, <1>3, <1>5, <1>6
  DEF IInv, AtMostOneEndpoint, Active, Working, OneWorking, HandoverIsOpen, StopIsFinal
<1>8. ConnectedIsOwned' /\ AliveHasEndpoint' /\ CancelledIsStopped'
  BY <1>1, <1>4, <1>6
  DEF IInv, ConnectedIsOwned, AliveHasEndpoint, Alive, CancelledIsStopped
<1>9. OpenIsOwned'
  <2> SUFFICES ASSUME NEW e \in Endpoint, sock'[e] = "open"
               PROVE  linked'[e] /\ (e = protocol' \/ Held(e)')
    BY DEF OpenIsOwned
  <2>1. sock[e] = "open" /\ e # got[t] BY <1>1 DEF TypeOK
  <2>2. linked[e] /\ (e = protocol \/ Held(e)) BY <2>1 DEF IInv, OpenIsOwned
  <2>3. Held(e) => Held(e)' BY <1>3, <2>1 DEF Held
  <2> QED BY <1>1, <2>2, <2>3
<1>10. TaskIsKnown' /\ StartIsFirst'
  BY <1>1, <1>2, <1>3, <1>4, NamesAssumption
  DEF IInv, TaskIsKnown, StartIsFirst, Coroutine
<1> QED BY <1>7, <1>8, <1>9, <1>10 DEF IInv

LEMMA WakeUpKeeps ==
  ASSUME TypeOK, IInv, NEW t \in Task, WakeUp(t)
  PROVE  IInv'
<1>1. t \in Coroutine BY DEF Coroutine
<1>2. /\ pc[t] = "sleeping"
      /\ UNCHANGED <<got, reconnectTask, protocol, watchdog, stopped, sock, linked, age>>
  BY DEF WakeUp, clientVars, protoVars
<1>3. ~stopped BY <1>1, <1>2 DEF IInv, StopIsFinal, Active
<1>4. /\ pc'[t] = "connecting"
      /\ \A d \in Coroutine : d # t => pc'[d] = pc[d]
  BY <1>1, <1>3 DEF WakeUp, TypeOK
<1>5. \A c \in Coroutine : Active(c)' = Active(c) /\ Working(c)' = Working(c)
  BY <1>2, <1>4 DEF Active, Working
<1>6. Connected' = Connected /\ \A e \in Endpoint : Held(e)' = Held(e)
  BY <1>2, <1>4 DEF Connected, Held
<1>7. AtMostOneEndpoint' /\ OneWorking'
  BY <1>5, <1>6 DEF IInv, AtMostOneEndpoint, OneWorking
<1>8. OpenIsOwned' /\ ConnectedIsOwned'
  BY <1>2, <1>6 DEF IInv, OpenIsOwned, ConnectedIsOwned, Connected
<1>9. StopIsFinal' /\ AliveHasEndpoint' /\ CancelledIsStopped'
  BY <1>2, <1>3, <1>4, <1>6
  DEF IInv, StopIsFinal, AliveHasEndpoint, Alive, CancelledIsStopped
<1>10. HandoverIsOpen' /\ TaskIsKnown' /\ StartIsFirst'
  BY <1>2, <1>4, NamesAssumption
  DEF IInv, HandoverIsOpen, TaskIsKnown, StartIsFirst, Coroutine
<1> QED BY <1>7, <1>8, <1>9, <1>10 DEF IInv

LEMMA DatagramReceivedKeeps ==
  ASSUME TypeOK, IInv, NEW e \in Endpoint, DatagramReceived(e)
  PROVE  IInv'
<1>1. /\ UNCHANGED <<pc, got, reconnectTask, protocol, watchdog, stopped, sock, linked>>
      /\ sock[e] = "open" /\ ~Held(e)
  BY DEF DatagramReceived, clientVars, coVars
<1>2. e = protocol /\ e \in Connected
  BY <1>1 DEF IInv, OpenIsOwned, Connected
<1>3. Connected' = Connected /\ \A f \in Endpoint : Held(f)' = Held(f)
  BY <1>1 DEF Connected, Held
<1>4. AliveHasEndpoint' BY <1>1, <1>2, <1>3 DEF AliveHasEndpoint
<1>5. AtMostOneEndpoint' /\ OpenIsOwned' /\ ConnectedIsOwned'
  BY <1>1, <1>3 DEF IInv, AtMostOneEndpoint, Active, OpenIsOwned, ConnectedIsOwned, Connected
<1>6. StopIsFinal' /\ OneWorking' /\ CancelledIsStopped'
  BY <1>1 DEF IInv, StopIsFinal, Active, OneWorking, Working, CancelledIsStopped
<1>7. HandoverIsOpen' /\ TaskIsKnown' /\ StartIsFirst'
  BY <1>1 DEF IInv, HandoverIsOpen, TaskIsKnown, StartIsFirst
<1> QED BY <1>4, <1>5, <1>6, <1>7 DEF IInv

LEMMA TransportFailsKeeps ==
  ASSUME TypeOK, IInv, NEW e \in Endpoint, TransportFails(e)
  PROVE  IInv'
<1>1. /\ sock[e] = "open" /\ ~Held(e)
      /\ sock' = [sock EXCEPT ![e] = "closing"]
      /\ UNCHANGED <<pc, got, reconnectTask, protocol, watchdog, stopped, linked, age>>
  BY DEF TransportFails, clientVars, coVars
<1>2. Connected' = Connected /\ \A f \in Endpoint : Held(f)' = Held(f)
  BY <1>1 DEF Connected, Held, TypeOK
<1>3. \A f \in Endpoint : sock'[f] = "open" => sock[f] = "open"
  BY <1>1 DEF TypeOK
<1>4. AtMostOneEndpoint' /\ ConnectedIsOwned' /\ AliveHasEndpoint'
  BY <1>1, <1>2
  DEF IInv, AtMostOneEndpoint, Active, ConnectedIsOwned, Connected, AliveHasEndpoint, Alive
<1>5. OpenIsOwned' BY <1>1, <1>2, <1>3 DEF IInv, OpenIsOwned
<1>6. HandoverIsOpen'
  BY <1>1 DEF IInv, HandoverIsOpen, Held, TypeOK
<1>7. StopIsFinal' /\ OneWorking' /\ CancelledIsStopped' /\ TaskIsKnown' /\ StartIsFirst'
  BY <1>1 DEF IInv, StopIsFinal, Active, OneWorking, Working, CancelledIsStopped,
              TaskIsKnown, StartIsFirst
<1> QED BY <1>4, <1>5, <1>6, <1>7 DEF IInv

(* A reconnect that starts while an endpoint e is given up: the task is    *)
(* the only one at work, and no endpoint is linked any more.               *)
LEMMA ScheduleKeeps ==
  ASSUME TypeOK, IInv, NEW e \in Endpoint, NEW d,
         ~stopped, ~Busy,
         ScheduleReconnect(d, pc),
         Connected' \subseteq Connected \ {e},
         Connected \subseteq {e}, \A c \in Coroutine : ~Working(c),
         UNCHANGED got
  PROVE  /\ AtMostOneEndpoint' /\ OneWorking' /\ ConnectedIsOwned'
         /\ HandoverIsOpen' /\ TaskIsKnown' /\ CancelledIsStopped'
         /\ pc'[Start] = pc[Start]
<1>1. PICK t \in Task : /\ pc' = [pc EXCEPT ![t] = "sleeping"]
                       /\ reconnectTask' = t
  BY DEF ScheduleReconnect
<1>2. t \in Coroutine /\ t # Start BY NamesAssumption DEF Coroutine
<1>3. /\ pc'[t] = "sleeping"
      /\ \A c \in Coroutine : c # t => pc'[c] = pc[c]
  BY <1>1, <1>2 DEF TypeOK
<1>4. Connected' = {} OBVIOUS
<1>5. \A c \in Coroutine : c # t => ~Working(c)'
  BY <1>3 DEF Working
<1>6. AtMostOneEndpoint' /\ OneWorking' /\ ConnectedIsOwned'
  BY <1>4, <1>5 DEF AtMostOneEndpoint, OneWorking, ConnectedIsOwned
<1>7. HandoverIsOpen'
  BY <1>3, <1>5 DEF HandoverIsOpen, Working
<1>8. TaskIsKnown'
  BY <1>1, <1>3, NamesAssumption DEF IInv, TaskIsKnown, Busy, Coroutine
<1>9. CancelledIsStopped'
  BY <1>3 DEF IInv, CancelledIsStopped
<1>10. pc'[Start] = pc[Start]
  BY <1>2, <1>3 DEF Coroutine
<1> QED BY <1>6, <1>7, <1>8, <1>9, <1>10

LEMMA ConnectionLostKeeps ==
  ASSUME TypeOK, IInv, NEW e \in Endpoint, ConnectionLost(e)
  PROVE  IInv'
<1>1. /\ sock[e] = "closing" /\ sock' = [sock EXCEPT ![e] = "closed"]
      /\ linked' = [linked EXCEPT ![e] = FALSE]
      /\ age' = BPUP_ALIVE_TIMEOUT
      /\ UNCHANGED <<got, protocol, watchdog, stopped>>
  BY DEF ConnectionLost, Forgotten
<1>2. Connected' = Connected \ {e}
  BY <1>1 DEF Connected, TypeOK
<1>3. AliveHasEndpoint'
  BY <1>1, TimesAssumption DEF AliveHasEndpoint, Alive
<1>4. \A f \in Endpoint : sock'[f] = "open" => sock[f] = "open" /\ linked'[f] = linked[f]
  BY <1>1 DEF TypeOK
<1>5. CASE UNCHANGED <<pc, reconnectTask>>
  <2>1. \A f \in Endpoint : Held(f)' = Held(f) BY <1>1, <1>5 DEF Held
  <2>2. AtMostOneEndpoint' /\ OneWorking'
    BY <1>2, <1>5 DEF IInv, AtMostOneEndpoint, Active, OneWorking, Working
  <2>3. OpenIsOwned' BY <1>1, <1>4, <2>1 DEF IInv, OpenIsOwned
  <2>4. ConnectedIsOwned' BY <1>1, <1>2, <2>1 DEF IInv, ConnectedIsOwned, Connected
  <2>5. HandoverIsOpen'
    BY <1>1, <1>5 DEF IInv, HandoverIsOpen, TypeOK
  <2>6. StopIsFinal' /\ TaskIsKnown' /\ CancelledIsStopped' /\ StartIsFirst'
    BY <1>1, <1>5
    DEF IInv, StopIsFinal, Active, TaskIsKnown, CancelledIsStopped, StartIsFirst
  <2> QED BY <1>3, <2>2, <2>3, <2>4, <2>5, <2>6 DEF IInv
<1>6. CASE linked[e] /\ ~stopped /\ ~Busy /\ ScheduleReconnect(delay, pc)
  <2>1. e \in Connected BY <1>1, <1>6 DEF Connected
  <2>2. Connected \subseteq {e} /\ \A c \in Coroutine : ~Working(c)
    BY <1>1, <1>6, <2>1, NobodyElse
  <2>3. /\ AtMostOneEndpoint' /\ OneWorking' /\ ConnectedIsOwned'
        /\ HandoverIsOpen' /\ TaskIsKnown' /\ CancelledIsStopped'
        /\ pc'[Start] = pc[Start]
    BY <1>1, <1>2, <1>6, <2>2, ScheduleKeeps
  <2>4. OpenIsOwned'
    BY <1>1, <1>4, <2>2 DEF IInv, OpenIsOwned, Connected
  <2>5. StopIsFinal' BY <1>1, <1>6 DEF StopIsFinal
  <2>6. StartIsFirst' BY <1>1, <2>3 DEF IInv, StartIsFirst
  <2> QED BY <1>3, <2>3, <2>4, <2>5, <2>6 DEF IInv
<1> QED BY <1>5, <1>6 DEF ConnectionLost, ScheduleReconnect

LEMMA CheckAliveKeeps ==
  ASSUME TypeOK, IInv, CheckAlive
  PROVE  IInv'
<1>1. /\ watchdog = 0 /\ ~stopped /\ pc[Start] = "idle"
      /\ UNCHANGED <<got, stopped>>
  BY DEF CheckAlive, IInv, StartIsFirst, Off
<1>2. CASE UNCHANGED <<protocol, pc, reconnectTask, protoVars>>
  BY <1>1, <1>2, QuietStep DEF protoVars, Alive, Off
<1>3. CASE /\ protocol # None /\ protocol' = None
           /\ StopProtocol(protocol)
           /\ ScheduleReconnect(RECONNECT_MIN_DELAY, pc)
  <2>1. protocol \in Endpoint BY <1>3 DEF TypeOK
  <2>2. PICK e \in Endpoint : e = protocol BY <2>1
  <2>3. /\ linked' = [linked EXCEPT ![e] = FALSE]
        /\ age' = BPUP_ALIVE_TIMEOUT
        /\ sock' = [sock EXCEPT ![e] = IF @ = "open" THEN "closing" ELSE @]
    BY <1>3, <2>2 DEF StopProtocol, Forgotten
  <2>4. Connected' = Connected \ {e}
    BY <2>3 DEF Connected, TypeOK
  <2>5. AliveHasEndpoint'
    BY <2>3, TimesAssumption DEF AliveHasEndpoint, Alive
  <2>6. \A f \in Endpoint : f # e => sock'[f] = sock[f] /\ linked'[f] = linked[f]
    BY <2>3 DEF TypeOK
  <2>7. sock'[e] # "open" BY <2>3 DEF TypeOK
  <2>8. CASE UNCHANGED <<pc, reconnectTask>>
    <3>1. \A f \in Endpoint : Held(f)' = Held(f) BY <1>1, <2>8 DEF Held
    <3>2. AtMostOneEndpoint' /\ OneWorking'
      BY <2>4, <2>8 DEF IInv, AtMostOneEndpoint, Active, OneWorking, Working
    <3>3. OpenIsOwned' BY <2>2, <2>6, <2>7, <3>1 DEF IInv, OpenIsOwned
    <3>4. ConnectedIsOwned'
      BY <2>2, <2>4, <3>1, <1>1 DEF IInv, ConnectedIsOwned, Connected
    <3>5. HandoverIsOpen'
      BY <1>1, <1>3, <2>2, <2>6, <2>8, NamesAssumption DEF IInv, HandoverIsOpen
    <3>6. StopIsFinal' /\ TaskIsKnown' /\ CancelledIsStopped' /\ StartIsFirst'
      BY <1>1, <2>8 DEF IInv, StopIsFinal, TaskIsKnown, CancelledIsStopped, StartIsFirst
    <3> QED BY <2>5, <3>2, <3>3, <3>4, <3>5, <3>6 DEF IInv
  <2>9. CASE ~Busy
    <3>1. Connected \subseteq {e} /\ \A c \in Coroutine : ~Working(c)
      BY <1>1, <2>2, <2>9, NobodyElse
    <3>2. /\ AtMostOneEndpoint' /\ OneWorking' /\ ConnectedIsOwned'
          /\ HandoverIsOpen' /\ TaskIsKnown' /\ CancelledIsStopped'
          /\ pc'[Start] = pc[Start]
      BY <1>1, <1>3, <2>4, <2>9, <3>1, ScheduleKeeps
    <3>3. OpenIsOwned'
      BY <2>6, <2>7, <3>1 DEF IInv, OpenIsOwned, Connected
    <3>4. StopIsFinal' BY <1>1 DEF StopIsFinal
    <3>5. StartIsFirst' BY <1>1, <3>2 DEF IInv, StartIsFirst
    <3> QED BY <2>5, <3>2, <3>3, <3>4, <3>5 DEF IInv
  <2> QED BY <1>1, <1>3, <2>8, <2>9 DEF ScheduleReconnect
<1> QED BY <1>2, <1>3 DEF CheckAlive

LEMMA StopKeeps ==
  ASSUME TypeOK, IInv, Stop
  PROVE  IInv'
<1>1. /\ pc[Start] = "idle" /\ ~stopped /\ stopped'
      /\ watchdog' = Off /\ reconnectTask' = None /\ protocol' = None
      /\ UNCHANGED got
  BY DEF Stop, TypeOK
<1>2. \A t \in Task : pc[t] # "idle" => reconnectTask = t
  BY <1>1 DEF IInv, TaskIsKnown
<1>3. \A c \in Coroutine :
        pc'[c] = IF pc[c] = "handover" THEN "cancelled"
                 ELSE IF c = reconnectTask THEN "idle" ELSE pc[c]
  <2>1. CASE reconnectTask = None
    BY <1>1, <1>2, <2>1, NamesAssumption DEF Stop, Coroutine
  <2>2. CASE reconnectTask # None
    <3>1. reconnectTask \in Coroutine BY <2>2 DEF TypeOK, Coroutine
    <3>2. pc' = Cancelled(reconnectTask) BY <2>2 DEF Stop
    <3> QED BY <1>1, <1>2, <3>1, <3>2 DEF Cancelled, TypeOK, Coroutine
  <2> QED BY <2>1, <2>2
<1>4. \A c \in Coroutine : pc'[c] \in {"idle", "cancelled"}
  BY <1>1, <1>2, <1>3, NamesAssumption DEF Coroutine, TypeOK, PC
<1>5. \A e \in Endpoint : Held(e) => Held(e)'
  BY <1>1, <1>3, <1>4 DEF Held, IInv, CancelledIsStopped
<1>6. /\ Connected' \subseteq Connected
      /\ \A e \in Endpoint : sock'[e] = "open" =>
           sock[e] = "open" /\ e # protocol /\ linked'[e] = linked[e]
      /\ protocol # None => age' = BPUP_ALIVE_TIMEOUT
      /\ protocol = None => age' = age
  <2>1. CASE protocol = None
    BY <2>1, NamesAssumption DEF Stop, protoVars, Connected
  <2>2. CASE protocol # None
    <3>1. protocol \in Endpoint /\ StopProtocol(protocol)
      BY <2>2 DEF Stop, TypeOK
    <3> QED BY <2>2, <3>1 DEF StopProtocol, Connected, TypeOK, Forgotten
  <2> QED BY <2>1, <2>2
<1>7. ~Alive'
  <2>1. CASE protocol = None
    <3>1. ~Alive BY <2>1, NamesAssumption DEF IInv, AliveHasEndpoint, Connected
    <3> QED BY <1>6, <2>1, <3>1 DEF Alive
  <2>2. CASE protocol # None
    BY <1>6, <2>2, TimesAssumption DEF Alive
  <2> QED BY <2>1, <2>2
<1>8. AtMostOneEndpoint' /\ OneWorking' /\ HandoverIsOpen' /\ StopIsFinal'
  BY <1>1, <1>4, <1>6
  DEF IInv, AtMostOneEndpoint, Active, OneWorking, Working, HandoverIsOpen, StopIsFinal
<1>9. AliveHasEndpoint' /\ ConnectedIsOwned' /\ CancelledIsStopped'
  BY <1>1, <1>7 DEF AliveHasEndpoint, ConnectedIsOwned, CancelledIsStopped
<1>10. OpenIsOwned'
  BY <1>1, <1>5, <1>6 DEF IInv, OpenIsOwned
<1>11. TaskIsKnown' /\ StartIsFirst'
  BY <1>1, <1>4 DEF TaskIsKnown, StartIsFirst, Coroutine
<1> QED BY <1>8, <1>9, <1>10, <1>11 DEF IInv

LEMMA IInvNext == TypeOK /\ IInv /\ [Next]_vars => IInv'
<1> SUFFICES ASSUME TypeOK, IInv, [Next]_vars PROVE IInv'
  OBVIOUS
<1>1. ASSUME NEW e \in Endpoint,
             KeepAliveFires(e) \/ AddressGone(e) \/ BridgePush(e)
      PROVE  IInv'
  <2>1. UNCHANGED <<pc, got, reconnectTask, protocol, stopped, sock, linked, age, watchdog>>
    BY <1>1 DEF KeepAliveFires, AddressGone, BridgePush, clientVars, coVars, protoVars
  <2> QED BY <2>1, QuietStep DEF Alive
<1>2. CASE NetDown \/ NetUp \/ UNCHANGED vars
  <2>1. UNCHANGED <<pc, got, reconnectTask, protocol, stopped, sock, linked, age, watchdog>>
    BY <1>2 DEF NetDown, NetUp, vars, clientVars, coVars, protoVars
  <2> QED BY <2>1, QuietStep DEF Alive
<1>3. CASE Tick
  <2>1. UNCHANGED <<pc, got, reconnectTask, protocol, stopped, sock, linked>>
    BY <1>3 DEF Tick
  <2>2. Alive' => Alive
    BY <1>3, TimesAssumption DEF Tick, Alive, Min, TypeOK
  <2>3. watchdog' # Off => watchdog # Off
    BY <1>3 DEF Tick, Less
  <2> QED BY <2>1, <2>2, <2>3, QuietStep
<1>4. ASSUME NEW c \in Coroutine, ConnectOk(c) \/ Handover(c) \/ ConnectRaises(c)
      PROVE  IInv'
  BY <1>4, ConnectKeeps, HandoverKeeps, ConnectRaisesKeeps
<1>5. ASSUME NEW t \in Task, CancelledResumes(t) \/ WakeUp(t)
      PROVE  IInv'
  BY <1>5, CancelledResumesKeeps, WakeUpKeeps
<1>6. ASSUME NEW e \in Endpoint,
             DatagramReceived(e) \/ ConnectionLost(e) \/ TransportFails(e)
      PROVE  IInv'
  BY <1>6, DatagramReceivedKeeps, ConnectionLostKeeps, TransportFailsKeeps
<1>7. CASE CheckAlive \/ Stop
  BY <1>7, CheckAliveKeeps, StopKeeps
<1> QED BY <1>1, <1>2, <1>3, <1>4, <1>5, <1>6, <1>7 DEF Next

(* The inductive invariant of one endpoint at a time and a final stop()    *)
(* holds in every reachable state (bpup.py:142-227).                       *)
THEOREM IInvHolds == SafeSpec => [](TypeOK /\ IInv)
<1>1. Init => TypeOK /\ IInv BY TypeInit, IInvInit
<1>2. TypeOK /\ IInv /\ [Next]_vars => (TypeOK /\ IInv)' BY TypeNext, IInvNext
<1> QED BY <1>1, <1>2, PTL DEF SafeSpec

(* However connection loss, watchdog, reconnect and stop() interleave, the *)
(* client has one reporting endpoint at most, and none while it is making  *)
(* another (bpup.py:180-213).                                              *)
THEOREM OneEndpoint == SafeSpec => []AtMostOneEndpoint
<1>1. TypeOK /\ IInv => AtMostOneEndpoint BY DEF IInv
<1> QED BY <1>1, IInvHolds, PTL

(* No socket leaks: what is open is the client's or is being made by one   *)
(* of its coroutines (bpup.py:168-173, 211-227).                           *)
THEOREM NoLeak == SafeSpec => []OpenIsOwned
<1>1. TypeOK /\ IInv => OpenIsOwned BY DEF IInv
<1> QED BY <1>1, IInvHolds, PTL

(* stop() is final (bpup.py:216-227). *)
THEOREM FinalStop == SafeSpec => []StopIsFinal
<1>1. TypeOK /\ IInv => StopIsFinal BY DEF IInv
<1> QED BY <1>1, IInvHolds, PTL

(* The flag coordinator.py reads is up only while the client has a         *)
(* transport (bpup.py:33-40).                                              *)
THEOREM AliveImpliesEndpoint == SafeSpec => []AliveHasEndpoint
<1>1. TypeOK /\ IInv => AliveHasEndpoint BY DEF IInv
<1> QED BY <1>1, IInvHolds, PTL

(***************************************************************************)
(* The client implements the safety half of PushChannel.                   *)
(***************************************************************************)
LEMMA ChannelInit == Init => Channel!Init
BY TimesAssumption DEF Init, Channel!Init, Alive

LEMMA ChannelStep ==
  TypeOK /\ IInv /\ IInv' /\ [Next]_vars => [Channel!Next]_(Channel!vars)
<1> SUFFICES ASSUME TypeOK, IInv, IInv', [Next]_vars
             PROVE  [Channel!Next]_(Channel!vars)
  OBVIOUS
<1> USE DEF Channel!Next, Channel!vars, Channel!Hear, Channel!Fall, Channel!End
<1>1. ASSUME UNCHANGED stopped, Alive' => Alive PROVE [Channel!Next]_(Channel!vars)
  <2>1. Alive \in BOOLEAN /\ Alive' \in BOOLEAN BY DEF Alive
  <2> QED BY <1>1, <2>1
<1>2. ASSUME NEW e \in Endpoint, DatagramReceived(e) PROVE [Channel!Next]_(Channel!vars)
  <2>1. sock[e] = "open" /\ ~Held(e) /\ UNCHANGED stopped /\ age' = 0
    BY <1>2 DEF DatagramReceived, clientVars
  <2>2. ~stopped
    BY <2>1, NamesAssumption DEF IInv, OpenIsOwned, StopIsFinal
  <2>3. Alive' = TRUE BY <2>1, TimesAssumption DEF Alive
  <2> QED BY <2>1, <2>2, <2>3
<1>3. CASE Stop
  <2>1. ~stopped /\ stopped' = TRUE BY <1>3 DEF Stop
  <2>2. ~Alive'
    BY <2>1, NamesAssumption DEF IInv, StopIsFinal, AliveHasEndpoint, Connected
  <2>3. Alive' = FALSE BY <2>2 DEF Alive
  <2> QED BY <2>1, <2>3
<1>4. ASSUME NEW c \in Coroutine, ConnectOk(c) \/ Handover(c) \/ ConnectRaises(c)
      PROVE  [Channel!Next]_(Channel!vars)
  BY <1>4, <1>1 DEF ConnectOk, Handover, ConnectRaises, Alive, clientVars, protoVars
<1>5. ASSUME NEW t \in Task, CancelledResumes(t) \/ WakeUp(t)
      PROVE  [Channel!Next]_(Channel!vars)
  BY <1>5, <1>1 DEF CancelledResumes, WakeUp, Alive, clientVars, protoVars
<1>6. ASSUME NEW e \in Endpoint,
             \/ KeepAliveFires(e) \/ AddressGone(e) \/ BridgePush(e)
             \/ TransportFails(e)
      PROVE  [Channel!Next]_(Channel!vars)
  BY <1>6, <1>1
  DEF KeepAliveFires, AddressGone, BridgePush, TransportFails, Alive, clientVars, protoVars
<1>7. ASSUME NEW e \in Endpoint, ConnectionLost(e) PROVE [Channel!Next]_(Channel!vars)
  BY <1>7, <1>1, TimesAssumption DEF ConnectionLost, Forgotten, Alive
<1>8. CASE CheckAlive
  <2>1. UNCHANGED stopped BY <1>8 DEF CheckAlive
  <2>2. Alive' => Alive
    BY <1>8, TimesAssumption DEF CheckAlive, StopProtocol, Forgotten, Alive, protoVars
  <2> QED BY <2>1, <2>2, <1>1
<1>9. CASE Tick
  BY <1>9, <1>1, TimesAssumption DEF Tick, Alive, Min, TypeOK
<1>10. CASE NetDown \/ NetUp \/ UNCHANGED vars
  BY <1>10, <1>1 DEF NetDown, NetUp, vars, Alive, clientVars, protoVars
<1> QED BY <1>2, <1>3, <1>4, <1>5, <1>6, <1>7, <1>8, <1>9, <1>10 DEF Next

(* Every step of the client is a step of the channel or a stutter: the     *)
(* flag rises only by a frame heard before stop(), and stop() takes it     *)
(* down for good (bpup.py:33-40, 105-113, 216-227).                        *)
THEOREM ImplementsChannel == SafeSpec => ChannelSafe
<1>1. Init => Channel!Init BY ChannelInit
<1>2. SafeSpec => [](TypeOK /\ IInv) BY IInvHolds
<1>3. (TypeOK /\ IInv) /\ (TypeOK /\ IInv)' /\ [Next]_vars => [Channel!Next]_(Channel!vars)
  BY ChannelStep
<1> QED BY <1>1, <1>2, <1>3, PTL DEF SafeSpec, ChannelSafe, Channel!SafeSpec

(***************************************************************************)
(* The session.  While it lasts, its age and what is left to the next      *)
(* keep-alive stay within one interval for each keep-alive sent since.     *)
(***************************************************************************)
Fits(e, n) == session[e] + keepAlive[e] <= n * BPUP_KEEP_ALIVE_INTERVAL

SessionInTime ==
  \A e \in Endpoint :
    /\ sock[e] = "closed" => session[e] = Lapsed
    /\ sock[e] = "open" => keepAlive[e] # Off
    /\ sock[e] = "open" /\ session[e] < Lapsed =>
         (missed[e] = 0 => Fits(e, 1)) /\ (missed[e] = 1 => Fits(e, 2))

(* A keep-alive that is due, or the first one of an endpoint. *)
LEMMA SendKeepsTime ==
  ASSUME TypeOK, SessionInTime, NEW e \in Endpoint, SendKeepAlive(e),
         sock[e] = "closed" \/ (sock[e] = "open" /\ keepAlive[e] = 0)
  PROVE  /\ keepAlive'[e] # Off
         /\ session'[e] < Lapsed =>
              (missed'[e] = 0 => Fits(e, 1)') /\ (missed'[e] = 1 => Fits(e, 2)')
         /\ \A f \in Endpoint \ {e} :
              UNCHANGED <<session[f], missed[f], keepAlive[f]>>
<1> USE TimesAssumption
<1>1. keepAlive' = [keepAlive EXCEPT ![e] = BPUP_KEEP_ALIVE_INTERVAL] /\ SendTo(e)
  BY DEF SendKeepAlive
<1>2. keepAlive'[e] = BPUP_KEEP_ALIVE_INTERVAL
  BY <1>1 DEF TypeOK
<1>3. CASE Acknowledged(e) \/ AckLost(e)
  <2>1. session' = [session EXCEPT ![e] = 0] /\ missed' = [missed EXCEPT ![e] = 0]
    BY <1>3 DEF Acknowledged, AckLost
  <2>2. session'[e] = 0 /\ missed'[e] = 0
    BY <2>1 DEF TypeOK
  <2> QED BY <1>1, <1>2, <2>1, <2>2 DEF TypeOK, Fits, Off
<1>4. CASE KeepAliveLost(e)
  <2>1. session' = session /\ missed' = [missed EXCEPT ![e] = Min(@ + 1, 2)]
    BY <1>4 DEF KeepAliveLost
  <2>2. missed'[e] = IF missed[e] = 0 THEN 1 ELSE 2
    BY <2>1 DEF TypeOK, Min
  <2>3. session[e] < Lapsed /\ missed[e] = 0 => session[e] <= BPUP_KEEP_ALIVE_INTERVAL
    BY DEF SessionInTime, Fits, Lapsed, SessionTimeout, TypeOK
  <2> QED BY <1>1, <1>2, <2>1, <2>2, <2>3 DEF TypeOK, Fits, Off
<1> QED BY <1>1, <1>3, <1>4 DEF SendTo
LEMMA SessionInit == Init => SessionInTime
  BY DEF Init, SessionInTime

LEMMA SessionNext == ASSUME TypeOK, SessionInTime, [Next]_vars PROVE SessionInTime'
<1> USE TimesAssumption
<1>1. ASSUME NEW c \in Coroutine, ConnectOk(c) PROVE SessionInTime'
  <2>1. PICK e \in Endpoint : /\ sock[e] = "closed" /\ SendKeepAlive(e)
                              /\ sock' = [sock EXCEPT ![e] = "open"]
    BY <1>1 DEF ConnectOk, Free
  <2>2. \A f \in Endpoint \ {e} : UNCHANGED <<sock[f], session[f], missed[f], keepAlive[f]>>
    BY <2>1, SendKeepsTime DEF TypeOK
  <2>3. sock'[e] = "open"
    BY <2>1 DEF TypeOK
  <2> QED BY <2>1, <2>2, <2>3, SendKeepsTime DEF SessionInTime, Fits
<1>2. ASSUME NEW e \in Endpoint, KeepAliveFires(e) PROVE SessionInTime'
  <2>1. sock' = sock
    BY <1>2 DEF KeepAliveFires
  <2>2. CASE sock[e] = "open" /\ SendKeepAlive(e)
    BY <1>2, <2>1, <2>2, SendKeepsTime DEF KeepAliveFires, SessionInTime, Fits
  <2>3. CASE /\ sock[e] # "open" /\ keepAlive' = [keepAlive EXCEPT ![e] = Off]
             /\ UNCHANGED <<session, missed>>
    BY <2>1, <2>3 DEF SessionInTime, Fits, TypeOK
  <2> QED BY <1>2, <2>2, <2>3 DEF KeepAliveFires
<1>3. ASSUME NEW e \in Endpoint, StopProtocol(e), UNCHANGED <<session, missed>>
      PROVE  SessionInTime'
  BY <1>3 DEF StopProtocol, SessionInTime, Fits, TypeOK
<1>4. CASE CheckAlive \/ Stop
  <2>1. UNCHANGED <<session, missed>>
    BY <1>4 DEF CheckAlive, Stop, envVars
  <2>2. CASE protocol \in Endpoint /\ StopProtocol(protocol)
    BY <1>3, <2>1, <2>2
  <2>3. CASE UNCHANGED <<sock, keepAlive>>
    BY <2>1, <2>3 DEF SessionInTime, Fits
  <2> QED BY <1>4, <2>2, <2>3 DEF CheckAlive, Stop, protoVars, TypeOK
<1>5. ASSUME NEW e \in Endpoint, ConnectionLost(e) PROVE SessionInTime'
  BY <1>5 DEF ConnectionLost, SessionInTime, Fits, TypeOK
<1>6. ASSUME NEW e, sock' = [sock EXCEPT ![e] = IF @ = "open" THEN "closing" ELSE @],
             UNCHANGED <<keepAlive, session, missed>>
      PROVE  SessionInTime'
  BY <1>6 DEF SessionInTime, Fits, TypeOK
<1>7. ASSUME NEW t \in Task, CancelledResumes(t) PROVE SessionInTime'
  BY <1>6, <1>7 DEF CancelledResumes, envVars
<1>8. ASSUME NEW e \in Endpoint, TransportFails(e) PROVE SessionInTime'
  <2>1. sock' = [sock EXCEPT ![e] = IF @ = "open" THEN "closing" ELSE @]
    BY <1>8 DEF TransportFails, TypeOK
  <2> QED BY <1>6, <1>8, <2>1 DEF TransportFails
<1>9. CASE Tick
  <2> SUFFICES ASSUME NEW e \in Endpoint
      PROVE  /\ sock'[e] = "closed" => session'[e] = Lapsed
             /\ sock'[e] = "open" => keepAlive'[e] # Off
             /\ sock'[e] = "open" /\ session'[e] < Lapsed =>
                  (missed'[e] = 0 => Fits(e, 1)') /\ (missed'[e] = 1 => Fits(e, 2)')
    BY DEF SessionInTime
  <2>1. /\ keepAlive'[e] = Less(keepAlive[e]) /\ keepAlive[e] # 0
        /\ session'[e] = Min(session[e] + 1, Lapsed)
        /\ UNCHANGED <<sock, missed>>
    BY <1>9 DEF Tick, NothingDue
  <2>2. session[e] \in 0..Lapsed /\ keepAlive[e] \in Remaining(BPUP_KEEP_ALIVE_INTERVAL)
    BY DEF TypeOK
  <2> QED BY <2>1, <2>2
          DEF SessionInTime, Fits, Min, Less, Off, Remaining, Lapsed, SessionTimeout
<1>10. CASE UNCHANGED <<sock, keepAlive, session, missed>>
  BY <1>10 DEF SessionInTime, Fits
<1>11. ASSUME NEW c \in Coroutine, Handover(c) \/ ConnectRaises(c) PROVE SessionInTime'
  BY <1>10, <1>11 DEF Handover, ConnectRaises, protoVars, envVars
<1>12. ASSUME NEW t \in Task, WakeUp(t) PROVE SessionInTime'
  BY <1>10, <1>12 DEF WakeUp, protoVars, envVars
<1>13. ASSUME NEW e \in Endpoint, DatagramReceived(e) \/ AddressGone(e) \/ BridgePush(e)
       PROVE  SessionInTime'
  BY <1>10, <1>13 DEF DatagramReceived, AddressGone, BridgePush, protoVars
<1>14. CASE NetDown \/ NetUp \/ UNCHANGED vars
  BY <1>10, <1>14 DEF NetDown, NetUp, vars, protoVars, envVars
<1> QED BY <1>1, <1>2, <1>4, <1>5, <1>7, <1>8, <1>9, <1>11, <1>12, <1>13, <1>14 DEF Next

(* Only the clock makes a session older, and by one tick.                  *)
LEMMA LapseStep ==
  ASSUME TypeOK, SessionInTime, [Next]_vars, NEW e \in Endpoint,
         sock[e] = "open", session[e] < Lapsed, session'[e] = Lapsed, sock'[e] = "open"
  PROVE  missed'[e] = 2
<1> USE TimesAssumption
<1>1. CASE Tick
  <2>1. /\ keepAlive[e] # 0 /\ session'[e] = Min(session[e] + 1, Lapsed) /\ missed' = missed
    BY <1>1 DEF Tick, NothingDue
  <2>2. /\ session[e] \in 0..Lapsed /\ missed[e] \in 0..2
        /\ keepAlive[e] \in Remaining(BPUP_KEEP_ALIVE_INTERVAL)
    BY DEF TypeOK
  <2> QED BY <2>1, <2>2 DEF SessionInTime, Fits, Min, Off, Remaining, Lapsed, SessionTimeout
<1>2. session'[e] \in {0, session[e]} \/ Tick \/ (sock'[e] = "closed")
  <2>1. ASSUME NEW f \in Endpoint, SendTo(f) PROVE session'[e] \in {0, session[e]}
    BY <2>1 DEF SendTo, Acknowledged, AckLost, KeepAliveLost, TypeOK
  <2>2. ASSUME NEW c \in Coroutine, ConnectOk(c) PROVE session'[e] \in {0, session[e]}
    BY <2>1, <2>2 DEF ConnectOk, SendKeepAlive
  <2>3. ASSUME NEW f \in Endpoint, KeepAliveFires(f) PROVE session'[e] \in {0, session[e]}
    BY <2>1, <2>3 DEF KeepAliveFires, SendKeepAlive
  <2>4. ASSUME NEW f \in Endpoint, ConnectionLost(f)
        PROVE  session'[e] = session[e] \/ sock'[e] = "closed"
    BY <2>4 DEF ConnectionLost, TypeOK
  <2>5. ASSUME NEW c \in Coroutine, Handover(c) \/ ConnectRaises(c) PROVE session' = session
    BY <2>5 DEF Handover, ConnectRaises, envVars
  <2>6. ASSUME NEW t \in Task, CancelledResumes(t) \/ WakeUp(t) PROVE session' = session
    BY <2>6 DEF CancelledResumes, WakeUp, envVars
  <2>7. ASSUME NEW f \in Endpoint,
               \/ DatagramReceived(f) \/ AddressGone(f)
               \/ TransportFails(f) \/ BridgePush(f)
        PROVE  session' = session
    BY <2>7 DEF DatagramReceived, AddressGone, TransportFails, BridgePush
  <2>8. CASE CheckAlive \/ Stop \/ NetDown \/ NetUp \/ UNCHANGED vars
    BY <2>8 DEF CheckAlive, Stop, NetDown, NetUp, vars, envVars
  <2> QED BY <2>2, <2>3, <2>4, <2>5, <2>6, <2>7, <2>8 DEF Next
<1> QED BY <1>1, <1>2 DEF Lapsed, SessionTimeout

(* A session lapses only after two keep-alives lost in a row, for every    *)
(* keep-alive interval: the bridge's timeout is exactly twice as long      *)
(* (bpup.py:17-18, 96-103).                                                *)
THEOREM SessionTheorem == SafeSpec => SessionKept
<1>1. Init => SessionInTime
  BY SessionInit
<1>2. TypeOK /\ SessionInTime /\ [Next]_vars => SessionInTime'
  BY SessionNext
<1>3. TypeOK /\ SessionInTime /\ [Next]_vars =>
        [\A e \in Endpoint :
           sock[e] = "open" /\ session[e] < Lapsed /\ session'[e] = Lapsed
             => sock'[e] # "open" \/ missed'[e] = 2]_vars
  BY LapseStep
<1> QED BY <1>1, <1>2, <1>3, TypeCorrect, PTL DEF SafeSpec, SessionKept

(***************************************************************************)
(* Detection.  The time an endpoint has been silent and what is left to    *)
(* the watchdog's next check stay within two alive timeouts; that a check  *)
(* which finds push alive may rearm needs that the stamp is no fresher     *)
(* than the client's endpoint.                                             *)
(***************************************************************************)

(* An endpoint nobody has been given yet has not been listened to.         *)
SilentFromNew == \A e \in Endpoint : sock[e] = "closed" \/ Held(e) => silent[e] = 0

(* Before start() has returned there is no protocol, and no task runs.     *)
StartIsAlone ==
  pc[Start] # "idle" => protocol = None /\ \A t \in Task : pc[t] = "idle"

(* From then on to stop() the watchdog is armed. *)
WatchdogArmed == ~stopped /\ pc[Start] = "idle" => watchdog # Off

CheckedInTime ==
  \A e \in Endpoint : sock[e] = "open" /\ ~Held(e) => silent[e] + watchdog < Deaf

StampIsNoFresher ==
  \A e \in Endpoint : sock[e] = "open" /\ e = protocol /\ Alive => silent[e] <= age

Detection ==
  /\ SilentFromNew /\ StartIsAlone /\ WatchdogArmed
  /\ CheckedInTime /\ StampIsNoFresher /\ DetectedInTime

LEMMA DetectionInit == Init => Detection
<1> SUFFICES ASSUME Init PROVE Detection
  OBVIOUS
<1>1. /\ \A e \in Endpoint : sock[e] = "closed" /\ silent[e] = 0
      /\ protocol = None /\ pc[Start] = "connecting"
      /\ \A t \in Task : pc[t] = "idle"
  BY NamesAssumption DEF Init, Coroutine
<1> QED BY <1>1, TimesAssumption
        DEF Detection, SilentFromNew, StartIsAlone, WatchdogArmed, CheckedInTime,
            StampIsNoFresher, DetectedInTime, Deaf

(* Neither stop() nor a new reconnect takes an endpoint into a coroutine's *)
(* hands, and a reconnect leaves those of start() alone.                   *)
LEMMA ScheduleHolds ==
  ASSUME TypeOK, NEW d, ScheduleReconnect(d, pc), UNCHANGED got
  PROVE  (\A e \in Endpoint : Held(e)' <=> Held(e)) /\ UNCHANGED pc[Start]
<1>1. CASE UNCHANGED pc
  BY <1>1 DEF Held
<1>2. ASSUME NEW t \in Task, pc[t] = "idle", pc' = [pc EXCEPT ![t] = "sleeping"]
      PROVE  (\A e \in Endpoint : Held(e)' <=> Held(e)) /\ UNCHANGED pc[Start]
  <2>1. t \in Coroutine /\ t # Start
    BY NamesAssumption DEF Coroutine
  <2>2. \A c \in Coroutine : pc'[c] = IF c = t THEN "sleeping" ELSE pc[c]
    BY <1>2 DEF TypeOK
  <2> QED BY <1>2, <2>1, <2>2 DEF Held, Coroutine
<1> QED BY <1>1, <1>2 DEF ScheduleReconnect

(* A step that makes no endpoint silent longer, rearms no watchdog and     *)
(* hands nothing over, leaves everything in time.                          *)
LEMMA DetectionKept ==
  ASSUME TypeOK, IInv, Detection,
         UNCHANGED <<stopped, watchdog>>, protocol' \in {protocol, None},
         age' \in {age, BPUP_ALIVE_TIMEOUT},
         pc'[Start] = pc[Start],
         \A t \in Task : pc'[t] = "idle" \/ pc[t] # "idle" \/ pc[Start] = "idle",
         \A e \in Endpoint :
           /\ silent'[e] \in {0, silent[e]}
           /\ sock'[e] = "closed" => sock[e] = "closed" \/ silent'[e] = 0
           /\ sock'[e] = "open" => sock[e] = "open" /\ (Held(e) => Held(e)')
           /\ Held(e)' => Held(e)
  PROVE  Detection'
<1> USE TimesAssumption
<1>1. SilentFromNew' /\ StartIsAlone' /\ WatchdogArmed'
  BY DEF Detection, SilentFromNew, StartIsAlone, WatchdogArmed
<1>2. watchdog <= BPUP_ALIVE_TIMEOUT /\ watchdog \in Int
  BY DEF TypeOK, Remaining, Off
<1>3. CheckedInTime' /\ DetectedInTime'
  BY <1>2 DEF Detection, CheckedInTime, DetectedInTime, Deaf
<1>4. StampIsNoFresher'
  BY NamesAssumption DEF Detection, StampIsNoFresher, Alive, TypeOK
<1> QED BY <1>1, <1>3, <1>4 DEF Detection

LEMMA ConnectDetection ==
  ASSUME TypeOK, IInv, Detection, NEW c \in Coroutine, ConnectOk(c) PROVE Detection'
<1>1. PICK e \in Endpoint : /\ Free(e)
                            /\ sock' = [sock EXCEPT ![e] = "open"]
                            /\ got' = [got EXCEPT ![c] = e]
  BY DEF ConnectOk
<1>2. /\ pc[c] = "connecting" /\ pc' = [pc EXCEPT ![c] = "handover"]
      /\ UNCHANGED <<protocol, watchdog, stopped, silent, age>>
  BY DEF ConnectOk, clientVars
<1>3. /\ Held(e)'
      /\ \A f \in Endpoint \ {e} : (Held(f)' <=> Held(f)) /\ sock'[f] = sock[f]
  BY <1>1, <1>2 DEF Held, TypeOK
<1>4. silent[e] = 0 /\ sock'[e] = "open" /\ protocol # e
  BY <1>1 DEF Free, Detection, SilentFromNew, TypeOK
<1>5. SilentFromNew'
  BY <1>2, <1>3, <1>4 DEF Detection, SilentFromNew
<1>6. StartIsAlone' /\ WatchdogArmed'
  <2>1. c \in Task => pc[Start] = "idle"
    BY <1>2 DEF Detection, StartIsAlone
  <2>2. Start \in Coroutine
    BY DEF Coroutine
  <2>3. \A d \in Coroutine : pc'[d] = IF d = c THEN "handover" ELSE pc[d]
    BY <1>2 DEF TypeOK
  <2> QED BY <1>2, <2>1, <2>2, <2>3, NamesAssumption
          DEF Detection, StartIsAlone, WatchdogArmed, Coroutine
<1>7. CheckedInTime' /\ StampIsNoFresher' /\ DetectedInTime'
  BY <1>2, <1>3, <1>4
  DEF Detection, CheckedInTime, StampIsNoFresher, DetectedInTime, Alive
<1> QED BY <1>5, <1>6, <1>7 DEF Detection

LEMMA HandoverDetection ==
  ASSUME TypeOK, IInv, Detection, NEW c \in Coroutine, Handover(c) PROVE Detection'
<1> DEFINE e == got[c]
<1>1. /\ pc[c] = "handover" /\ pc' = [pc EXCEPT ![c] = "idle"]
      /\ protocol' = e /\ got' = [got EXCEPT ![c] = None]
      /\ UNCHANGED <<stopped, sock, silent, age>>
  BY DEF Handover, protoVars, envVars
<1>2. e \in Endpoint /\ silent[e] = 0 /\ sock[e] = "open"
  BY <1>1 DEF IInv, HandoverIsOpen, Detection, SilentFromNew, Held
<1>3. Start \in Coroutine /\ \A d \in Coroutine : pc'[d] = IF d = c THEN "idle" ELSE pc[d]
  BY <1>1 DEF TypeOK, Coroutine
<1>4. \A f \in Endpoint : f # e => (Held(f)' <=> Held(f))
  BY <1>1, <1>3 DEF Held, TypeOK
<1>5. SilentFromNew'
  BY <1>1, <1>2, <1>4 DEF Detection, SilentFromNew
<1>6. StartIsAlone' /\ WatchdogArmed'
  <2>1. CASE c = Start
    BY <1>1, <1>3, <2>1, TimesAssumption
    DEF StartIsAlone, WatchdogArmed, Handover, ScheduleWatchdog, Off
  <2>2. CASE c # Start
    <3>1. pc[Start] = "idle"
      BY <1>1, <2>2 DEF Detection, StartIsAlone, Coroutine
    <3> QED BY <1>1, <1>3, <2>2, <3>1
            DEF Detection, StartIsAlone, WatchdogArmed, Handover
  <2> QED BY <2>1, <2>2
<1>7. CheckedInTime' /\ StampIsNoFresher'
  <2>1. watchdog' <= BPUP_ALIVE_TIMEOUT /\ watchdog' \in Int
    BY TimesAssumption DEF Handover, ScheduleWatchdog, TypeOK, Remaining, Off
  <2>2. \A f \in Endpoint : sock[f] = "open" => f = e
    BY <1>1, <1>2 DEF IInv, AtMostOneEndpoint, OpenIsOwned, HandoverIsOpen, Connected
  <2> QED BY <1>1, <1>2, <2>1, <2>2, TimesAssumption
          DEF CheckedInTime, StampIsNoFresher, Deaf, TypeOK
<1>8. DetectedInTime'
  BY <1>1 DEF Detection, DetectedInTime
<1> QED BY <1>5, <1>6, <1>7, <1>8 DEF Detection

(* A raised connect asks for another from inside its own task: nothing.    *)
LEMMA RaisesDetection ==
  ASSUME TypeOK, IInv, Detection, NEW c \in Coroutine, ConnectRaises(c) PROVE Detection'
<1>1. /\ pc[c] = "connecting"
      /\ UNCHANGED <<got, protocol, watchdog, stopped, age, sock, silent>>
  BY DEF ConnectRaises, protoVars, envVars
<1>2. pc' = [pc EXCEPT ![c] = IF c = Start THEN "raised" ELSE "idle"]
  <2>1. CASE c = Start
    BY <2>1 DEF ConnectRaises
  <2>2. CASE c # Start
    <3>1. stopped \/ Busy
      BY <1>1, <2>2, NamesAssumption DEF IInv, TaskIsKnown, Busy, Coroutine
    <3> QED BY <2>2, <3>1 DEF ConnectRaises, ScheduleReconnect
  <2> QED BY <2>1, <2>2
<1>3. \A d \in Coroutine :
        pc'[d] = IF d = c THEN (IF c = Start THEN "raised" ELSE "idle") ELSE pc[d]
  BY <1>2 DEF TypeOK
<1>4. \A e \in Endpoint : Held(e)' <=> Held(e)
  BY <1>1, <1>3 DEF Held
<1>5. StartIsAlone' /\ WatchdogArmed'
  BY <1>1, <1>3, NamesAssumption DEF Detection, StartIsAlone, WatchdogArmed, Coroutine
<1>6. SilentFromNew' /\ CheckedInTime' /\ StampIsNoFresher' /\ DetectedInTime'
  BY <1>1, <1>4
  DEF Detection, SilentFromNew, CheckedInTime, StampIsNoFresher, DetectedInTime, Alive
<1> QED BY <1>5, <1>6 DEF Detection

LEMMA ConnectionLostDetection ==
  ASSUME TypeOK, IInv, Detection, NEW e \in Endpoint, ConnectionLost(e) PROVE Detection'
<1>1. /\ sock[e] = "closing" /\ sock' = [sock EXCEPT ![e] = "closed"]
      /\ silent' = [silent EXCEPT ![e] = 0] /\ age' = BPUP_ALIVE_TIMEOUT
      /\ UNCHANGED <<got, protocol, watchdog, stopped>>
  BY DEF ConnectionLost, Forgotten
<1>2. \A f \in Endpoint : /\ silent'[f] \in {0, silent[f]}
                          /\ sock'[f] = "closed" => sock[f] = "closed" \/ silent'[f] = 0
                          /\ sock'[f] = "open" => sock[f] = "open"
  BY <1>1 DEF TypeOK
<1>3. CASE UNCHANGED pc
  BY <1>1, <1>2, <1>3, DetectionKept DEF Held
<1>4. CASE linked[e] /\ ~stopped /\ ScheduleReconnect(delay, pc)
  <2>1. /\ \A f \in Endpoint : Held(f)' <=> Held(f)
        /\ pc'[Start] = pc[Start]
    BY <1>1, <1>4, ScheduleHolds
  <2>2. e = protocol
    BY <1>1, <1>4 DEF IInv, ConnectedIsOwned, Connected, Held, HandoverIsOpen, CancelledIsStopped
  <2>3. pc[Start] = "idle"
    BY <2>2, NamesAssumption DEF Detection, StartIsAlone
  <2> QED BY <1>1, <1>2, <2>1, <2>3, DetectionKept
<1> QED BY <1>3, <1>4 DEF ConnectionLost, ScheduleReconnect

LEMMA DatagramDetection ==
  ASSUME TypeOK, IInv, Detection, NEW e \in Endpoint, DatagramReceived(e) PROVE Detection'
<1> USE TimesAssumption
<1>1. /\ sock[e] = "open" /\ ~Held(e) /\ age' = 0
      /\ silent' = [silent EXCEPT ![e] = 0]
      /\ UNCHANGED <<pc, got, protocol, watchdog, stopped, sock>>
  BY DEF DatagramReceived, clientVars, coVars
<1>2. \A f \in Endpoint : silent'[f] = IF f = e THEN 0 ELSE silent[f]
  BY <1>1 DEF TypeOK
<1>3. e = protocol
  BY <1>1 DEF IInv, OpenIsOwned
<1>4. \A f \in Endpoint : Held(f)' <=> Held(f)
  BY <1>1 DEF Held
<1>5. SilentFromNew' /\ StartIsAlone' /\ WatchdogArmed'
  BY <1>1, <1>2, <1>4 DEF Detection, SilentFromNew, StartIsAlone, WatchdogArmed
<1>6. CheckedInTime' /\ DetectedInTime'
  <2>1. watchdog <= BPUP_ALIVE_TIMEOUT /\ watchdog \in Int
    BY DEF TypeOK, Remaining, Off
  <2> QED BY <1>1, <1>2, <1>4, <2>1 DEF Detection, CheckedInTime, DetectedInTime, Deaf
<1>7. StampIsNoFresher'
  BY <1>1, <1>2, <1>3 DEF StampIsNoFresher
<1> QED BY <1>5, <1>6, <1>7 DEF Detection

(* A check that finds push alive rearms; one that does not gives the       *)
(* client's endpoint up, and there is no other one.                        *)
LEMMA CheckDetection ==
  ASSUME TypeOK, IInv, IInv', Detection, CheckAlive PROVE Detection'
<1> USE TimesAssumption
<1>1. /\ ~stopped /\ pc[Start] = "idle" /\ watchdog' = BPUP_ALIVE_TIMEOUT
      /\ UNCHANGED <<got, stopped, silent>>
  BY DEF CheckAlive, ScheduleWatchdog, IInv, StartIsFirst, Off, envVars
<1>2. CASE Alive /\ UNCHANGED <<protocol, pc, protoVars>>
  <2>1. \A e \in Endpoint : Held(e)' <=> Held(e)
    BY <1>1, <1>2 DEF Held
  <2>2. SilentFromNew' /\ StartIsAlone' /\ WatchdogArmed' /\ StampIsNoFresher' /\ DetectedInTime'
    BY <1>1, <1>2, <2>1
    DEF Detection, SilentFromNew, StartIsAlone, WatchdogArmed, StampIsNoFresher, DetectedInTime,
        Alive, protoVars, Off
  <2>3. CheckedInTime'
    <3> SUFFICES ASSUME NEW e \in Endpoint, sock'[e] = "open", ~Held(e)'
                 PROVE  silent'[e] + watchdog' < Deaf
      BY DEF CheckedInTime, Deaf
    <3>1. sock[e] = "open" /\ e = protocol
      BY <1>2, <2>1 DEF protoVars, IInv, OpenIsOwned
    <3>2. silent[e] <= age /\ age < BPUP_ALIVE_TIMEOUT
      BY <1>2, <3>1 DEF Detection, StampIsNoFresher, Alive
    <3>3. silent[e] \in Int /\ age \in Int
      BY DEF TypeOK
    <3> QED BY <1>1, <3>2, <3>3 DEF Deaf
  <2> QED BY <2>2, <2>3 DEF Detection
<1>3. CASE protocol' = None
  <2>1. /\ \A e \in Endpoint : Held(e)' <=> Held(e)
        /\ pc'[Start] = pc[Start]
    BY <1>1, ScheduleHolds DEF CheckAlive, Held
  <2>2. \A e \in Endpoint : sock'[e] = "closed" => sock[e] = "closed"
    BY DEF CheckAlive, StopProtocol, protoVars, TypeOK
  <2>3. SilentFromNew' /\ StartIsAlone' /\ WatchdogArmed' /\ DetectedInTime'
    BY <1>1, <2>1, <2>2
    DEF Detection, SilentFromNew, StartIsAlone, WatchdogArmed, DetectedInTime, Off
  <2>4. \A e \in Endpoint : sock'[e] = "open" => Held(e)'
    BY <1>3, NamesAssumption DEF IInv, OpenIsOwned
  <2>5. CheckedInTime' /\ StampIsNoFresher'
    BY <1>3, <2>4, NamesAssumption DEF CheckedInTime, StampIsNoFresher
  <2> QED BY <2>3, <2>5 DEF Detection
<1> QED BY <1>2, <1>3 DEF CheckAlive

LEMMA StopDetection ==
  ASSUME TypeOK, IInv, IInv', Detection, Stop PROVE Detection'
<1>1. /\ pc[Start] = "idle" /\ stopped' /\ protocol' = None
      /\ UNCHANGED <<got, silent>>
  BY DEF Stop, envVars
<1>2. /\ pc'[Start] = "idle"
      /\ \A e \in Endpoint : Held(e)' => Held(e)
  <2>1. CASE reconnectTask = None
    BY <1>1, <2>1 DEF Stop, Held
  <2>2. CASE reconnectTask # None
    <3>1. reconnectTask \in Task /\ pc' = Cancelled(reconnectTask)
      BY <2>2 DEF Stop, TypeOK
    <3> QED BY <1>1, <3>1, NamesAssumption DEF Cancelled, Held, Coroutine, TypeOK
  <2> QED BY <2>1, <2>2
<1>3. \A e \in Endpoint : sock'[e] = "closed" => sock[e] = "closed"
  BY DEF Stop, StopProtocol, protoVars, TypeOK
<1>4. \A e \in Endpoint : sock'[e] = "open" => Held(e)'
  BY <1>1, NamesAssumption DEF IInv, OpenIsOwned
<1>5. SilentFromNew' /\ StartIsAlone' /\ WatchdogArmed' /\ DetectedInTime'
  BY <1>1, <1>2, <1>3
  DEF Detection, SilentFromNew, StartIsAlone, WatchdogArmed, DetectedInTime
<1>6. CheckedInTime' /\ StampIsNoFresher'
  BY <1>1, <1>4, NamesAssumption DEF CheckedInTime, StampIsNoFresher
<1> QED BY <1>5, <1>6 DEF Detection

LEMMA TickDetection ==
  ASSUME TypeOK, IInv, Detection, Tick PROVE Detection'
<1> USE TimesAssumption
<1>1. /\ watchdog # 0 /\ watchdog' = Less(watchdog)
      /\ age' = Min(age + 1, BPUP_ALIVE_TIMEOUT)
      /\ silent' = [e \in Endpoint |-> IF sock[e] = "open" THEN Min(silent[e] + 1, Deaf) ELSE 0]
      /\ \A c \in Coroutine : pc[c] \notin {"handover", "cancelled"}
      /\ UNCHANGED <<pc, got, protocol, stopped, sock>>
  BY DEF Tick, NothingDue
<1>2. \A e \in Endpoint : ~Held(e) /\ ~Held(e)'
  BY <1>1 DEF Held
<1>3. watchdog \in Int /\ age \in 0..BPUP_ALIVE_TIMEOUT /\ silent \in [Endpoint -> 0..Deaf]
  BY DEF TypeOK, Remaining, Off
<1>4. \A e \in Endpoint : sock[e] = "open" => e = protocol /\ watchdog \notin {0, Off}
  <2> SUFFICES ASSUME NEW e \in Endpoint, sock[e] = "open"
               PROVE  e = protocol /\ watchdog \notin {0, Off}
    OBVIOUS
  <2>1. e = protocol
    BY <1>2 DEF IInv, OpenIsOwned
  <2>2. ~stopped /\ pc[Start] = "idle"
    BY <2>1, NamesAssumption DEF IInv, StopIsFinal, Detection, StartIsAlone
  <2> QED BY <1>1, <2>1, <2>2 DEF Detection, WatchdogArmed
<1>5. \A e \in Endpoint : silent'[e] = IF sock[e] = "open" THEN Min(silent[e] + 1, Deaf) ELSE 0
  BY <1>1
<1>6. SilentFromNew' /\ StartIsAlone'
  BY <1>1, <1>2, <1>5 DEF Detection, SilentFromNew, StartIsAlone
<1>7. WatchdogArmed'
  BY <1>1, <1>3 DEF Detection, WatchdogArmed, Less, Off, TypeOK, Remaining
<1>8. CheckedInTime'
  <2> SUFFICES ASSUME NEW e \in Endpoint, sock[e] = "open"
               PROVE  silent'[e] + watchdog' < Deaf
    BY <1>1 DEF CheckedInTime, Deaf
  <2>1. silent[e] + watchdog < Deaf /\ silent[e] \in 0..Deaf
    BY <1>2, <1>3 DEF Detection, CheckedInTime
  <2>2. silent'[e] = Min(silent[e] + 1, Deaf) /\ watchdog' = watchdog - 1
    BY <1>1, <1>4, <1>5 DEF Less
  <2> QED BY <1>3, <2>1, <2>2 DEF Min, Deaf
<1>9. DetectedInTime'
  <2> SUFFICES ASSUME NEW e \in Endpoint PROVE silent'[e] < Deaf
    BY DEF DetectedInTime
  <2>1. CASE sock[e] = "open"
    <3>1. watchdog >= 1
      BY <1>3, <1>4, <2>1 DEF TypeOK, Remaining, Off
    <3> QED BY <1>2, <1>3, <1>5, <2>1, <3>1 DEF Detection, CheckedInTime, Min, Deaf
  <2>2. CASE sock[e] # "open"
    BY <1>5, <2>2 DEF Deaf
  <2> QED BY <2>1, <2>2
<1>10. StampIsNoFresher'
  BY <1>1, <1>3, <1>5 DEF Detection, StampIsNoFresher, Alive, Min, Deaf
<1> QED BY <1>6, <1>7, <1>8, <1>9, <1>10 DEF Detection

LEMMA DetectionNext == ASSUME TypeOK, IInv, IInv', Detection, [Next]_vars PROVE Detection'
<1>1. ASSUME NEW c \in Coroutine, ConnectOk(c) \/ Handover(c) \/ ConnectRaises(c)
      PROVE  Detection'
  BY <1>1, ConnectDetection, HandoverDetection, RaisesDetection
<1>2. ASSUME NEW t \in Task, CancelledResumes(t) PROVE Detection'
  <2>1. t \in Coroutine /\ t # Start /\ pc[t] = "cancelled"
    BY <1>2, NamesAssumption DEF CancelledResumes, Coroutine
  <2>2. \A d \in Coroutine : d # t => pc'[d] = pc[d] /\ got'[d] = got[d]
    BY <1>2, <2>1 DEF CancelledResumes, TypeOK
  <2>3. pc'[t] = "idle" /\ \A e \in Endpoint : sock'[e] =
          IF e = got[t] /\ sock[e] = "open" THEN "closing" ELSE sock[e]
    BY <1>2, <2>1 DEF CancelledResumes, TypeOK
  <2>4. \A e \in Endpoint : (sock'[e] = "open" /\ Held(e) => Held(e)') /\ (Held(e)' => Held(e))
    BY <2>1, <2>2, <2>3 DEF Held
  <2> QED BY <1>2, <2>1, <2>2, <2>3, <2>4, DetectionKept
          DEF CancelledResumes, clientVars, envVars, Coroutine
<1>3. ASSUME NEW t \in Task, WakeUp(t) PROVE Detection'
  <2>1. /\ t \in Coroutine /\ t # Start /\ pc[t] = "sleeping"
        /\ UNCHANGED <<got, protocol, stopped, watchdog, sock, age, silent>>
    BY <1>3, NamesAssumption DEF WakeUp, Coroutine, clientVars, protoVars, envVars
  <2>2. /\ \A d \in Coroutine : d # t => pc'[d] = pc[d]
        /\ pc'[t] \in {"idle", "connecting"}
    BY <1>3, <2>1 DEF WakeUp, TypeOK
  <2>3. \A e \in Endpoint : Held(e)' <=> Held(e)
    BY <2>1, <2>2 DEF Held
  <2> QED BY <2>1, <2>2, <2>3, DetectionKept DEF Coroutine
<1>4. ASSUME NEW e \in Endpoint, ConnectionLost(e) \/ DatagramReceived(e) PROVE Detection'
  BY <1>4, ConnectionLostDetection, DatagramDetection
<1>5. ASSUME NEW e \in Endpoint, TransportFails(e) PROVE Detection'
  BY <1>5, DetectionKept DEF TransportFails, clientVars, coVars, Held, TypeOK
<1>6. ASSUME UNCHANGED <<pc, got, protocol, stopped, watchdog, sock, age, silent>>
      PROVE  Detection'
  BY <1>6, DetectionKept DEF Held
<1>7. ASSUME NEW e \in Endpoint, KeepAliveFires(e) \/ AddressGone(e) \/ BridgePush(e)
      PROVE  Detection'
  BY <1>6, <1>7 DEF KeepAliveFires, AddressGone, BridgePush, clientVars, coVars, protoVars
<1>8. CASE NetDown \/ NetUp \/ UNCHANGED vars
  BY <1>6, <1>8 DEF NetDown, NetUp, vars, clientVars, coVars, protoVars, envVars
<1>9. CASE CheckAlive \/ Stop \/ Tick
  BY <1>9, CheckDetection, StopDetection, TickDetection
<1> QED BY <1>1, <1>2, <1>3, <1>4, <1>5, <1>7, <1>8, <1>9 DEF Next

(* An endpoint that hears nothing is given up before two alive timeouts    *)
(* are over, whatever the timeout and the phase of the watchdog            *)
(* (bpup.py:198-214).                                                      *)
THEOREM DetectionTheorem == SafeSpec => []DetectedInTime
<1>1. Init => Detection
  BY DetectionInit
<1>2. (TypeOK /\ IInv) /\ (TypeOK /\ IInv)' /\ Detection /\ [Next]_vars => Detection'
  BY DetectionNext
<1>3. Detection => DetectedInTime
  BY DEF Detection
<1> QED BY <1>1, <1>2, <1>3, IInvHolds, PTL DEF SafeSpec
==============================================================================
