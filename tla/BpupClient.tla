------------------------------ MODULE BpupClient ------------------------------
(***************************************************************************)
(* The push client of bond_async_pro/bpup.py: BPUPClient, the BPUProtocol  *)
(* objects it creates one after the other, the liveness stamp of their     *)
(* BPUPSubscriptions, and the asyncio transports, timers and tasks between *)
(* them, on a discrete clock.                                              *)
(*                                                                         *)
(* One asyncio callback is one action.  Everything asyncio runs "soon" (a  *)
(* due timer, a closed transport's connection_lost, a task whose awaited   *)
(* future is done, a datagram in the socket) runs before the clock moves,  *)
(* in any order; so does the connect of a UDP socket, which waits for a    *)
(* name lookup at most.  The bridge and the network are the environment: they may *)
(* lose datagrams, go down and come back, take an endpoint's address away  *)
(* and close a transport, at most MaxFaults times in all.                  *)
(***************************************************************************)
EXTENDS Integers, FiniteSets

CONSTANTS
  Endpoint,     \* identities of (transport, BPUProtocol) pairs, reused once dead
  Task,         \* identities of _reconnect tasks, reused once done
  Start,        \* the coroutine that awaits BPUPClient.start()
  None,         \* Python's None
  BPUP_KEEP_ALIVE_INTERVAL, BPUP_ALIVE_TIMEOUT,    \* in ticks
  RECONNECT_MIN_DELAY, RECONNECT_MAX_DELAY,        \* in ticks
  MaxFaults,       \* bound: faults of the network in one behaviour
  ConnectMayRaise  \* does create_datagram_endpoint raise OSError while the network is down

Coroutine == Task \cup {Start}

ASSUME NamesAssumption ==
  Start \notin Task /\ None \notin Task /\ None \notin Endpoint
ASSUME TimesAssumption ==
  /\ BPUP_KEEP_ALIVE_INTERVAL \in Nat \ {0}
  /\ BPUP_ALIVE_TIMEOUT \in Nat \ {0}
  /\ RECONNECT_MIN_DELAY \in Nat \ {0}
  /\ RECONNECT_MAX_DELAY \in Nat
  /\ RECONNECT_MIN_DELAY <= RECONNECT_MAX_DELAY
ASSUME EnvironmentAssumption == MaxFaults \in Nat /\ ConnectMayRaise \in BOOLEAN

VARIABLES
  pc,             \* where a coroutine is (see PC)
  wake,           \* ticks left of its asyncio.sleep, or Off
  got,            \* endpoint made for it by create_datagram_endpoint, not yet handed over
  reconnectTask,  \* BPUPClient._reconnect_task
  protocol,       \* BPUPClient._protocol
  watchdog,       \* BPUPClient._watchdog: ticks left, or Off
  stopped,        \* BPUPClient._stopped
  delay,          \* BPUPClient._delay
  sock,           \* state of an endpoint's transport
  keepAlive,      \* BPUProtocol.keep_alive: ticks left, or Off
  linked,         \* BPUProtocol._on_connection_lost is set
  age,            \* ticks since last_message_time; BPUP_ALIVE_TIMEOUT stands for "never"
  net,            \* is the network up
  faults,         \* faults the environment has left
  mute,           \* endpoints whose local address is gone: every send fails
  mail,           \* endpoints with a datagram of the bridge in their socket
  session,        \* ticks since the bridge last heard an endpoint, capped at Lapsed
  missed,         \* its keep-alives lost in a row, capped at 2
  silent          \* ticks it has been open and heard nothing, capped at Deaf

clientVars == <<reconnectTask, protocol, watchdog, stopped, delay>>
coVars     == <<pc, wake, got>>
protoVars  == <<sock, keepAlive, linked, age>>
envVars    == <<net, faults, mute, mail, session, missed, silent>>
vars       == <<clientVars, coVars, protoVars, envVars>>

PC == {"idle",        \* not running, or done
       "sleeping",    \* _reconnect in asyncio.sleep
       "connecting",  \* in create_datagram_endpoint, no transport yet
       "handover",    \* the transport exists, _connect has not resumed
       "cancelled",   \* cancelled in that window: will close the transport
       "raised"}      \* start() has raised out of start_bpup

Off == -1
Min(a, b) == IF a <= b THEN a ELSE b

(* The bridge drops a session that sent no keep-alive for 60 s, twice the  *)
(* keep-alive interval.                                                    *)
SessionTimeout == 2 * BPUP_KEEP_ALIVE_INTERVAL
Lapsed == SessionTimeout + 1
Deaf   == 2 * BPUP_ALIVE_TIMEOUT

MaxSleep == RECONNECT_MAX_DELAY + RECONNECT_MAX_DELAY \div 2
Remaining(n) == {Off} \cup 0..n

TypeOK ==
  /\ pc \in [Coroutine -> PC]
  /\ wake \in [Coroutine -> Remaining(MaxSleep)]
  /\ got \in [Coroutine -> Endpoint \cup {None}]
  /\ reconnectTask \in Task \cup {None}
  /\ protocol \in Endpoint \cup {None}
  /\ watchdog \in Remaining(BPUP_ALIVE_TIMEOUT)
  /\ stopped \in BOOLEAN
  /\ delay \in 1..RECONNECT_MAX_DELAY
  /\ sock \in [Endpoint -> {"closed", "open", "closing"}]
  /\ keepAlive \in [Endpoint -> Remaining(BPUP_KEEP_ALIVE_INTERVAL)]
  /\ linked \in [Endpoint -> BOOLEAN]
  /\ age \in 0..BPUP_ALIVE_TIMEOUT
  /\ net \in {"up", "down"}
  /\ faults \in 0..MaxFaults
  /\ mute \subseteq Endpoint /\ mail \subseteq Endpoint
  /\ session \in [Endpoint -> 0..Lapsed]
  /\ missed \in [Endpoint -> 0..2]
  /\ silent \in [Endpoint -> 0..Deaf]

Init ==
  /\ pc = [c \in Coroutine |-> IF c = Start THEN "connecting" ELSE "idle"]
  /\ wake = [c \in Coroutine |-> Off]
  /\ got = [c \in Coroutine |-> None]
  /\ reconnectTask = None /\ protocol = None
  /\ watchdog = Off /\ stopped = FALSE /\ delay = RECONNECT_MIN_DELAY
  /\ sock = [e \in Endpoint |-> "closed"]
  /\ keepAlive = [e \in Endpoint |-> Off]
  /\ linked = [e \in Endpoint |-> FALSE]
  /\ age = BPUP_ALIVE_TIMEOUT
  /\ net = "up" /\ faults = MaxFaults /\ mute = {} /\ mail = {}
  /\ session = [e \in Endpoint |-> Lapsed]
  /\ missed = [e \in Endpoint |-> 0]
  /\ silent = [e \in Endpoint |-> 0]

(***************************************************************************)
(* Helpers.                                                                *)
(***************************************************************************)

(* BPUPSubscriptions.alive. *)
Alive == age < BPUP_ALIVE_TIMEOUT

(* Mutant: connection_lost leaves the stamp as it is. *)
StampKept == age

(* BPUPSubscriptions.connection_lost: the stamp that stands for "never". *)
Forgotten == BPUP_ALIVE_TIMEOUT

(* Mutant: the watchdog is never armed. *)
NoWatchdog == watchdog' = Off

(* _schedule_watchdog. *)
ScheduleWatchdog == watchdog' = IF stopped THEN Off ELSE BPUP_ALIVE_TIMEOUT

(* Mutants: no guard against a second reconnect; done() forgotten. *)
NeverBusy == FALSE
OnceBusy == reconnectTask # None

(* A reconnect is under way: the task exists and is not done.  A task that *)
(* asks from inside itself is not done either.                             *)
Busy == reconnectTask # None /\ pc[reconnectTask] # "idle"

(* Mutant: the backoff has no ceiling. *)
Doubled(d) == 2 * d

(* The exponential backoff. *)
NextDelay(d) == Min(2 * d, RECONNECT_MAX_DELAY)

(* random.uniform(0, d / 2) on top of d, in whole ticks. *)
Jittered(d) == d..(d + d \div 2)

(* _schedule_reconnect called with _delay = d, in a step that otherwise    *)
(* leaves the coroutines at rest.                                          *)
ScheduleReconnect(d, rest) ==
  \/ /\ stopped \/ Busy
     /\ pc' = rest /\ delay' = d /\ UNCHANGED <<wake, reconnectTask>>
  \/ /\ ~stopped /\ ~Busy
     /\ \E t \in Task : \E w \in Jittered(d) :
          /\ pc[t] = "idle"
          /\ pc' = [rest EXCEPT ![t] = "sleeping"]
          /\ wake' = [wake EXCEPT ![t] = w]
          /\ reconnectTask' = t
     /\ delay' = NextDelay(d)

(* transport.sendto: a datagram reaches the bridge and is acknowledged, or *)
(* its acknowledgement is lost, or it is lost itself, for free when the    *)
(* network is down or the address is gone: asyncio then calls              *)
(* error_received, which only logs.                                        *)
Reaches(e) == net = "up" /\ e \notin mute
Acknowledged(e) ==
  /\ Reaches(e)
  /\ session' = [session EXCEPT ![e] = 0]
  /\ missed' = [missed EXCEPT ![e] = 0]
  /\ mail' = mail \cup {e}
  /\ UNCHANGED faults
AckLost(e) ==
  /\ Reaches(e) /\ faults > 0
  /\ session' = [session EXCEPT ![e] = 0]
  /\ missed' = [missed EXCEPT ![e] = 0]
  /\ faults' = faults - 1
  /\ UNCHANGED mail
KeepAliveLost(e) ==
  /\ Reaches(e) => faults > 0
  /\ faults' = IF Reaches(e) THEN faults - 1 ELSE faults
  /\ missed' = [missed EXCEPT ![e] = Min(@ + 1, 2)]
  /\ UNCHANGED <<session, mail>>
SendTo(e) == Acknowledged(e) \/ AckLost(e) \/ KeepAliveLost(e)

(* Mutant: a keep-alive only when the session is about to expire. *)
SendLateKeepAlive(e) ==
  /\ SendTo(e)
  /\ keepAlive' = [keepAlive EXCEPT ![e] = 2 * BPUP_KEEP_ALIVE_INTERVAL]

(* BPUProtocol.send_keep_alive on an open transport: send, then rearm. *)
SendKeepAlive(e) ==
  /\ SendTo(e)
  /\ keepAlive' = [keepAlive EXCEPT ![e] = BPUP_KEEP_ALIVE_INTERVAL]

(* Mutant: stop() forgets to close the transport. *)
UnlinkProtocol(e) ==
  /\ linked' = [linked EXCEPT ![e] = FALSE]
  /\ age' = Forgotten
  /\ keepAlive' = [keepAlive EXCEPT ![e] = Off]
  /\ UNCHANGED sock

(* BPUProtocol.stop: unlink the owner, forget the last message, cancel the *)
(* keep-alive, close the transport (connection_lost follows soon).         *)
StopProtocol(e) ==
  /\ linked' = [linked EXCEPT ![e] = FALSE]
  /\ age' = Forgotten
  /\ keepAlive' = [keepAlive EXCEPT ![e] = Off]
  /\ sock' = [sock EXCEPT ![e] = IF @ = "open" THEN "closing" ELSE @]

Held(e) == \E c \in Coroutine : pc[c] \in {"handover", "cancelled"} /\ got[c] = e

(* A pair nothing in the program refers to any more. *)
Free(e) == sock[e] = "closed" /\ protocol # e /\ ~Held(e)

(***************************************************************************)
(* _connect, from start() and from _reconnect.                             *)
(***************************************************************************)

(* The socket is made, connection_made runs: transport set, first          *)
(* keep-alive sent and the next one armed.                                 *)
ConnectOk(c) ==
  /\ pc[c] = "connecting"
  /\ \E e \in Endpoint :
       /\ Free(e)
       /\ sock' = [sock EXCEPT ![e] = "open"]
       /\ linked' = [linked EXCEPT ![e] = TRUE]
       /\ got' = [got EXCEPT ![c] = e]
       /\ SendKeepAlive(e)
  /\ pc' = [pc EXCEPT ![c] = "handover"]
  /\ UNCHANGED <<clientVars, wake, age, net, mute, silent>>

(* _connect resumes and stores the protocol; start() then arms the         *)
(* watchdog, _reconnect is done.                                           *)
Handover(c) ==
  /\ pc[c] = "handover"
  /\ protocol' = got[c]
  /\ got' = [got EXCEPT ![c] = None]
  /\ pc' = [pc EXCEPT ![c] = "idle"]
  /\ IF c = Start THEN ScheduleWatchdog ELSE UNCHANGED watchdog
  /\ UNCHANGED <<reconnectTask, stopped, delay, wake, protoVars, envVars>>

(* create_datagram_endpoint raises OSError.  start() lets it out; a        *)
(* reconnect asks for another one, from inside the task that is not done.  *)
ConnectRaises(c) ==
  /\ pc[c] = "connecting" /\ ConnectMayRaise /\ net = "down"
  /\ IF c = Start
     THEN /\ pc' = [pc EXCEPT ![c] = "raised"]
          /\ UNCHANGED <<delay, wake, reconnectTask>>
     ELSE ScheduleReconnect(delay, [pc EXCEPT ![c] = "idle"])
  /\ UNCHANGED <<got, protocol, watchdog, stopped, protoVars, envVars>>

(* The awaited future of a cancelled create_datagram_endpoint resumes with *)
(* CancelledError: asyncio closes the transport it had made.               *)
CancelledResumes(t) ==
  /\ pc[t] = "cancelled"
  /\ sock' = [sock EXCEPT ![got[t]] = IF @ = "open" THEN "closing" ELSE @]
  /\ pc' = [pc EXCEPT ![t] = "idle"]
  /\ got' = [got EXCEPT ![t] = None]
  /\ UNCHANGED <<clientVars, wake, keepAlive, linked, age, envVars>>

(* _reconnect wakes up; a client stopped meanwhile would have cancelled it *)
(* but the code asks again.                                                *)
WakeUp(t) ==
  /\ pc[t] = "sleeping" /\ wake[t] = 0
  /\ pc' = [pc EXCEPT ![t] = IF stopped THEN "idle" ELSE "connecting"]
  /\ wake' = [wake EXCEPT ![t] = Off]
  /\ UNCHANGED <<clientVars, got, protoVars, envVars>>

(***************************************************************************)
(* BPUProtocol callbacks.                                                  *)
(***************************************************************************)

(* The keep-alive timer fires.  On a closing transport it is not rearmed.  *)
KeepAliveFires(e) ==
  /\ keepAlive[e] = 0
  /\ \/ sock[e] = "open" /\ SendKeepAlive(e)
     \/ /\ sock[e] # "open"
        /\ keepAlive' = [keepAlive EXCEPT ![e] = Off]
        /\ UNCHANGED <<faults, mail, session, missed>>
  /\ UNCHANGED <<clientVars, coVars, sock, linked, age, net, mute, silent>>

(* A well-formed frame: state push, acknowledgement or error frame, each   *)
(* stamps last_message_time.  asyncio reads a new socket only after the    *)
(* coroutine that made it has resumed.                                     *)
DatagramReceived(e) ==
  /\ sock[e] = "open" /\ e \in mail /\ ~Held(e)
  /\ age' = 0
  /\ mail' = mail \ {e}
  /\ silent' = [silent EXCEPT ![e] = 0]
  /\ UNCHANGED <<clientVars, coVars, sock, keepAlive, linked, net, faults, mute, session, missed>>

(* connection_lost: forget the last message, cancel the keep-alive, tell   *)
(* the owner if it is still linked; the pair is dead.                      *)
ConnectionLost(e) ==
  /\ sock[e] = "closing"
  /\ sock' = [sock EXCEPT ![e] = "closed"]
  /\ age' = Forgotten
  /\ keepAlive' = [keepAlive EXCEPT ![e] = Off]
  /\ linked' = [linked EXCEPT ![e] = FALSE]
  /\ \/ linked[e] /\ ScheduleReconnect(delay, pc)
     \/ ~linked[e] /\ UNCHANGED <<pc, wake, delay, reconnectTask>>
  /\ mail' = mail \ {e} /\ mute' = mute \ {e}
  /\ session' = [session EXCEPT ![e] = Lapsed]
  /\ missed' = [missed EXCEPT ![e] = 0]
  /\ silent' = [silent EXCEPT ![e] = 0]
  /\ UNCHANGED <<got, protocol, watchdog, stopped, net, faults>>

(***************************************************************************)
(* The watchdog and stop().                                                *)
(***************************************************************************)
CheckAlive ==
  /\ watchdog = 0 /\ ~stopped
  /\ \/ Alive /\ UNCHANGED <<protocol, delay, pc, wake, reconnectTask, protoVars>>
     \/ /\ ~Alive /\ protocol = None
        /\ delay' = RECONNECT_MIN_DELAY
        /\ UNCHANGED <<protocol, pc, wake, reconnectTask, protoVars>>
     \/ /\ ~Alive /\ protocol # None
        /\ protocol' = None
        /\ StopProtocol(protocol)
        /\ ScheduleReconnect(RECONNECT_MIN_DELAY, pc)
  /\ ScheduleWatchdog
  /\ UNCHANGED <<got, stopped, envVars>>

(* Mutant: stop() does not cancel the reconnect task. *)
NotCancelled(t) == pc

(* Where cancel() leaves the reconnect task: asyncio.sleep and a pending   *)
(* connect end at once, a finished connect must still close its transport. *)
Cancelled(t) ==
  [pc EXCEPT ![t] = IF @ = "handover" THEN "cancelled" ELSE "idle"]

(* The callable start_bpup returned: only after start() has returned. *)
Stop ==
  /\ pc[Start] = "idle" /\ ~stopped
  /\ stopped' = TRUE
  /\ watchdog' = Off
  /\ IF reconnectTask # None
     THEN /\ pc' = Cancelled(reconnectTask)
          /\ wake' = [wake EXCEPT ![reconnectTask] = Off]
     ELSE UNCHANGED <<pc, wake>>
  /\ reconnectTask' = None
  /\ IF protocol # None THEN StopProtocol(protocol) ELSE UNCHANGED protoVars
  /\ protocol' = None
  /\ UNCHANGED <<delay, got, envVars>>

(***************************************************************************)
(* Time and the environment.                                               *)
(***************************************************************************)
NothingDue ==
  /\ \A c \in Coroutine : pc[c] \in {"idle", "sleeping", "raised"} /\ wake[c] # 0
  /\ \A e \in Endpoint : keepAlive[e] # 0 /\ sock[e] # "closing"
  /\ mail = {} /\ watchdog # 0

Less(n) == IF n = Off THEN Off ELSE n - 1

Tick ==
  /\ NothingDue
  /\ wake' = [c \in Coroutine |-> Less(wake[c])]
  /\ keepAlive' = [e \in Endpoint |-> Less(keepAlive[e])]
  /\ watchdog' = Less(watchdog)
  /\ age' = Min(age + 1, BPUP_ALIVE_TIMEOUT)
  /\ session' = [e \in Endpoint |-> Min(session[e] + 1, Lapsed)]
  /\ silent' = [e \in Endpoint |->
                  IF sock[e] = "open" THEN Min(silent[e] + 1, Deaf) ELSE 0]
  /\ UNCHANGED <<pc, got, reconnectTask, protocol, stopped, delay, sock, linked,
                 net, faults, mute, mail, missed>>

NetDown ==
  /\ net = "up" /\ faults > 0
  /\ net' = "down" /\ faults' = faults - 1
  /\ UNCHANGED <<clientVars, coVars, protoVars, mute, mail, session, missed, silent>>

NetUp ==
  /\ net = "down" /\ net' = "up"
  /\ UNCHANGED <<clientVars, coVars, protoVars, faults, mute, mail, session, missed, silent>>

(* The interface changes its address: open sockets keep the old one, and   *)
(* nothing tells the program so.                                           *)
AddressGone(e) ==
  /\ sock[e] = "open" /\ e \notin mute /\ faults > 0
  /\ mute' = mute \cup {e} /\ faults' = faults - 1
  /\ UNCHANGED <<clientVars, coVars, protoVars, net, mail, session, missed, silent>>

(* The transport fails under the program: asyncio closes it. *)
TransportFails(e) ==
  /\ sock[e] = "open" /\ ~Held(e) /\ faults > 0
  /\ sock' = [sock EXCEPT ![e] = "closing"]
  /\ faults' = faults - 1
  /\ UNCHANGED <<clientVars, coVars, keepAlive, linked, age,
                 net, mute, mail, session, missed, silent>>

(* The bridge pushes to a session it knows. *)
BridgePush(e) ==
  /\ sock[e] = "open" /\ session[e] < Lapsed /\ Reaches(e) /\ e \notin mail
  /\ mail' = mail \cup {e}
  /\ UNCHANGED <<clientVars, coVars, protoVars, net, faults, mute, session, missed, silent>>

Next ==
  \/ \E c \in Coroutine : ConnectOk(c) \/ Handover(c) \/ ConnectRaises(c)
  \/ \E t \in Task : CancelledResumes(t) \/ WakeUp(t)
  \/ \E e \in Endpoint :
       \/ KeepAliveFires(e) \/ DatagramReceived(e) \/ ConnectionLost(e)
       \/ AddressGone(e) \/ TransportFails(e) \/ BridgePush(e)
  \/ CheckAlive \/ Stop \/ Tick \/ NetDown \/ NetUp

SafeSpec == Init /\ [][Next]_vars

(* The event loop runs what is ready, the clock moves, a network that went *)
(* down comes back.  Nothing makes the bridge push or the owner stop.      *)
Fairness ==
  /\ \A c \in Coroutine :
       WF_vars(ConnectOk(c) \/ ConnectRaises(c)) /\ WF_vars(Handover(c))
  /\ \A t \in Task : WF_vars(CancelledResumes(t)) /\ WF_vars(WakeUp(t))
  /\ \A e \in Endpoint :
       /\ WF_vars(KeepAliveFires(e)) /\ WF_vars(DatagramReceived(e))
       /\ WF_vars(ConnectionLost(e))
  /\ WF_vars(CheckAlive) /\ WF_vars(Tick) /\ WF_vars(NetUp)

Spec == SafeSpec /\ Fairness

(***************************************************************************)
(* Properties.                                                             *)
(***************************************************************************)
Active(c) == pc[c] \in {"sleeping", "connecting"}
Connected == {e \in Endpoint : sock[e] # "closed" /\ linked[e]}

(* However connection_lost, the watchdog and a reconnect under way         *)
(* interleave, the client never has two endpoints that report to it, nor   *)
(* one while it is making another (bpup.py:180-213).                       *)
AtMostOneEndpoint ==
  /\ \A e, f \in Connected : e = f
  /\ \A c \in Coroutine : Active(c) => Connected = {}

(* No socket leaks: an open transport is the client's own or in the hands  *)
(* of the coroutine that is making it (bpup.py:168-173, 211-227).          *)
OpenIsOwned ==
  \A e \in Endpoint : sock[e] = "open" => linked[e] /\ (e = protocol \/ Held(e))

(* stop() is final even when it overtakes a reconnect: no timer, no task   *)
(* that will connect and no endpoint is left to the client                 *)
(* (bpup.py:216-227).                                                      *)
StopIsFinal ==
  stopped => /\ watchdog = Off /\ reconnectTask = None /\ protocol = None
             /\ \A c \in Coroutine : ~Active(c) /\ pc[c] # "handover"

(* Push is called alive only while the client has a transport: no path     *)
(* that drops one forgets to reset the stamp (bpup.py:38-40, 119-139).     *)
AliveHasEndpoint == Alive => protocol \in Connected

(* Half the bridge's session timeout is enough to lose one keep-alive: a   *)
(* session lapses only after two lost in a row (bpup.py:17-18, 96-103).    *)
SessionKept ==
  [][\A e \in Endpoint :
       sock[e] = "open" /\ session[e] < Lapsed /\ session'[e] = Lapsed
         => sock'[e] # "open" \/ missed'[e] = 2]_vars

(* An endpoint that hears nothing is replaced before two alive timeouts    *)
(* are over, whatever the phase of the watchdog (bpup.py:198-214).         *)
DetectedInTime == \A e \in Endpoint : silent[e] < Deaf

(* "transparently reconnects" (bpup.py:142-149): once faults stop, push    *)
(* comes back, unless the client was stopped or start() raised.            *)
SelfHealing == []<>(Alive \/ stopped \/ pc[Start] = "raised")

(* What remains of it when the OSError of a reconnect is possible: push    *)
(* comes back as long as a protocol or a coroutine is left to bring it     *)
(* back (bpup.py:188-213).                                                 *)
Abandoned == protocol = None /\ \A c \in Coroutine : pc[c] \in {"idle", "raised"}
HealsUnlessAbandoned == []<>(Alive \/ stopped \/ Abandoned)

(* After stop() every socket is closed in the end, one that was being      *)
(* opened included (bpup.py:130-139, 216-227).                             *)
StopReleases == stopped ~> \A e \in Endpoint : sock[e] = "closed"

(* The client implements the channel coordinator.py and __init__.py rely on. *)
Channel == INSTANCE PushChannel WITH alive <- Alive, ended <- stopped
ChannelSafe == Channel!SafeSpec
ChannelSpec == Channel!Spec
==============================================================================
