-------------------------------- MODULE BondCall --------------------------------
(***************************************************************************)
(* The HTTP client of bond_async_pro/bond.py: __call with its one replay,  *)
(* over the keep-alive connections of a shared aiohttp session.            *)
(*                                                                         *)
(* The bridge closes idle connections early.  Until the client notices, a  *)
(* closed connection is still in the pool and the next request may be sent *)
(* on it in vain.  A request on a live connection may be run by the bridge *)
(* and lose its answer, and may be run after the client has given it up.   *)
(* aiohttp is taken not to replay requests of its own accord.              *)
(***************************************************************************)
EXTENDS Integers

CONSTANTS
  Call,      \* calls of the methods of Bond
  Read,      \* the calls of __get; the others write (put, patch, post, delete)
  Own,       \* the calls of a Bond that was given no session
  MaxFaults  \* bound: connections that fail, besides idle ones closed

ASSUME KindsAssumption == Read \subseteq Call /\ Own \subseteq Call
ASSUME BoundAssumption == MaxFaults \in Nat

VARIABLES
  pc,       \* where __call is: "new", "asking" for a connection, "waiting" for an answer,
            \* "returned" or "raised"
  attempt,  \* which run of the handler this is
  error,    \* the exception __call raised, or NoError
  line,     \* the connection a call waits on: does the bridge still hold its end
  request,  \* is the request of the present attempt "none", "sent" or "run" by the bridge
  orphans,  \* requests of a call the client gave up and the bridge may still run
  ran,      \* how often the bridge ran a call
  good,     \* idle connections in the pool
  closed,   \* those of the pool the bridge has closed and the client not noticed
  faults    \* what is left of the bound

callVars == <<pc, attempt, error>>
poolVars == <<good, closed>>
vars     == <<callVars, line, request, orphans, ran, poolVars, faults>>

NoError == "none"
ConnectorError == "ClientConnectorError"        \* a ClientOSError: connecting failed
Disconnected   == "ServerDisconnectedError"     \* or another ClientOSError
ResponseError  == "ClientResponseError"         \* a status the bridge answered
Timeout        == "TimeoutError"
Error == {NoError, ConnectorError, Disconnected, ResponseError, Timeout}

TypeOK ==
  /\ pc \in [Call -> {"new", "asking", "waiting", "returned", "raised"}]
  /\ attempt \in [Call -> 0..2]
  /\ error \in [Call -> Error]
  /\ line \in [Call -> {"none", "live", "dead"}]
  /\ request \in [Call -> {"none", "sent", "run"}]
  /\ orphans \in [Call -> 0..2]
  /\ ran \in [Call -> 0..2]
  /\ good \in Nat /\ closed \in Nat
  /\ faults \in 0..MaxFaults

Init ==
  /\ pc = [c \in Call |-> "new"]
  /\ attempt = [c \in Call |-> 0]
  /\ error = [c \in Call |-> NoError]
  /\ line = [c \in Call |-> "none"]
  /\ request = [c \in Call |-> "none"]
  /\ orphans = [c \in Call |-> 0]
  /\ ran = [c \in Call |-> 0]
  /\ good = 0 /\ closed = 0
  /\ faults = MaxFaults

(***************************************************************************)
(* __call.                                                                 *)
(***************************************************************************)
Begin(c) ==
  /\ pc[c] = "new"
  /\ pc' = [pc EXCEPT ![c] = "asking"]
  /\ attempt' = [attempt EXCEPT ![c] = 1]
  /\ UNCHANGED <<error, line, request, orphans, ran, poolVars, faults>>

(* Mutant: writes are replayed like reads. *)
ReplayAll(c, err) == attempt[c] = 1 /\ c \notin Own

(* Is the handler run again?  Only with a shared session, once, and only   *)
(* what the bridge cannot have run or may run twice.                       *)
Replayed(c, err) ==
  /\ attempt[c] = 1 /\ c \notin Own
  /\ c \in Read \/ err = ConnectorError

(* The handler raised. *)
Handle(c, err) ==
  \/ /\ err \in {ConnectorError, Disconnected} /\ Replayed(c, err)
     /\ pc' = [pc EXCEPT ![c] = "asking"]
     /\ attempt' = [attempt EXCEPT ![c] = 2]
     /\ UNCHANGED error
  \/ /\ ~(err \in {ConnectorError, Disconnected} /\ Replayed(c, err))
     /\ pc' = [pc EXCEPT ![c] = "raised"]
     /\ error' = [error EXCEPT ![c] = err]
     /\ UNCHANGED attempt

(* The request leaves on a connection whose far end is l. *)
Send(c, l) ==
  /\ pc' = [pc EXCEPT ![c] = "waiting"]
  /\ line' = [line EXCEPT ![c] = l]
  /\ request' = [request EXCEPT ![c] = IF l = "live" THEN "sent" ELSE "none"]
  /\ UNCHANGED <<attempt, error, orphans, ran>>

(* A connection of the pool, which aiohttp prefers. *)
Reuse(c) ==
  /\ pc[c] = "asking" /\ c \notin Own
  /\ \/ good > 0 /\ good' = good - 1 /\ UNCHANGED closed /\ Send(c, "live")
     \/ closed > 0 /\ closed' = closed - 1 /\ UNCHANGED good /\ Send(c, "dead")
  /\ UNCHANGED faults

(* A new connection, if none is idle. *)
Connect(c) ==
  /\ pc[c] = "asking" /\ (c \in Own \/ good + closed = 0)
  /\ Send(c, "live")
  /\ UNCHANGED <<poolVars, faults>>

ConnectFails(c) ==
  /\ pc[c] = "asking" /\ (c \in Own \/ good + closed = 0)
  /\ faults > 0 /\ faults' = faults - 1
  /\ Handle(c, ConnectorError)
  /\ UNCHANGED <<line, request, orphans, ran, poolVars>>

(* The attempt is over: its connection is gone, or back in the pool.       *)
HangUp(c) ==
  /\ line' = [line EXCEPT ![c] = "none"]
  /\ request' = [request EXCEPT ![c] = "none"]
  /\ orphans' = [orphans EXCEPT ![c] = IF request[c] = "sent" THEN @ + 1 ELSE @]
  /\ UNCHANGED poolVars
Release(c) ==
  /\ line' = [line EXCEPT ![c] = "none"]
  /\ request' = [request EXCEPT ![c] = "none"]
  /\ good' = IF c \in Own THEN good ELSE good + 1
  /\ UNCHANGED <<orphans, closed>>

(* The answer of a call that was run. *)
Answered(c) ==
  /\ pc[c] = "waiting" /\ request[c] = "run"
  /\ pc' = [pc EXCEPT ![c] = "returned"]
  /\ Release(c)
  /\ UNCHANGED <<attempt, error, ran, faults>>

(* The bridge answers a status of 400 or more instead of running it. *)
Refused(c) ==
  /\ pc[c] = "waiting" /\ request[c] = "sent"
  /\ Handle(c, ResponseError)
  /\ Release(c)
  /\ UNCHANGED <<ran, faults>>

(* The connection breaks: at once if the bridge had closed it, else at any *)
(* point between the request and its answer.                               *)
ConnectionBreaks(c) ==
  /\ pc[c] = "waiting"
  /\ \/ line[c] = "dead" /\ UNCHANGED faults
     \/ line[c] = "live" /\ faults > 0 /\ faults' = faults - 1
  /\ Handle(c, Disconnected)
  /\ HangUp(c)
  /\ UNCHANGED ran

(* Mutant: requests have no timeout. *)
NoTimeout(c) == FALSE /\ UNCHANGED vars

(* ClientTimeout(total) of this attempt. *)
TimedOut(c) ==
  /\ pc[c] \in {"asking", "waiting"}
  /\ Handle(c, Timeout)
  /\ HangUp(c)
  /\ UNCHANGED <<ran, faults>>

(***************************************************************************)
(* The bridge.                                                             *)
(***************************************************************************)
BridgeRuns(c) ==
  /\ \/ /\ request[c] = "sent" /\ request' = [request EXCEPT ![c] = "run"]
        /\ UNCHANGED orphans
     \/ /\ orphans[c] > 0 /\ orphans' = [orphans EXCEPT ![c] = @ - 1]
        /\ UNCHANGED request
  /\ ran' = [ran EXCEPT ![c] = @ + 1]
  /\ UNCHANGED <<callVars, line, poolVars, faults>>

IdleClosed ==
  /\ good > 0 /\ good' = good - 1 /\ closed' = closed + 1
  /\ UNCHANGED <<callVars, line, request, orphans, ran, faults>>

CloseNoticed ==
  /\ closed > 0 /\ closed' = closed - 1
  /\ UNCHANGED <<callVars, line, request, orphans, ran, good, faults>>

Next ==
  \/ \E c \in Call :
       \/ Begin(c) \/ Reuse(c) \/ Connect(c) \/ ConnectFails(c)
       \/ Answered(c) \/ Refused(c) \/ ConnectionBreaks(c) \/ TimedOut(c)
       \/ BridgeRuns(c)
  \/ IdleClosed \/ CloseNoticed

SafeSpec == Init /\ [][Next]_vars

(* A timer runs for every request; nothing makes the bridge answer. *)
Spec == SafeSpec /\ \A c \in Call : WF_vars(TimedOut(c))

(***************************************************************************)
(* Properties.                                                             *)
(***************************************************************************)

(* "a replayed Toggle* action would flip the device back" (bond.py:443-447):*)
(* whatever connections do, and after the caller has given up as well, the *)
(* bridge runs a write at most once, and once exactly if the call returned.*)
WritesRunOnce ==
  \A c \in Call \ Read : ran[c] <= 1 /\ (pc[c] = "returned" => ran[c] = 1)

(* A write that ends with a connect error was never run and never will be: *)
(* its caller may safely ask again (bond.py:447).                          *)
UnreachableNotRun ==
  \A c \in Call \ Read :
    pc[c] = "raised" /\ error[c] = ConnectorError => ran[c] + orphans[c] = 0

(* Every call ends, however many of its connections fail, because every    *)
(* attempt has a timeout and there are two at most (bond.py:379-380,       *)
(* 438-449).                                                               *)
CallEnds == \A c \in Call : pc[c] = "asking" ~> pc[c] \in {"returned", "raised"}

(* The client implements the delivery that the entities' commands rely on. *)
Known == [c \in Call |-> IF pc[c] \in {"asking", "waiting"} THEN "open" ELSE pc[c]]
Promise == INSTANCE Delivery WITH state <- Known
Delivers == Promise!SafeSpec
=================================================================================
