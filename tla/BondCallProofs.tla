----------------------------- MODULE BondCallProofs -----------------------------
(***************************************************************************)
(* What BondCall guarantees for every set of calls and any number of       *)
(* faults: a write is run at most once, one that could not connect never,  *)
(* and the client implements Delivery.  Then what Schedules guarantees of  *)
(* a list that takes several calls while others write.                     *)
(***************************************************************************)
EXTENDS BondCall, Schedules, TLAPS

(***************************************************************************)
(* The inductive invariant counts, for every call, the times the bridge    *)
(* has run it or still may: each attempt adds one at most, a write is      *)
(* never attempted again once this count is 1.                             *)
(***************************************************************************)
Load(c) == ran[c] + orphans[c] + (IF request[c] = "sent" THEN 1 ELSE 0)

(* An attempt is accounted for when its request is sent. *)
AttemptsCounted(c) ==
  /\ pc[c] = "new" => attempt[c] = 0
  /\ pc[c] = "asking" => Load(c) < attempt[c]
  /\ Load(c) <= attempt[c]

(* A request exists while its call waits; what is run or returned was run. *)
RequestsOwned(c) ==
  /\ request[c] # "none" => pc[c] = "waiting"
  /\ request[c] = "run" \/ pc[c] = "returned" => ran[c] > 0

WriteCounted(c) ==
  /\ Load(c) <= 1
  /\ pc[c] = "asking" \/ (pc[c] = "raised" /\ error[c] = ConnectorError) => Load(c) = 0

CallInv(c) ==
  AttemptsCounted(c) /\ RequestsOwned(c) /\ (c \notin Read => WriteCounted(c))

IInv == TypeOK /\ \A c \in Call : CallInv(c)

LEMMA IInvInit == Init => IInv
BY BoundAssumption
   DEF Init, IInv, TypeOK, Error, CallInv, AttemptsCounted, RequestsOwned, WriteCounted, Load

(* What a step on one call leaves of the others. *)
OthersKeep(c) ==
  \A d \in Call \ {c} :
    /\ pc'[d] = pc[d] /\ attempt'[d] = attempt[d] /\ error'[d] = error[d]
    /\ request'[d] = request[d] /\ orphans'[d] = orphans[d] /\ ran'[d] = ran[d]

LEMMA OneCallStep ==
  ASSUME IInv, TypeOK', NEW c \in Call, CallInv(c)', OthersKeep(c)
  PROVE  IInv'
<1>1. ASSUME NEW d \in Call \ {c} PROVE CallInv(d)'
  BY <1>1 DEF IInv, OthersKeep, CallInv, AttemptsCounted, RequestsOwned, WriteCounted, Load
<1> QED BY <1>1 DEF IInv

LEMMA BeginKeeps ==
  ASSUME IInv, NEW c \in Call, Begin(c) PROVE IInv'
<1>1. TypeOK' /\ OthersKeep(c)
  BY DEF IInv, TypeOK, Begin, OthersKeep, poolVars
<1>2. CallInv(c)'
  BY DEF IInv, TypeOK, Begin, CallInv, AttemptsCounted, RequestsOwned, WriteCounted, Load, poolVars
<1> QED BY <1>1, <1>2, OneCallStep

LEMMA SendKeeps ==
  ASSUME IInv, NEW c \in Call, NEW l \in {"live", "dead"},
         pc[c] = "asking", Send(c, l),
         good' \in Nat, closed' \in Nat, UNCHANGED faults
  PROVE  IInv'
<1>1. TypeOK' /\ OthersKeep(c)
  BY DEF IInv, TypeOK, Send, OthersKeep
<1>2. CallInv(c)'
  BY DEF IInv, TypeOK, Send, CallInv, AttemptsCounted, RequestsOwned, WriteCounted, Load
<1> QED BY <1>1, <1>2, OneCallStep

LEMMA ReuseKeeps ==
  ASSUME IInv, NEW c \in Call, Reuse(c) PROVE IInv'
<1>1. good' \in Nat /\ closed' \in Nat
  BY DEF IInv, TypeOK, Reuse
<1> QED BY <1>1, SendKeeps DEF Reuse

LEMMA ConnectKeeps ==
  ASSUME IInv, NEW c \in Call, Connect(c) PROVE IInv'
<1>1. good' \in Nat /\ closed' \in Nat
  BY DEF IInv, TypeOK, Connect, poolVars
<1> QED BY <1>1, SendKeeps DEF Connect

(* An attempt that fails: its request is nobody's any more, or, if no      *)
(* connection was made, there is none.                                     *)
LEMMA HandleKeeps ==
  ASSUME IInv, NEW c \in Call, NEW err \in Error,
         pc[c] \in {"asking", "waiting"},
         err = ConnectorError => pc[c] = "asking",
         Handle(c, err),
         line' \in [Call -> {"none", "live", "dead"}],
         request' = [request EXCEPT ![c] = "none"],
         \/ orphans' = orphans
         \/ orphans' = [orphans EXCEPT ![c] = IF request[c] = "sent" THEN @ + 1 ELSE @],
         UNCHANGED ran, good' \in Nat, closed' \in Nat, faults' \in 0..MaxFaults
  PROVE  IInv'
<1>1. ran[c] \in 0..2 /\ orphans[c] \in 0..2 /\ attempt[c] \in 0..2
  BY DEF IInv, TypeOK
<1>2. /\ ran[c] + orphans'[c] <= Load(c)
      /\ orphans'[c] \in 0..2
  BY <1>1 DEF IInv, TypeOK, CallInv, AttemptsCounted, Load
<1>3. TypeOK'
  BY <1>2 DEF IInv, TypeOK, Handle
<1>4. OthersKeep(c)
  BY DEF IInv, TypeOK, OthersKeep, Handle
<1>5. Load(c)' <= Load(c) /\ Load(c)' \in Nat /\ Load(c) \in Nat
  BY <1>1, <1>2 DEF IInv, TypeOK, Load
<1>6. CallInv(c)
  BY DEF IInv
<1>7. request'[c] = "none" /\ ran'[c] = ran[c]
  BY DEF IInv, TypeOK
<1>8. CASE err \in {ConnectorError, Disconnected} /\ Replayed(c, err)
  <2>1. pc'[c] = "asking" /\ attempt'[c] = 2 /\ attempt[c] = 1
    BY <1>8 DEF Handle, Replayed, IInv, TypeOK
  <2>2. c \notin Read => Load(c) = 0
    BY <1>8, <1>6 DEF Replayed, CallInv, WriteCounted
  <2> QED BY <2>1, <2>2, <1>1, <1>3, <1>4, <1>5, <1>6, <1>7, OneCallStep
          DEF CallInv, AttemptsCounted, RequestsOwned, WriteCounted
<1>9. CASE ~(err \in {ConnectorError, Disconnected} /\ Replayed(c, err))
  <2>1. pc'[c] = "raised" /\ attempt'[c] = attempt[c] /\ error'[c] = err
    BY <1>9 DEF Handle, IInv, TypeOK
  <2> QED BY <2>1, <1>1, <1>3, <1>4, <1>5, <1>6, <1>7, OneCallStep
          DEF CallInv, AttemptsCounted, RequestsOwned, WriteCounted
<1> QED BY <1>8, <1>9

LEMMA ConnectFailsKeeps ==
  ASSUME IInv, NEW c \in Call, ConnectFails(c) PROVE IInv'
<1>1. request' = [request EXCEPT ![c] = "none"]
  BY DEF IInv, TypeOK, ConnectFails, CallInv, RequestsOwned
<1>2. faults' \in 0..MaxFaults
  BY BoundAssumption DEF IInv, TypeOK, ConnectFails
<1>3. line' \in [Call -> {"none", "live", "dead"}] /\ good' \in Nat /\ closed' \in Nat
  BY DEF IInv, TypeOK, ConnectFails, poolVars
<1> QED BY <1>1, <1>2, <1>3, HandleKeeps DEF ConnectFails, Error

LEMMA AnsweredKeeps ==
  ASSUME IInv, NEW c \in Call, Answered(c) PROVE IInv'
<1>1. TypeOK' /\ OthersKeep(c)
  BY DEF IInv, TypeOK, Answered, Release, OthersKeep
<1>2. CallInv(c)'
  BY DEF IInv, TypeOK, Answered, Release, CallInv, AttemptsCounted, RequestsOwned, WriteCounted, Load
<1> QED BY <1>1, <1>2, OneCallStep

LEMMA RefusedKeeps ==
  ASSUME IInv, NEW c \in Call, Refused(c) PROVE IInv'
<1>1. line' \in [Call -> {"none", "live", "dead"}] /\ good' \in Nat /\ closed' \in Nat
  BY DEF IInv, TypeOK, Refused, Release
<1>2. faults' \in 0..MaxFaults
  BY DEF IInv, TypeOK, Refused
<1> QED BY <1>1, <1>2, HandleKeeps DEF Refused, Release, Error, ResponseError, ConnectorError

LEMMA ConnectionBreaksKeeps ==
  ASSUME IInv, NEW c \in Call, ConnectionBreaks(c) PROVE IInv'
<1>1. line' \in [Call -> {"none", "live", "dead"}] /\ good' \in Nat /\ closed' \in Nat
  BY DEF IInv, TypeOK, ConnectionBreaks, HangUp, poolVars
<1>2. faults' \in 0..MaxFaults
  BY BoundAssumption DEF IInv, TypeOK, ConnectionBreaks
<1> QED BY <1>1, <1>2, HandleKeeps
        DEF ConnectionBreaks, HangUp, Error, Disconnected, ConnectorError

LEMMA TimedOutKeeps ==
  ASSUME IInv, NEW c \in Call, TimedOut(c) PROVE IInv'
<1>1. line' \in [Call -> {"none", "live", "dead"}] /\ good' \in Nat /\ closed' \in Nat
  BY DEF IInv, TypeOK, TimedOut, HangUp, poolVars
<1>2. faults' \in 0..MaxFaults
  BY DEF IInv, TypeOK, TimedOut
<1> QED BY <1>1, <1>2, HandleKeeps DEF TimedOut, HangUp, Error, Timeout, ConnectorError

(* A run moves one from what may still be run to what was run. *)
LEMMA BridgeRunsKeeps ==
  ASSUME IInv, NEW c \in Call, BridgeRuns(c) PROVE IInv'
<1>1. ran[c] \in 0..2 /\ orphans[c] \in 0..2 /\ attempt[c] \in 0..2 /\ Load(c) <= attempt[c]
  BY DEF IInv, TypeOK, CallInv, AttemptsCounted
<1>2. OthersKeep(c)
  BY DEF IInv, TypeOK, BridgeRuns, OthersKeep, callVars
<1>3. CASE request[c] = "sent" /\ request' = [request EXCEPT ![c] = "run"] /\ UNCHANGED orphans
  <2>1. TypeOK'
    BY <1>1, <1>3 DEF IInv, TypeOK, BridgeRuns, Load, callVars, poolVars
  <2>2. CallInv(c)'
    BY <1>1, <1>3 DEF IInv, TypeOK, BridgeRuns, CallInv, AttemptsCounted, RequestsOwned,
                      WriteCounted, Load, callVars
  <2> QED BY <1>2, <2>1, <2>2, OneCallStep
<1>4. CASE orphans[c] > 0 /\ orphans' = [orphans EXCEPT ![c] = @ - 1] /\ UNCHANGED request
  <2>1. TypeOK'
    BY <1>1, <1>4 DEF IInv, TypeOK, BridgeRuns, Load, callVars, poolVars
  <2>2. CallInv(c)'
    BY <1>1, <1>4 DEF IInv, TypeOK, BridgeRuns, CallInv, AttemptsCounted, RequestsOwned,
                      WriteCounted, Load, callVars
  <2> QED BY <1>2, <2>1, <2>2, OneCallStep
<1> QED BY <1>3, <1>4 DEF BridgeRuns

LEMMA IInvNext == IInv /\ [Next]_vars => IInv'
<1> SUFFICES ASSUME IInv, [Next]_vars PROVE IInv'
  OBVIOUS
<1>1. ASSUME NEW c \in Call, Begin(c) \/ Reuse(c) \/ Connect(c) \/ ConnectFails(c)
      PROVE  IInv'
  BY <1>1, BeginKeeps, ReuseKeeps, ConnectKeeps, ConnectFailsKeeps
<1>2. ASSUME NEW c \in Call,
             Answered(c) \/ Refused(c) \/ ConnectionBreaks(c) \/ TimedOut(c) \/ BridgeRuns(c)
      PROVE  IInv'
  BY <1>2, AnsweredKeeps, RefusedKeeps, ConnectionBreaksKeeps, TimedOutKeeps, BridgeRunsKeeps
<1>3. CASE IdleClosed \/ CloseNoticed
  BY <1>3 DEF IdleClosed, CloseNoticed, IInv, TypeOK, CallInv, AttemptsCounted, RequestsOwned,
              WriteCounted, Load, callVars
<1>4. CASE UNCHANGED vars
  BY <1>4 DEF vars, IInv, TypeOK, CallInv, AttemptsCounted, RequestsOwned, WriteCounted, Load,
              callVars, poolVars
<1> QED BY <1>1, <1>2, <1>3, <1>4 DEF Next

(* Types of the call's variables: two attempts, and so two runs, at most   *)
(* (bond.py:433-449).                                                      *)
THEOREM CallTypeCorrect == SafeSpec => []TypeOK
<1>1. IInv => TypeOK BY DEF IInv
<1> QED BY <1>1, IInvInit, IInvNext, PTL DEF SafeSpec

(* The bridge runs a write at most once (bond.py:443-447). *)
THEOREM AtMostOnce == SafeSpec => []WritesRunOnce
<1>1. IInv => WritesRunOnce
  <2> SUFFICES ASSUME IInv, NEW c \in Call \ Read
               PROVE  ran[c] <= 1 /\ (pc[c] = "returned" => ran[c] = 1)
    BY DEF WritesRunOnce
  <2>1. ran[c] \in 0..2 /\ orphans[c] \in 0..2 BY DEF IInv, TypeOK
  <2> QED BY <2>1 DEF IInv, CallInv, WriteCounted, RequestsOwned, Load
<1> QED BY <1>1, IInvInit, IInvNext, PTL DEF SafeSpec

(* A write that ended with a connect error is not run, then or later       *)
(* (bond.py:447).                                                          *)
THEOREM ConnectErrorIsClean == SafeSpec => []UnreachableNotRun
<1>1. IInv => UnreachableNotRun
  <2> SUFFICES ASSUME IInv, NEW c \in Call \ Read, pc[c] = "raised", error[c] = ConnectorError
               PROVE  ran[c] + orphans[c] = 0
    BY DEF UnreachableNotRun
  <2>1. ran[c] \in 0..2 /\ orphans[c] \in 0..2 BY DEF IInv, TypeOK
  <2> QED BY <2>1 DEF IInv, CallInv, WriteCounted, Load
<1> QED BY <1>1, IInvInit, IInvNext, PTL DEF SafeSpec

(***************************************************************************)
(* Delivery.                                                               *)
(***************************************************************************)

(* A failed attempt is the end of the call, or invisible. *)
LEMMA HandleIsRaise ==
  ASSUME TypeOK, NEW c \in Call, NEW err, pc[c] \in {"asking", "waiting"},
         Handle(c, err), UNCHANGED ran
  PROVE  Promise!Raise(c) \/ UNCHANGED Promise!vars
<1>1. CASE pc' = [pc EXCEPT ![c] = "asking"]
  <2>1. ASSUME NEW d \in Call PROVE Known'[d] = Known[d]
    BY <1>1, <2>1 DEF TypeOK, Known
  <2> QED BY <2>1 DEF Known, Promise!vars
<1>2. CASE pc' = [pc EXCEPT ![c] = "raised"]
  BY <1>2 DEF TypeOK, Known, Promise!Raise
<1> QED BY <1>1, <1>2 DEF Handle

(* Every step of the client is a step of Delivery or a stutter. *)
LEMMA StepIsDelivery ==
  ASSUME IInv, [Next]_vars PROVE [Promise!Next]_(Promise!vars)
<1> USE DEF IInv
<1>1. ASSUME NEW c \in Call, Begin(c) PROVE Promise!Ask(c)
  BY <1>1 DEF TypeOK, Begin, Known, Promise!Ask
<1>2. ASSUME NEW c \in Call, Reuse(c) \/ Connect(c) PROVE UNCHANGED Promise!vars
  <2>1. pc[c] = "asking" /\ pc' = [pc EXCEPT ![c] = "waiting"] /\ UNCHANGED ran
    BY <1>2 DEF Reuse, Connect, Send
  <2>2. ASSUME NEW d \in Call PROVE Known'[d] = Known[d]
    BY <2>1, <2>2 DEF TypeOK, Known
  <2> QED BY <2>1, <2>2 DEF Known, Promise!vars
<1>3. ASSUME NEW c \in Call, ConnectFails(c) \/ Refused(c) \/ ConnectionBreaks(c) \/ TimedOut(c)
      PROVE  Promise!Raise(c) \/ UNCHANGED Promise!vars
  BY <1>3, HandleIsRaise DEF ConnectFails, Refused, ConnectionBreaks, TimedOut
<1>4. ASSUME NEW c \in Call, Answered(c) PROVE Promise!Return(c)
  BY <1>4 DEF TypeOK, CallInv, RequestsOwned, Answered, Known, Promise!Return
<1>5. ASSUME NEW c \in Call, BridgeRuns(c) PROVE Promise!Run(c)
  <2>1. ran[c] \in 0..2 /\ orphans[c] \in 0..2 /\ attempt[c] \in 0..2 /\ CallInv(c)
    BY DEF TypeOK
  <2>2. Load(c) > ran[c]
    BY <1>5, <2>1 DEF BridgeRuns, Load
  <2>3. pc[c] # "new" /\ (c \in Read \/ ran[c] = 0)
    BY <2>1, <2>2 DEF CallInv, AttemptsCounted, WriteCounted, Load
  <2>4. Known[c] # "new" /\ UNCHANGED Known
    BY <1>5, <2>3 DEF BridgeRuns, callVars, Known
  <2> QED BY <1>5, <2>3, <2>4 DEF BridgeRuns, Promise!Run
<1>6. CASE IdleClosed \/ CloseNoticed \/ UNCHANGED vars
  BY <1>6 DEF IdleClosed, CloseNoticed, vars, callVars, Known, Promise!vars
<1> QED BY <1>1, <1>2, <1>3, <1>4, <1>5, <1>6 DEF Next, Promise!Next

(* The HTTP client implements Delivery (bond.py:433-449). *)
THEOREM ImplementsDelivery == SafeSpec => Delivers
<1>1. Init => Promise!Init
  BY DEF Init, Promise!Init, Known
<1>2. IInv /\ [Next]_vars => [Promise!Next]_(Promise!vars)
  BY StepIsDelivery
<1> QED BY <1>1, <1>2, IInvInit, IInvNext, PTL DEF SafeSpec, Delivers, Promise!SafeSpec

(***************************************************************************)
(* Schedules: a list of them is made of several calls.                     *)
(***************************************************************************)

(* What is known of a list while it is read: the ids it found at first are *)
(* those of one moment, read or still to be read.                          *)
ListInv(c) ==
  /\ phase[c] = "idle" => todo[c] = {} /\ found[c] = {}
  /\ phase[c] \in Running /\ ask[c].service = "list" =>
       /\ IdsOf(SkedsOf(ask[c].owner)) \in moments[c] /\ skeds \subseteq seen[c]
  /\ phase[c] = "listing" => found[c] = {} /\ ask[c].service = "list"
  /\ phase[c] = "reading" => ask[c].service = "list"
  /\ phase[c] = "writing" => ask[c].service # "list"
  /\ phase[c] = "reading" => IdsOf(found[c]) \cup todo[c] \in moments[c]
  /\ phase[c] \in {"reading", "returned"} /\ ask[c].service = "list" =>
       found[c] \subseteq seen[c] /\ \A s \in found[c] : s.owner = ask[c].owner
  /\ phase[c] = "returned" /\ ask[c].service = "list" => IdsOf(found[c]) \in moments[c]

(* A write that may still be run belongs to a call that is over. *)
LateIsOver == \A c \in late : phase[c] = "raised"

SkedInv == SkedsTypeOK /\ LateIsOver /\ \A c \in ServiceCall : ListInv(c)

LEMMA SkedInvInit == SkedsInit => SkedInv
<1> SUFFICES ASSUME SkedsInit PROVE SkedInv OBVIOUS
<1>1. skeds \subseteq Sked /\ given \subseteq Id
  BY AsksAssumption DEF SkedsInit, IdsOf, Sked
<1>2. LateIsOver /\ \A c \in ServiceCall : ListInv(c)
  BY DEF SkedsInit, LateIsOver, ListInv, Running
<1> QED BY <1>1, <1>2 DEF SkedInv, SkedsInit, SkedsTypeOK, Running

(* A write leaves schedules. *)
LEMMA WriteType ==
  ASSUME SkedsTypeOK, NEW a \in Ask, Write(a)
  PROVE  skeds' \subseteq Sked /\ given' \subseteq Id
<1> USE DEF Sked, Ask, SkedsTypeOK
<1>1. CASE Create(a)
  BY <1>1 DEF Create
<1>2. CASE Update(a)
  <2>1. \A s \in Meant(a) : [id |-> s.id, owner |-> s.owner, body |-> a.body] \in Sked
    BY DEF Meant, SkedsOf
  <2> QED BY <1>2, <2>1 DEF Update
<1>3. CASE Delete(a)
  BY <1>3 DEF Delete
<1> QED BY <1>1, <1>2, <1>3 DEF Write

LEMMA CalledType ==
  ASSUME SkedInv, NEW c \in ServiceCall, Called(c) PROVE SkedsTypeOK' /\ LateIsOver'
<1> USE DEF SkedInv, SkedsTypeOK
<1> PICK a \in AsksOf(c) : Called(c)!2!(a)
  BY DEF Called
<1>1. a \in Ask BY AsksAssumption
<1>2. ASSUME NEW h \in Target(a.entry) PROVE h \in Hub
  BY <1>2 DEF Target
<1>3. c \notin late
  BY DEF Called, LateIsOver
<1>4. ask' = [ask EXCEPT ![c] = a] /\ ask' \in [ServiceCall -> Ask \cup {Unsaid}]
  BY <1>1
<1>5. /\ phase' \in [ServiceCall -> {"idle"} \cup Running \cup Ended]
      /\ hub' \in [ServiceCall -> Hub \cup {Unsaid}]
      /\ phase'[c] \in Running => hub'[c] \in Hub
      /\ \A d \in ServiceCall \ {c} : phase'[d] = phase[d] /\ hub'[d] = hub[d]
  BY <1>2 DEF End, Running, Ended
<1> QED BY <1>1, <1>3, <1>4, <1>5 DEF Called, LateIsOver

LEMMA SkedsStepType ==
  ASSUME SkedInv, Step PROVE SkedsTypeOK' /\ LateIsOver'
<1> USE DEF SkedInv
<1>1. ASSUME NEW c \in ServiceCall, Listed(c) PROVE SkedsTypeOK' /\ LateIsOver'
  <2>1. IdsOf(SkedsOf(ask[c].owner)) \in SUBSET Id
    BY DEF SkedsTypeOK, IdsOf, SkedsOf, Sked
  <2>2. todo' \in [ServiceCall -> SUBSET Id]
    BY <1>1, <2>1 DEF Listed, SkedsTypeOK
  <2>3. /\ phase' \in [ServiceCall -> {"idle"} \cup Running \cup Ended]
        /\ \A d \in ServiceCall : phase'[d] # phase[d] => d = c
        /\ phase[c] \in Running /\ phase[c] # "raised"
    BY <1>1 DEF Listed, End, SkedsTypeOK, Running, Ended
  <2> QED BY <1>1, <2>2, <2>3 DEF Listed, SkedsTypeOK, LateIsOver
<1>2. ASSUME NEW c \in ServiceCall, ReadOne(c) PROVE SkedsTypeOK' /\ LateIsOver'
  <2>1. PICK i \in todo[c] : ReadOne(c)!2!(i)
    BY <1>2 DEF ReadOne
  <2>2. Reads(c, i) \subseteq Sked
    BY DEF Reads, SkedsOf, SkedsTypeOK
  <2>3. todo' \in [ServiceCall -> SUBSET Id] /\ found' \in [ServiceCall -> SUBSET Sked]
    BY <2>1, <2>2 DEF SkedsTypeOK
  <2>4. /\ phase' \in [ServiceCall -> {"idle"} \cup Running \cup Ended]
        /\ \A d \in ServiceCall : phase'[d] # phase[d] => d = c
        /\ phase[c] \in Running /\ phase[c] # "raised"
    BY <1>2, <2>1 DEF ReadOne, End, SkedsTypeOK, Running, Ended
  <2> QED BY <1>2, <2>3, <2>4 DEF ReadOne, SkedsTypeOK, LateIsOver
<1>3. ASSUME NEW c \in ServiceCall, Written(c) PROVE SkedsTypeOK' /\ LateIsOver'
  <2>1. ask[c] \in Ask
    BY <1>3 DEF Written, SkedsTypeOK, Running
  <2>2. skeds' \subseteq Sked /\ given' \subseteq Id
    BY <1>3, <2>1, WriteType DEF Written, SkedsTypeOK
  <2> QED BY <1>3, <2>2 DEF Written, End, SkedsTypeOK, Running, Ended, LateIsOver
<1>4. ASSUME NEW c \in ServiceCall, Fails(c) PROVE SkedsTypeOK' /\ LateIsOver'
  BY <1>4 DEF Fails, End, SkedsTypeOK, Running, Ended, LateIsOver
<1>5. ASSUME NEW c \in ServiceCall, RunsLate(c) PROVE SkedsTypeOK' /\ LateIsOver'
  <2>1. ask[c] \in Ask
    BY <1>5 DEF RunsLate, SkedsTypeOK
  <2>2. skeds' \subseteq Sked /\ given' \subseteq Id
    BY <1>5, <2>1, WriteType DEF RunsLate
  <2> QED BY <1>5, <2>2 DEF RunsLate, SkedsTypeOK, LateIsOver
<1>6. CASE Other
  <2>1. PICK a \in Others : Write(a)
    BY <1>6 DEF Other
  <2>2. skeds' \subseteq Sked /\ given' \subseteq Id
    BY <2>1, WriteType, AsksAssumption
  <2> QED BY <1>6, <2>2 DEF Other, serviceVars, SkedsTypeOK, LateIsOver
<1>7. CASE EntryChanges
  BY <1>7 DEF EntryChanges, serviceVars, SkedsTypeOK, LateIsOver
<1> QED BY <1>1, <1>2, <1>3, <1>4, <1>5, <1>6, <1>7, CalledType DEF Step

(* What is known of a list that is read survives whatever does not touch it. *)
LEMMA ListWatched ==
  ASSUME Watch, NEW d \in ServiceCall
  PROVE  /\ moments[d] \subseteq moments'[d] /\ seen[d] \subseteq seen'[d]
         /\ (phase[d] \in Running \/ phase'[d] \in Running) /\ ask'[d].service = "list" =>
              IdsOf(SkedsOf(ask[d].owner))' \in moments'[d] /\ skeds' \subseteq seen'[d]
<1>1. IdsOf(SkedsOf(ask[d].owner))' = IdsOf({s \in skeds' : s.owner = ask'[d].owner})
  BY DEF SkedsOf, IdsOf
<1> DEFINE now == IdsOf({s \in skeds' : s.owner = ask'[d].owner})
<1>2. CASE (phase[d] \in Running \/ phase'[d] \in Running) /\ ask'[d].service = "list"
  <2>1. moments'[d] = moments[d] \cup {now} /\ seen'[d] = seen[d] \cup skeds'
    BY <1>2 DEF Watch
  <2>2. now \in moments'[d] /\ skeds' \subseteq seen'[d]
    BY <2>1
  <2>3. IdsOf(SkedsOf(ask[d].owner))' \in moments'[d]
    BY <1>1, <2>2
  <2> QED BY <2>1, <2>2, <2>3
<1>3. CASE ~((phase[d] \in Running \/ phase'[d] \in Running) /\ ask'[d].service = "list")
  <2>1. moments'[d] = moments[d] /\ seen'[d] = seen[d]
    BY <1>3 DEF Watch
  <2> QED BY <1>3, <2>1
<1> QED BY <1>2, <1>3

LEMMA ListUntouched ==
  ASSUME SkedInv, Watch, NEW d \in ServiceCall, ask'[d] = ask[d], todo'[d] = todo[d], found'[d] = found[d],
         phase'[d] = phase[d] \/ phase'[d] = "raised"
  PROVE  ListInv(d)'
BY ListWatched DEF SkedInv, ListInv, Running, IdsOf

LEMMA ListStep ==
  ASSUME SkedInv, Step, Watch, NEW d \in ServiceCall
  PROVE  ListInv(d)'
<1> USE DEF SkedInv
<1>1. ASSUME NEW c \in ServiceCall, Called(c) PROVE ListInv(d)'
  <2>1. CASE d = c
    <3>1. phase'[c] # "reading" /\ phase'[c] # "returned" /\ phase'[c] # "idle"
      BY <1>1 DEF Called, End, SkedsTypeOK
    <3>2. (phase'[c] = "listing" => ask'[c].service = "list")
          /\ (phase'[c] = "writing" => ask'[c].service # "list")
      BY <1>1 DEF Called, End, SkedsTypeOK
    <3>3. found'[c] = {}
      BY <1>1 DEF Called, ListInv
    <3> QED BY <2>1, <3>1, <3>2, <3>3, ListWatched DEF ListInv
  <2>2. CASE d # c
    BY <1>1, <2>2, ListUntouched DEF Called, End, SkedsTypeOK
  <2> QED BY <2>1, <2>2
<1>2. ASSUME NEW c \in ServiceCall, Listed(c) PROVE ListInv(d)'
  <2>1. CASE d = c /\ phase'[d] # "raised"
    <3> DEFINE ids == IdsOf(SkedsOf(ask[c].owner))
    <3>1. /\ phase[c] = "listing" /\ phase'[c] = IF ids = {} THEN "returned" ELSE "reading"
          /\ todo'[c] = ids /\ UNCHANGED <<ask, found>>
      BY <1>2, <2>1 DEF Listed, End, SkedsTypeOK
    <3>2. found'[c] = {} /\ ids \in moments'[c] /\ ask'[c].service = "list"
      BY <3>1, ListWatched DEF ListInv, Running
    <3>3. IdsOf(found'[c]) = {}
      BY <3>2 DEF IdsOf
    <3>4. (IdsOf(found[c]) \cup todo[c])' = ids /\ (ids = {} => IdsOf(found[c])' = ids)
      BY <3>1, <3>2, <3>3 DEF IdsOf
    <3> QED BY <2>1, <3>1, <3>2, <3>4, ListWatched DEF ListInv, Running
  <2>2. CASE d # c \/ phase'[d] = "raised"
    BY <1>2, <2>2, ListUntouched DEF Listed, End, SkedsTypeOK
  <2> QED BY <2>1, <2>2
<1>3. ASSUME NEW c \in ServiceCall, ReadOne(c) PROVE ListInv(d)'
  <2>1. CASE d = c /\ phase'[d] # "raised"
    <3>1. PICK i \in todo[c] :
            /\ Reads(c, i) # {}
            /\ found'[c] = found[c] \cup Reads(c, i) /\ todo'[c] = todo[c] \ {i}
            /\ phase'[c] = IF todo[c] = {i} THEN "returned" ELSE "reading"
      BY <1>3, <2>1 DEF ReadOne, End, SkedsTypeOK
    <3>2. phase[c] = "reading" /\ ask' = ask /\ skeds' = skeds
      BY <1>3 DEF ReadOne
    <3>3. ask[c].service = "list" /\ skeds \subseteq seen[c]
      BY <3>2 DEF ListInv, Running
    <3>4. \A s \in Reads(c, i) : s \in skeds /\ s.owner = ask[c].owner /\ s.id = i
      BY DEF Reads, SkedsOf
    <3>5. IdsOf(found'[c]) = IdsOf(found[c]) \cup {i}
      BY <3>1, <3>4 DEF IdsOf
    <3>6. IdsOf(found'[c]) \cup todo'[c] = IdsOf(found[c]) \cup todo[c]
      BY <3>1, <3>5
    <3>7. todo[c] = {i} => IdsOf(found'[c]) = IdsOf(found[c]) \cup todo[c]
      BY <3>5
    <3>8. IdsOf(found[c]) \cup todo[c] \in moments'[c]
      BY <3>2, ListWatched DEF ListInv
    <3>9. found'[c] \subseteq seen'[c] /\ \A s \in found'[c] : s.owner = ask'[c].owner
      BY <3>1, <3>2, <3>3, <3>4, ListWatched DEF ListInv
    <3>10. /\ phase'[c] = "reading" => (IdsOf(found[c]) \cup todo[c])' \in moments'[c]
           /\ phase'[c] = "returned" => IdsOf(found[c])' \in moments'[c]
      BY <3>1, <3>6, <3>7, <3>8 DEF IdsOf
    <3> QED BY <2>1, <3>1, <3>2, <3>3, <3>9, <3>10, ListWatched DEF ListInv, Running
  <2>2. CASE d # c \/ phase'[d] = "raised"
    <3>1. CASE d # c
      BY <1>3, <3>1, ListUntouched DEF ReadOne, End, SkedsTypeOK
    <3>2. CASE phase'[d] = "raised"
      BY <1>3, <3>2, ListWatched DEF ReadOne, ListInv, Running
    <3> QED BY <2>2, <3>1, <3>2
  <2> QED BY <2>1, <2>2
<1>4. ASSUME NEW c \in ServiceCall, Written(c) PROVE ListInv(d)'
  <2>1. CASE d = c
    <3>1. ask'[c].service # "list" /\ phase'[c] \in {"returned", "raised"}
      BY <1>4 DEF Written, End, ListInv, SkedsTypeOK
    <3> QED BY <2>1, <3>1 DEF ListInv
  <2>2. CASE d # c
    BY <1>4, <2>2, ListUntouched DEF Written, End, SkedsTypeOK
  <2> QED BY <2>1, <2>2
<1>5. ASSUME NEW c \in ServiceCall, Fails(c) PROVE ListInv(d)'
  BY <1>5, ListUntouched DEF Fails, End, SkedsTypeOK
<1>6. ASSUME NEW c \in ServiceCall, RunsLate(c) PROVE ListInv(d)'
  BY <1>6, ListUntouched DEF RunsLate
<1>7. CASE Other \/ EntryChanges
  BY <1>7, ListUntouched DEF Other, EntryChanges, serviceVars
<1> QED BY <1>1, <1>2, <1>3, <1>4, <1>5, <1>6, <1>7 DEF Step

LEMMA SkedInvNext == SkedInv /\ [SkedsNext]_skedsVars => SkedInv'
<1> SUFFICES ASSUME SkedInv, [SkedsNext]_skedsVars PROVE SkedInv' OBVIOUS
<1>1. CASE SkedsNext
  BY <1>1, SkedsStepType, ListStep DEF SkedsNext, SkedInv
<1>2. CASE UNCHANGED skedsVars
  <2>1. ASSUME NEW d \in ServiceCall PROVE ListInv(d)'
    BY <1>2 DEF skedsVars, serviceVars, SkedInv, ListInv, IdsOf, SkedsOf
  <2>2. SkedsTypeOK' /\ LateIsOver'
    BY <1>2 DEF skedsVars, serviceVars, SkedInv, SkedsTypeOK, LateIsOver
  <2> QED BY <2>1, <2>2 DEF SkedInv
<1> QED BY <1>1, <1>2

(* Types of a service's call: what runs has an entry, which a call that    *)
(* names none or an unloaded one does not get (services.py:134-153).       *)
THEOREM SkedTypeCorrect == SkedsSpec => []SkedsTypeOK
<1>1. SkedInv => SkedsTypeOK
  BY DEF SkedInv
<1> QED BY <1>1, SkedInvInit, SkedInvNext, PTL DEF SkedsSpec

(* A list that is returned is of one moment of its call (bond.py:288-299). *)
THEOREM ListedTheorem == SkedsSpec => []ListedTogether
<1>1. SkedInv => ListedTogether
  BY DEF SkedInv, ListInv, ListedTogether
<1> QED BY <1>1, SkedInvInit, SkedInvNext, PTL DEF SkedsSpec
=================================================================================
