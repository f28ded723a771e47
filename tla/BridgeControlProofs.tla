-------------------------- MODULE BridgeControlProofs --------------------------
(***************************************************************************)
(* What holds of the control messages for any number of deploys, helper    *)
(* executions, repeated requests and faults.                               *)
(***************************************************************************)
EXTENDS BridgeControl, SequenceTheorems, TLAPS

--------------------------------------------------------------------------------
(* Types.  Only a deploy goes through the event store.                     *)

CallType == [step : Steps, known : BOOLEAN, told : Notices \cup {""}]
Statuses == {"started", "duplicate", "failed", "blocked", "queued"}

EventsOfDeploys ==
    \A r \in Requests : \A i \in 1..Len(calls[r]) :
        calls[r][i].step \in {"read", "store"} => r \in Deploys

Types == TypeOK /\ EventsOfDeploys

LEMMA InitTypes == Init => Types
  <1> SUFFICES ASSUME Init
               PROVE  Types
    OBVIOUS
  <1>1. calls \in [Requests -> Seq(CallType)] /\ \A r \in Requests : Len(calls[r]) = 0
    BY DEF Init
  <1>2. toBridge \in Seq(Requests) /\ toRoom \in Seq(Results)
    BY DEF Init
  <1>3. launches \in [Requests -> Nat] /\ chat \in [Requests -> SUBSET Notices]
        /\ why \in [Requests -> SUBSET Reasons] /\ faults \in 0..MaxFaults
    BY ControlAssumption DEF Init
  <1>4. events \subseteq Deploys /\ claims \subseteq Requests /\ done \subseteq Requests
        /\ scripts \subseteq Deploys
    BY DEF Init
  <1>5. up \in BOOLEAN /\ stale \in BOOLEAN
    BY DEF Init
  <1>6. EventsOfDeploys
    BY <1>1 DEF EventsOfDeploys
  <1>7. TypeOK
    BY <1>1, <1>2, <1>3, <1>4, <1>5 DEF TypeOK, CallType
  <1> QED
    BY <1>6, <1>7 DEF Types

\* One handler's record is replaced.
LEMMA CallReplaced ==
  ASSUME calls \in [Requests -> Seq(CallType)], EventsOfDeploys,
         NEW r \in Requests, NEW i \in 1..Len(calls[r]), NEW v \in CallType,
         v.step \in {"read", "store"} => r \in Deploys,
         calls' = [calls EXCEPT ![r][i] = v]
  PROVE  calls' \in [Requests -> Seq(CallType)] /\ EventsOfDeploys'
  <1>1. calls[r] \in Seq(CallType)
    OBVIOUS
  <1> DEFINE s == [calls[r] EXCEPT ![i] = v]
  <1>2. s \in Seq(CallType) /\ Len(s) = Len(calls[r])
        /\ \A j \in 1..Len(calls[r]) : s[j] = IF j = i THEN v ELSE calls[r][j]
    BY <1>1, ExceptSeq
  <1>3. calls' = [calls EXCEPT ![r] = s]
    OBVIOUS
  <1> HIDE DEF s
  <1>4. calls' \in [Requests -> Seq(CallType)]
    BY <1>2, <1>3
  <1>5. \A q \in Requests : calls'[q] = IF q = r THEN s ELSE calls[q]
    BY <1>3
  <1> QED
    BY <1>2, <1>4, <1>5 DEF EventsOfDeploys

\* The record of a handler that takes a step.
LEMMA CallTypes ==
  ASSUME Types, NEW r \in Requests, NEW i \in 1..Len(calls[r])
  PROVE  /\ calls \in [Requests -> Seq(CallType)]
         /\ calls[r][i] \in CallType
         /\ calls[r][i] = [step |-> calls[r][i].step, known |-> calls[r][i].known,
                           told |-> calls[r][i].told]
         /\ calls[r][i].step \in {"read", "store"} => r \in Deploys
  <1>1. calls \in [Requests -> Seq(CallType)]
    BY DEF Types, TypeOK, CallType
  <1>2. calls[r] \in Seq(CallType)
    BY <1>1
  <1>3. calls[r][i] \in CallType
    BY <1>2
  <1> QED
    BY <1>1, <1>3 DEF Types, EventsOfDeploys, CallType

LEMMA MoveTypes ==
  ASSUME Types, NEW r \in Requests, NEW i \in 1..Len(calls[r]),
         NEW s \in Steps \ {"read"}, s = "store" => r \in Deploys,
         Move(r, i, s)
  PROVE  calls' \in [Requests -> Seq(CallType)] /\ EventsOfDeploys'
  <1> DEFINE v == [calls[r][i] EXCEPT !.step = s]
  <1>1. v \in CallType /\ v.step = s
    BY CallTypes DEF CallType
  <1>2. calls' = [calls EXCEPT ![r][i] = v]
    BY DEF Move
  <1>3. calls \in [Requests -> Seq(CallType)] /\ EventsOfDeploys
    BY CallTypes DEF Types
  <1> HIDE DEF v
  <1> QED
    BY <1>1, <1>2, <1>3, CallReplaced

LEMMA TellTypes ==
  ASSUME Types, NEW r \in Requests, NEW i \in 1..Len(calls[r]), NEW m \in Notices \cup {""},
         Tell(r, i, m)
  PROVE  calls' \in [Requests -> Seq(CallType)] /\ EventsOfDeploys'
  <1> DEFINE v == Call(IF r \in Deploys THEN "report" ELSE "end", calls[r][i].known, m)
  <1>1. v \in CallType /\ v.step \in {"report", "end"}
    BY CallTypes DEF CallType, Call, Steps
  <1>2. calls' = [calls EXCEPT ![r][i] = v]
    BY DEF Tell
  <1>3. calls \in [Requests -> Seq(CallType)] /\ EventsOfDeploys
    BY CallTypes DEF Types
  <1> HIDE DEF v
  <1> QED
    BY <1>1, <1>2, <1>3, CallReplaced

LEMMA FaultTypes ==
  ASSUME Types, Calm \/ Fault
  PROVE  faults' \in 0..MaxFaults
  <1>1. faults \in 0..MaxFaults
    BY DEF Types, TypeOK
  <1> QED
    BY <1>1, ControlAssumption DEF Calm, Fault

LEMMA BlameTypes ==
  ASSUME Types, NEW rs, NEW reason \in Reasons, Blame(rs, reason)
  PROVE  why' \in [Requests -> SUBSET Reasons]
  BY DEF Types, TypeOK, Blame

\* The steps of a handler write the event store, the claims, the chat and the
\* messages to the bridge; what a bridge does is left alone.
LEMMA HandlerTypes ==
  ASSUME Types, NEW r \in Requests, NEW i \in 1..Len(calls[r]), Handler(r, i) \/ Stop(r, i)
  PROVE  Types'
  <1> USE DEF wire, bridge
  <1>1. /\ calls \in [Requests -> Seq(CallType)] /\ calls[r][i] \in CallType
        /\ calls[r][i].told \in Notices \cup {""}
        /\ calls[r][i].step \in {"read", "store"} => r \in Deploys
    BY CallTypes DEF CallType
  <1>2. calls' \in [Requests -> Seq(CallType)] /\ EventsOfDeploys'
    <2>1. CASE Read(r, i)
      <3>1. CASE calls' = [calls EXCEPT ![r][i] = Call("store", r \in events, "")]
        <4> DEFINE v == Call("store", r \in events, "")
        <4>1. (r \in events) \in BOOLEAN
          OBVIOUS
        <4>2. v \in CallType /\ v.step = "store"
          BY <4>1 DEF CallType, Call, Steps
        <4>3. r \in Deploys
          BY <1>1, <2>1 DEF Read, At
        <4>4. EventsOfDeploys
          BY DEF Types
        <4> HIDE DEF v
        <4> QED
          BY <1>1, <3>1, <4>2, <4>3, <4>4, CallReplaced DEF v
      <3>2. CASE Move(r, i, "store")
        BY <1>1, <2>1, <3>2, MoveTypes DEF Read, At, Steps
      <3> QED
        BY <2>1, <3>1, <3>2 DEF Read
    <2>2. CASE Store(r, i)
      <3>1. CASE Move(r, i, "end")
        BY <3>1, MoveTypes DEF Steps
      <3>2. CASE Move(r, i, "ask")
        BY <3>2, MoveTypes DEF Steps
      <3> QED
        BY <2>2, <3>1, <3>2 DEF Store
    <2>3. CASE \E m \in Notices \cup {""} : Tell(r, i, m)
      BY <2>3, TellTypes
    <2>4. CASE Move(r, i, "end")
      BY <2>4, MoveTypes DEF Steps
    <2> QED
      BY <2>1, <2>2, <2>3, <2>4 DEF Handler, Refuse, Claimed, Unavailable, Send, Answer, Report,
         Stop, Notices
  <1>3. events' \subseteq Deploys /\ claims' \subseteq Requests
    BY <1>1 DEF Handler, Read, Store, Refuse, Claimed, Unavailable, Send, Report, Stop, At, Types,
       TypeOK
  <1>4. UNCHANGED <<up, stale, toRoom, done, launches, scripts>>
    BY DEF Handler, Read, Store, Refuse, Claimed, Unavailable, Send, Report, Stop
  <1>5. toBridge' \in Seq(Requests)
    <2>1. toBridge' = toBridge \/ toBridge' = Append(toBridge, r)
      BY DEF Handler, Read, Store, Refuse, Claimed, Unavailable, Send, Report, Stop
    <2>2. toBridge \in Seq(Requests)
      BY DEF Types, TypeOK
    <2> QED
      BY <2>1, <2>2, AppendProperties
  <1>6. chat' \in [Requests -> SUBSET Notices]
    <2>1. \/ chat' = chat
          \/ chat' = [chat EXCEPT ![r] = @ \cup ({calls[r][i].told} \ {""})]
      BY DEF Handler, Read, Store, Refuse, Claimed, Unavailable, Send, Report, Stop
    <2> QED
      BY <1>1, <2>1 DEF Types, TypeOK
  <1>7. why' \in [Requests -> SUBSET Reasons]
    <2>1. \/ why' = why
          \/ \E reason \in Reasons : Blame({r}, reason)
      BY DEF Handler, Read, Store, Refuse, Claimed, Unavailable, Send, Report, Stop, Reasons
    <2> QED
      BY <2>1, BlameTypes DEF Types, TypeOK
  <1>8. faults' \in 0..MaxFaults
    <2>1. Calm \/ Fault
      BY DEF Handler, Read, Store, Refuse, Claimed, Unavailable, Send, Answer, Report, Stop
    <2> QED
      BY <2>1, FaultTypes
  <1> QED
    BY <1>2, <1>3, <1>4, <1>5, <1>6, <1>7, <1>8 DEF Types, TypeOK, CallType

\* What the connections, the bridge, its scripts and the room do with a result.
LEMMA PostTypes ==
  ASSUME Types, NEW r \in Requests, Post(r)
  PROVE  Types'
  <1> DEFINE v == Call(IF r \in Deploys THEN "read" ELSE "ask", FALSE, "")
  <1>1. calls \in [Requests -> Seq(CallType)] /\ EventsOfDeploys
    BY DEF Types, TypeOK, CallType
  <1>2. v \in CallType /\ (v.step \in {"read", "store"} => r \in Deploys)
    BY DEF CallType, Call, Steps
  <1>3. calls' = [calls EXCEPT ![r] = Append(calls[r], v)]
    BY DEF Post
  <1> HIDE DEF v
  <1>4. calls[r] \in Seq(CallType)
    BY <1>1
  <1>5. Append(calls[r], v) \in Seq(CallType) /\ Len(Append(calls[r], v)) = Len(calls[r]) + 1
        /\ \A j \in 1..Len(calls[r]) : Append(calls[r], v)[j] = calls[r][j]
        /\ Append(calls[r], v)[Len(calls[r]) + 1] = v
    BY <1>2, <1>4, AppendProperties
  <1>6. calls' \in [Requests -> Seq(CallType)]
    BY <1>1, <1>3, <1>5
  <1>7. EventsOfDeploys'
    <2>1. ASSUME NEW q \in Requests, NEW i \in 1..Len(calls'[q]),
                 calls'[q][i].step \in {"read", "store"}
          PROVE  q \in Deploys
      <3>1. CASE q # r
        BY <1>1, <1>3, <2>1, <3>1 DEF EventsOfDeploys
      <3>2. CASE q = r
        <4>1. calls'[r] = Append(calls[r], v)
          BY <1>1, <1>3
        <4>2. CASE i = Len(calls[r]) + 1
          BY <1>2, <1>5, <2>1, <3>2, <4>1, <4>2
        <4>3. CASE i # Len(calls[r]) + 1
          <5>1. i \in 1..Len(calls[r])
            BY <1>4, <1>5, <2>1, <3>2, <4>1, <4>3
          <5> QED
            BY <1>1, <1>5, <2>1, <3>2, <4>1, <5>1 DEF EventsOfDeploys
        <4> QED
          BY <4>2, <4>3
      <3> QED
        BY <3>1, <3>2
    <2> QED
      BY <2>1 DEF EventsOfDeploys
  <1>8. UNCHANGED <<events, claims, up, stale, toBridge, toRoom, done, launches, scripts, chat, why,
                    faults>>
    BY DEF Post, Calm, wire, bridge
  <1> QED
    BY <1>6, <1>7, <1>8 DEF Types, TypeOK, CallType

LEMMA LinkTypes ==
  ASSUME Types,
         \/ Connect \/ Forget \/ Disconnect \/ BridgeStops
         \/ \E r \in Requests : GiveUp(r) \/ RestartBridge(r)
  PROVE  Types'
  <1> USE DEF wire, bridge
  <1>1. UNCHANGED <<calls, events, claims, chat, launches>>
    BY DEF Connect, Forget, Disconnect, BridgeStops, GiveUp, RestartBridge
  <1>2. EventsOfDeploys'
    BY <1>1 DEF Types, EventsOfDeploys
  <1>3. up' \in BOOLEAN /\ stale' \in BOOLEAN
    <2>1. up \in BOOLEAN /\ stale \in BOOLEAN
      BY DEF Types, TypeOK
    <2>2. CASE Cut
      BY <2>1, <2>2 DEF Cut
    <2>3. CASE Connect \/ Forget \/ UNCHANGED wire
      BY <2>1, <2>3 DEF Connect, Forget
    <2> QED
      BY <2>2, <2>3 DEF Disconnect, BridgeStops, GiveUp, RestartBridge
  <1>4. toBridge' \in Seq(Requests) /\ toRoom' \in Seq(Results)
    <2>1. toBridge \in Seq(Requests) /\ toRoom \in Seq(Results)
      BY DEF Types, TypeOK
    <2>2. (toBridge' = << >> /\ toRoom' = << >>) \/ UNCHANGED <<toBridge, toRoom>>
      BY DEF Connect, Forget, Disconnect, BridgeStops, GiveUp, RestartBridge, Cut
    <2>3. CASE toBridge' = << >> /\ toRoom' = << >>
      BY <2>3
    <2>4. CASE UNCHANGED <<toBridge, toRoom>>
      BY <2>1, <2>4
    <2> QED
      BY <2>2, <2>3, <2>4
  <1>5. done' \subseteq Requests /\ scripts' \subseteq Deploys
    BY DEF Connect, Forget, Disconnect, BridgeStops, GiveUp, RestartBridge, Types, TypeOK
  <1>6. why' \in [Requests -> SUBSET Reasons]
    <2>1. why' = why \/ Blame(Travelling \cup Answering, "wire")
      BY DEF Connect, Forget, Disconnect, BridgeStops, GiveUp, RestartBridge, Cut
    <2> QED
      BY <2>1, BlameTypes DEF Reasons, Types, TypeOK
  <1>7. faults' \in 0..MaxFaults
    BY FaultTypes DEF Connect, Forget, Disconnect, BridgeStops, GiveUp, RestartBridge
  <1> QED
    BY <1>1, <1>2, <1>3, <1>4, <1>5, <1>6, <1>7 DEF Types, TypeOK

LEMMA BridgeTypes ==
  ASSUME Types, NEW r \in Requests, Launch(r) \/ LaunchFails(r) \/ Enqueue(r)
  PROVE  Types'
  <1> USE DEF bridge
  <1>1. UNCHANGED <<calls, events, claims, up, stale, chat>>
    BY DEF Launch, LaunchFails, Enqueue
  <1>2. EventsOfDeploys'
    BY <1>1 DEF Types, EventsOfDeploys
  <1>3. toBridge' \in Seq(Requests) /\ toRoom' \in Seq(Results)
    <2>1. PICK s \in Statuses : Reply(r, s)
      BY DEF Launch, LaunchFails, Enqueue, Statuses
    <2>2. toBridge \in Seq(Requests) /\ toBridge # << >> /\ toRoom \in Seq(Results)
      BY DEF Launch, LaunchFails, Enqueue, Reads, Types, TypeOK
    <2>3. Result(r, s) \in Results
      BY DEF Results, Statuses
    <2> QED
      BY <2>1, <2>2, <2>3, AppendProperties, HeadTailProperties DEF Reply
  <1>4. done' \subseteq Requests /\ scripts' \subseteq Deploys
    BY DEF Launch, LaunchFails, Enqueue, Types, TypeOK
  <1>5. launches' \in [Requests -> Nat]
    <2>1. \/ launches' = launches
          \/ launches' = [launches EXCEPT ![r] = @ + 1]
          \/ launches' = [launches EXCEPT ![r] = IF r \in done THEN @ ELSE @ + 1]
      BY DEF Launch, LaunchFails, Enqueue
    <2>2. launches \in [Requests -> Nat]
      BY DEF Types, TypeOK
    <2> QED
      BY <2>1, <2>2
  <1>6. why' \in [Requests -> SUBSET Reasons]
    <2>1. why' = why \/ Blame({r}, "failed")
      BY DEF Launch, LaunchFails, Enqueue
    <2> QED
      BY <2>1, BlameTypes DEF Reasons, Types, TypeOK
  <1>7. faults' \in 0..MaxFaults
    BY FaultTypes DEF Launch, LaunchFails, Enqueue
  <1> QED
    BY <1>1, <1>2, <1>3, <1>4, <1>5, <1>6, <1>7 DEF Types, TypeOK

\* A result of a launch that failed has no repository, so a claim is never taken back.
LEMMA ReceiveKeepsClaims ==
  ASSUME Types, Receive
  PROVE  /\ claims' = claims /\ toRoom \in Seq(Results) /\ toRoom # << >>
         /\ Head(toRoom) \in Results
  <1>1. toRoom \in Seq(Results) /\ toRoom # << >>
    BY DEF Receive, Types, TypeOK
  <1>2. Head(toRoom) \in Results
    BY <1>1, HeadTailProperties
  <1>3. ~(Head(toRoom).status = "failed" /\ Head(toRoom).repository)
    <2>1. PICK r \in Requests, s \in Statuses : Head(toRoom) = Result(r, s)
      BY <1>2 DEF Results, Statuses
    <2>2. Head(toRoom).status = s
      BY <2>1 DEF Result
    <2>3. Head(toRoom).repository = (s # "failed")
      BY <2>1 DEF Result
    <2> QED
      BY <2>2, <2>3
  <1> QED
    BY <1>1, <1>2, <1>3 DEF Receive, Release

LEMMA ReceiveTypes ==
  ASSUME Types, Receive
  PROVE  Types'
  <1>1. UNCHANGED <<calls, events, claims, up, stale, toBridge, done, launches, scripts, why, faults>>
    BY ReceiveKeepsClaims DEF Receive, bridge, Calm
  <1>2. EventsOfDeploys'
    BY <1>1 DEF Types, EventsOfDeploys
  <1>3. toRoom' \in Seq(Results)
    BY ReceiveKeepsClaims, HeadTailProperties DEF Receive
  <1>4. chat' \in [Requests -> SUBSET Notices]
    <2> DEFINE res == Head(toRoom)
    <2>1. res.request \in Requests /\ {res.status} \ {"started"} \subseteq Notices
      BY ReceiveKeepsClaims DEF Results, Result, Notices
    <2>2. chat' = [chat EXCEPT ![res.request] = @ \cup ({res.status} \ {"started"})]
      BY DEF Receive
    <2>3. chat \in [Requests -> SUBSET Notices]
      BY DEF Types, TypeOK
    <2> HIDE DEF res
    <2> QED
      BY <2>1, <2>2, <2>3
  <1> QED
    BY <1>1, <1>2, <1>3, <1>4 DEF Types, TypeOK

LEMMA NextTypes == Types /\ [Next]_vars => Types'
  <1> SUFFICES ASSUME Types, [Next]_vars
               PROVE  Types'
    OBVIOUS
  <1>1. ASSUME NEW r \in Requests, NEW i \in 1..MaxTries, Handler(r, i) \/ Stop(r, i)
        PROVE  Types'
    <2>1. i \in 1..Len(calls[r])
      BY <1>1 DEF Handler, Read, Store, Refuse, Claimed, Unavailable, Send, Report, Stop, At
    <2> QED
      BY <1>1, <2>1, HandlerTypes
  <1>2. CASE UNCHANGED vars
    BY <1>2 DEF vars, Types, TypeOK, EventsOfDeploys
  <1> QED
    BY <1>1, <1>2, PostTypes, LinkTypes, BridgeTypes, ReceiveTypes DEF Next, Bridge, Script

\* The handlers, the messages under way, the bridge's memory and the notices
\* are always what the code can write.
THEOREM ControlTypes == Spec => []TypeOK
  <1>1. Types => TypeOK
    BY DEF Types
  <1> QED
    BY <1>1, InitTypes, NextTypes, PTL DEF Spec

--------------------------------------------------------------------------------
(* One launch, and a reason for every claim.                               *)

\* The room's claim stands before the message is under way, and stays: a request
\* that is not claimed has left no trace, one that is claimed is under way once or
\* was launched, lost or given up, and the bridge remembers what it has launched.
ClaimedOnce ==
    /\ \A r \in Requests :
          /\ r \notin claims => r \notin Travelling /\ launches[r] = 0
          /\ r \in Travelling => launches[r] = 0
          /\ launches[r] <= 1
          /\ r \in claims => r \in Travelling \/ launches[r] > 0 \/ why[r] \cap {"wire", "failed"} # {}
          /\ r \in done => launches[r] > 0
    /\ \A i, j \in 1..Len(toBridge) : toBridge[i] = toBridge[j] => i = j

Control == Types /\ ClaimedOnce

LEMMA InitClaimed == Init => ClaimedOnce
  <1> SUFFICES ASSUME Init
               PROVE  ClaimedOnce
    OBVIOUS
  <1>1. Travelling = {} /\ Len(toBridge) = 0
    BY DEF Init, Travelling
  <1>2. claims = {} /\ done = {} /\ \A r \in Requests : launches[r] = 0
    BY DEF Init
  <1> QED
    BY <1>1, <1>2 DEF ClaimedOnce

LEMMA BlameGrows ==
  ASSUME Types, why' = why \/ \E rs, reason : Blame(rs, reason)
  PROVE  \A r \in Requests : why[r] \subseteq why'[r]
  BY DEF Blame

\* Steps that neither claim nor send nor launch; a fault may be noted.
LEMMA ClaimedStays ==
  ASSUME Types, ClaimedOnce, UNCHANGED <<claims, toBridge, launches, done>>,
         why' = why \/ \E rs, reason : Blame(rs, reason)
  PROVE  ClaimedOnce'
  <1>1. \A r \in Requests : why[r] \subseteq why'[r]
    BY BlameGrows
  <1>2. Travelling' = Travelling
    BY DEF Travelling
  <1> QED
    BY <1>1, <1>2 DEF ClaimedOnce

\* The claim and the message of a request that was not claimed before.
LEMMA SendClaimed ==
  ASSUME Types, ClaimedOnce, NEW r \in Requests, NEW i \in 1..MaxTries, Send(r, i)
  PROVE  ClaimedOnce'
  <1>1. r \notin claims /\ claims' = claims \cup {r} /\ UNCHANGED <<launches, done>>
    BY DEF Send, bridge
  <1>2. r \notin Travelling /\ launches[r] = 0
    BY <1>1 DEF ClaimedOnce
  <1>3. toBridge \in Seq(Requests) /\ why \in [Requests -> SUBSET Reasons]
    BY DEF Types, TypeOK
  <1>4. CASE up /\ toBridge' = Append(toBridge, r) /\ UNCHANGED why
    <2>1. Len(toBridge') = Len(toBridge) + 1 /\ toBridge'[Len(toBridge) + 1] = r
          /\ \A j \in 1..Len(toBridge) : toBridge'[j] = toBridge[j]
      BY <1>3, <1>4, AppendProperties
    <2>2. Len(toBridge) \in Nat
      BY <1>3
    <2>3. \A j \in 1..Len(toBridge') : j \in 1..Len(toBridge) \/ j = Len(toBridge) + 1
      BY <2>1, <2>2
    <2>4. \A j \in 1..Len(toBridge) : j \in 1..Len(toBridge')
      BY <2>1, <2>2
    <2>5. Travelling' = Travelling \cup {r}
      BY <2>1, <2>2, <2>3, <2>4 DEF Travelling
    <2>6. \A j \in 1..Len(toBridge) : toBridge[j] # r
      BY <1>2 DEF Travelling
    <2>7. \A j, k \in 1..Len(toBridge') : toBridge'[j] = toBridge'[k] => j = k
      BY <2>1, <2>3, <2>6 DEF ClaimedOnce
    <2> QED
      BY <1>1, <1>2, <1>4, <2>5, <2>7 DEF ClaimedOnce
  <1>5. CASE UNCHANGED toBridge /\ Blame({r}, "wire")
    <2>1. Travelling' = Travelling
      BY <1>5 DEF Travelling
    <2>2. why'[r] = why[r] \cup {"wire"} /\ \A q \in Requests : why[q] \subseteq why'[q]
      BY <1>5 DEF Blame
    <2> QED
      BY <1>1, <1>2, <1>5, <2>1, <2>2 DEF ClaimedOnce
  <1> QED
    BY <1>4, <1>5 DEF Send

\* A cut loses what is under way, and is noted for each of it.
LEMMA CutClaimed ==
  ASSUME Types, ClaimedOnce, Cut, UNCHANGED <<claims, launches>>, done' \subseteq done
  PROVE  ClaimedOnce'
  <1>1. Travelling' = {} /\ Len(toBridge') = 0
    BY DEF Cut, Travelling
  <1>2. \A r \in Requests : why[r] \subseteq why'[r] /\ (r \in Travelling => "wire" \in why'[r])
    BY DEF Cut, Blame
  <1> QED
    BY <1>1, <1>2 DEF ClaimedOnce

\* The bridge takes the first message, whatever it makes of it.
LEMMA HeadTaken ==
  ASSUME Types, ClaimedOnce, NEW r \in Requests, Reads(r), toBridge' = Tail(toBridge)
  PROVE  /\ r \in Travelling /\ Travelling' = Travelling \ {r}
         /\ \A i, j \in 1..Len(toBridge') : toBridge'[i] = toBridge'[j] => i = j
  <1>1. toBridge \in Seq(Requests) /\ toBridge # << >> /\ r = toBridge[1]
    <2>1. toBridge \in Seq(Requests)
      BY DEF Types, TypeOK
    <2>2. toBridge # << >> /\ r = Head(toBridge)
      BY DEF Reads
    <2> QED
      BY <2>1, <2>2
  <1>2. Len(toBridge) \in Nat /\ Len(toBridge) > 0 /\ Len(toBridge') = Len(toBridge) - 1
        /\ \A i \in 1..Len(toBridge') : toBridge'[i] = toBridge[i + 1]
    BY <1>1, HeadTailProperties
  <1>3. \A i \in 1..Len(toBridge') : i + 1 \in 1..Len(toBridge) /\ i + 1 # 1
    BY <1>2
  <1>4. \A i \in 1..Len(toBridge) : i # 1 => i - 1 \in 1..Len(toBridge') /\ (i - 1) + 1 = i
    BY <1>2
  <1>5. 1 \in 1..Len(toBridge)
    BY <1>2
  <1>6. r \in Travelling
    BY <1>1, <1>5 DEF Travelling
  <1>7. Travelling' \subseteq Travelling \ {r}
    BY <1>1, <1>2, <1>3, <1>5 DEF Travelling, ClaimedOnce
  <1>8. Travelling \ {r} \subseteq Travelling'
    <2> SUFFICES ASSUME NEW i \in 1..Len(toBridge), toBridge[i] # r
                 PROVE  toBridge[i] \in Travelling'
      BY DEF Travelling
    <2>1. i # 1
      BY <1>1
    <2>2. toBridge[i] = toBridge'[i - 1] /\ i - 1 \in 1..Len(toBridge')
      BY <1>2, <1>4, <2>1
    <2> QED
      BY <2>2 DEF Travelling
  <1>9. \A i, j \in 1..Len(toBridge') : toBridge'[i] = toBridge'[j] => i = j
    <2> SUFFICES ASSUME NEW i \in 1..Len(toBridge'), NEW j \in 1..Len(toBridge'),
                        toBridge'[i] = toBridge'[j]
                 PROVE  i = j
      OBVIOUS
    <2>1. i + 1 = j + 1
      BY <1>2, <1>3 DEF ClaimedOnce
    <2> QED
      BY <2>1
  <1> QED
    BY <1>6, <1>7, <1>8, <1>9

LEMMA BridgeClaimed ==
  ASSUME Types, ClaimedOnce, NEW r \in Requests,
         Launch(r) \/ LaunchFails(r) \/ Enqueue(r)
  PROVE  ClaimedOnce'
  <1>1. Reads(r) /\ toBridge' = Tail(toBridge) /\ claims' = claims
    BY DEF Launch, LaunchFails, Enqueue, Reply
  <1>2. /\ r \in Travelling /\ Travelling' = Travelling \ {r}
        /\ \A i, j \in 1..Len(toBridge') : toBridge'[i] = toBridge'[j] => i = j
    BY <1>1, HeadTaken
  <1>3. launches \in [Requests -> Nat] /\ why \in [Requests -> SUBSET Reasons]
    BY DEF Types, TypeOK
  <1>4. launches[r] = 0
    BY <1>2 DEF ClaimedOnce
  <1>5. CASE /\ launches' = [launches EXCEPT ![r] = @ + 1]
             /\ done' \subseteq done \cup {r} /\ UNCHANGED why
    <2>1. launches'[r] = 1 /\ \A q \in Requests \ {r} : launches'[q] = launches[q]
      BY <1>3, <1>4, <1>5
    <2> QED
      BY <1>1, <1>2, <1>5, <2>1 DEF ClaimedOnce
  <1>6. CASE Blame({r}, "failed") /\ UNCHANGED <<done, launches>>
    <2>1. why'[r] = why[r] \cup {"failed"} /\ \A q \in Requests : why[q] \subseteq why'[q]
      BY <1>6 DEF Blame
    <2> QED
      BY <1>1, <1>2, <1>6, <2>1 DEF ClaimedOnce
  <1>7. r \notin done
    BY <1>3, <1>4 DEF ClaimedOnce
  <1> QED
    BY <1>5, <1>6, <1>7 DEF Launch, LaunchFails, Enqueue, bridge

LEMMA NextClaimed == Control /\ [Next]_vars => ClaimedOnce'
  <1> SUFFICES ASSUME Types, ClaimedOnce, [Next]_vars
               PROVE  ClaimedOnce'
    BY DEF Control
  <1> USE DEF wire, bridge
  <1>1. ASSUME NEW r \in Requests, Post(r)
        PROVE  ClaimedOnce'
    BY <1>1, ClaimedStays DEF Post
  <1>2. ASSUME NEW r \in Requests, NEW i \in 1..MaxTries, Handler(r, i) \/ Stop(r, i)
        PROVE  ClaimedOnce'
    <2>1. CASE Send(r, i)
      BY <2>1, SendClaimed
    <2>2. CASE ~Send(r, i)
      <3>1. UNCHANGED <<claims, toBridge, launches, done>>
        BY <1>2, <2>2 DEF Handler, Read, Store, Refuse, Claimed, Unavailable, Report, Stop
      <3>2. why' = why \/ \E rs, reason : Blame(rs, reason)
        BY <1>2, <2>2 DEF Handler, Read, Store, Refuse, Claimed, Unavailable, Report, Stop
      <3> QED
        BY <3>1, <3>2, ClaimedStays
    <2> QED
      BY <2>1, <2>2
  <1>3. CASE Connect \/ Forget \/ \E r \in Requests : GiveUp(r)
    BY <1>3, ClaimedStays DEF Connect, Forget, GiveUp
  <1>4. CASE Disconnect \/ BridgeStops \/ \E r \in Requests : RestartBridge(r)
    BY <1>4, CutClaimed DEF Disconnect, BridgeStops, RestartBridge
  <1>5. CASE Receive
    BY <1>5, ReceiveKeepsClaims, ClaimedStays DEF Receive
  <1>6. CASE UNCHANGED vars
    BY <1>6, ClaimedStays DEF vars
  <1> QED
    BY <1>1, <1>2, <1>3, <1>4, <1>5, <1>6, BridgeClaimed DEF Next, Bridge, Script

LEMMA ControlInvariant == Spec => []Control
  <1>1. Init => Control
    BY InitTypes, InitClaimed DEF Control
  <1>2. Control /\ [Next]_vars => Control'
    BY NextTypes, NextClaimed DEF Control
  <1> QED
    BY <1>1, <1>2, PTL DEF Spec

\* Repeated events and requests, overlapping handlers and a bridge that forgets
\* launch nothing twice.
THEOREM LaunchedOnce == Spec => []OneLaunch
  <1>1. Control => OneLaunch
    BY DEF Control, ClaimedOnce, OneLaunch
  <1> QED
    BY <1>1, ControlInvariant, PTL

\* A claim that outlives its attempt stands for a launch, a lost message or a bridge
\* that failed to act: the code has no fourth way to leave one behind.
THEOREM ClaimsExplained == Spec => []ClaimHasReason
  <1>1. Control => ClaimHasReason
    <2> SUFFICES ASSUME Control, NEW r \in claims, Quiet(r)
                 PROVE  launches[r] > 0 \/ why[r] \cap {"wire", "failed"} # {}
      BY DEF ClaimHasReason
    <2>1. r \in Requests
      BY DEF Control, Types, TypeOK
    <2>2. r \notin Travelling
      BY DEF Quiet
    <2> QED
      BY <2>1, <2>2 DEF Control, ClaimedOnce
  <1> QED
    BY <1>1, ControlInvariant, PTL
================================================================================
