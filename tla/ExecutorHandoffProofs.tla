------------------------- MODULE ExecutorHandoffProofs -------------------------
(***************************************************************************)
(* What the control plane promises about the order of admissions and       *)
(* handoffs: admissions follow the handoffs, an expired lease stays        *)
(* closed, the work handed over is in the checkout that takes over, and an *)
(* emergency leaves a gap.                                                 *)
(***************************************************************************)
EXTENDS ExecutorFailoverProofs

--------------------------------------------------------------------------------
(* Admissions follow the handoffs.                                         *)

\* The one way a step changes the last admission.
LEMMA AdmissionSteps ==
  ASSUME TypeOK, [Next]_vars
  PROVE  \/ UNCHANGED lastGrant
         \/ /\ control # None
            /\ UNCHANGED <<clock, control, keys, config, net>>
            /\ \E now \in Int :
                 /\ Healthy(control, control.primary, now)
                 /\ lastGrant' = [node |-> control.primary, generation |-> control.generation,
                                  now |-> IF lastGrant.generation = control.generation
                                               /\ lastGrant.now > now
                                          THEN lastGrant.now ELSE now]
  <1> USE DEF envelope, node, history
  <1>1. ASSUME NEW now \in Arrivals, NEW m \in net, Authorize(m, now)
        PROVE  /\ control # None
               /\ UNCHANGED <<clock, control, keys, config, net>>
               /\ \E t \in Int :
                    /\ Healthy(control, control.primary, t)
                    /\ lastGrant' = [node |-> control.primary, generation |-> control.generation,
                                     now |-> IF lastGrant.generation = control.generation
                                                  /\ lastGrant.now > t
                                             THEN lastGrant.now ELSE t]
    <2>1. now \in Int
      BY DEF Arrivals
    <2>2. m.from = control.primary /\ m.generation = control.generation
          /\ control # None /\ Healthy(control, control.primary, now)
      BY <1>1 DEF Authorize, MayWrite
    <2> QED
      BY <1>1, <2>1, <2>2 DEF Authorize
  <1>2. ASSUME NEW now \in Arrivals, ServerStep(now)
        PROVE  UNCHANGED lastGrant \/ \E m \in net : Authorize(m, now)
    BY <1>2 DEF ServerStep, OfferCandidate, AcceptReport, Bootstrap, Transition, ApproveVersion
  <1>3. ASSUME NEW n \in Nodes, NodeStep(n)
        PROVE  UNCHANGED lastGrant
    BY <1>3 DEF NodeStep, SendReport, SendAuthorize, Send, Write, Synchronize, BeginLease,
       FinishLease, AbortLease, EditConfig, RotateKey, Enroll
  <1>4. CASE Tick \/ (\E m \in net : Lose(m)) \/ UNCHANGED vars
    BY <1>4 DEF Tick, Lose, vars
  <1> QED
    BY <1>1, <1>2, <1>3, <1>4 DEF Next

\* The last admission is not ahead of the control record.
LastIsPast ==
    lastGrant.generation <= IF control = None THEN 0 ELSE control.generation

LEMMA GenerationGrows ==
  ASSUME TypeOK, Counted, [Next]_vars, control # None
  PROVE  /\ control' # None
         /\ control'.generation \in Nat
         /\ control'.generation >= control.generation
  <1>1. control \in Control /\ control.generation \in Nat
    BY DEF TypeOK, Control
  <1> DEFINE Grows == /\ control' # None
                      /\ control'.generation \in Nat
                      /\ control'.generation >= control.generation
  <1>2. ASSUME NEW now \in Int, control' = HandOver(control, now)
        PROVE  Grows
    <2>1. control' \in Control /\ control'.generation = control.generation + 1
      BY <1>1, <1>2, HandOverType
    <2> QED
      BY <1>1, <2>1, NoneAssumption
  <1>3. CASE control' \in Control /\ control'.generation = control.generation
    BY <1>1, <1>3, NoneAssumption
  <1>4. CASE control' = control
    BY <1>1, <1>4
  <1>5. \/ control' = control
        \/ \E now \in Int : control' = HandOver(control, now)
        \/ control' \in Control /\ control'.generation = control.generation
    BY ControlSteps
  <1> QED
    BY <1>2, <1>3, <1>4, <1>5

LEMMA NextLastIsPast ==
  TypeOK /\ Counted /\ LastIsPast /\ [Next]_vars
    => LastIsPast' /\ lastGrant'.generation >= lastGrant.generation
  <1> SUFFICES ASSUME TypeOK, Counted, LastIsPast, [Next]_vars
               PROVE  LastIsPast' /\ lastGrant'.generation >= lastGrant.generation
    OBVIOUS
  <1> USE DEF LastIsPast
  <1>1. /\ lastGrant.generation \in Nat
        /\ control # None => control \in Control /\ control.generation \in Nat
    BY DEF TypeOK, Control
  <1>2. CASE UNCHANGED lastGrant
    <2>1. CASE control = None
      <3>1. control' = None \/ control'.generation = 1
        BY <2>1, ControlSteps
      <3> QED
        BY <1>1, <1>2, <2>1, <3>1
    <2>2. CASE control # None
      BY <1>1, <1>2, <2>2, GenerationGrows
    <2> QED
      BY <2>1, <2>2
  <1>3. CASE control # None /\ UNCHANGED control /\ lastGrant'.generation = control.generation
    BY <1>1, <1>3
  <1> QED
    BY <1>2, <1>3, AdmissionSteps

\* After an admission for a generation none is given for an earlier one.
THEOREM AdmissionsInOrder == Spec => GrantsFollowHandoffs
  <1>1. Init => LastIsPast
    BY DEF Init, LastIsPast
  <1>2. TypeOK /\ Counted /\ LastIsPast /\ [Next]_vars
          => TypeOK' /\ Counted' /\ LastIsPast' /\ lastGrant'.generation >= lastGrant.generation
    BY NextTypeOK, NextCounted, NextLastIsPast
  <1>3. TypeOK /\ Counted /\ LastIsPast /\ [Next]_vars
          => [lastGrant'.generation >= lastGrant.generation]_vars
    BY <1>2
  <1> QED
    BY <1>1, <1>2, <1>3, InitTypeOK, InitCounted, PTL DEF Spec, GrantsFollowHandoffs

--------------------------------------------------------------------------------
(* An expired lease stays closed.                                          *)

Expired == control # None /\ control.pending /\ clock - Latency >= control.receipt.expiresAt

LEMMA NextExpired ==
  ASSUME TypeOK, Counted, [Next]_vars, Expired
  PROVE  control'.pending /\ grants' = grants
  <1> USE DEF envelope, node, history, Expired
  <1>1. /\ control \in Control /\ clock \in Nat /\ Latency \in Nat
        /\ control.receipt \in Receipt /\ control.receipt.expiresAt \in Int
    BY FailoverAssumption DEF TypeOK, Control, Counted, Receipt
  <1>2. ASSUME NEW now \in Arrivals
        PROVE  ~(control.receipt.expiresAt > now)
    BY <1>1 DEF Arrivals
  <1>3. ASSUME NEW now \in Arrivals, NEW m \in net, AcceptReport(m, now)
        PROVE  control'.pending /\ grants' = grants
    <2>1. control' = ApplyReport(control, m.from, m.body, now) /\ grants' = grants
      BY <1>3 DEF AcceptReport
    <2>2. ~Activates(control, m.from, m.body, now)
      BY <1>2 DEF Activates
    <2>3. control'.pending = (control.pending /\ ~Activates(control, m.from, m.body, now))
      BY <1>1, <2>1 DEF ApplyReport, Control
    <2> QED
      BY <2>1, <2>2, <2>3
  <1>4. ASSUME NEW now \in Arrivals, NEW m \in net, Authorize(m, now)
        PROVE  FALSE
    BY <1>4 DEF Authorize, MayWrite, Healthy
  <1>5. ASSUME NEW now \in Arrivals, NEW m \in net, OfferCandidate(m, now)
        PROVE  control' = control /\ grants' = grants
    BY <1>5 DEF OfferCandidate
  <1>6. ASSUME NEW now \in Arrivals, Bootstrap(now)
        PROVE  FALSE
    BY <1>6 DEF Bootstrap
  <1>7. ASSUME NEW now \in Arrivals, NEW mode \in {"planned", "emergency"},
               Transition(mode, now)
        PROVE  FALSE
    BY <1>7 DEF Transition, Ready
  <1>8. ASSUME NEW now \in Arrivals, NEW version \in Versions,
               ApproveVersion(version, now)
        PROVE  FALSE
    BY <1>8 DEF ApproveVersion, VersionApprovable
  <1>9. ASSUME NEW n \in Nodes, NodeStep(n)
        PROVE  control'.pending /\ grants' = grants
    <2>1. CASE Enroll(n)
      BY <1>1, <2>1 DEF Enroll, Control
    <2> QED
      BY <1>9, <2>1 DEF NodeStep, SendReport, SendAuthorize, Send, Write, Synchronize,
         BeginLease, FinishLease, AbortLease, EditConfig, RotateKey
  <1>10. CASE Tick \/ (\E m \in net : Lose(m)) \/ UNCHANGED vars
    BY <1>10 DEF Tick, Lose, vars
  <1> QED
    BY <1>3, <1>4, <1>5, <1>6, <1>7, <1>8, <1>9, <1>10 DEF Next, ServerStep

\* Once a lease has expired before its primary took it up, no report makes its
\* generation active and nobody is admitted in it, whatever is still in flight.
THEOREM ExpiredLeaseIsClosed == Spec => ExpiredLeaseStaysClosed
  <1>1. TypeOK /\ Counted /\ [Next]_vars => TypeOK' /\ Counted'
    BY NextTypeOK, NextCounted
  <1>2. TypeOK /\ Counted /\ [Next]_vars
          => [control # None /\ control.pending /\ clock - Latency >= control.receipt.expiresAt
              => control'.pending /\ grants' = grants]_vars
    BY NextExpired DEF Expired
  <1> QED
    BY <1>1, <1>2, InitTypeOK, InitCounted, PTL DEF Spec, ExpiredLeaseStaysClosed

--------------------------------------------------------------------------------
(* What travels and what is stored.                                        *)

\* A key in use is the enrolled one or newer; a request shows the clock, the
\* key and the checkout its sender had.
InOrder ==
    /\ \A n \in Nodes : keys[n] <= config[n].key /\ head[n] <= remote
    /\ \A m \in net :
         /\ m.key <= config[m.from].key
         /\ m.at <= NodeClock(m.from)
         /\ m.kind = "report" =>
              /\ m.body.at = m.at
              /\ m.body.checkpoint \in Checkpoint
              /\ m.body.checkpoint.head <= head[m.from]
    /\ \A m, l \in net : m.from = l.from /\ m.key < l.key => m.at <= l.at

\* A request of this step is what its sender shows now.
Shows(m) ==
    /\ m.at = NodeClock(m.from) /\ m.key = config[m.from].key
    /\ m.kind = "report" =>
         /\ m.body.at = m.at
         /\ m.body.checkpoint \in Checkpoint
         /\ m.body.checkpoint.head = head[m.from]

LEMMA Travels ==
  ASSUME TypeOK, InOrder, [Next]_vars
  PROVE  /\ \A n \in Nodes :
              /\ NodeClock(n) <= NodeClock(n)'
              /\ keys[n] <= keys'[n]
              /\ config[n].key <= config'[n].key
              /\ keys'[n] <= config'[n].key
              /\ head[n] <= head'[n]
              /\ head'[n] <= remote'
         /\ \A m \in net' : m \notin net =>
              m.from \in Nodes /\ Shows(m) /\ UNCHANGED <<clock, keys, config, head>>
  <1> USE DEF TypeOK, envelope, node, history
  <1>1. /\ \A n \in Nodes : /\ keys[n] \in Nat /\ config[n].key \in Nat /\ head[n] \in Nat
                             /\ keys[n] <= config[n].key /\ head[n] <= remote
                             /\ NodeClock(n) \in Int
        /\ remote \in Nat /\ clock \in Nat
    BY FailoverAssumption DEF InOrder, Config, NodeClock
  <1> DEFINE Same == UNCHANGED <<clock, keys, config, head, remote>>
             Goal == /\ \A n \in Nodes :
                          /\ NodeClock(n) <= NodeClock(n)'
                          /\ keys[n] <= keys'[n]
                          /\ config[n].key <= config'[n].key
                          /\ keys'[n] <= config'[n].key
                          /\ head[n] <= head'[n]
                          /\ head'[n] <= remote'
                     /\ \A m \in net' : m \notin net =>
                          m.from \in Nodes /\ Shows(m) /\ UNCHANGED <<clock, keys, config, head>>
  <1>2. ASSUME Same
        PROVE  \A n \in Nodes :
                 /\ NodeClock(n) <= NodeClock(n)'
                 /\ keys[n] <= keys'[n]
                 /\ config[n].key <= config'[n].key
                 /\ keys'[n] <= config'[n].key
                 /\ head[n] <= head'[n]
                 /\ head'[n] <= remote'
    <2>1. \A n \in Nodes : NodeClock(n)' = NodeClock(n)
      BY <1>2 DEF NodeClock
    <2> QED
      BY <1>1, <1>2, <2>1
  <1>3. ASSUME Same, net' \subseteq net
        PROVE  Goal
    BY <1>2, <1>3
  <1>4. CASE Tick
    <2>1. \A n \in Nodes : NodeClock(n) <= NodeClock(n)'
      BY <1>1, <1>4, FailoverAssumption DEF Tick, NodeClock
    <2> QED
      BY <1>1, <1>4, <2>1 DEF Tick
  <1>5. ASSUME NEW n \in Nodes, SendReport(n)
        PROVE  Goal
    <2> DEFINE sent(o) == [kind |-> "report", from |-> n, key |-> config[n].key,
               at |-> NodeClock(n), generation |-> config[n].generation,
               body |-> [at |-> NodeClock(n), receivedAt |-> 0,
                         generation |-> config[n].generation,
                         version |-> o.version, smoke |-> o.smoke,
                         service |-> o.service, lease |-> config[n].lease,
                         checkpoint |-> [head |-> head[n], clean |-> o.clean,
                                         generation |-> config[n].generation,
                                         at |-> NodeClock(n)]]]
    <2>1. PICK o \in Observations : Send(sent(o))
      BY <1>5 DEF SendReport
    <2>2. sent(o).from = n /\ Shows(sent(o))
      <3>1. [head |-> head[n], clean |-> o.clean, generation |-> config[n].generation,
             at |-> NodeClock(n)] \in Checkpoint
        BY <1>1, FailoverAssumption DEF Checkpoint, Config
      <3> QED
        BY <3>1 DEF Shows
    <2> HIDE DEF sent
    <2>3. Same /\ net' = net \cup {sent(o)}
      BY <2>1 DEF Send
    <2> QED
      BY <1>2, <2>2, <2>3
  <1>6. ASSUME NEW n \in Nodes, SendAuthorize(n)
        PROVE  Goal
    <2> DEFINE sent == [kind |-> "authorize", from |-> n, key |-> config[n].key,
                        at |-> NodeClock(n), generation |-> config[n].generation]
    <2>1. Send(sent)
      BY <1>6 DEF SendAuthorize
    <2>2. sent.from = n /\ Shows(sent)
      BY DEF Shows
    <2> HIDE DEF sent
    <2>3. Same /\ net' = net \cup {sent}
      BY <2>1 DEF Send
    <2> QED
      BY <1>2, <2>2, <2>3
  <1>7. ASSUME UNCHANGED <<clock, keys, net>>,
               \A q \in Nodes : /\ config[q].key <= config'[q].key
                               /\ head[q] <= head'[q] /\ head'[q] <= remote'
                               /\ keys[q] <= config'[q].key
        PROVE  Goal
    <2>1. \A q \in Nodes : NodeClock(q)' = NodeClock(q)
      BY <1>7 DEF NodeClock
    <2> QED
      BY <1>1, <1>7, <2>1
  <1>8. ASSUME NEW n \in Nodes, NodeStep(n), ~SendReport(n), ~SendAuthorize(n), ~Enroll(n)
        PROVE  Goal
    <2>1. CASE Write(n) \/ Synchronize(n)
      <3>1. /\ remote' \in Nat /\ remote <= remote' /\ UNCHANGED <<clock, keys, config, net>>
            /\ \A q \in Nodes : head'[q] = IF q = n THEN remote' ELSE head[q]
        BY <1>1, <2>1 DEF Write, Synchronize
      <3> QED
        BY <1>1, <1>7, <3>1
    <2>2. CASE BeginLease(n) \/ AbortLease(n)
      BY <1>3, <2>2 DEF BeginLease, AbortLease
    <2>3. CASE FinishLease(n) \/ EditConfig(n)
      <3>1. \A q \in Nodes : config'[q].key = config[q].key
        <4>1. \A q \in Nodes : config[q] \in Config
          OBVIOUS
        <4>2. CASE FinishLease(n)
          <5> DEFINE taken == [config[n] EXCEPT !.generation = leasing[n].generation,
                                                !.lease = leasing[n].generation]
          <5>1. taken.key = config[n].key
            BY <4>1 DEF Config
          <5>2. config' = [config EXCEPT ![n] = taken]
            BY <4>2 DEF FinishLease
          <5> HIDE DEF taken
          <5> QED
            BY <5>1, <5>2
        <4>3. CASE EditConfig(n)
          BY <4>1, <4>3 DEF EditConfig, Config
        <4> QED
          BY <2>3, <4>2, <4>3
      <3> QED
        BY <1>1, <1>7, <2>3, <3>1 DEF FinishLease, EditConfig
    <2>4. CASE RotateKey(n)
      <3>1. \A q \in Nodes : config'[q].key = IF q = n THEN config[q].key + 1 ELSE config[q].key
        BY <2>4 DEF RotateKey, Config
      <3> QED
        BY <1>1, <1>7, <2>4, <3>1 DEF RotateKey
    <2> QED
      BY <1>8, <2>1, <2>2, <2>3, <2>4 DEF NodeStep
  <1>9. ASSUME NEW n \in Nodes, Enroll(n)
        PROVE  Goal
    <2>1. \A q \in Nodes : keys'[q] = IF q = n THEN config[q].key ELSE keys[q]
      BY <1>9 DEF Enroll
    <2>2. \A q \in Nodes : NodeClock(q)' = NodeClock(q)
      BY <1>9 DEF Enroll, NodeClock
    <2> QED
      BY <1>1, <1>9, <2>1, <2>2 DEF Enroll
  <1>10. ASSUME NEW now \in Arrivals, NEW m \in net, Authorize(m, now)
         PROVE  Goal
    BY <1>3, <1>10 DEF Authorize
  <1>11. ASSUME NEW now \in Arrivals, ServerStep(now), ~ \E m \in net : Authorize(m, now)
         PROVE  Goal
    <2>1. Same /\ net' = net
      BY <1>11 DEF ServerStep, OfferCandidate, AcceptReport, Bootstrap, Transition, ApproveVersion
    <2> QED
      BY <1>3, <2>1
  <1>12. CASE (\E m \in net : Lose(m)) \/ UNCHANGED vars
    <2>1. Same /\ net' \subseteq net
      BY <1>12 DEF Lose, vars
    <2> QED
      BY <1>3, <2>1
  <1> QED
    BY <1>4, <1>5, <1>6, <1>8, <1>9, <1>10, <1>11, <1>12 DEF Next

LEMMA NextInOrder == TypeOK /\ InOrder /\ [Next]_vars => InOrder'
  <1> SUFFICES ASSUME TypeOK, InOrder, [Next]_vars
               PROVE  InOrder'
    OBVIOUS
  <1>1. TypeOK'
    BY NextTypeOK
  <1>2. ASSUME NEW m, m \in net \/ m \in net'
        PROVE  /\ m.from \in Nodes /\ m.key \in Nat /\ m.at \in Int
               /\ NodeClock(m.from) \in Int /\ NodeClock(m.from)' \in Int
               /\ config[m.from].key \in Nat /\ config'[m.from].key \in Nat
               /\ head[m.from] \in Nat /\ head'[m.from] \in Nat
    <2>1. m \in ReportRequest \cup AuthorizeRequest
      BY <1>1, <1>2 DEF TypeOK
    <2>2. m.from \in Nodes /\ m.key \in Nat /\ m.at \in Int
      BY <2>1 DEF ReportRequest, AuthorizeRequest
    <2> QED
      BY <1>1, <2>2, FailoverAssumption DEF TypeOK, Config, NodeClock
  <1>3. \A n \in Nodes : keys'[n] <= config'[n].key /\ head'[n] <= remote'
    BY Travels
  <1>4. ASSUME NEW m \in net'
        PROVE  /\ m.key <= config'[m.from].key
               /\ m.at <= NodeClock(m.from)'
               /\ m.kind = "report" =>
                    /\ m.body.at = m.at
                    /\ m.body.checkpoint \in Checkpoint
                    /\ m.body.checkpoint.head <= head'[m.from]
    <2>1. CASE m \in net
      <3>1. /\ m.key <= config[m.from].key
            /\ m.at <= NodeClock(m.from)
            /\ m.kind = "report" =>
                 /\ m.body.at = m.at
                 /\ m.body.checkpoint \in Checkpoint
                 /\ m.body.checkpoint.head <= head[m.from]
        BY <2>1 DEF InOrder
      <3>2. /\ NodeClock(m.from) <= NodeClock(m.from)'
            /\ config[m.from].key <= config'[m.from].key
            /\ head[m.from] <= head'[m.from]
        BY <1>2, Travels
      <3> QED
        BY <1>2, <3>1, <3>2 DEF Checkpoint
    <2>2. CASE m \notin net
      <3>1. Shows(m) /\ UNCHANGED <<clock, config, head>>
        BY <2>2, Travels
      <3> QED
        BY <1>2, <3>1 DEF Shows, NodeClock
    <2> QED
      BY <2>1, <2>2
  <1>5. ASSUME NEW m \in net', NEW l \in net', m.from = l.from, m.key < l.key
        PROVE  m.at <= l.at
    <2>1. CASE m \in net /\ l \in net
      BY <1>5, <2>1 DEF InOrder
    <2>2. CASE l \notin net
      <3>1. l.at = NodeClock(l.from)'
        BY <2>2, Travels DEF Shows, NodeClock
      <3> QED
        BY <1>4, <1>5, <3>1
    <2>3. CASE m \notin net /\ l \in net
      <3>1. m.key = config[l.from].key
        BY <1>5, <2>3, Travels DEF Shows
      <3>2. l.key <= config[l.from].key
        BY <2>3 DEF InOrder
      <3> QED
        BY <1>2, <1>5, <3>1, <3>2
    <2> QED
      BY <2>1, <2>2, <2>3
  <1> QED
    BY <1>3, <1>4, <1>5 DEF InOrder

\* What the record and the candidate say of node n was once said by n: what is
\* stored next is the report of an enrolled key, newer than what it replaces, or
\* the candidate, or nothing, when n gets another key.
Said(n, r, m) ==
    /\ m.kind = "report" /\ m.from = n /\ m.key = keys[n]
    /\ r.at = m.body.at /\ r.checkpoint = m.body.checkpoint

LEMMA Stores ==
  ASSUME TypeOK, [Next]_vars
  PROVE  /\ \/ candidate' \in {None, candidate}
            \/ /\ UNCHANGED <<clock, keys, config, net>>
               /\ \E m \in net : Said("mac", candidate', m)
         /\ candidate' # None /\ UNCHANGED candidate => keys'["mac"] = keys["mac"]
         /\ control # None => control' # None
         /\ \A n \in Nodes : control' # None =>
              \/ /\ control # None /\ control'.nodes[n] = control.nodes[n]
                 /\ control.nodes[n] # None => keys'[n] = keys[n]
              \/ /\ control'.nodes[n] = None
                 /\ control # None => control.nodes[n] # None /\ keys'[n] # keys[n]
                 /\ UNCHANGED <<clock, config, net>>
              \/ /\ UNCHANGED <<clock, keys, config, net>>
                 /\ control'.nodes[n] \in Report
                 /\ \/ control = None /\ n = "mac" /\ candidate \in Report
                       /\ control'.nodes[n].at = candidate.at
                       /\ control'.nodes[n].checkpoint = candidate.checkpoint
                    \/ /\ control # None
                       /\ \E m \in net : Said(n, control'.nodes[n], m)
                       /\ control.nodes[n] # None => control'.nodes[n].at > control.nodes[n].at
  <1> USE DEF TypeOK, envelope, node, history
  <1>0. control # None => control \in Control /\ control.nodes \in [Nodes -> Report \cup {None}]
    BY DEF Control
  <1> DEFINE CandidateStored ==
               /\ \/ candidate' \in {None, candidate}
                  \/ /\ UNCHANGED <<clock, keys, config, net>>
                     /\ \E m \in net : Said("mac", candidate', m)
               /\ candidate' # None /\ UNCHANGED candidate => keys'["mac"] = keys["mac"]
             Kept(n) ==
               /\ control # None /\ control'.nodes[n] = control.nodes[n]
               /\ control.nodes[n] # None => keys'[n] = keys[n]
             Forgotten(n) ==
               /\ control'.nodes[n] = None
               /\ control # None => control.nodes[n] # None /\ keys'[n] # keys[n]
               /\ UNCHANGED <<clock, config, net>>
             Reported(n) ==
               /\ UNCHANGED <<clock, keys, config, net>>
               /\ control'.nodes[n] \in Report
               /\ \/ control = None /\ n = "mac" /\ candidate \in Report
                     /\ control'.nodes[n].at = candidate.at
                     /\ control'.nodes[n].checkpoint = candidate.checkpoint
                  \/ /\ control # None
                     /\ \E m \in net : Said(n, control'.nodes[n], m)
                     /\ control.nodes[n] # None => control'.nodes[n].at > control.nodes[n].at
             Stored == /\ control # None => control' # None
                       /\ \A n \in Nodes : control' # None =>
                            Kept(n) \/ Forgotten(n) \/ Reported(n)
  <1>1. ASSUME UNCHANGED <<control, candidate, keys>>
        PROVE  CandidateStored /\ Stored
    BY <1>1
  <1>2. ASSUME NEW n \in Nodes, NodeStep(n), ~Enroll(n)
        PROVE  UNCHANGED <<control, candidate, keys>>
    BY <1>2 DEF NodeStep, SendReport, SendAuthorize, Send, Write, Synchronize, BeginLease,
       FinishLease, AbortLease, EditConfig, RotateKey
  <1>3. ASSUME NEW n \in Nodes, Enroll(n)
        PROVE  CandidateStored /\ Stored
    <2>1. /\ candidate' = IF n = "mac" THEN None ELSE candidate
          /\ keys' = [keys EXCEPT ![n] = config[n].key] /\ keys[n] # config[n].key
          /\ UNCHANGED <<clock, config, net>>
          /\ control' = IF control = None THEN None
                        ELSE [control EXCEPT !.nodes = [@ EXCEPT ![n] = None]]
      BY <1>3 DEF Enroll
    <2>2. CandidateStored
      BY <2>1
    <2>3. CASE control = None
      BY <2>1, <2>3
    <2>4. CASE control # None
      <3>1. control' # None /\ control'.nodes = [control.nodes EXCEPT ![n] = None]
        BY <1>0, <2>1, <2>4, ForgetType, NoneAssumption DEF Control
      <3>2. ASSUME NEW q \in Nodes, q # n
            PROVE  Kept(q)
        BY <1>0, <2>1, <2>4, <3>1, <3>2
      <3>3. control'.nodes[n] = None
        BY <1>0, <2>4, <3>1
      <3>4. keys'[n] # keys[n]
        BY <2>1
      <3>5. Kept(n) \/ Forgotten(n)
        <4>1. CASE control.nodes[n] = None
          BY <2>4, <3>3, <4>1
        <4>2. CASE control.nodes[n] # None
          BY <2>1, <2>4, <3>3, <3>4, <4>2
        <4> QED
          BY <4>1, <4>2
      <3> QED
        BY <2>2, <3>1, <3>2, <3>5
    <2> QED
      BY <2>2, <2>3, <2>4
  <1>4. ASSUME NEW now \in Arrivals, NEW m \in net, OfferCandidate(m, now)
        PROVE  CandidateStored /\ Stored
    <2>1. /\ candidate' = [m.body EXCEPT !.receivedAt = now] /\ m.kind = "report"
          /\ m.from = "mac" /\ m.key = keys["mac"] /\ control = None
          /\ UNCHANGED <<clock, control, keys, config, net>>
      BY <1>4 DEF OfferCandidate, Verified
    <2>2. m.body \in Report
      BY <2>1 DEF ReportRequest, AuthorizeRequest
    <2>3. candidate'.at = m.body.at /\ candidate'.checkpoint = m.body.checkpoint
      BY <2>1, <2>2 DEF Report
    <2> QED
      BY <2>1, <2>3 DEF Said
  <1>5. ASSUME NEW now \in Arrivals, NEW m \in net, AcceptReport(m, now)
        PROVE  CandidateStored /\ Stored
    <2>1. /\ control # None /\ m.kind = "report" /\ m.key = keys[m.from] /\ candidate' = None
          /\ control' = ApplyReport(control, m.from, m.body, now)
          /\ control.nodes[m.from] # None => m.body.at > control.nodes[m.from].at
          /\ UNCHANGED <<clock, keys, config, net>>
      BY <1>5 DEF AcceptReport, Verified, Acceptable
    <2>2. m.body \in Report /\ m.from \in Nodes /\ now \in Int
      BY <2>1 DEF ReportRequest, AuthorizeRequest, Arrivals
    <2> DEFINE received == [m.body EXCEPT !.receivedAt = now]
    <2>3. received \in Report /\ received.at = m.body.at
          /\ received.checkpoint = m.body.checkpoint
      BY <2>2 DEF Report
    <2>4. control'.nodes = [control.nodes EXCEPT ![m.from] = received] /\ control' # None
      <3>1. ApplyReport(control, m.from, m.body, now) \in Control
        BY <1>0, <2>1, <2>2, ApplyReportType
      <3>2. control' # None
        BY <2>1, <3>1, NoneAssumption
      <3>3. ApplyReport(control, m.from, m.body, now).nodes
              = [control.nodes EXCEPT ![m.from] = received]
        BY <1>0, <2>1 DEF ApplyReport, Control
      <3> QED
        BY <2>1, <3>2, <3>3
    <2> HIDE DEF received
    <2>5. ASSUME NEW n \in Nodes, n = m.from
          PROVE  Reported(n)
      <3>1. control'.nodes[n] = received
        BY <1>0, <2>1, <2>4, <2>5
      <3>2. Said(n, received, m)
        BY <2>1, <2>3, <2>5 DEF Said
      <3> QED
        BY <2>1, <2>3, <2>5, <3>1, <3>2
    <2>6. ASSUME NEW n \in Nodes, n # m.from
          PROVE  Kept(n)
      BY <1>0, <2>1, <2>4, <2>6
    <2> QED
      BY <2>1, <2>4, <2>5, <2>6
  <1>6. ASSUME NEW now \in Arrivals, NEW m \in net, Authorize(m, now)
        PROVE  UNCHANGED <<control, candidate, keys>>
    BY <1>6 DEF Authorize
  <1>7. ASSUME NEW now \in Arrivals, Bootstrap(now)
        PROVE  CandidateStored /\ Stored
    <2>1. /\ control = None /\ candidate \in Report /\ candidate' = None
          /\ control' = BootstrapControl(candidate, now)
          /\ UNCHANGED <<clock, keys, config, net>>
      BY <1>7 DEF Bootstrap
    <2>2. now \in Int
      BY DEF Arrivals
    <2>3. /\ control'.nodes["mac"] = [candidate EXCEPT !.receivedAt = now]
          /\ control'.nodes["vps"] = None
      BY <2>1 DEF BootstrapControl, Nodes
    <2>4. [candidate EXCEPT !.receivedAt = now] \in Report
      BY <2>1, <2>2, ReceivedType
    <2>5. Reported("mac")
      BY <2>1, <2>3, <2>4 DEF Report
    <2>6. Forgotten("vps")
      BY <2>1, <2>3
    <2> QED
      BY <2>1, <2>5, <2>6 DEF Nodes
  <1>8. ASSUME NEW now \in Arrivals, NEW mode \in {"planned", "emergency"},
               Transition(mode, now)
        PROVE  CandidateStored /\ Stored
    <2>1. /\ control # None /\ control' = HandOver(control, now) /\ candidate' = None
          /\ UNCHANGED <<clock, keys, config, net>> /\ now \in Int
      BY <1>8 DEF Transition, Arrivals
    <2>2. control' # None
      <3>1. control' \in Control
        BY <1>0, <2>1, HandOverType
      <3> QED
        BY <3>1, NoneAssumption
    <2>3. control'.nodes = control.nodes
      BY <1>0, <2>1 DEF HandOver, Control
    <2> QED
      BY <2>1, <2>2, <2>3
  <1>9. ASSUME NEW now \in Arrivals, NEW version \in Versions,
               ApproveVersion(version, now)
        PROVE  CandidateStored /\ Stored
    <2>1. /\ control # None /\ control' = [control EXCEPT !.approved = version]
          /\ candidate' = None /\ UNCHANGED <<clock, keys, config, net>>
      BY <1>9 DEF ApproveVersion
    <2>2. control \in Control
      BY <1>0, <2>1
    <2>3. control'.nodes = control.nodes
      BY <2>1, <2>2 DEF Control
    <2>4. control' # None
      <3>1. control' \in Control
        BY <2>1, <2>2 DEF Control
      <3> QED
        BY <3>1, NoneAssumption
    <2> QED
      BY <2>1, <2>3, <2>4
  <1>10. CASE Tick \/ (\E m \in net : Lose(m)) \/ UNCHANGED vars
    <2>1. UNCHANGED <<control, candidate, keys>>
      BY <1>10 DEF Tick, Lose, vars
    <2> QED
      BY <1>1, <2>1
  <1>11. CandidateStored /\ Stored
    BY <1>1, <1>2, <1>3, <1>4, <1>5, <1>6, <1>7, <1>8, <1>9, <1>10 DEF Next, ServerStep
  <1> QED
    BY <1>11

\* Report r is behind node n: n's clock and its requests under newer keys are not
\* earlier, and n's checkout still contains the work the report names.
Behind(n, r) ==
    /\ r.at <= NodeClock(n)
    /\ \A m \in net : m.from = n /\ m.key > keys[n] => r.at <= m.at
    /\ r.checkpoint \in Checkpoint
    /\ r.checkpoint.head <= head[n]

StoredBehind ==
    /\ candidate # None => Behind("mac", candidate)
    /\ control # None => \A n \in Nodes : control.nodes[n] # None => Behind(n, control.nodes[n])

LEMMA StaysBehind ==
  ASSUME TypeOK, InOrder, [Next]_vars, NEW n \in Nodes, NEW r \in Report,
         Behind(n, r), keys'[n] = keys[n]
  PROVE  Behind(n, r)'
  <1>1. /\ r.at \in Int /\ NodeClock(n) \in Int /\ NodeClock(n)' \in Int
        /\ head[n] \in Nat /\ head'[n] \in Nat
    BY NextTypeOK, FailoverAssumption DEF TypeOK, NodeClock, Report
  <1>2. NodeClock(n) <= NodeClock(n)' /\ head[n] <= head'[n]
    BY Travels
  <1>3. ASSUME NEW m \in net', m.from = n, m.key > keys'[n]
        PROVE  r.at <= m.at
    <2>1. CASE m \in net
      BY <1>3, <2>1 DEF Behind
    <2>2. CASE m \notin net
      <3>1. m.at = NodeClock(n)
        BY <1>3, <2>2, Travels DEF Shows
      <3> QED
        BY <3>1 DEF Behind
    <2> QED
      BY <2>1, <2>2
  <1>4. r.checkpoint \in Checkpoint /\ r.checkpoint.head <= head'[n]
    BY <1>1, <1>2 DEF Behind, Checkpoint
  <1> QED
    BY <1>1, <1>2, <1>3, <1>4 DEF Behind

\* A report that an enrolled key signed is behind its sender.
LEMMA SaidIsBehind ==
  ASSUME TypeOK, InOrder, [Next]_vars, UNCHANGED <<clock, keys, config, net>>,
         NEW n \in Nodes, NEW r \in Report, NEW m \in net, Said(n, r, m)
  PROVE  Behind(n, r)'
  <1>1. /\ m.from = n /\ m.key = keys[n] /\ r.at = m.at /\ r.checkpoint = m.body.checkpoint
        /\ m.at <= NodeClock(n) /\ m.body.checkpoint \in Checkpoint
        /\ m.body.checkpoint.head <= head[n]
    BY DEF Said, InOrder
  <1>2. ASSUME NEW l \in net, l.from = n, l.key > keys[n]
        PROVE  m.at <= l.at
    <2>1. l.key \in Nat /\ m.key \in Nat
      BY DEF TypeOK, ReportRequest, AuthorizeRequest
    <2> QED
      BY <1>1, <1>2, <2>1 DEF InOrder
  <1>3. Behind(n, r)
    BY <1>1, <1>2 DEF Behind
  <1> QED
    BY <1>3, StaysBehind

LEMMA NextStoredBehind ==
  TypeOK /\ InOrder /\ StoredBehind /\ [Next]_vars => StoredBehind'
  <1> SUFFICES ASSUME TypeOK, InOrder, StoredBehind, [Next]_vars
               PROVE  StoredBehind'
    OBVIOUS
  <1>1. TypeOK' /\ "mac" \in Nodes
    BY NextTypeOK DEF Nodes
  <1>2. ASSUME candidate' # None
        PROVE  Behind("mac", candidate)'
    <2>1. PICK r \in Report : r = candidate'
      BY <1>1, <1>2 DEF TypeOK
    <2>2. Behind("mac", r)'
      <3>1. CASE UNCHANGED candidate
        <4>1. keys'["mac"] = keys["mac"]
          BY <1>2, <3>1, Stores
        <4>2. Behind("mac", r)
          BY <1>2, <2>1, <3>1 DEF StoredBehind
        <4> QED
          BY <1>1, <4>1, <4>2, StaysBehind
      <3>2. CASE ~ UNCHANGED candidate
        <4>1. UNCHANGED <<clock, keys, config, net>> /\ \E m \in net : Said("mac", candidate', m)
          BY <1>2, <3>2, Stores
        <4>2. \E m \in net : Said("mac", r, m)
          BY <2>1, <4>1
        <4> QED
          BY <1>1, <4>1, <4>2, SaidIsBehind
      <3> QED
        BY <3>1, <3>2
    <2> QED
      BY <2>1, <2>2 DEF Behind
  <1>3. ASSUME NEW n \in Nodes, control' # None, control'.nodes[n] # None
        PROVE  Behind(n, control.nodes[n])'
    <2>1. PICK r \in Report : r = control'.nodes[n]
      BY <1>1, <1>3 DEF TypeOK, Control
    <2>2. CASE control # None /\ r = control.nodes[n] /\ keys'[n] = keys[n]
      <3>1. Behind(n, r)
        BY <1>3, <2>1, <2>2 DEF StoredBehind
      <3>2. Behind(n, r)'
        BY <2>2, <3>1, StaysBehind
      <3> QED
        BY <2>1, <3>2 DEF Behind
    <2>3. CASE /\ UNCHANGED <<clock, keys, config, net>>
               /\ n = "mac" /\ candidate \in Report
               /\ r.at = candidate.at /\ r.checkpoint = candidate.checkpoint
      <3>1. Behind(n, candidate)
        BY <2>3, NoneAssumption DEF StoredBehind
      <3>2. Behind(n, r)
        BY <2>3, <3>1 DEF Behind
      <3>3. Behind(n, r)'
        BY <2>3, <3>2, StaysBehind
      <3> QED
        BY <2>1, <3>3 DEF Behind
    <2>4. CASE UNCHANGED <<clock, keys, config, net>> /\ \E m \in net : Said(n, r, m)
      <3>1. Behind(n, r)'
        BY <2>4, SaidIsBehind
      <3> QED
        BY <2>1, <3>1 DEF Behind
    <2> QED
      BY <1>3, <2>1, <2>2, <2>3, <2>4, Stores
  <1> QED
    BY <1>2, <1>3 DEF StoredBehind

--------------------------------------------------------------------------------
(* The work that is handed over, and the gap an emergency leaves.          *)

LEMMA HandOverSteps ==
  ASSUME TypeOK, Counted, [Next]_vars, HandedOver
  PROVE  /\ control \in Control /\ Ready(control, JudgedAt) /\ JudgedAt \in Int
         /\ control'.primary = Other(control.primary)
  <1>1. control \in Control
    BY DEF TypeOK, HandedOver
  <1>2. PICK now \in Int : Ready(control, now) /\ control' = HandOver(control, now)
    BY ControlSteps DEF HandedOver
  <1>3. JudgedAt = now
    BY <1>1, <1>2, LimitsAssumption DEF JudgedAt, HandOver, Control
  <1> QED
    BY <1>1, <1>2, <1>3, HandOverType

\* The checkout that takes over a generation contains the work handed over with it.
THEOREM WorkIsHandedOver == Spec => HandoffKeepsWork
  <1> DEFINE Inv == TypeOK /\ Counted /\ InOrder /\ StoredBehind
  <1>1. Init => InOrder /\ StoredBehind
    BY DEF Init, InOrder, StoredBehind, Nodes
  <1>2. Inv /\ [Next]_vars => Inv'
    BY NextTypeOK, NextCounted, NextInOrder, NextStoredBehind
  <1>3. ASSUME Inv, [Next]_vars, HandedOver
        PROVE  head[control'.primary] >= control.checkpoint.head
    <2>1. /\ control # None /\ control \in Control
          /\ Ready(control, JudgedAt) /\ control'.primary = Other(control.primary)
      BY <1>3, HandOverSteps DEF HandedOver
    <2> DEFINE n == Other(control.primary)
    <2>2. /\ n \in Nodes /\ control.nodes[n] # None
          /\ control.nodes[n].checkpoint.head = control.checkpoint.head
      BY <2>1 DEF Ready, TargetReady, CheckpointSynchronized, Other, Nodes
    <2>3. control.nodes[n].checkpoint \in Checkpoint
          /\ control.nodes[n].checkpoint.head <= head[n] /\ head[n] \in Nat
      BY <1>3, <2>1, <2>2 DEF StoredBehind, Behind, TypeOK
    <2> QED
      BY <2>1, <2>2, <2>3 DEF Checkpoint
  <1>4. Inv /\ [Next]_vars
          => [HandedOver => head[control'.primary] >= control.checkpoint.head]_vars
    BY <1>3
  <1> QED
    BY <1>1, <1>2, <1>4, InitTypeOK, InitCounted, PTL DEF Spec, HandoffKeepsWork

\* Nothing the server may still store of the primary is older than its last
\* admission by more than the limit of its health.
Recent ==
    control # None /\ lastGrant.generation = control.generation =>
        LET p == control.primary
            low == lastGrant.now - Limit(p)
        IN  IF control.nodes[p] # None
            THEN low <= control.nodes[p].at
            ELSE /\ low <= NodeClock(p)
                 /\ \A m \in net : m.from = p /\ m.key >= keys[p] => low <= m.at

LEMMA NextRecent ==
  TypeOK /\ Counted /\ LastIsPast /\ InOrder /\ StoredBehind /\ Recent /\ [Next]_vars
    => Recent'
  <1> SUFFICES ASSUME TypeOK, Counted, LastIsPast, InOrder, StoredBehind, Recent, [Next]_vars,
                      control' # None, lastGrant'.generation = control'.generation,
                      NEW p \in Nodes, p = control'.primary
               PROVE  IF control'.nodes[p] # None
                      THEN lastGrant'.now - Limit(p) <= control'.nodes[p].at
                      ELSE /\ lastGrant'.now - Limit(p) <= NodeClock(p)'
                           /\ \A m \in net' : m.from = p /\ m.key >= keys'[p]
                                => lastGrant'.now - Limit(p) <= m.at
    <2>1. TypeOK /\ [Next]_vars => TypeOK'
      BY NextTypeOK
    <2>2. TypeOK' /\ control' # None => control'.primary \in Nodes
      BY DEF TypeOK, Control
    <2> QED
      BY <2>1, <2>2 DEF Recent, NodeClock
  <1>1. TypeOK'
    BY NextTypeOK
  <1>2. control # None
    <2>1. ASSUME control = None
          PROVE  FALSE
      <3>1. control'.generation = 1
        BY <2>1, ControlSteps
      <3>2. lastGrant.generation <= 0 /\ lastGrant'.generation = lastGrant.generation
        BY <2>1, AdmissionSteps DEF LastIsPast
      <3> QED
        BY <3>1, <3>2
    <2> QED
      BY <2>1
  <1>3. control \in Control /\ control.generation \in Nat
    BY <1>2 DEF TypeOK, Control
  <1>4. control'.generation = control.generation /\ control.primary = p
    <2>1. CASE UNCHANGED control
      BY <2>1
    <2>2. CASE UNCHANGED lastGrant
      <3>1. lastGrant.generation <= control.generation
        BY <1>2 DEF LastIsPast
      <3>2. ASSUME NEW now \in Int, control' = HandOver(control, now)
            PROVE  FALSE
        <4>1. control'.generation = control.generation + 1
          BY <1>3, <3>2, HandOverType
        <4> QED
          BY <1>3, <2>2, <3>1, <4>1
      <3> QED
        BY <1>2, <3>2, ControlSteps
    <2> QED
      BY <2>1, <2>2, AdmissionSteps
  <1> DEFINE low == lastGrant.now - Limit(p)
  <1>5. /\ lastGrant.now \in Int /\ Limit(p) \in Nat /\ low \in Int
        /\ NodeClock(p) \in Int /\ NodeClock(p)' \in Int
        /\ control.nodes[p] # None => control.nodes[p].at \in Int
    BY <1>1, <1>3, LimitsAssumption, FailoverAssumption
       DEF TypeOK, Control, Limit, NodeClock, Report
  <1>6. CASE ~ UNCHANGED lastGrant
    <2>1. PICK now \in Int :
            /\ UNCHANGED <<clock, control, keys, config, net>>
            /\ Healthy(control, p, now)
            /\ lastGrant'.now = IF lastGrant.generation = control.generation /\ lastGrant.now > now
                                THEN lastGrant.now ELSE now
      BY <1>6, <1>4, AdmissionSteps
    <2>2. control.nodes[p] # None /\ now - control.nodes[p].at <= Limit(p)
      BY <2>1 DEF Healthy, Fresh
    <2>3. lastGrant'.now - Limit(p) <= control.nodes[p].at
      <3>1. CASE lastGrant.generation = control.generation /\ lastGrant.now > now
        BY <1>2, <1>4, <2>1, <2>2, <3>1 DEF Recent
      <3>2. CASE ~(lastGrant.generation = control.generation /\ lastGrant.now > now)
        BY <1>3, <1>5, <2>1, <2>2, <3>2
      <3> QED
        BY <3>1, <3>2
    <2> QED
      BY <2>1, <2>2, <2>3
  <1>7. CASE UNCHANGED lastGrant
    <2>1. /\ control.nodes[p] # None => low <= control.nodes[p].at
          /\ control.nodes[p] = None =>
               /\ low <= NodeClock(p)
               /\ \A m \in net : m.from = p /\ m.key >= keys[p] => low <= m.at
      BY <1>2, <1>7, <1>4 DEF Recent
    <2>2. CASE control'.nodes[p] = control.nodes[p]
      <3>1. CASE control.nodes[p] # None
        BY <1>7, <2>1, <2>2, <3>1
      <3>2. CASE control.nodes[p] = None
        <4>1. low <= NodeClock(p)'
          BY <1>3, <1>5, <2>1, <3>2, Travels
        <4>2. ASSUME NEW m \in net', m.from = p, m.key >= keys'[p]
              PROVE  low <= m.at
          <5>1. m.key \in Nat /\ keys[p] \in Nat /\ keys'[p] \in Nat /\ keys[p] <= keys'[p]
            BY <1>1, <1>3, <1>5, Travels DEF TypeOK, ReportRequest, AuthorizeRequest
          <5>2. CASE m \in net
            BY <2>1, <3>2, <4>2, <5>1, <5>2
          <5>3. CASE m \notin net
            <6>1. m.at = NodeClock(p)
              BY <4>2, <5>3, Travels DEF Shows
            <6> QED
              BY <2>1, <3>2, <6>1
          <5> QED
            BY <5>2, <5>3
        <4> QED
          BY <1>7, <2>2, <3>2, <4>1, <4>2
      <3> QED
        BY <1>7, <2>2, <3>1, <3>2
    <2>3. CASE /\ control'.nodes[p] = None /\ control.nodes[p] # None
               /\ keys'[p] # keys[p] /\ UNCHANGED <<clock, config, net>>
      <3>1. Behind(p, control.nodes[p]) /\ low <= control.nodes[p].at
        BY <1>2, <1>3, <1>5, <2>1, <2>3 DEF StoredBehind
      <3>2. keys[p] \in Nat /\ keys'[p] \in Nat /\ keys'[p] > keys[p] /\ NodeClock(p)' = NodeClock(p)
        <4>1. keys[p] \in Nat /\ keys'[p] \in Nat
          BY <1>1 DEF TypeOK
        <4>2. keys[p] <= keys'[p]
          BY Travels
        <4>3. NodeClock(p)' = NodeClock(p)
          BY <2>3 DEF NodeClock
        <4> QED
          BY <2>3, <4>1, <4>2, <4>3
      <3>3. ASSUME NEW m \in net, m.from = p, m.key >= keys'[p]
            PROVE  low <= m.at
        <4>1. m.key \in Nat /\ m.at \in Int
          BY DEF TypeOK, ReportRequest, AuthorizeRequest
        <4>2. control.nodes[p].at <= m.at
          BY <3>1, <3>2, <3>3, <4>1 DEF Behind
        <4> QED
          BY <1>3, <1>5, <2>3, <3>1, <4>1, <4>2
      <3>4. low <= NodeClock(p)'
        BY <1>3, <1>5, <2>3, <3>1, <3>2 DEF Behind
      <3> QED
        BY <1>7, <2>3, <3>3, <3>4
    <2>4. CASE /\ control'.nodes[p] \in Report
               /\ \E m \in net : Said(p, control'.nodes[p], m)
               /\ control.nodes[p] # None => control'.nodes[p].at > control.nodes[p].at
      <3>1. PICK m \in net : m.from = p /\ m.key = keys[p] /\ control'.nodes[p].at = m.at
        BY <2>4 DEF Said, InOrder
      <3>2. keys[p] \in Nat /\ control'.nodes[p].at \in Int /\ control'.nodes[p] # None
        BY <1>3, <1>5, <2>4, NoneAssumption DEF TypeOK, Report
      <3>3. low <= control'.nodes[p].at
        <4>1. CASE control.nodes[p] # None
          BY <1>3, <1>5, <2>1, <2>4, <3>2, <4>1
        <4>2. CASE control.nodes[p] = None
          BY <2>1, <3>1, <3>2, <4>2
        <4> QED
          BY <4>1, <4>2
      <3> QED
        BY <1>7, <3>2, <3>3
    <2> QED
      BY <1>2, <1>3, <1>5, <2>2, <2>3, <2>4, Stores
  <1> QED
    BY <1>6, <1>7

\* An emergency handoff is judged at least EmergencyAge - Limit after the instant at
\* which the old primary was last admitted.
THEOREM EmergencyComesLate == Spec => EmergencyGap
  <1> DEFINE Inv == TypeOK /\ Counted /\ LastIsPast /\ InOrder /\ StoredBehind /\ Recent
             Gap == HandedOver /\ Mode(control, JudgedAt) = "emergency"
                      /\ lastGrant.generation = control.generation
                    => JudgedAt - lastGrant.now >= EmergencyAge - Limit(control.primary)
  <1>1. Init => LastIsPast /\ InOrder /\ StoredBehind /\ Recent
    BY DEF Init, LastIsPast, InOrder, StoredBehind, Recent, Nodes
  <1>2. Inv /\ [Next]_vars => Inv'
    BY NextTypeOK, NextCounted, NextLastIsPast, NextInOrder, NextStoredBehind, NextRecent
  <1>3. ASSUME Inv, [Next]_vars, HandedOver, Mode(control, JudgedAt) = "emergency",
               lastGrant.generation = control.generation
        PROVE  JudgedAt - lastGrant.now >= EmergencyAge - Limit(control.primary)
    <2> DEFINE p == control.primary
    <2>1. control # None /\ control \in Control /\ Ready(control, JudgedAt) /\ JudgedAt \in Int
      BY <1>3, HandOverSteps DEF HandedOver
    <2>2. ~PrimaryFresh(control, JudgedAt)
      BY <1>3 DEF Mode
    <2>3. control.nodes[p] # None /\ JudgedAt - control.nodes[p].at >= EmergencyAge
      BY <2>1, <2>2 DEF Ready, PrimaryLongSilent
    <2>4. lastGrant.now - Limit(p) <= control.nodes[p].at
      BY <1>3, <2>1, <2>3 DEF Recent
    <2>5. /\ control.nodes[p].at \in Int /\ lastGrant.now \in Int
          /\ Limit(p) \in Int /\ EmergencyAge \in Int
      BY <1>3, <2>1, <2>3, LimitsAssumption DEF TypeOK, Control, Report, Limit
    <2> HIDE DEF p
    <2> QED
      BY <2>1, <2>3, <2>4, <2>5 DEF p
  <1>4. Inv /\ [Next]_vars => [Gap]_vars
    BY <1>3
  <1> QED
    BY <1>1, <1>2, <1>4, InitTypeOK, InitCounted, PTL DEF Spec, EmergencyGap
================================================================================
