------------------------- MODULE ExecutorFailoverProofs --------------------------
(***************************************************************************)
(* What holds of the executor control plane for every limit, latency,      *)
(* clock offset and number of requests in flight.                          *)
(***************************************************************************)
EXTENDS ExecutorFailover, TLAPS

--------------------------------------------------------------------------------
(* The rules keep the control record well formed.                          *)

\* A stored report is the report sent, with the server's receive time.
LEMMA ReceivedType ==
  ASSUME NEW r \in Report, NEW now \in Int
  PROVE  [r EXCEPT !.receivedAt = now] \in Report
  BY DEF Report

LEMMA ApplyReportType ==
  ASSUME NEW c \in Control, NEW n \in Nodes, NEW r \in Report, NEW now \in Int
  PROVE  ApplyReport(c, n, r, now) \in Control
  <1> DEFINE received == [r EXCEPT !.receivedAt = now]
             nodes == [c.nodes EXCEPT ![n] = received]
             pending == c.pending /\ ~Activates(c, n, r, now)
             checkpoint == IF n = c.primary /\ r.generation = c.generation
                                /\ r.checkpoint # None
                           THEN r.checkpoint ELSE c.checkpoint
  <1>1. received \in Report
    BY ReceivedType
  <1>2. nodes \in [Nodes -> Report \cup {None}]
    BY <1>1 DEF Control
  <1>3. pending \in BOOLEAN
    OBVIOUS
  <1>4. checkpoint \in Checkpoint \cup {None}
    BY DEF Control, Report
  <1>5. ApplyReport(c, n, r, now)
          = [c EXCEPT !.nodes = nodes, !.pending = pending, !.checkpoint = checkpoint]
    BY DEF ApplyReport
  <1> HIDE DEF nodes, pending, checkpoint
  <1> QED
    BY <1>2, <1>3, <1>4, <1>5 DEF Control

LEMMA BootstrapType ==
  ASSUME NEW r \in Report, NEW now \in Int
  PROVE  BootstrapControl(r, now) \in Control
  <1>1. [n \in Nodes |-> IF n = "mac" THEN [r EXCEPT !.receivedAt = now] ELSE None]
          \in [Nodes -> Report \cup {None}]
    BY ReceivedType
  <1> QED
    BY <1>1 DEF BootstrapControl, Control, Report, Nodes

LEMMA HandOverType ==
  ASSUME NEW c \in Control, NEW now \in Int
  PROVE  /\ HandOver(c, now) \in Control
         /\ HandOver(c, now).primary = Other(c.primary)
         /\ HandOver(c, now).generation = c.generation + 1
         /\ HandOver(c, now).pending = TRUE
         /\ HandOver(c, now).receipt \in Receipt
         /\ HandOver(c, now).receipt.generation = c.generation + 1
  <1> DEFINE receipt == [to |-> Other(c.primary), generation |-> c.generation + 1,
                         expiresAt |-> now + LeaseTtl]
  <1>1. Other(c.primary) \in Nodes
    BY DEF Other, Nodes
  <1>2. now + LeaseTtl \in Int /\ c.generation + 1 \in Nat
    BY LimitsAssumption DEF Control
  <1>3. receipt \in Receipt /\ receipt.generation = c.generation + 1
    BY <1>1, <1>2 DEF Receipt
  <1>4. HandOver(c, now) = [c EXCEPT !.primary = Other(@), !.generation = @ + 1,
                                     !.pending = TRUE, !.receipt = receipt]
    BY DEF HandOver
  <1> HIDE DEF receipt
  <1> QED
    BY <1>1, <1>2, <1>3, <1>4 DEF Control

\* Enrolling a key forgets one report and leaves the authority alone.
LEMMA ForgetType ==
  ASSUME NEW c \in Control, NEW n \in Nodes
  PROVE  [c EXCEPT !.nodes = [@ EXCEPT ![n] = None]] \in Control
  BY DEF Control

--------------------------------------------------------------------------------
(* Type correctness.                                                       *)

LEMMA SendReportType ==
  ASSUME TypeOK, NEW n \in Nodes, SendReport(n)
  PROVE  net' \subseteq ReportRequest \cup AuthorizeRequest
  <1>1. PICK o \in Observations :
          Send([kind |-> "report", from |-> n, key |-> config[n].key,
               at |-> NodeClock(n), generation |-> config[n].generation,
               body |-> [at |-> NodeClock(n), receivedAt |-> 0,
                         generation |-> config[n].generation,
                         version |-> o.version, smoke |-> o.smoke,
                         service |-> o.service, lease |-> config[n].lease,
                         checkpoint |-> [head |-> head[n], clean |-> o.clean,
                                         generation |-> config[n].generation,
                                         at |-> NodeClock(n)]]])
    BY DEF SendReport
  <1>2. NodeClock(n) \in Int
    BY FailoverAssumption DEF NodeClock, TypeOK
  <1>3. config[n] \in Config /\ head[n] \in Nat
    BY DEF TypeOK
  <1>4. o \in [version : Versions, smoke : BOOLEAN, service : Services, clean : BOOLEAN]
    BY FailoverAssumption
  <1> DEFINE cp == [head |-> head[n], clean |-> o.clean,
                    generation |-> config[n].generation, at |-> NodeClock(n)]
             body == [at |-> NodeClock(n), receivedAt |-> 0,
                      generation |-> config[n].generation,
                      version |-> o.version, smoke |-> o.smoke,
                      service |-> o.service, lease |-> config[n].lease,
                      checkpoint |-> cp]
             request == [kind |-> "report", from |-> n, key |-> config[n].key,
                         at |-> NodeClock(n), generation |-> config[n].generation,
                         body |-> body]
  <1>5. cp \in Checkpoint
    BY <1>2, <1>3, <1>4 DEF Checkpoint, Config
  <1> HIDE DEF cp
  <1>6. body \in Report
    BY <1>2, <1>3, <1>4, <1>5 DEF Report, Config
  <1> HIDE DEF body
  <1>7. request \in ReportRequest
    BY <1>2, <1>3, <1>6 DEF ReportRequest, Config
  <1> HIDE DEF request
  <1>8. net' = net \cup {request}
    BY <1>1 DEF Send, request, body, cp
  <1> QED
    BY <1>7, <1>8 DEF TypeOK

LEMMA InitTypeOK == Init => TypeOK
  <1> SUFFICES ASSUME Init PROVE TypeOK
    OBVIOUS
  <1>1. config \in [Nodes -> Config]
    BY DEF Init, Config
  <1>2. lastGrant \in [node : Nodes, generation : Nat, now : Int]
    BY DEF Init, Nodes
  <1> QED
    BY <1>1, <1>2 DEF Init, TypeOK

LEMMA NextTypeOK == TypeOK /\ [Next]_vars => TypeOK'
  <1> SUFFICES ASSUME TypeOK, [Next]_vars
               PROVE  TypeOK'
    OBVIOUS
  <1> USE DEF TypeOK, envelope, node, history
  <1>1. CASE Tick
    BY <1>1 DEF Tick
  <1>2. ASSUME NEW n \in Nodes, SendReport(n)
        PROVE  TypeOK'
    <2>1. net' \subseteq ReportRequest \cup AuthorizeRequest
      BY <1>2, SendReportType
    <2>2. UNCHANGED <<clock, envelope, node, history>>
      BY <1>2 DEF SendReport, Send
    <2> QED
      BY <2>1, <2>2
  <1>3. ASSUME NEW n \in Nodes, SendAuthorize(n)
        PROVE  TypeOK'
    <2>1. config[n] \in Config /\ NodeClock(n) \in Int
      BY FailoverAssumption DEF NodeClock
    <2>2. [kind |-> "authorize", from |-> n, key |-> config[n].key,
           at |-> NodeClock(n), generation |-> config[n].generation] \in AuthorizeRequest
      BY <2>1 DEF AuthorizeRequest, Config
    <2> QED
      BY <1>3, <2>2 DEF SendAuthorize, Send
  <1>4. ASSUME NEW n \in Nodes, Write(n)
        PROVE  TypeOK'
    BY <1>4 DEF Write
  <1>5. ASSUME NEW n \in Nodes, Synchronize(n)
        PROVE  TypeOK'
    BY <1>5 DEF Synchronize
  <1>6. ASSUME NEW n \in Nodes, BeginLease(n)
        PROVE  TypeOK'
    BY <1>6 DEF BeginLease, LeaseVerifies, Control
  <1>7. ASSUME NEW n \in Nodes, FinishLease(n)
        PROVE  TypeOK'
    <2>1. leasing[n].generation \in Nat
      BY <1>7 DEF FinishLease, Receipt
    <2>2. config' \in [Nodes -> Config]
      BY <1>7, <2>1 DEF FinishLease, Config
    <2> QED
      BY <1>7, <2>2 DEF FinishLease
  <1>8. ASSUME NEW n \in Nodes, AbortLease(n)
        PROVE  TypeOK'
    BY <1>8 DEF AbortLease
  <1>9. ASSUME NEW n \in Nodes, EditConfig(n)
        PROVE  TypeOK'
    BY <1>9 DEF EditConfig, Config, Control
  <1>10. ASSUME NEW n \in Nodes, RotateKey(n)
         PROVE  TypeOK'
    BY <1>10 DEF RotateKey, Config
  <1>11. ASSUME NEW n \in Nodes, Enroll(n)
         PROVE  TypeOK'
    <2>1. control' \in Control \cup {None}
      BY <1>11, ForgetType DEF Enroll
    <2>2. keys' \in [Nodes -> Nat]
      BY <1>11 DEF Enroll, Config
    <2> QED
      BY <1>11, <2>1, <2>2 DEF Enroll
  <1>12. ASSUME NEW m \in net, Lose(m)
         PROVE  TypeOK'
    BY <1>12 DEF Lose
  <1>13. ASSUME NEW now \in Arrivals, NEW m \in net, OfferCandidate(m, now)
         PROVE  TypeOK'
    <2>1. now \in Int /\ m.body \in Report
      BY <1>13 DEF Arrivals, OfferCandidate, ReportRequest, AuthorizeRequest
    <2> QED
      BY <1>13, <2>1, ReceivedType DEF OfferCandidate
  <1>14. ASSUME NEW now \in Arrivals, NEW m \in net, AcceptReport(m, now)
         PROVE  TypeOK'
    <2>1. now \in Int /\ m.body \in Report /\ m.from \in Nodes /\ control \in Control
      BY <1>14 DEF Arrivals, AcceptReport, ReportRequest, AuthorizeRequest
    <2>2. control' \in Control
      BY <1>14, <2>1, ApplyReportType DEF AcceptReport
    <2> QED
      BY <1>14, <2>2 DEF AcceptReport
  <1>15. ASSUME NEW now \in Arrivals, NEW m \in net, Authorize(m, now)
         PROVE  TypeOK'
    <2>1. now \in Int /\ m.generation \in Nat /\ m.from \in Nodes
      BY <1>15 DEF Arrivals, Authorize, ReportRequest, AuthorizeRequest
    <2> QED
      BY <1>15, <2>1 DEF Authorize
  <1>16. ASSUME NEW now \in Arrivals, Bootstrap(now)
         PROVE  TypeOK'
    <2>1. now \in Int /\ candidate \in Report
      BY <1>16 DEF Arrivals, Bootstrap
    <2> QED
      BY <1>16, <2>1, BootstrapType DEF Bootstrap
  <1>17. ASSUME NEW now \in Arrivals, NEW mode \in {"planned", "emergency"},
                Transition(mode, now)
         PROVE  TypeOK'
    <2>1. now \in Int /\ control \in Control
      BY <1>17 DEF Arrivals, Transition
    <2> QED
      BY <1>17, <2>1, HandOverType DEF Transition
  <1>18. ASSUME NEW now \in Arrivals, NEW version \in Versions,
                ApproveVersion(version, now)
         PROVE  TypeOK'
    BY <1>18 DEF ApproveVersion, Control
  <1>19. CASE UNCHANGED vars
    BY <1>19 DEF vars
  <1> QED
    BY <1>1, <1>2, <1>3, <1>4, <1>5, <1>6, <1>7, <1>8, <1>9, <1>10, <1>11, <1>12,
       <1>13, <1>14, <1>15, <1>16, <1>17, <1>18, <1>19 DEF Next, NodeStep, ServerStep

\* Every variable keeps its type; in particular whatever the server stores is a
\* record that validateControlState accepts.
THEOREM TypeCorrect == Spec => []TypeOK
  BY InitTypeOK, NextTypeOK, PTL DEF Spec

--------------------------------------------------------------------------------
(* The control plane implements the abstract lease.                        *)

\* A generation is pending only after a handoff, so it is not the first.
Counted ==
    control # None =>
        /\ control.generation >= 1
        /\ control.pending =>
              /\ control.generation >= 2
              /\ control.receipt # None
              /\ control.receipt.generation = control.generation

\* The four ways a step can change the control record.
LEMMA ControlSteps ==
  ASSUME TypeOK, Counted, [Next]_vars
  PROVE  \/ UNCHANGED <<control, grants>>
         \/ /\ control = None
            /\ control' \in Control
            /\ control'.generation = 1
            /\ control'.primary = "mac"
            /\ control'.pending = FALSE
            /\ UNCHANGED <<grants, config, leasing, net>>
         \/ /\ control # None
            /\ \E now \in Int : Ready(control, now) /\ control' = HandOver(control, now)
            /\ UNCHANGED <<grants, config, leasing, net>>
         \/ /\ control # None
            /\ control' \in Control
            /\ control'.generation = control.generation
            /\ control'.primary = control.primary
            /\ control'.receipt = control.receipt
            /\ \/ control'.pending = control.pending
               \/ /\ control.pending
                  /\ control'.pending = FALSE
                  /\ \E m \in net :
                        /\ m.kind = "report"
                        /\ m.from = control.primary
                        /\ m.generation = control.generation
                        /\ m.body.lease = control.generation
            /\ UNCHANGED <<grants, config, leasing, net>>
         \/ /\ UNCHANGED <<control, config, leasing, net>>
            /\ control # None
            /\ ~control.pending
            /\ grants' = grants \cup {[node |-> control.primary,
                                       generation |-> control.generation]}
  <1> USE DEF TypeOK, envelope, node, history
  <1>1. CASE Tick
    BY <1>1 DEF Tick
  <1>2. ASSUME NEW n \in Nodes, NodeStep(n)
        PROVE  \/ UNCHANGED <<control, grants>>
               \/ Enroll(n) /\ control # None
    <2>1. CASE Enroll(n)
      BY <2>1 DEF Enroll
    <2> QED
      BY <1>2, <2>1 DEF NodeStep, SendReport, SendAuthorize, Send, Write, Synchronize,
         BeginLease, FinishLease, AbortLease, EditConfig, RotateKey
  <1>3. ASSUME NEW n \in Nodes, Enroll(n), control # None
        PROVE  /\ control' \in Control
               /\ control'.generation = control.generation
               /\ control'.primary = control.primary
               /\ control'.receipt = control.receipt
               /\ control'.pending = control.pending
               /\ UNCHANGED <<grants, config, leasing, net>>
    <2>1. control' = [control EXCEPT !.nodes = [@ EXCEPT ![n] = None]]
      BY <1>3 DEF Enroll
    <2>2. control' \in Control
      BY <1>3, <2>1, ForgetType
    <2> QED
      BY <1>3, <2>1, <2>2 DEF Enroll, Control
  <1>4. ASSUME NEW m \in net, Lose(m)
        PROVE  UNCHANGED <<control, grants>>
    BY <1>4 DEF Lose
  <1>5. ASSUME NEW now \in Arrivals, NEW m \in net, OfferCandidate(m, now)
        PROVE  UNCHANGED <<control, grants>>
    BY <1>5 DEF OfferCandidate
  <1>6. ASSUME NEW now \in Arrivals, NEW m \in net, AcceptReport(m, now)
        PROVE  /\ control # None
               /\ control' \in Control
               /\ control'.generation = control.generation
               /\ control'.primary = control.primary
               /\ control'.receipt = control.receipt
               /\ \/ control'.pending = control.pending
                  \/ /\ control.pending
                     /\ control'.pending = FALSE
                     /\ m.kind = "report"
                     /\ m.from = control.primary
                     /\ m.generation = control.generation
                     /\ m.body.lease = control.generation
               /\ UNCHANGED <<grants, config, leasing, net>>
    <2>1. /\ now \in Int /\ m.body \in Report /\ m.from \in Nodes /\ control \in Control
          /\ m.kind = "report" /\ control # None
      BY <1>6 DEF Arrivals, AcceptReport, ReportRequest, AuthorizeRequest
    <2>2. control' = ApplyReport(control, m.from, m.body, now) /\ control' \in Control
      BY <1>6, <2>1, ApplyReportType DEF AcceptReport
    <2>3. /\ control'.generation = control.generation
          /\ control'.primary = control.primary
          /\ control'.receipt = control.receipt
          /\ control'.pending = (control.pending /\ ~Activates(control, m.from, m.body, now))
      BY <2>1, <2>2 DEF ApplyReport, Control
    <2>4. CASE Activates(control, m.from, m.body, now)
      BY <1>6, <2>1, <2>2, <2>3, <2>4 DEF Activates, Counted, Verified, AcceptReport, Control
    <2>5. CASE ~Activates(control, m.from, m.body, now)
      <3>1. control'.pending = control.pending
        BY <2>1, <2>3, <2>5 DEF Control
      <3> QED
        BY <1>6, <2>1, <2>2, <2>3, <3>1 DEF AcceptReport
    <2> QED
      BY <2>4, <2>5
  <1>7. ASSUME NEW now \in Arrivals, NEW m \in net, Authorize(m, now)
        PROVE  /\ UNCHANGED <<control, config, leasing, net>>
               /\ control # None
               /\ ~control.pending
               /\ grants' = grants \cup {[node |-> control.primary,
                                          generation |-> control.generation]}
    BY <1>7 DEF Authorize, MayWrite, Healthy
  <1>8. ASSUME NEW now \in Arrivals, Bootstrap(now)
        PROVE  /\ control = None
               /\ control' \in Control
               /\ control'.generation = 1
               /\ control'.primary = "mac"
               /\ control'.pending = FALSE
               /\ UNCHANGED <<grants, config, leasing, net>>
    <2>1. now \in Int /\ candidate \in Report
      BY <1>8 DEF Arrivals, Bootstrap
    <2> QED
      BY <1>8, <2>1, BootstrapType DEF Bootstrap, BootstrapControl
  <1>9. ASSUME NEW now \in Arrivals, NEW mode \in {"planned", "emergency"},
               Transition(mode, now)
        PROVE  /\ control # None
               /\ \E t \in Int : Ready(control, t) /\ control' = HandOver(control, t)
               /\ UNCHANGED <<grants, config, leasing, net>>
    BY <1>9 DEF Transition, Arrivals
  <1>10. ASSUME NEW now \in Arrivals, NEW version \in Versions,
                ApproveVersion(version, now)
         PROVE  /\ control # None
                /\ control' \in Control
                /\ control'.generation = control.generation
                /\ control'.primary = control.primary
                /\ control'.receipt = control.receipt
                /\ control'.pending = control.pending
                /\ UNCHANGED <<grants, config, leasing, net>>
    BY <1>10 DEF ApproveVersion, Control
  <1>11. CASE UNCHANGED vars
    BY <1>11 DEF vars
  <1> QED
    <2>1. CASE \E n \in Nodes : NodeStep(n)
      BY <2>1, <1>2, <1>3
    <2>2. CASE \E now \in Arrivals : ServerStep(now)
      BY <2>2, <1>5, <1>6, <1>7, <1>8, <1>9, <1>10 DEF ServerStep
    <2> QED
      BY <1>1, <1>4, <1>11, <2>1, <2>2 DEF Next

LEMMA InitCounted == Init => Counted
  BY DEF Init, Counted

LEMMA NextCounted == TypeOK /\ Counted /\ [Next]_vars => Counted'
  <1> SUFFICES ASSUME TypeOK, Counted, [Next]_vars
               PROVE  Counted'
    OBVIOUS
  <1>1. ASSUME control # None, NEW now \in Int, control' = HandOver(control, now)
        PROVE  Counted'
    <2>1. control \in Control /\ control.generation \in Nat
      BY <1>1 DEF TypeOK, Control
    <2>2. /\ control'.generation = control.generation + 1
          /\ control'.receipt.generation = control.generation + 1
          /\ control'.receipt # None
      BY <1>1, <2>1, HandOverType, NoneAssumption
    <2> QED
      BY <1>1, <2>1, <2>2 DEF Counted
  <1>2. CASE control = None /\ control'.generation = 1 /\ control'.pending = FALSE
    BY <1>2 DEF Counted
  <1>3. CASE /\ control # None
             /\ control'.generation = control.generation
             /\ control'.receipt = control.receipt
             /\ control'.pending = control.pending \/ control'.pending = FALSE
    BY <1>3 DEF Counted
  <1>4. CASE UNCHANGED control
    BY <1>4 DEF Counted
  <1> QED
    BY <1>1, <1>2, <1>3, <1>4, ControlSteps

LEMMA InitLease == Init => Lease!Init
  BY DEF Init, Lease!Init

LEMMA NextLease == TypeOK /\ Counted /\ [Next]_vars => [Lease!Next]_(Lease!vars)
  <1> SUFFICES ASSUME TypeOK, Counted, [Next]_vars
               PROVE  [Lease!Next]_(Lease!vars)
    OBVIOUS
  <1>1. CASE UNCHANGED <<control, grants>>
    BY <1>1 DEF Lease!vars
  <1>2. CASE /\ control = None
             /\ control' \in Control
             /\ control'.generation = 1
             /\ control'.primary = "mac"
             /\ control'.pending = FALSE
             /\ UNCHANGED grants
    <2>1. control' # None
      BY <1>2, NoneAssumption
    <2>2. Lease!Start
      BY <1>2, <2>1 DEF Lease!Start
    <2> QED
      BY <2>2 DEF Lease!Next
  <1>3. ASSUME control # None, NEW now \in Int, Ready(control, now),
               control' = HandOver(control, now), UNCHANGED grants
        PROVE  Lease!HandOver
    <2>1. control \in Control /\ ~control.pending
      BY <1>3 DEF TypeOK, Ready
    <2>2. /\ control' # None
          /\ control'.primary = Other(control.primary)
          /\ control'.generation = control.generation + 1
          /\ control'.pending = TRUE
      BY <1>3, <2>1, HandOverType, NoneAssumption
    <2> QED
      BY <1>3, <2>1, <2>2 DEF Lease!HandOver, Lease!Other, Other
  <1>4. ASSUME control # None,
               control' \in Control,
               control'.generation = control.generation,
               control'.primary = control.primary,
               \/ control'.pending = control.pending
               \/ control.pending /\ control'.pending = FALSE,
               UNCHANGED grants
        PROVE  [Lease!Next]_(Lease!vars)
    <2>1. control' # None
      BY <1>4, NoneAssumption
    <2>2. CASE control'.pending = control.pending
      BY <1>4, <2>1, <2>2 DEF Lease!vars
    <2>3. CASE control.pending /\ control'.pending = FALSE
      <3>1. control.generation > 1
        BY <1>4, <2>3 DEF Counted, TypeOK, Control
      <3>2. Lease!TakeUp
        BY <1>4, <2>1, <2>3, <3>1 DEF Lease!TakeUp
      <3> QED
        BY <3>2 DEF Lease!Next
    <2> QED
      BY <1>4, <2>2, <2>3
  <1>5. CASE /\ UNCHANGED control
             /\ control # None
             /\ ~control.pending
             /\ grants' = grants \cup {[node |-> control.primary,
                                        generation |-> control.generation]}
    <2>1. Lease!Grant
      BY <1>5 DEF Lease!Grant
    <2> QED
      BY <2>1 DEF Lease!Next
  <1> QED
    <2>1. ASSUME control # None, NEW now \in Int, Ready(control, now),
                 control' = HandOver(control, now), UNCHANGED grants
          PROVE  [Lease!Next]_(Lease!vars)
      BY <1>3, <2>1 DEF Lease!Next
    <2> QED
      BY <1>1, <1>2, <2>1, <1>4, <1>5, ControlSteps

\* The control plane keeps the promise of ExecutorLease: seen through the control
\* record, every behaviour is a behaviour of the abstract lease.
THEOREM LeaseImplemented == Spec => ImplementsLease
  <1>1. TypeOK /\ Counted /\ [Next]_vars => TypeOK' /\ Counted'
    BY NextTypeOK, NextCounted
  <1> QED
    BY <1>1, InitTypeOK, InitCounted, InitLease, NextLease, PTL
    DEF Spec, ImplementsLease, Lease!Spec

--------------------------------------------------------------------------------
(* Admissions.                                                             *)

\* What is known of every admission: it names a past generation, or the current
\* one while its primary is active.
GrantsTrace ==
    \A g \in grants :
        /\ control # None
        /\ g.generation <= control.generation
        /\ g.generation = control.generation =>
              g.node = control.primary /\ ~control.pending

GrantsInv == GrantsTrace /\ SingleWriter

LEMMA NextGrants == TypeOK /\ Counted /\ GrantsInv /\ [Next]_vars => GrantsInv'
  <1> SUFFICES ASSUME TypeOK, Counted, GrantsInv, [Next]_vars
               PROVE  GrantsInv'
    OBVIOUS
  <1> USE DEF GrantsInv, GrantsTrace, SingleWriter
  <1>0. /\ control # None => control.generation \in Nat
        /\ \A g \in grants : g.generation \in Nat
    BY DEF TypeOK, Control
  <1>1. CASE UNCHANGED <<control, grants>>
    BY <1>1
  <1>2. CASE control = None /\ UNCHANGED grants
    BY <1>2
  <1>3. ASSUME control # None, NEW now \in Int, control' = HandOver(control, now),
               UNCHANGED grants
        PROVE  GrantsInv'
    <2>1. control' # None /\ control'.generation = control.generation + 1
      BY <1>3, HandOverType, NoneAssumption DEF TypeOK
    <2> QED
      BY <1>0, <1>3, <2>1
  <1>4. ASSUME control # None, control' \in Control,
               control'.generation = control.generation,
               control'.primary = control.primary,
               control'.pending = control.pending \/ control'.pending = FALSE,
               UNCHANGED grants
        PROVE  GrantsInv'
    <2>1. control' # None
      BY <1>4, NoneAssumption
    <2> QED
      BY <1>4, <2>1
  <1>5. ASSUME UNCHANGED control, control # None, ~control.pending,
               grants' = grants \cup {[node |-> control.primary,
                                       generation |-> control.generation]}
        PROVE  GrantsInv'
    BY <1>0, <1>5
  <1> QED
    BY <1>1, <1>2, <1>3, <1>4, <1>5, ControlSteps

\* Two nodes are never admitted for one generation.
THEOREM OneWriter == Spec => []SingleWriter
  <1>1. Init => GrantsInv
    BY DEF Init, GrantsInv, GrantsTrace, SingleWriter
  <1>2. TypeOK /\ Counted /\ GrantsInv /\ [Next]_vars => TypeOK' /\ Counted' /\ GrantsInv'
    BY NextTypeOK, NextCounted, NextGrants
  <1>3. GrantsInv => SingleWriter
    BY DEF GrantsInv
  <1> QED
    BY <1>1, <1>2, <1>3, InitTypeOK, InitCounted, PTL DEF Spec

\* A generation whose lease is pending has admitted nobody.
THEOREM PendingAdmitsNobody == Spec => []PendingUngranted
  <1>1. Init => GrantsInv
    BY DEF Init, GrantsInv, GrantsTrace, SingleWriter
  <1>2. TypeOK /\ Counted /\ GrantsInv /\ [Next]_vars => TypeOK' /\ Counted' /\ GrantsInv'
    BY NextTypeOK, NextCounted, NextGrants
  <1>3. TypeOK /\ GrantsInv => PendingUngranted
    <2> SUFFICES ASSUME TypeOK, GrantsInv, control # None, control.pending, NEW g \in grants
                 PROVE  g.generation < control.generation
      BY DEF PendingUngranted
    <2>1. g.generation \in Nat /\ control.generation \in Nat
      BY DEF TypeOK, Control
    <2> QED
      BY <2>1 DEF GrantsInv, GrantsTrace
  <1> QED
    BY <1>1, <1>2, <1>3, InitTypeOK, InitCounted, PTL DEF Spec

--------------------------------------------------------------------------------
(* The control record and the private files.                               *)

\* No node runs ahead of the authority: neither a private file nor a lease being
\* applied nor a request in flight names a future generation, and no request
\* carries a receipt its sender has not applied.
NothingAhead ==
    /\ \A n \in Nodes :
          /\ config[n].lease <= config[n].generation
          /\ config[n].generation <= Current
          /\ leasing[n] # None => leasing[n].generation <= Current
    /\ \A m \in net :
          m.kind = "report" => m.body.lease <= config[m.from].lease

Handshake == NothingAhead /\ ActiveHolderTookLease

LEMMA InitHandshake == Init => Handshake
  BY DEF Init, Handshake, NothingAhead, ActiveHolderTookLease, Current

\* A step that leaves the control record alone.
LEMMA NodesNeverAhead ==
  ASSUME TypeOK, Counted, NothingAhead, [Next]_vars, UNCHANGED control
  PROVE  /\ NothingAhead'
         /\ \A n \in Nodes : control # None /\ config[n].generation = control.generation =>
               /\ config'[n].generation = config[n].generation
               /\ config'[n].lease = config[n].lease
  <1> DEFINE Goal == /\ NothingAhead'
                     /\ \A n \in Nodes : control # None /\ config[n].generation = control.generation =>
                           /\ config'[n].generation = config[n].generation
                           /\ config'[n].lease = config[n].lease
  <1>0. /\ Current \in Nat /\ Current' = Current
        /\ \A n \in Nodes : config[n].generation \in Nat /\ config[n].lease \in Nat
        /\ \A n \in Nodes : leasing[n] # None => leasing[n].generation \in Nat
        /\ \A m \in net : m.from \in Nodes /\ (m.kind = "report" => m.body.lease \in Nat)
    BY DEF TypeOK, Current, Control, Config, Receipt, ReportRequest, AuthorizeRequest, Report
  <1>1. CASE UNCHANGED <<config, leasing>> /\ net' \subseteq net
    BY <1>0, <1>1 DEF NothingAhead
  <1>2. ASSUME NEW n \in Nodes, SendReport(n)
        PROVE  Goal
    <2> DEFINE request(o) ==
            [kind |-> "report", from |-> n, key |-> config[n].key,
             at |-> NodeClock(n), generation |-> config[n].generation,
             body |-> [at |-> NodeClock(n), receivedAt |-> 0,
                       generation |-> config[n].generation,
                       version |-> o.version, smoke |-> o.smoke,
                       service |-> o.service, lease |-> config[n].lease,
                       checkpoint |-> [head |-> head[n], clean |-> o.clean,
                                       generation |-> config[n].generation,
                                       at |-> NodeClock(n)]]]
    <2>0. PICK o \in Observations : net' = net \cup {request(o)}
      BY <1>2 DEF SendReport, Send
    <2> DEFINE m == request(o)
    <2>1. net' = net \cup {m} /\ m.from = n /\ m.body.lease = config[n].lease
      BY <2>0
    <2> HIDE DEF m
    <2>2. UNCHANGED <<config, leasing>>
      BY <1>2 DEF SendReport, Send, node
    <2> QED
      BY <1>0, <1>2, <2>1, <2>2 DEF NothingAhead, TypeOK
  <1>3. ASSUME NEW n \in Nodes, SendAuthorize(n)
        PROVE  Goal
    BY <1>0, <1>3 DEF SendAuthorize, Send, node, NothingAhead
  <1>4. ASSUME NEW n \in Nodes, BeginLease(n)
        PROVE  Goal
    <2>1. control # None /\ control.receipt.generation = control.generation
      BY <1>4 DEF BeginLease, LeaseVerifies, Counted
    <2>2. leasing' = [leasing EXCEPT ![n] = control.receipt] /\ UNCHANGED <<config, net>>
      BY <1>4 DEF BeginLease
    <2> QED
      BY <1>0, <2>1, <2>2 DEF NothingAhead, TypeOK, Current
  <1>5. ASSUME NEW n \in Nodes, FinishLease(n)
        PROVE  Goal
    <2> DEFINE g == leasing[n].generation
    <2>1. /\ g = config[n].generation + 1 /\ leasing[n] # None
          /\ config' = [config EXCEPT ![n].generation = g, ![n].lease = g]
          /\ leasing' = [leasing EXCEPT ![n] = None]
          /\ UNCHANGED net
      BY <1>5 DEF FinishLease
    <2>2. /\ g \in Nat /\ g <= Current
          /\ config[n].generation < g /\ config[n].lease < g
      BY <1>0, <2>1 DEF NothingAhead
    <2>3. \A k \in Nodes :
            /\ k # n => config'[k] = config[k] /\ leasing'[k] = leasing[k]
            /\ k = n => /\ config'[k].generation = g /\ config'[k].lease = g
                        /\ leasing'[k] = None
      BY <2>1 DEF TypeOK, Config
    <2> HIDE DEF g
    <2>4. \A m \in net : m.kind = "report" => m.body.lease <= config'[m.from].lease
      BY <1>0, <2>2, <2>3 DEF NothingAhead
    <2>7. \A k \in Nodes :
            /\ config'[k].lease <= config'[k].generation
            /\ config'[k].generation <= Current'
            /\ leasing'[k] # None => leasing'[k].generation <= Current'
      BY <1>0, <2>2, <2>3 DEF NothingAhead
    <2>8. net' = net
      BY <2>1
    <2>5. NothingAhead'
      BY <2>4, <2>7, <2>8 DEF NothingAhead
    <2>6. control # None => config[n].generation # control.generation
      BY <1>0, <2>2 DEF Current
    <2> QED
      BY <2>3, <2>5, <2>6
  <1>6. ASSUME NEW n \in Nodes, AbortLease(n)
        PROVE  Goal
    BY <1>0, <1>6 DEF AbortLease, NothingAhead, TypeOK
  <1>7. ASSUME NEW n \in Nodes, EditConfig(n)
        PROVE  Goal
    <2>1. /\ control # None /\ config[n].generation < control.generation
          /\ config' = [config EXCEPT ![n].generation = control.generation]
          /\ UNCHANGED <<leasing, net>>
      BY <1>7 DEF EditConfig
    <2>2. \A k \in Nodes :
            /\ k # n => config'[k] = config[k]
            /\ config'[k].lease = config[k].lease
            /\ k = n => config'[k].generation = control.generation
      BY <2>1 DEF TypeOK, Config
    <2>3. control.generation = Current /\ config[n].lease <= Current
      BY <1>0, <2>1 DEF NothingAhead, Current
    <2>4. NothingAhead'
      BY <1>0, <2>1, <2>2, <2>3 DEF NothingAhead
    <2> QED
      BY <1>0, <2>1, <2>2, <2>3, <2>4
  <1>8. ASSUME NEW n \in Nodes, RotateKey(n)
        PROVE  Goal
    <2>1. /\ \A k \in Nodes : /\ config'[k].lease = config[k].lease
                              /\ config'[k].generation = config[k].generation
          /\ UNCHANGED <<leasing, net>>
      BY <1>8 DEF RotateKey, TypeOK, Config
    <2> QED
      BY <1>0, <2>1 DEF NothingAhead
  <1>9. ASSUME NEW n \in Nodes, NodeStep(n)
        PROVE  Goal
    <2>1. Write(n) \/ Synchronize(n) \/ Enroll(n) => UNCHANGED <<config, leasing, net>>
      BY DEF Write, Synchronize, Enroll, node
    <2> QED
      BY <1>1, <1>2, <1>3, <1>4, <1>5, <1>6, <1>7, <1>8, <1>9, <2>1 DEF NodeStep
  <1>10. ASSUME NEW now \in Arrivals, ServerStep(now)
         PROVE  UNCHANGED <<config, leasing, net>>
    BY <1>10 DEF ServerStep, OfferCandidate, AcceptReport, Authorize, Bootstrap,
       Transition, ApproveVersion, node
  <1>11. Tick \/ UNCHANGED vars => UNCHANGED <<config, leasing, net>>
    BY DEF Tick, vars, node
  <1>12. (\E m \in net : Lose(m)) => UNCHANGED <<config, leasing>> /\ net' \subseteq net
    BY DEF Lose, node
  <1> QED
    BY <1>1, <1>9, <1>10, <1>11, <1>12 DEF Next

LEMMA NextHandshake == TypeOK /\ Counted /\ Handshake /\ [Next]_vars => Handshake'
  <1> SUFFICES ASSUME TypeOK, Counted, NothingAhead, ActiveHolderTookLease, [Next]_vars
               PROVE  Handshake'
    BY DEF Handshake
  <1>0. /\ control # None => /\ control.generation \in Nat /\ control.primary \in Nodes
                             /\ Current = control.generation
        /\ Current \in Nat
        /\ \A n \in Nodes : config[n].generation \in Nat /\ config[n].lease \in Nat
        /\ \A n \in Nodes : leasing[n] # None => leasing[n].generation \in Nat
    BY DEF TypeOK, Current, Control, Config, Receipt
  <1>1. CASE UNCHANGED control
    <2>1. NothingAhead'
      BY <1>1, NodesNeverAhead
    <2>2. ActiveHolderTookLease'
      BY <1>0, <1>1, NodesNeverAhead DEF ActiveHolderTookLease
    <2> QED
      BY <2>1, <2>2 DEF Handshake
  <1>2. ASSUME UNCHANGED <<config, leasing, net>>, Current' \in Nat, Current <= Current'
        PROVE  NothingAhead'
    BY <1>0, <1>2 DEF NothingAhead
  <1>3. CASE /\ control = None /\ control' \in Control
             /\ control'.generation = 1
             /\ UNCHANGED <<config, leasing, net>>
    <2>1. Current' = 1 /\ Current = 1
      BY <1>3, NoneAssumption DEF Current
    <2>2. ActiveHolderTookLease'
      BY <1>3 DEF ActiveHolderTookLease
    <2> QED
      BY <1>2, <1>3, <2>1, <2>2 DEF Handshake
  <1>4. ASSUME control # None, NEW now \in Int, control' = HandOver(control, now),
               UNCHANGED <<config, leasing, net>>
        PROVE  Handshake'
    <2>1. control' # None /\ control'.generation = control.generation + 1 /\ control'.pending
      BY <1>4, HandOverType, NoneAssumption DEF TypeOK
    <2>2. Current' \in Nat /\ Current <= Current'
      BY <1>0, <1>4, <2>1 DEF Current
    <2> QED
      BY <1>2, <1>4, <2>1, <2>2 DEF Handshake, ActiveHolderTookLease
  <1>5. ASSUME control # None, control' \in Control,
               control'.generation = control.generation,
               control'.primary = control.primary,
               \/ control'.pending = control.pending
               \/ /\ control.pending
                  /\ control'.pending = FALSE
                  /\ \E m \in net :
                        /\ m.kind = "report"
                        /\ m.from = control.primary
                        /\ m.generation = control.generation
                        /\ m.body.lease = control.generation,
               UNCHANGED <<config, leasing, net>>
        PROVE  Handshake'
    <2>1. control' # None
      BY <1>5, NoneAssumption
    <2>2. Current' = Current
      BY <1>5, <2>1 DEF Current
    <2>3. NothingAhead'
      BY <1>0, <1>2, <1>5, <2>2
    <2>4. CASE control'.pending = control.pending
      BY <1>5, <2>1, <2>3, <2>4 DEF Handshake, ActiveHolderTookLease
    <2>5. ASSUME NEW m \in net, m.kind = "report", m.from = control.primary,
                 m.body.lease = control.generation
          PROVE  Handshake'
      <3>1. /\ control.generation <= config[control.primary].lease
            /\ config[control.primary].lease <= config[control.primary].generation
            /\ config[control.primary].generation <= control.generation
        BY <1>0, <1>5, <2>5 DEF NothingAhead
      <3>2. /\ config[control.primary].lease = control.generation
            /\ config[control.primary].generation = control.generation
        BY <1>0, <1>5, <3>1
      <3> QED
        BY <1>5, <2>1, <2>3, <3>2 DEF Handshake, ActiveHolderTookLease
    <2> QED
      BY <1>5, <2>4, <2>5
  <1> QED
    BY <1>1, <1>3, <1>4, <1>5, ControlSteps

\* Whenever a generation is active, the node it belongs to has applied exactly
\* the receipt of that handoff to its private file.
THEOREM HolderTookLease == Spec => []ActiveHolderTookLease
  <1>1. TypeOK /\ Counted /\ Handshake /\ [Next]_vars => TypeOK' /\ Counted' /\ Handshake'
    BY NextTypeOK, NextCounted, NextHandshake
  <1>2. Handshake => ActiveHolderTookLease
    BY DEF Handshake
  <1> QED
    BY <1>1, <1>2, InitTypeOK, InitCounted, InitHandshake, PTL DEF Spec
================================================================================
