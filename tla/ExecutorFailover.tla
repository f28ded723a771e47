--------------------------- MODULE ExecutorFailover ----------------------------
(***************************************************************************)
(* The executor control plane as a system: the Mac and the VPS, each with  *)
(* a private configuration file, the signed requests they send over a      *)
(* network that delays, reorders, duplicates and loses, the owner's        *)
(* decisions, and the server that applies each request to one durable      *)
(* control record.                                                         *)
(*                                                                         *)
(* The store applies a request atomically, by compare-and-swap; what it    *)
(* does not do is read the clock again when it retries: "now" is the       *)
(* instant at which the request arrived (mutate's default argument), up to *)
(* Latency before the instant at which it takes effect.                    *)
(***************************************************************************)
EXTENDS ExecutorRules, FiniteSets

CONSTANTS
    Observations,  \* what a reporter can observe: version, smoke, service, clean
    Offset,        \* Offset[n]: how far the clock of node n is from the server's
    Latency,       \* the longest a request can be in the store
    MaxClock,      \* bounds of the model, used only in guards:
    MaxGeneration, \*   handoffs stop at this generation,
    MaxNet,        \*   requests in flight,
    MaxKey,        \*   key rotations,
    MaxHead        \*   commits

ASSUME FailoverAssumption ==
    /\ Observations \subseteq
         [version : Versions, smoke : BOOLEAN, service : Services, clean : BOOLEAN]
    /\ Offset \in [Nodes -> Int]
    /\ Latency \in Nat

VARIABLES
    clock,      \* server time
    control,    \* envelope.control: the control record, None before bootstrap
    candidate,  \* envelope.candidate: the Mac's report waiting for bootstrap
    keys,       \* envelope.identities: the enrolled key of each node
    config,     \* each node's private config: generation, leaseReceiptId, key
    leasing,    \* the receipt a node is applying while it holds its lock file
    head,       \* the commit each node's checkout is at
    remote,     \* the newest commit pushed
    net,        \* signed requests in flight
    held,       \* the generation each node was last admitted for, 0 once used
    grants,     \* history: every (node, generation) ever admitted
    lastGrant   \* history: the last admission, and the latest "now" at which one of
                \*   its generation was judged

envelope == <<control, candidate, keys>>
node == <<config, leasing, head, remote, held>>
history == <<grants, lastGrant>>
vars == <<clock, envelope, node, net, history>>

Config == [generation : Nat, lease : Nat, key : Nat]

ReportRequest ==
    [kind : {"report"}, from : Nodes, key : Nat, at : Int, generation : Nat,
     body : Report]

AuthorizeRequest ==
    [kind : {"authorize"}, from : Nodes, key : Nat, at : Int, generation : Nat]

Init ==
    /\ clock = 0
    /\ control = None
    /\ candidate = None
    /\ keys = [n \in Nodes |-> 1]
    /\ config = [n \in Nodes |-> [generation |-> 1, lease |-> 0, key |-> 1]]
    /\ leasing = [n \in Nodes |-> None]
    /\ head = [n \in Nodes |-> 0]
    /\ remote = 0
    /\ net = {}
    /\ held = [n \in Nodes |-> 0]
    /\ grants = {}
    /\ lastGrant = [node |-> "mac", generation |-> 0, now |-> 0]

Tick ==
    /\ clock < MaxClock
    /\ clock' = clock + 1
    /\ UNCHANGED <<envelope, node, net, history>>

--------------------------------------------------------------------------------
(* The nodes.                                                              *)

NodeClock(n) == clock + Offset[n]

Send(request) ==
    /\ Cardinality(net) < MaxNet
    /\ net' = net \cup {request}
    /\ UNCHANGED <<clock, envelope, node, history>>

\* The reporter (projectNodeReport, sendExecutorReport): it shares its lock file
\* with the lease helper, so it never reports while a lease is being applied.
SendReport(n) ==
    /\ leasing[n] = None
    /\ \E o \in Observations :
         Send([kind |-> "report", from |-> n, key |-> config[n].key,
               at |-> NodeClock(n), generation |-> config[n].generation,
               body |-> [at |-> NodeClock(n), receivedAt |-> 0,
                         generation |-> config[n].generation,
                         version |-> o.version, smoke |-> o.smoke,
                         service |-> o.service, lease |-> config[n].lease,
                         checkpoint |-> [head |-> head[n], clean |-> o.clean,
                                         generation |-> config[n].generation,
                                         at |-> NodeClock(n)]]])

\* authorizeRuntimeExecutor: the bridge or the runner asks before it writes.
SendAuthorize(n) ==
    Send([kind |-> "authorize", from |-> n, key |-> config[n].key,
          at |-> NodeClock(n), generation |-> config[n].generation])

Lose(request) ==
    /\ net' = net \ {request}
    /\ UNCHANGED <<clock, envelope, node, history>>

\* requireRuntimeExecutor returned: the admitted write takes place, at any later
\* time, whatever the control record says by then.
Write(n) ==
    /\ held[n] # 0
    /\ remote < MaxHead
    /\ remote' = remote + 1
    /\ head' = [head EXCEPT ![n] = remote + 1]
    /\ held' = [held EXCEPT ![n] = 0]
    /\ UNCHANGED <<clock, envelope, config, leasing, net, history>>

\* The operator brings a checkout up to date.
Synchronize(n) ==
    /\ head' = [head EXCEPT ![n] = remote]
    /\ UNCHANGED <<clock, envelope, config, leasing, remote, held, net, history>>

\* applyExecutorLease takes the lock and asks the server to verify the receipt ...
BeginLease(n) ==
    /\ leasing[n] = None
    /\ LeaseVerifies(control, clock)
    /\ control.receipt.to = n
    /\ control.receipt.generation = config[n].generation + 1
    /\ leasing' = [leasing EXCEPT ![n] = control.receipt]
    /\ UNCHANGED <<clock, envelope, config, head, remote, held, net, history>>

\* ... and, if the receipt is still alive, rewrites the private config ...
FinishLease(n) ==
    /\ leasing[n] # None
    /\ clock < leasing[n].expiresAt
    /\ leasing[n].generation = config[n].generation + 1
    /\ config' = [config EXCEPT ![n].generation = leasing[n].generation,
                                ![n].lease = leasing[n].generation]
    /\ leasing' = [leasing EXCEPT ![n] = None]
    /\ UNCHANGED <<clock, envelope, head, remote, held, net, history>>

\* ... or fails and releases the lock.
AbortLease(n) ==
    /\ leasing[n] # None
    /\ leasing' = [leasing EXCEPT ![n] = None]
    /\ UNCHANGED <<clock, envelope, config, head, remote, held, net, history>>

\* A receipt addresses the new primary only: the operator moves the demoted node
\* to the current generation by hand, or its reports are all refused.  Nothing
\* stops the same edit on the new primary; it leaves leaseReceiptId as it was.
EditConfig(n) ==
    /\ control # None
    /\ config[n].generation < control.generation
    /\ config' = [config EXCEPT ![n].generation = control.generation]
    /\ UNCHANGED <<clock, envelope, leasing, head, remote, held, net, history>>

\* The operator puts a new private key on the node.
RotateKey(n) ==
    /\ config[n].key = keys[n]
    /\ keys[n] < MaxKey
    /\ config' = [config EXCEPT ![n].key = @ + 1]
    /\ UNCHANGED <<clock, envelope, leasing, head, remote, held, net, history>>

--------------------------------------------------------------------------------
(* The server.  Each operation is judged at the instant its request arrived. *)

Arrivals == {t \in 0 .. clock : clock - t <= Latency}

\* verifyNodeRequest, and the generation check of reduceEnvelope.
Verified(m, now) ==
    /\ now - m.at <= Skew
    /\ m.at - now <= Skew
    /\ m.key = keys[m.from]
    /\ control # None => m.generation = control.generation

\* Mutant of OfferCandidate: the signed request is stored, not its payload.
OfferCandidateEnvelope(m, now) ==
    /\ m.kind = "report"
    /\ control = None
    /\ Verified(m, now)
    /\ m.from = "mac"
    /\ candidate = None
    /\ candidate' = m
    /\ UNCHANGED <<clock, control, keys, node, net, history>>

\* Before bootstrap the Mac's report is only kept as a candidate.
OfferCandidate(m, now) ==
    /\ m.kind = "report"
    /\ control = None
    /\ Verified(m, now)
    /\ m.from = "mac"
    /\ Fresh(m.body.at, now, MacLimit)
    /\ candidate # None => m.body.at > candidate.at
    /\ candidate' = [m.body EXCEPT !.receivedAt = now]
    /\ UNCHANGED <<clock, control, keys, node, net, history>>

AcceptReport(m, now) ==
    /\ m.kind = "report"
    /\ control # None
    /\ Verified(m, now)
    /\ Acceptable(control, m.from, m.body, now)
    /\ control' = ApplyReport(control, m.from, m.body, now)
    /\ candidate' = None
    /\ UNCHANGED <<clock, keys, node, net, history>>

\* Mutant of Authorize: judges the node, not the generation its request names.
AuthorizeByRole(m, now) ==
    /\ m.kind = "authorize"
    /\ control # None
    /\ m.from = control.primary
    /\ Healthy(control, m.from, now)
    /\ held' = [held EXCEPT ![m.from] = m.generation]
    /\ grants' = grants \cup {[node |-> m.from, generation |-> m.generation]}
    /\ lastGrant' = [node |-> m.from, generation |-> m.generation, now |-> now]
    /\ UNCHANGED <<clock, envelope, config, leasing, head, remote, net>>

\* signedAuthorize: the decision is made on the record it is committed with.
Authorize(m, now) ==
    /\ m.kind = "authorize"
    /\ Verified(m, now)
    /\ MayWrite(control, m.from, m.generation, now)
    /\ held' = [held EXCEPT ![m.from] = m.generation]
    /\ grants' = grants \cup {[node |-> m.from, generation |-> m.generation]}
    /\ lastGrant' = [node |-> m.from, generation |-> m.generation,
                     now |-> IF lastGrant.generation = m.generation /\ lastGrant.now > now
                             THEN lastGrant.now ELSE now]
    /\ UNCHANGED <<clock, envelope, config, leasing, head, remote, net>>

Bootstrap(now) ==
    /\ control = None
    /\ candidate # None
    /\ Fresh(candidate.receivedAt, now, MacLimit)
    /\ BootstrapAllowed(candidate, now)
    /\ control' = BootstrapControl(candidate, now)
    /\ candidate' = None
    /\ UNCHANGED <<clock, keys, node, net, history>>

\* The owner's approval names the mode; an emergency also needs the owner's
\* confirmation that the old primary is isolated.
Transition(mode, now) ==
    /\ control # None
    /\ control.generation < MaxGeneration
    /\ mode = Mode(control, now)
    /\ Ready(control, now)
    /\ control' = HandOver(control, now)
    /\ candidate' = None
    /\ UNCHANGED <<clock, keys, node, net, history>>

ApproveVersion(version, now) ==
    /\ control # None
    /\ control.approved # version
    /\ VersionApprovable(control, version, now)
    /\ control' = [control EXCEPT !.approved = version]
    /\ candidate' = None
    /\ UNCHANGED <<clock, keys, node, net, history>>

\* Enrolling a key forgets what the node reported under the old one.
Enroll(n) ==
    /\ keys[n] # config[n].key
    /\ keys' = [keys EXCEPT ![n] = config[n].key]
    /\ control' = IF control = None THEN None
                  ELSE [control EXCEPT !.nodes = [@ EXCEPT ![n] = None]]
    /\ candidate' = IF n = "mac" THEN None ELSE candidate
    /\ UNCHANGED <<clock, node, net, history>>

--------------------------------------------------------------------------------
NodeStep(n) ==
    \/ SendReport(n)
    \/ SendAuthorize(n)
    \/ Write(n)
    \/ Synchronize(n)
    \/ BeginLease(n)
    \/ FinishLease(n)
    \/ AbortLease(n)
    \/ EditConfig(n)
    \/ RotateKey(n)
    \/ Enroll(n)

ServerStep(now) ==
    \/ \E m \in net : OfferCandidate(m, now) \/ AcceptReport(m, now) \/ Authorize(m, now)
    \/ Bootstrap(now)
    \/ \E mode \in {"planned", "emergency"} : Transition(mode, now)
    \/ \E version \in Versions : ApproveVersion(version, now)

Next ==
    \/ Tick
    \/ \E n \in Nodes : NodeStep(n)
    \/ \E now \in Arrivals : ServerStep(now)
    \/ \E m \in net : Lose(m)

Spec == Init /\ [][Next]_vars

--------------------------------------------------------------------------------
(* Properties.                                                             *)

\* Every variable holds a value of its type, in particular the control record
\* that validateControlState accepts.
TypeOK ==
    /\ clock \in Nat
    /\ control \in Control \cup {None}
    /\ candidate \in Report \cup {None}
    /\ keys \in [Nodes -> Nat]
    /\ config \in [Nodes -> Config]
    /\ leasing \in [Nodes -> Receipt \cup {None}]
    /\ head \in [Nodes -> Nat]
    /\ remote \in Nat
    /\ net \subseteq ReportRequest \cup AuthorizeRequest
    /\ held \in [Nodes -> Nat]
    /\ grants \subseteq [node : Nodes, generation : Nat]
    /\ lastGrant \in [node : Nodes, generation : Nat, now : Int]

\* Single writer: whatever is delayed, duplicated or reordered, two nodes are
\* never admitted for the same generation.
SingleWriter ==
    \A g, h \in grants : g.generation = h.generation => g.node = h.node

\* A handoff that is not taken up admits nobody: no write was ever admitted for
\* a generation whose lease is still pending.
PendingUngranted ==
    control # None /\ control.pending => \A g \in grants : g.generation < control.generation

\* The control record and the primary's private file agree: once a generation is
\* active, its primary has applied exactly the receipt of that handoff.
ActiveHolderTookLease ==
    control # None /\ ~control.pending /\ control.generation > 1 =>
        /\ config[control.primary].generation = control.generation
        /\ config[control.primary].lease = control.generation

\* The generation the nodes may be at: the first before bootstrap.
Current == IF control = None THEN 1 ELSE control.generation

HandedOver ==
    control # None /\ control' # None /\ control'.generation # control.generation

\* the instant a handoff was judged at, from the receipt it issued
JudgedAt == control'.receipt.expiresAt - LeaseTtl

\* Admissions follow the handoffs: after a node was admitted for a generation,
\* no admission for an earlier generation is ever given.
GrantsFollowHandoffs ==
    [][lastGrant'.generation >= lastGrant.generation]_vars

\* An emergency comes well after the old primary's last admission: the silence it
\* waits for outlasts the health that admitted the last write.
EmergencyGap ==
    [][HandedOver /\ Mode(control, JudgedAt) = "emergency"
          /\ lastGrant.generation = control.generation
       => JudgedAt - lastGrant.now >= EmergencyAge - Limit(control.primary)]_vars

\* The checkout that takes over contains the work that is handed over.
HandoffKeepsWork ==
    [][HandedOver => head[control'.primary] >= control.checkpoint.head]_vars

\* A lease that expired before its primary took it up can never become active.
ExpiredLeaseStaysClosed ==
    [][control # None /\ control.pending /\ clock - Latency >= control.receipt.expiresAt
       => control'.pending /\ grants' = grants]_vars

--------------------------------------------------------------------------------
(* The promise this system keeps, seen through the control record.         *)

Lease == INSTANCE ExecutorLease WITH
    generation <- IF control = None THEN 0 ELSE control.generation,
    holder <- IF control = None THEN "mac" ELSE control.primary,
    active <- control # None /\ ~control.pending

\* Every step of the control plane is a step of ExecutorLease or changes nothing
\* it speaks of.
ImplementsLease == Lease!Spec
================================================================================
