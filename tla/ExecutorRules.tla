----------------------------- MODULE ExecutorRules -----------------------------
(***************************************************************************)
(* The pure decision rules of the executor control plane: which node is    *)
(* healthy, when a handoff is ready, what a node report, a handoff and a   *)
(* version approval do to the control record.                              *)
(*                                                                         *)
(* Source: src/src/core/executor-failover-state.js.  Instants are integers *)
(* in an arbitrary unit.  observedAt and heartbeatAt are one instant "at"  *)
(* because the only producer, projectNodeReport, sets both to the same     *)
(* "now"; dirty and unpushed are one flag "clean" because every rule reads *)
(* them together; the identity of a checkpoint (repository, branch, base,  *)
(* head, issue, pull) is one number "head", which the rules only compare.  *)
(* A receipt's UUID is represented by the generation it grants: one handoff*)
(* commits per generation, and only a committed receipt is ever returned.  *)
(***************************************************************************)
EXTENDS Integers

CONSTANTS
    None,             \* null: no control record, no report, no checkpoint
    Versions,         \* Codex versions
    MacLimit,         \* 120000 ms: the Mac's heartbeat limit
    VpsLimit,         \* 300000 ms: the VPS's heartbeat limit
    CheckpointLimit,  \* 600000 ms: a checkpoint's freshness in a planned handoff
    EmergencyAge,     \* 600000 ms: the primary's silence before an emergency
    LeaseTtl,         \* 600000 ms: the life of a lease receipt
    Skew              \* 120000 ms: tolerated clock skew, signature window

ASSUME LimitsAssumption ==
    /\ {MacLimit, VpsLimit, CheckpointLimit, EmergencyAge, LeaseTtl, Skew} \subseteq Nat
    /\ MacLimit <= VpsLimit
    /\ VpsLimit < EmergencyAge

Nodes == {"mac", "vps"}
Other(n) == IF n = "mac" THEN "vps" ELSE "mac"
Limit(n) == IF n = "mac" THEN MacLimit ELSE VpsLimit

Services == {"running", "standby", "inactive", "stopped", "unknown"}
Quiet == {"standby", "inactive", "stopped"}

Checkpoint == [head : Nat, clean : BOOLEAN, generation : Nat, at : Int]

\* A report as stored: what the node sent, and when the server received it.
Report ==
    [at : Int, receivedAt : Int, generation : Nat, version : Versions,
     smoke : BOOLEAN, service : Services, lease : Nat,
     checkpoint : Checkpoint \cup {None}]

Receipt == [to : Nodes, generation : Nat, expiresAt : Int]

Control ==
    [primary : Nodes, generation : Nat, approved : Versions,
     nodes : [Nodes -> Report \cup {None}],
     checkpoint : Checkpoint \cup {None},
     pending : BOOLEAN, receipt : Receipt \cup {None}]

\* null is no record.
ASSUME NoneAssumption == None \notin Receipt /\ None \notin Control /\ None \notin Report

Fresh(at, now, limit) == now - at >= -Skew /\ now - at <= limit

--------------------------------------------------------------------------------
\* Mutant of Healthy: forgets that a pending lease makes the primary unhealthy.
HealthyWhilePending(c, n, now) ==
    LET r == c.nodes[n] IN
    /\ r # None
    /\ Fresh(r.at, now, Limit(n))
    /\ r.generation = c.generation

\* executorOverview: the health of one node.  The primary Mac may run ahead of
\* the approved version; a pending lease makes the primary unhealthy.
Healthy(c, n, now) ==
    LET r == c.nodes[n] IN
    /\ r # None
    /\ Fresh(r.at, now, Limit(n))
    /\ Fresh(r.receivedAt, now, Limit(n))
    /\ r.generation = c.generation
    /\ r.smoke
    /\ (n = "mac" /\ c.primary = "mac") \/ r.version = c.approved
    /\ ~(c.pending /\ n = c.primary)

VersionApprovalPending(c, now) ==
    /\ Healthy(c, "mac", now)
    /\ c.nodes["mac"].version # c.approved

PrimaryFresh(c, now) ==
    LET r == c.nodes[c.primary] IN
    /\ r # None
    /\ Fresh(r.at, now, Limit(c.primary))
    /\ Fresh(r.at, now, VpsLimit)
    /\ Fresh(r.receivedAt, now, VpsLimit)

Mode(c, now) == IF PrimaryFresh(c, now) THEN "planned" ELSE "emergency"

\* The standby side reported lately, at this generation, is quiet and matches.
TargetReady(c, now) ==
    LET t == c.nodes[Other(c.primary)] IN
    /\ t # None
    /\ Fresh(t.at, now, Limit(Other(c.primary)))
    /\ Fresh(t.at, now, VpsLimit)
    /\ Fresh(t.receivedAt, now, VpsLimit)
    /\ t.version = c.approved
    /\ t.smoke
    /\ t.generation = c.generation
    /\ t.service \in Quiet
    /\ t.checkpoint # None => t.checkpoint.clean

CheckpointUsable(c, now) ==
    /\ c.checkpoint # None
    /\ PrimaryFresh(c, now) => Fresh(c.checkpoint.at, now, CheckpointLimit)
    /\ c.checkpoint.clean
    /\ c.checkpoint.generation = c.generation

\* Mutant of CheckpointSynchronized: a clean standby checkout is enough.
CheckpointClean(c, now) ==
    LET t == c.nodes[Other(c.primary)].checkpoint IN
    t # None /\ t.clean /\ t.generation = c.generation

\* The standby's own checkpoint names the work that is being handed over.
CheckpointSynchronized(c, now) ==
    LET t == c.nodes[Other(c.primary)].checkpoint
        p == c.nodes[c.primary].checkpoint
    IN  /\ t # None
        /\ t.clean
        /\ t.generation = c.generation
        /\ t.head = c.checkpoint.head
        /\ PrimaryFresh(c, now) =>
              /\ Fresh(t.at, now, CheckpointLimit)
              /\ p # None
              /\ t.head = p.head

PrimaryQuiesced(c, now) ==
    LET r == c.nodes[c.primary] IN
    /\ r.service \in Quiet
    /\ r.checkpoint # None
    /\ r.checkpoint.clean
    /\ r.checkpoint.generation = c.generation
    /\ r.generation = c.generation
    /\ Fresh(r.checkpoint.at, now, CheckpointLimit)

\* Mutant of PrimaryLongSilent: a stale heartbeat is enough for an emergency.
PrimaryStale(c, now) == c.nodes[c.primary] # None

PrimaryLongSilent(c, now) ==
    LET r == c.nodes[c.primary] IN
    /\ r # None
    /\ now - r.at >= EmergencyAge
    /\ now - r.receivedAt >= EmergencyAge

\* executorOverview: no blocker is left.
Ready(c, now) ==
    /\ ~c.pending
    /\ ~VersionApprovalPending(c, now)
    /\ TargetReady(c, now)
    /\ CheckpointUsable(c, now)
    /\ CheckpointSynchronized(c, now)
    /\ IF PrimaryFresh(c, now) THEN PrimaryQuiesced(c, now)
                               ELSE PrimaryLongSilent(c, now)

\* Mutants of MayWrite: any healthy node; the primary, whatever its health.
MayWriteAnyNode(c, n, generation, now) ==
    c # None /\ c.generation = generation /\ Healthy(c, n, now)

MayWriteUnhealthy(c, n, generation, now) ==
    c # None /\ c.primary = n /\ c.generation = generation

MayWrite(c, n, generation, now) ==
    /\ c # None
    /\ c.primary = n
    /\ c.generation = generation
    /\ Healthy(c, n, now)

--------------------------------------------------------------------------------
\* applyNodeReport: refuse a report from the future or out of order ...
Acceptable(c, n, r, now) ==
    LET previous == c.nodes[n] IN
    /\ now - r.at >= -Skew
    /\ r.checkpoint # None => now - r.checkpoint.at >= -Skew
    /\ previous # None => r.at > previous.at /\ r.generation >= previous.generation

\* Mutants of Activates: any receipt; an expired receipt.
ActivatesAnyReceipt(c, n, r, now) ==
    c.pending /\ n = c.primary /\ r.generation = c.generation /\ r.service = "running"

ActivatesExpired(c, n, r, now) ==
    /\ c.pending /\ n = c.primary /\ r.generation = c.generation
    /\ r.lease = c.receipt.generation /\ r.service = "running"

\* ... and decide whether it proves that the new primary took up its lease.
Activates(c, n, r, now) ==
    /\ c.pending
    /\ n = c.primary
    /\ r.generation = c.generation
    /\ c.receipt # None
    /\ r.lease = c.receipt.generation
    /\ c.receipt.expiresAt > now
    /\ Fresh(r.at, now, MacLimit)
    /\ r.service = "running"
    /\ r.smoke
    /\ r.version = c.approved

ApplyReport(c, n, r, now) ==
    [c EXCEPT
        !.nodes = [@ EXCEPT ![n] = [r EXCEPT !.receivedAt = now]],
        !.pending = @ /\ ~Activates(c, n, r, now),
        !.checkpoint = IF n = c.primary /\ r.generation = c.generation
                            /\ r.checkpoint # None
                       THEN r.checkpoint ELSE @]

\* bootstrapControl: the first control record, from a fresh report of the Mac.
BootstrapAllowed(r, now) ==
    /\ r.generation = 1
    /\ r.smoke
    /\ Fresh(r.at, now, MacLimit)

BootstrapControl(r, now) ==
    [primary |-> "mac", generation |-> 1, approved |-> r.version,
     nodes |-> [n \in Nodes |-> IF n = "mac" THEN [r EXCEPT !.receivedAt = now]
                                             ELSE None],
     checkpoint |-> r.checkpoint, pending |-> FALSE, receipt |-> None]

\* transitionControl: swap the roles, open a generation, issue its receipt.
HandOver(c, now) ==
    [c EXCEPT
        !.primary = Other(@),
        !.generation = @ + 1,
        !.pending = TRUE,
        !.receipt = [to |-> Other(c.primary), generation |-> c.generation + 1,
                     expiresAt |-> now + LeaseTtl]]

VersionApprovable(c, version, now) ==
    LET mac == c.nodes["mac"] IN
    /\ ~c.pending
    /\ mac # None
    /\ mac.generation = c.generation
    /\ mac.version = version
    /\ mac.smoke
    /\ Fresh(mac.receivedAt, now, MacLimit)
    /\ Fresh(mac.at, now, MacLimit)

\* verifyLeaseReceipt, for the receipt the control record holds.
LeaseVerifies(c, now) ==
    /\ c # None
    /\ c.pending
    /\ c.receipt # None
    /\ now >= c.receipt.expiresAt - LeaseTtl - Skew
    /\ now < c.receipt.expiresAt
================================================================================
