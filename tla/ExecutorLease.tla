------------------------------ MODULE ExecutorLease ------------------------------
(***************************************************************************)
(* What the executor control plane promises, without clocks, messages or   *)
(* health: authority is a sequence of generations, each held by one node;  *)
(* a new generation belongs to the other node and admits nobody until that *)
(* node has taken it up; only the current, active holder is ever admitted. *)
(* ExecutorFailover implements this specification.                         *)
(***************************************************************************)
EXTENDS Integers

VARIABLES
    generation,  \* 0 until the owner bootstraps the control record
    holder,      \* the node the current generation belongs to
    active,      \* has the holder taken it up
    grants       \* every (node, generation) ever admitted

vars == <<generation, holder, active, grants>>

Nodes == {"mac", "vps"}
Other(n) == IF n = "mac" THEN "vps" ELSE "mac"

Init ==
    /\ generation = 0
    /\ holder = "mac"
    /\ active = FALSE
    /\ grants = {}

Start ==
    /\ generation = 0
    /\ generation' = 1
    /\ active' = TRUE
    /\ UNCHANGED <<holder, grants>>

HandOver ==
    /\ active
    /\ generation' = generation + 1
    /\ holder' = Other(holder)
    /\ active' = FALSE
    /\ UNCHANGED grants

TakeUp ==
    /\ generation > 1
    /\ active' = TRUE
    /\ UNCHANGED <<generation, holder, grants>>

Grant ==
    /\ active
    /\ grants' = grants \cup {[node |-> holder, generation |-> generation]}
    /\ UNCHANGED <<generation, holder, active>>

Next == Start \/ HandOver \/ TakeUp \/ Grant

Spec == Init /\ [][Next]_vars

--------------------------------------------------------------------------------
TypeOK ==
    /\ generation \in Nat
    /\ holder \in Nodes
    /\ active \in BOOLEAN
    /\ grants \subseteq [node : Nodes, generation : Nat]

\* Two nodes are never admitted for the same generation (the "single-writer
\* guard" of docs/development-strategy/issue-858-mac-primary-vps-standby.md).
SingleWriter == \A g, h \in grants : g.generation = h.generation => g.node = h.node

\* Nobody is admitted for a generation its holder has not taken up.
PendingUngranted == ~active => \A g \in grants : g.generation < generation
================================================================================
