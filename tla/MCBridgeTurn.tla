----------------------------- MODULE MCBridgeTurn -----------------------------
(* A small instance of BridgeTurn for TLC. *)
EXTENDS BridgeTurn

\* the second turn selects a model, and so does the fallback of its second attempt
MCPinned == {[turn |-> 2, attempt |-> 1], [turn |-> 2, attempt |-> 2]}
================================================================================
