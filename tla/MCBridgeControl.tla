---------------------------- MODULE MCBridgeControl ----------------------------
(* Small instances of BridgeControl for TLC; the .cfg files set their bounds. *)
EXTENDS BridgeControl
================================================================================
