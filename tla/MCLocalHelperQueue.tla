--------------------------- MODULE MCLocalHelperQueue --------------------------
(* Small instances of LocalHelperQueue for TLC; the .cfg files set their bounds. *)
EXTENDS LocalHelperQueue
================================================================================
