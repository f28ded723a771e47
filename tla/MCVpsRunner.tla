------------------------------ MODULE MCVpsRunner ------------------------------
(* Instances of VpsRunner for TLC. *)
EXTENDS VpsRunner

CONSTANTS vps, standby

MCRunners == {vps, standby}

================================================================================
