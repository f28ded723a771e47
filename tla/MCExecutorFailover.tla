-------------------------- MODULE MCExecutorFailover ---------------------------
(* Small instances of ExecutorFailover for TLC. *)
EXTENDS ExecutorFailover

Seen(v, sm, se, c) == [version |-> v, smoke |-> sm, service |-> se, clean |-> c]

\* a node that works and a node that is quiet, both healthy and clean
RunningOrQuiet == {Seen("v1", TRUE, "running", TRUE), Seen("v1", TRUE, "inactive", TRUE)}

\* the Mac's clock runs ahead of the server's
MacAhead == [n \in Nodes |-> IF n = "mac" THEN 1 ELSE 0]

NoOffset == [n \in Nodes |-> 0]
================================================================================
