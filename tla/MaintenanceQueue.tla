----------------------------- MODULE MaintenanceQueue -----------------------------
(***************************************************************************)
(* What the queue of privileged maintenance promises, without directories, *)
(* state files, candidate lists or the handlers that fill it: a request    *)
(* that waits is taken by one worker; a worker starts the root helper once *)
(* for what it took; a result is what the helper returned, or a failure;   *)
(* results may be forgotten, requests may not.                             *)
(* LocalHelperQueue implements this specification.                         *)
(***************************************************************************)
EXTENDS Naturals

CONSTANTS Ids, Workers

VARIABLES
    waiting,    \* the requests that nobody has taken
    task,       \* task[w]: what worker w does, for which request, and the result it knows
    puts,       \* history: how often each request was put into the queue
    starts,     \* history: how often the root helper was started for it
    succeeded,  \* history: the requests whose helper has succeeded
    results     \* what is on record about requests

vars == <<waiting, task, puts, starts, succeeded, results>>

Doing(stage, id, ok) == [stage |-> stage, id |-> id, ok |-> ok]
Nothing == Doing("none", 0, FALSE)
Result(t) == [id |-> t.id, ok |-> t.ok]

Init ==
    /\ waiting = {}
    /\ task = [w \in Workers |-> Nothing]
    /\ puts = [i \in Ids |-> 0] /\ starts = [i \in Ids |-> 0]
    /\ succeeded = {} /\ results = {}

Put(i) ==
    /\ i \notin waiting
    /\ waiting' = waiting \cup {i}
    /\ puts' = [puts EXCEPT ![i] = @ + 1]
    /\ UNCHANGED <<task, starts, succeeded, results>>

Take(w, i) ==
    /\ task[w] = Nothing /\ i \in waiting
    /\ waiting' = waiting \ {i}
    /\ task' = [task EXCEPT ![w] = Doing("taken", i, FALSE)]
    /\ UNCHANGED <<puts, starts, succeeded, results>>

Start(w) ==
    /\ task[w].stage = "taken"
    /\ task' = [task EXCEPT ![w] = Doing("running", @.id, FALSE)]
    /\ starts' = [starts EXCEPT ![task[w].id] = @ + 1]
    /\ UNCHANGED <<waiting, puts, succeeded, results>>

Return(w, ok) ==
    /\ task[w].stage = "running"
    /\ task' = [task EXCEPT ![w] = Doing("over", @.id, ok)]
    /\ succeeded' = IF ok THEN succeeded \cup {task[w].id} ELSE succeeded
    /\ UNCHANGED <<waiting, puts, starts, results>>

\* What is on record about request i.
About(i) == {x \in results : x.id = i}

\* The result goes on record, in several places one after the other, and may
\* replace what is there about the same request.
Report(w) ==
    /\ task[w].stage = "over"
    /\ \E old \in SUBSET About(task[w].id) : results' = (results \ old) \cup {Result(task[w])}
    /\ task' \in {task, [task EXCEPT ![w] = Nothing]}
    /\ UNCHANGED <<waiting, puts, starts, succeeded>>

\* A result that cannot be recorded becomes a failure, never the reverse.
Fail(w) ==
    /\ task[w].stage = "over"
    /\ task' = [task EXCEPT ![w] = Doing("over", @.id, FALSE)]
    /\ UNCHANGED <<waiting, puts, starts, succeeded, results>>

\* The worker stops or is refused.
Drop(w) ==
    /\ task' = [task EXCEPT ![w] = Nothing]
    /\ UNCHANGED <<waiting, puts, starts, succeeded, results>>

Forget ==
    /\ results' \in SUBSET results
    /\ UNCHANGED <<waiting, task, puts, starts, succeeded>>

Next ==
    \/ \E i \in Ids : Put(i)
    \/ \E w \in Workers :
         \/ \E i \in Ids : Take(w, i)
         \/ Start(w) \/ Report(w) \/ Fail(w) \/ Drop(w)
         \/ \E ok \in BOOLEAN : Return(w, ok)
    \/ Forget

Spec == Init /\ [][Next]_vars
================================================================================
