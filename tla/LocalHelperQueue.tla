--------------------------- MODULE LocalHelperQueue ----------------------------
(***************************************************************************)
(* The VPS-local queue of privileged maintenance executions                *)
(* (scripts/vps-local-helper-queue.mjs): a directory per stage, a file per *)
(* execution, a state file per execution.  The bridge's handlers enqueue,  *)
(* the runners claim, run the root helper and complete.  Every await on    *)
(* the file system is a step of its own, so handlers and runners           *)
(* interleave between any two of them, and either can stop at any of them. *)
(*                                                                         *)
(* Execution ids are numbers: the order of the numbers is the order in     *)
(* which claim sorts the file names.                                       *)
(***************************************************************************)
EXTENDS Naturals, FiniteSets

CONSTANTS
    Ids,        \* execution ids, numbers
    Handlers,   \* concurrent enqueue calls of the bridge
    Runners,    \* runner processes
    MaxSends,   \* bound: requests received
    MaxCrashes, \* bound: processes that stop in the middle
    MaxDenials, \* bound: executor-fence refusals between claim and execution
    MaxThrows   \* bound: file-system errors while a result is recorded

ASSUME QueueAssumption ==
    /\ Ids \subseteq Nat
    /\ IsFiniteSet(Runners)
    /\ {MaxSends, MaxCrashes, MaxDenials, MaxThrows} \subseteq Nat

VARIABLES
    files,     \* files[d]: the ids that have a file in directory d
    state,     \* state[id]: the status in the id's state file
    handler,   \* handler[h]: what an enqueue call is about to do, and for which id
    runner,    \* runner[r]: what a runner is about to do, for which id, and its candidates
    sends,     \* requests received so far
    crashes,   \* processes stopped so far
    denials,   \* fence refusals so far
    throws,    \* completions that failed so far
    made,      \* history: files created in pending, per id
    started,   \* history: executions of the root helper, per id
    succeeded  \* history: the ids whose helper has succeeded

disk == <<files, state>>
bounds == <<sends, crashes, denials, throws>>
history == <<made, started, succeeded>>
vars == <<disk, handler, runner, bounds, history>>

Directories == {"pending", "running", "completed", "failed"}
Statuses == {"none", "pending", "running", "completed", "failed"}
HandlerSteps == {"idle", "prune", "check", "file", "state"}
RunnerSteps == {"idle", "claim", "read", "rewrite", "state", "fence", "helper",
                "record", "move", "publish"}

IdleHandler == [at |-> "idle", id |-> 0]
IdleRunner == [at |-> "idle", id |-> 0, list |-> {}, status |-> "none"]

Init ==
    /\ files = [d \in Directories |-> {}]
    /\ state = [i \in Ids |-> "none"]
    /\ handler = [h \in Handlers |-> IdleHandler]
    /\ runner = [r \in Runners |-> IdleRunner]
    /\ sends = 0
    /\ crashes = 0
    /\ denials = 0
    /\ throws = 0
    /\ made = [i \in Ids |-> 0]
    /\ started = [i \in Ids |-> 0]
    /\ succeeded = {}

--------------------------------------------------------------------------------
(* enqueueVpsLocalHelperExecution, in a handler of the bridge.             *)

HandlerAt(h, step, id) == handler' = [handler EXCEPT ![h] = [at |-> step, id |-> id]]

Receive(h, id) ==
    /\ handler[h].at = "idle"
    /\ sends < MaxSends
    /\ sends' = sends + 1
    /\ HandlerAt(h, "prune", id)
    /\ UNCHANGED <<disk, runner, crashes, denials, throws, history>>

\* Mutant of Prune: the retention covers the running directory too.
PruneRunning(h, old) ==
    /\ handler[h].at = "prune"
    /\ files' = [d \in Directories |-> IF d = "pending" THEN files[d] ELSE files[d] \ old]
    /\ HandlerAt(h, "check", handler[h].id)
    /\ UNCHANGED <<state, runner, bounds, history>>

\* pruneVpsLocalHelperQueue: results past their retention are removed.
Prune(h, old) ==
    /\ handler[h].at = "prune"
    /\ files' = [files EXCEPT !["completed"] = @ \ old, !["failed"] = @ \ old]
    /\ HandlerAt(h, "check", handler[h].id)
    /\ UNCHANGED <<state, runner, bounds, history>>

\* A file that is still pending makes the request a duplicate.
CheckDuplicate(h) ==
    /\ handler[h].at = "check"
    /\ IF handler[h].id \in files["pending"]
       THEN handler' = [handler EXCEPT ![h] = IdleHandler]
       ELSE HandlerAt(h, "file", handler[h].id)
    /\ UNCHANGED <<disk, runner, bounds, history>>

WritePending(h) ==
    LET id == handler[h].id IN
    /\ handler[h].at = "file"
    /\ files' = [files EXCEPT !["pending"] = @ \cup {id}]
    /\ made' = IF id \in files["pending"] THEN made ELSE [made EXCEPT ![id] = @ + 1]
    /\ HandlerAt(h, "state", id)
    /\ UNCHANGED <<state, runner, bounds, started, succeeded>>

WritePendingState(h) ==
    /\ handler[h].at = "state"
    /\ state' = [state EXCEPT ![handler[h].id] = "pending"]
    /\ handler' = [handler EXCEPT ![h] = IdleHandler]
    /\ UNCHANGED <<files, runner, bounds, history>>

--------------------------------------------------------------------------------
(* claimNextVpsLocalHelperExecution, in a runner.                          *)

Goto(r, step) == runner' = [runner EXCEPT ![r].at = step]
Stop(r) == runner' = [runner EXCEPT ![r] = IdleRunner]

\* readdir: the candidates are the ids pending now.
ListPending(r) ==
    /\ runner[r].at = "idle"
    /\ files["pending"] # {}
    /\ runner' = [runner EXCEPT ![r].at = "claim", ![r].list = files["pending"]]
    /\ UNCHANGED <<disk, handler, bounds, history>>

\* The names are tried in their order.
First(r) == {id \in runner[r].list : \A other \in runner[r].list : id <= other}

\* Mutant of ClaimNext: the claim copies the file instead of renaming it.
ClaimByCopy(r) ==
    /\ runner[r].at = "claim"
    /\ \E id \in First(r) :
          /\ id \in files["pending"]
          /\ files' = [files EXCEPT !["running"] = @ \cup {id}]
          /\ runner' = [runner EXCEPT ![r].at = "read", ![r].id = id]
    /\ UNCHANGED <<state, handler, bounds, history>>

\* rename pending to running: the first candidate whose file is still there wins;
\* the rename replaces a file of the same id that is already running.
ClaimNext(r) ==
    /\ runner[r].at = "claim"
    /\ \E id \in First(r) :
          IF id \in files["pending"]
          THEN /\ files' = [files EXCEPT !["pending"] = @ \ {id}, !["running"] = @ \cup {id}]
               /\ runner' = [runner EXCEPT ![r].at = "read", ![r].id = id]
          ELSE /\ files' = files
               /\ runner' = [runner EXCEPT ![r].list = @ \ {id}]
    /\ UNCHANGED <<state, handler, bounds, history>>

NothingToClaim(r) ==
    /\ runner[r].at = "claim"
    /\ runner[r].list = {}
    /\ Stop(r)
    /\ UNCHANGED <<disk, handler, bounds, history>>

\* readFile of the file just claimed; if it is gone the runner exits.
ReadClaimed(r) ==
    /\ runner[r].at = "read"
    /\ IF runner[r].id \in files["running"] THEN Goto(r, "rewrite") ELSE Stop(r)
    /\ UNCHANGED <<disk, handler, bounds, history>>

RewriteClaimed(r) ==
    /\ runner[r].at = "rewrite"
    /\ files' = [files EXCEPT !["running"] = @ \cup {runner[r].id}]
    /\ Goto(r, "state")
    /\ UNCHANGED <<state, handler, bounds, history>>

WriteRunningState(r) ==
    /\ runner[r].at = "state"
    /\ state' = [state EXCEPT ![runner[r].id] = "running"]
    /\ Goto(r, "fence")
    /\ UNCHANGED <<files, handler, bounds, history>>

--------------------------------------------------------------------------------
(* executeVpsLocalPrivilegedMaintenanceRunnerExecution.                    *)

\* The executor fence is asked again between the claim and the execution ...
PassFence(r) ==
    /\ runner[r].at = "fence"
    /\ started' = [started EXCEPT ![runner[r].id] = @ + 1]
    /\ Goto(r, "helper")
    /\ UNCHANGED <<disk, handler, bounds, made, succeeded>>

\* ... and a refusal ends the runner, with the execution still in running.
DenyFence(r) ==
    /\ runner[r].at = "fence"
    /\ denials < MaxDenials
    /\ denials' = denials + 1
    /\ Stop(r)
    /\ UNCHANGED <<disk, handler, sends, crashes, throws, history>>

\* Mutant of RunHelper: the result is completed whatever the helper returns.
RunHelperOptimistic(r, ok) ==
    /\ runner[r].at = "helper"
    /\ succeeded' = IF ok THEN succeeded \cup {runner[r].id} ELSE succeeded
    /\ runner' = [runner EXCEPT ![r].at = "record", ![r].status = "completed"]
    /\ UNCHANGED <<disk, handler, bounds, made, started>>

\* Mutant of RunHelper: the result takes the helper's own word for its status.
RunHelperRawStatus(r, ok) ==
    /\ runner[r].at = "helper"
    /\ succeeded' = IF ok THEN succeeded \cup {runner[r].id} ELSE succeeded
    /\ runner' = [runner EXCEPT ![r].at = "record",
                                ![r].status = IF ok THEN "success" ELSE "failed"]
    /\ UNCHANGED <<disk, handler, bounds, made, started>>

RunHelper(r, ok) ==
    /\ runner[r].at = "helper"
    /\ succeeded' = IF ok THEN succeeded \cup {runner[r].id} ELSE succeeded
    /\ runner' = [runner EXCEPT ![r].at = "record",
                                ![r].status = IF ok THEN "completed" ELSE "failed"]
    /\ UNCHANGED <<disk, handler, bounds, made, started>>

(* completeVpsLocalHelperExecution. *)

RecordResult(r) ==
    /\ runner[r].at = "record"
    /\ files' = [files EXCEPT !["running"] = @ \cup {runner[r].id}]
    /\ Goto(r, "move")
    /\ UNCHANGED <<state, handler, bounds, history>>

\* rename running to the result directory, or write there when it is gone.
MoveResult(r) ==
    LET id == runner[r].id IN
    /\ runner[r].at = "move"
    /\ files' = [files EXCEPT !["running"] = @ \ {id},
                              ![runner[r].status] = @ \cup {id}]
    /\ Goto(r, "publish")
    /\ UNCHANGED <<state, handler, bounds, history>>

PublishResult(r) ==
    /\ runner[r].at = "publish"
    /\ state' = [state EXCEPT ![runner[r].id] = runner[r].status]
    /\ Stop(r)
    /\ UNCHANGED <<files, handler, bounds, history>>

\* Mutant of CompletionThrows: nothing catches the error, and the runner ends.
ThrowEndsRunner(r) ==
    /\ runner[r].at \in {"record", "move", "publish"}
    /\ runner[r].status = "completed"
    /\ throws < MaxThrows
    /\ throws' = throws + 1
    /\ Stop(r)
    /\ UNCHANGED <<disk, handler, sends, crashes, denials, history>>

\* Mutant of CompletionThrows: the catch block runs the helper once more.
ThrowRunsAgain(r) ==
    /\ runner[r].at \in {"record", "move", "publish"}
    /\ runner[r].status = "completed"
    /\ throws < MaxThrows
    /\ throws' = throws + 1
    /\ runner' = [runner EXCEPT ![r].at = "helper", ![r].status = "none"]
    /\ UNCHANGED <<disk, handler, sends, crashes, denials, history>>

\* A file-system error while a completed result is recorded lands in the catch
\* block, which records the same execution as failed.  (A further error there ends
\* the runner, as CrashRunner does.)
CompletionThrows(r) ==
    /\ runner[r].at \in {"record", "move", "publish"}
    /\ runner[r].status = "completed"
    /\ throws < MaxThrows
    /\ throws' = throws + 1
    /\ runner' = [runner EXCEPT ![r].at = "record", ![r].status = "failed"]
    /\ UNCHANGED <<disk, handler, sends, crashes, denials, history>>

--------------------------------------------------------------------------------
CrashHandler(h) ==
    /\ handler[h].at # "idle"
    /\ crashes < MaxCrashes
    /\ crashes' = crashes + 1
    /\ handler' = [handler EXCEPT ![h] = IdleHandler]
    /\ UNCHANGED <<disk, runner, sends, denials, throws, history>>

CrashRunner(r) ==
    /\ runner[r].at # "idle"
    /\ crashes < MaxCrashes
    /\ crashes' = crashes + 1
    /\ Stop(r)
    /\ UNCHANGED <<disk, handler, sends, denials, throws, history>>

HandlerStep(h) ==
    \/ \E old \in SUBSET (files["completed"] \cup files["failed"]) : Prune(h, old)
    \/ CheckDuplicate(h)
    \/ WritePending(h)
    \/ WritePendingState(h)

RunnerStep(r) ==
    \/ ListPending(r)
    \/ ClaimNext(r)
    \/ NothingToClaim(r)
    \/ ReadClaimed(r)
    \/ RewriteClaimed(r)
    \/ WriteRunningState(r)
    \/ PassFence(r)
    \/ \E ok \in BOOLEAN : RunHelper(r, ok)
    \/ RecordResult(r)
    \/ MoveResult(r)
    \/ PublishResult(r)

Next ==
    \/ \E h \in Handlers, id \in Ids : Receive(h, id)
    \/ \E h \in Handlers : HandlerStep(h) \/ CrashHandler(h)
    \/ \E r \in Runners : RunnerStep(r) \/ DenyFence(r) \/ CompletionThrows(r) \/ CrashRunner(r)

Spec == Init /\ [][Next]_vars

\* The bridge finishes what it started; the runner's timer starts it again and
\* again, and a runner finishes what it started.
LiveSpec ==
    /\ Spec
    /\ \A h \in Handlers : WF_vars(HandlerStep(h))
    /\ \A r \in Runners : WF_vars(RunnerStep(r))

--------------------------------------------------------------------------------
(* Properties.                                                             *)

TypeOK ==
    /\ files \in [Directories -> SUBSET Ids]
    /\ state \in [Ids -> Statuses]
    /\ handler \in [Handlers -> [at : HandlerSteps, id : Ids \cup {0}]]
    /\ runner \in [Runners -> [at : RunnerSteps, id : Ids \cup {0},
                               list : SUBSET Ids, status : Statuses]]
    /\ {sends, crashes, denials, throws} \subseteq Nat
    /\ made \in [Ids -> Nat]
    /\ started \in [Ids -> Nat]
    /\ succeeded \subseteq Ids

\* The rename is the claim: however many runners race and wherever they stop, the
\* root helper is started at most once for every file put into pending.
OneExecutionPerFile == \A i \in Ids : started[i] <= made[i]

\* No request is lost: once it has a file it keeps one, through every claim, crash
\* and completion, until the retention removes a result.
NeverVanishes ==
    [][\A i \in Ids :
          (\E d \in Directories : i \in files[d]) /\ ~(\E d \in Directories : i \in files'[d])
          => i \notin files["pending"] \cup files["running"]]_vars

\* A success is only ever reported for an execution whose helper succeeded.
SuccessIsTrue ==
    \A i \in Ids :
        i \in files["completed"] \/ state[i] = "completed" => i \in succeeded

Finished(i) == i \in files["completed"] \cup files["failed"]

\* Every request that was put into the queue is eventually completed or failed,
\* through races, repetitions and errors of the file system, unless a process
\* stopped or the executor fence refused after the claim.
EventuallyFinished ==
    \A i \in Ids :
        i \in files["pending"] ~> Finished(i) \/ crashes > 0 \/ denials > 0

\* "duplicate request" is executed once: a request id never starts the root
\* helper twice (docs/development-strategy/issue-741-vps-local-helper-queue.md).
NoDoubleExecution == \A i \in Ids : started[i] <= 1

--------------------------------------------------------------------------------
(* The promise of this queue, seen through the pending directory, the      *)
(* claims of the runners and the results in directories and state files.   *)

Stage(v) ==
    CASE v.at \in {"read", "rewrite", "state", "fence"} -> "taken"
      [] v.at = "helper" -> "running"
      [] v.at \in {"record", "move", "publish"} -> "over"
      [] OTHER -> "none"

Task(v) == [stage |-> Stage(v), id |-> IF Stage(v) = "none" THEN 0 ELSE v.id,
            ok |-> v.status = "completed"]

Results ==
    {[id |-> i, ok |-> TRUE] : i \in files["completed"] \cup {j \in Ids : state[j] = "completed"}}
    \cup {[id |-> i, ok |-> FALSE] : i \in files["failed"] \cup {j \in Ids : state[j] = "failed"}}

Promise == INSTANCE MaintenanceQueue WITH
    Workers <- Runners,
    waiting <- files["pending"],
    task <- [r \in Runners |-> Task(runner[r])],
    puts <- made,
    starts <- started,
    results <- Results

\* However handlers and runners interleave at the file system, stop and fail,
\* each of their steps is a step of MaintenanceQueue or nothing it speaks of:
\* the rename is a claim by one runner, a claim is one start of the helper, and
\* what directories and state files say is what the helper returned.
ImplementsPromise == Promise!Spec
================================================================================
