------------------------- MODULE LocalHelperQueueProofs --------------------------
(***************************************************************************)
(* What holds of the helper queue for any number of ids, handlers, runners,*)
(* requests, stops, refusals and errors.                                   *)
(***************************************************************************)
EXTENDS LocalHelperQueue, FiniteSetTheorems, TLAPS

--------------------------------------------------------------------------------
(* Types, and what the steps of a runner rely on.                          *)

HandlerType == [at : HandlerSteps, id : Ids \cup {0}]
RunnerType == [at : RunnerSteps, id : Ids \cup {0}, list : SUBSET Ids, status : Statuses]

Recording == {"record", "move", "publish"}

\* A handler or runner in the middle of its work has an id of the queue, and a
\* runner knows a result exactly while it records one.
Working ==
    /\ \A h \in Handlers : handler[h].at # "idle" => handler[h].id \in Ids
    /\ \A r \in Runners :
          /\ runner[r].at \notin {"idle", "claim"} => runner[r].id \in Ids
          /\ runner[r].at \in Recording => runner[r].status \in {"completed", "failed"}
          /\ runner[r].at \notin Recording => runner[r].status = "none"

TInv == TypeOK /\ Working

LEMMA InitTInv == Init => TInv
  BY QueueAssumption DEF Init, TInv, TypeOK, Working, IdleHandler, IdleRunner,
     HandlerSteps, RunnerSteps, Recording, Statuses

\* A handler's record after a step.
LEMMA HandlerMoves ==
  ASSUME TInv, NEW h \in Handlers, NEW v \in HandlerType, v.at # "idle" => v.id \in Ids,
         handler' = [handler EXCEPT ![h] = v]
  PROVE  /\ handler' \in [Handlers -> HandlerType]
         /\ \A g \in Handlers : handler'[g].at # "idle" => handler'[g].id \in Ids
  BY DEF TInv, TypeOK, Working, HandlerType

\* A runner's record after a step.
LEMMA RunnerMoves ==
  ASSUME TInv, NEW r \in Runners, NEW v \in RunnerType,
         v.at \notin {"idle", "claim"} => v.id \in Ids,
         v.at \in Recording => v.status \in {"completed", "failed"},
         v.at \notin Recording => v.status = "none",
         runner' = [runner EXCEPT ![r] = v]
  PROVE  /\ runner' \in [Runners -> RunnerType]
         /\ \A q \in Runners :
               /\ runner'[q].at \notin {"idle", "claim"} => runner'[q].id \in Ids
               /\ runner'[q].at \in Recording => runner'[q].status \in {"completed", "failed"}
               /\ runner'[q].at \notin Recording => runner'[q].status = "none"
  BY DEF TInv, TypeOK, Working, RunnerType

LEMMA HandlerStepTInv ==
  ASSUME TInv, NEW h \in Handlers,
         (\E id \in Ids : Receive(h, id)) \/ HandlerStep(h) \/ CrashHandler(h)
  PROVE  TInv'
  <1> USE DEF HandlerAt, IdleHandler
  <1>1. \E v \in HandlerType : (v.at # "idle" => v.id \in Ids)
                               /\ handler' = [handler EXCEPT ![h] = v]
    <2>1. handler[h].at # "idle" => handler[h].id \in Ids
      BY DEF TInv, Working
    <2>2. [at |-> "idle", id |-> 0] \in HandlerType
      BY DEF HandlerType, HandlerSteps
    <2>3. \A i \in Ids, s \in HandlerSteps : [at |-> s, id |-> i] \in HandlerType
      BY DEF HandlerType
    <2>4. {"prune", "check", "file", "state"} \subseteq HandlerSteps
      BY DEF HandlerSteps
    <2> QED
      BY <2>1, <2>2, <2>3, <2>4 DEF Receive, HandlerStep, Prune, CheckDuplicate,
         WritePending, WritePendingState, CrashHandler
  <1>2. files' \in [Directories -> SUBSET Ids] /\ state' \in [Ids -> Statuses]
    <2> USE DEF TInv, TypeOK
    <2>1. CASE \E old \in SUBSET (files["completed"] \cup files["failed"]) : Prune(h, old)
      BY <2>1 DEF Prune, Directories
    <2>2. CASE WritePending(h)
      <3>1. handler[h].id \in Ids
        BY <2>2 DEF WritePending, Working
      <3> QED
        BY <2>2, <3>1 DEF WritePending, Directories
    <2>3. CASE WritePendingState(h)
      BY <2>3 DEF WritePendingState, Statuses
    <2>4. CASE (\E id \in Ids : Receive(h, id)) \/ CheckDuplicate(h) \/ CrashHandler(h)
      BY <2>4 DEF Receive, CheckDuplicate, CrashHandler, disk
    <2> QED
      BY <2>1, <2>2, <2>3, <2>4 DEF HandlerStep
  <1>3. /\ {sends', crashes', denials', throws'} \subseteq Nat
        /\ made' \in [Ids -> Nat] /\ started' \in [Ids -> Nat] /\ succeeded' \subseteq Ids
    BY DEF Receive, HandlerStep, Prune, CheckDuplicate, WritePending, WritePendingState,
       CrashHandler, bounds, history, TInv, TypeOK
  <1>4. runner' = runner
    BY DEF Receive, HandlerStep, Prune, CheckDuplicate, WritePending, WritePendingState,
       CrashHandler
  <1> QED
    <2>1. PICK v \in HandlerType : (v.at # "idle" => v.id \in Ids)
                                   /\ handler' = [handler EXCEPT ![h] = v]
      BY <1>1
    <2>2. /\ handler' \in [Handlers -> HandlerType]
          /\ \A g \in Handlers : handler'[g].at # "idle" => handler'[g].id \in Ids
      BY <2>1, HandlerMoves
    <2> QED
      BY <2>2, <1>2, <1>3, <1>4 DEF TInv, TypeOK, Working, HandlerType

\* The steps of a runner that change only its own record.
RunnerChoice(r) ==
    \/ ListPending(r) \/ NothingToClaim(r) \/ ReadClaimed(r) \/ PassFence(r) \/ DenyFence(r)
    \/ (\E ok \in BOOLEAN : RunHelper(r, ok)) \/ CompletionThrows(r) \/ CrashRunner(r)

\* The steps of a runner that write a file or a state.
RunnerWrite(r) ==
    \/ ClaimNext(r) \/ RewriteClaimed(r) \/ WriteRunningState(r)
    \/ RecordResult(r) \/ MoveResult(r) \/ PublishResult(r)

\* The record a runner has after its step.
LEMMA RunnerRecord ==
  ASSUME TInv, NEW r \in Runners, RunnerChoice(r) \/ RunnerWrite(r)
  PROVE  \E v \in RunnerType :
            /\ v.at \notin {"idle", "claim"} => v.id \in Ids
            /\ v.at \in Recording => v.status \in {"completed", "failed"}
            /\ v.at \notin Recording => v.status = "none"
            /\ runner' = [runner EXCEPT ![r] = v]
  <1> DEFINE old == runner[r]
             Fits(v) == /\ v.at \notin {"idle", "claim"} => v.id \in Ids
                        /\ v.at \in Recording => v.status \in {"completed", "failed"}
                        /\ v.at \notin Recording => v.status = "none"
             At(s) == [old EXCEPT !.at = s]
  <1>1. /\ old \in RunnerType
        /\ old.at \notin {"idle", "claim"} => old.id \in Ids
        /\ old.at \in Recording => old.status \in {"completed", "failed"}
        /\ old.at \notin Recording => old.status = "none"
    BY DEF TInv, TypeOK, Working, RunnerType
  <1>2. IdleRunner \in RunnerType /\ Fits(IdleRunner)
    BY DEF IdleRunner, RunnerType, RunnerSteps, Statuses, Recording
  <1>3. ASSUME NEW s \in RunnerSteps \ {"idle", "claim"}, old.at \notin {"idle", "claim"},
               s \in Recording <=> old.at \in Recording
        PROVE  At(s) \in RunnerType /\ Fits(At(s))
    BY <1>1, <1>3 DEF RunnerType
  <1>4. CASE Stop(r)
    BY <1>2, <1>4 DEF Stop
  <1>5. CASE \/ (ReadClaimed(r) /\ ~Stop(r)) \/ RewriteClaimed(r) \/ WriteRunningState(r)
             \/ PassFence(r) \/ RecordResult(r) \/ MoveResult(r)
    <2>1. \E s \in {"rewrite", "state", "fence", "helper", "move", "publish"} :
             /\ Goto(r, s)
             /\ old.at \notin {"idle", "claim"}
             /\ s \in Recording <=> old.at \in Recording
      BY <1>5 DEF ReadClaimed, RewriteClaimed, WriteRunningState, PassFence, RecordResult,
         MoveResult, Recording
    <2>2. PICK s \in {"rewrite", "state", "fence", "helper", "move", "publish"} :
             /\ Goto(r, s)
             /\ old.at \notin {"idle", "claim"}
             /\ s \in Recording <=> old.at \in Recording
      BY <2>1
    <2>3. s \in RunnerSteps \ {"idle", "claim"}
      BY DEF RunnerSteps
    <2>4. runner' = [runner EXCEPT ![r] = At(s)]
      BY <2>2 DEF Goto
    <2> QED
      BY <2>2, <2>3, <2>4, <1>3
  <1>6. CASE ListPending(r)
    <2> DEFINE v == [old EXCEPT !.at = "claim", !.list = files["pending"]]
    <2>1. v \in RunnerType /\ Fits(v)
      BY <1>1, <1>6 DEF ListPending, RunnerType, RunnerSteps, Recording, TInv, TypeOK, Directories
    <2>2. runner' = [runner EXCEPT ![r] = v]
      BY <1>6 DEF ListPending
    <2> QED
      BY <2>1, <2>2
  <1>7. CASE ClaimNext(r)
    <2>1. PICK id \in First(r) :
             IF id \in files["pending"]
             THEN runner' = [runner EXCEPT ![r].at = "read", ![r].id = id]
             ELSE runner' = [runner EXCEPT ![r].list = @ \ {id}]
      BY <1>7 DEF ClaimNext
    <2>2. id \in Ids /\ old.at = "claim"
      BY <1>1, <1>7 DEF First, RunnerType, ClaimNext
    <2> DEFINE v == [old EXCEPT !.at = "read", !.id = id]
               w == [old EXCEPT !.list = @ \ {id}]
    <2>3. v \in RunnerType /\ Fits(v)
      BY <1>1, <2>2 DEF RunnerType, RunnerSteps, Recording
    <2>4. w \in RunnerType /\ Fits(w)
      BY <1>1, <2>2 DEF RunnerType, RunnerSteps, Recording
    <2>5. runner' = [runner EXCEPT ![r] = v] \/ runner' = [runner EXCEPT ![r] = w]
      BY <2>1
    <2> QED
      BY <2>3, <2>4, <2>5
  <1>8. CASE \E ok \in BOOLEAN : RunHelper(r, ok)
    <2>1. PICK ok \in BOOLEAN : RunHelper(r, ok)
      BY <1>8
    <2> DEFINE v == [old EXCEPT !.at = "record", !.status = IF ok THEN "completed" ELSE "failed"]
    <2>2. v \in RunnerType /\ Fits(v)
      BY <1>1, <2>1 DEF RunHelper, RunnerType, RunnerSteps, Statuses, Recording
    <2>3. runner' = [runner EXCEPT ![r] = v]
      BY <2>1 DEF RunHelper
    <2> QED
      BY <2>2, <2>3
  <1>9. CASE CompletionThrows(r)
    <2> DEFINE v == [old EXCEPT !.at = "record", !.status = "failed"]
    <2>1. v \in RunnerType /\ Fits(v)
      BY <1>1, <1>9 DEF CompletionThrows, RunnerType, RunnerSteps, Statuses, Recording
    <2>2. runner' = [runner EXCEPT ![r] = v]
      BY <1>9 DEF CompletionThrows
    <2> QED
      BY <2>1, <2>2
  <1> QED
    BY <1>4, <1>5, <1>6, <1>7, <1>8, <1>9 DEF RunnerChoice, RunnerWrite, NothingToClaim,
       DenyFence, CrashRunner, PublishResult

LEMMA RunnerStepTInv ==
  ASSUME TInv, NEW r \in Runners, RunnerChoice(r) \/ RunnerWrite(r)
  PROVE  TInv'
  <1>1. /\ runner' \in [Runners -> RunnerType]
        /\ \A q \in Runners :
              /\ runner'[q].at \notin {"idle", "claim"} => runner'[q].id \in Ids
              /\ runner'[q].at \in Recording => runner'[q].status \in {"completed", "failed"}
              /\ runner'[q].at \notin Recording => runner'[q].status = "none"
    BY RunnerRecord, RunnerMoves
  <1>2. /\ handler' = handler /\ made' = made
        /\ {sends', crashes', denials', throws'} \subseteq Nat
        /\ started' \in [Ids -> Nat] /\ succeeded' \subseteq Ids
    <2> USE DEF TInv, TypeOK, bounds, history
    <2>1. CASE RunnerChoice(r)
      <3>1. CASE PassFence(r)
        <4>1. runner[r].id \in Ids
          BY <3>1 DEF PassFence, Working
        <4> QED
          BY <3>1, <4>1 DEF PassFence
      <3>2. CASE \E ok \in BOOLEAN : RunHelper(r, ok)
        BY <3>2 DEF RunHelper, Working, Recording
      <3>3. CASE DenyFence(r) \/ CompletionThrows(r) \/ CrashRunner(r)
        BY <3>3 DEF DenyFence, CompletionThrows, CrashRunner
      <3> QED
        BY <2>1, <3>1, <3>2, <3>3 DEF RunnerChoice, ListPending, NothingToClaim, ReadClaimed
    <2>2. CASE RunnerWrite(r)
      BY <2>2 DEF RunnerWrite, ClaimNext, RewriteClaimed, WriteRunningState, RecordResult,
         MoveResult, PublishResult
    <2> QED
      BY <2>1, <2>2
  <1>3. files' \in [Directories -> SUBSET Ids] /\ state' \in [Ids -> Statuses]
    <2> USE DEF TInv, TypeOK
    <2>1. CASE RunnerChoice(r)
      BY <2>1 DEF RunnerChoice, ListPending, NothingToClaim, ReadClaimed, PassFence, DenyFence,
         RunHelper, CompletionThrows, CrashRunner, disk
    <2>2. CASE ClaimNext(r)
      BY <2>2 DEF ClaimNext, First, Directories
    <2>3. CASE RewriteClaimed(r) \/ RecordResult(r) \/ MoveResult(r)
      <3>1. runner[r].id \in Ids
        BY <2>3 DEF Working, RewriteClaimed, RecordResult, MoveResult
      <3>2. CASE MoveResult(r)
        <4>1. runner[r].status \in {"completed", "failed"}
          BY <3>2 DEF MoveResult, Working, Recording
        <4> QED
          BY <3>1, <3>2, <4>1 DEF MoveResult, Directories
      <3> QED
        BY <2>3, <3>1, <3>2 DEF RewriteClaimed, RecordResult, Directories
    <2>4. CASE WriteRunningState(r) \/ PublishResult(r)
      BY <2>4 DEF WriteRunningState, PublishResult, Statuses
    <2> QED
      BY <2>1, <2>2, <2>3, <2>4 DEF RunnerWrite
  <1> QED
    BY <1>1, <1>2, <1>3 DEF TInv, TypeOK, Working, RunnerType

\* Every step is a step of one handler, of one runner, or none.
LEMMA Steps ==
  ASSUME [Next]_vars
  PROVE  \/ \E h \in Handlers :
               (\E id \in Ids : Receive(h, id)) \/ HandlerStep(h) \/ CrashHandler(h)
         \/ \E r \in Runners : RunnerChoice(r) \/ RunnerWrite(r)
         \/ UNCHANGED vars
  BY DEF Next, RunnerStep, RunnerChoice, RunnerWrite

LEMMA NextTInv == TInv /\ [Next]_vars => TInv'
  <1> SUFFICES ASSUME TInv, [Next]_vars
               PROVE  TInv'
    OBVIOUS
  <1>1. CASE UNCHANGED vars
    BY <1>1 DEF vars, disk, bounds, history, TInv, TypeOK, Working
  <1> QED
    BY <1>1, Steps, HandlerStepTInv, RunnerStepTInv

\* Every variable keeps its type, however the processes interleave.
THEOREM QueueTypes == Spec => []TypeOK
  <1>1. TInv => TypeOK
    BY DEF TInv
  <1> QED
    BY <1>1, InitTInv, NextTInv, PTL DEF Spec

--------------------------------------------------------------------------------
(* No request is lost.                                                     *)

\* A request that waits or is worked on has a file after every step.
LEMMA KeepsFile ==
  ASSUME TInv, [Next]_vars, NEW i \in Ids, i \in files["pending"] \cup files["running"]
  PROVE  \E d \in Directories : i \in files'[d]
  <1> USE DEF TInv, TypeOK
  <1>1. CASE files' = files
    BY <1>1 DEF Directories
  <1>2. ASSUME NEW h \in Handlers, HandlerStep(h), files' # files
        PROVE  i \in files'["pending"] \cup files'["running"]
    <2>1. CASE \E old \in SUBSET (files["completed"] \cup files["failed"]) : Prune(h, old)
      BY <2>1 DEF Prune, Directories
    <2>2. CASE WritePending(h)
      <3>1. files' = [files EXCEPT !["pending"] = @ \cup {handler[h].id}]
        BY <2>2 DEF WritePending
      <3> QED
        BY <3>1 DEF Directories
    <2> QED
      BY <1>2, <2>1, <2>2 DEF HandlerStep, CheckDuplicate, WritePendingState, disk
  <1>3. ASSUME NEW r \in Runners, RunnerWrite(r), files' # files
        PROVE  \E d \in Directories : i \in files'[d]
    <2>1. CASE ClaimNext(r)
      BY <2>1 DEF ClaimNext, Directories
    <2>2. CASE RewriteClaimed(r) \/ RecordResult(r)
      BY <2>2 DEF RewriteClaimed, RecordResult, Directories
    <2>3. CASE MoveResult(r)
      <3>1. runner[r].status \in {"completed", "failed"}
        BY <2>3 DEF MoveResult, Working, Recording
      <3> QED
        BY <2>3, <3>1 DEF MoveResult, Directories
    <2> QED
      BY <1>3, <2>1, <2>2, <2>3 DEF RunnerWrite, WriteRunningState, PublishResult
  <1>4. ASSUME NEW h \in Handlers, (\E id \in Ids : Receive(h, id)) \/ CrashHandler(h)
        PROVE  files' = files
    BY <1>4 DEF Receive, CrashHandler, disk
  <1>5. ASSUME NEW r \in Runners, RunnerChoice(r)
        PROVE  files' = files
    BY <1>5 DEF RunnerChoice, ListPending, NothingToClaim, ReadClaimed, PassFence, DenyFence,
       RunHelper, CompletionThrows, CrashRunner, disk
  <1>6. UNCHANGED vars => files' = files
    BY DEF vars, disk
  <1> QED
    BY <1>1, <1>2, <1>3, <1>4, <1>5, <1>6, Steps DEF Directories

\* A request keeps a file through every claim, stop and completion.
THEOREM NoRequestVanishes == Spec => NeverVanishes
  <1>1. TInv /\ [Next]_vars =>
          [\A i \in Ids :
             (\E d \in Directories : i \in files[d]) /\ ~(\E d \in Directories : i \in files'[d])
             => i \notin files["pending"] \cup files["running"]]_vars
    BY KeepsFile
  <1> QED
    BY <1>1, InitTInv, NextTInv, PTL DEF Spec, NeverVanishes

--------------------------------------------------------------------------------
(* One start of the helper per file.                                       *)

\* The runners that have claimed the file of an id and not started the helper yet.
Owing(i) ==
    {r \in Runners : runner[r].id = i /\ runner[r].at \in {"read", "rewrite", "state", "fence"}}

Queued(i) == IF i \in files["pending"] THEN 1 ELSE 0

\* Every start of the helper is paid by a file, and so is every start to come.
Paid == \A i \in Ids : started[i] + Cardinality(Owing(i)) + Queued(i) <= made[i]

LEMMA OwingFinite ==
  ASSUME NEW i
  PROVE  IsFiniteSet(Owing(i)) /\ Cardinality(Owing(i)) \in Nat
  BY QueueAssumption, FS_Subset, FS_CardinalityType DEF Owing

LEMMA InitPaid == Init => Paid
  <1> SUFFICES ASSUME Init, NEW i \in Ids
               PROVE  started[i] + Cardinality(Owing(i)) + Queued(i) <= made[i]
    BY DEF Paid
  <1>1. Owing(i) = {} /\ Queued(i) = 0
    BY DEF Init, IdleRunner, Owing, Queued, Directories
  <1> QED
    BY <1>1, FS_EmptySet DEF Init

\* A step that claims no file, starts no helper and creates no file.
LEMMA PaidUnmoved ==
  ASSUME TInv, TInv', Paid, NEW i \in Ids,
         Owing(i)' \subseteq Owing(i),
         i \in files'["pending"] => i \in files["pending"],
         started'[i] = started[i], made'[i] = made[i]
  PROVE  started'[i] + Cardinality(Owing(i)') + Queued(i)' <= made'[i]
  <1>1. /\ Cardinality(Owing(i)) \in Nat /\ Cardinality(Owing(i)') \in Nat
        /\ Cardinality(Owing(i)') <= Cardinality(Owing(i))
    BY OwingFinite, FS_Subset, FS_CardinalityType
  <1>2. Queued(i) \in Nat /\ Queued(i)' \in Nat /\ Queued(i)' <= Queued(i)
    BY DEF Queued
  <1>3. started[i] \in Nat /\ made[i] \in Nat
    BY DEF TInv, TypeOK
  <1>4. started[i] + Cardinality(Owing(i)) + Queued(i) <= made[i]
    BY DEF Paid
  <1> HIDE DEF Queued
  <1> QED
    BY <1>1, <1>2, <1>3, <1>4

LEMMA NextPaid == TInv /\ TInv' /\ Paid /\ [Next]_vars => Paid'
  <1> SUFFICES ASSUME TInv, TInv', Paid, [Next]_vars, NEW i \in Ids
               PROVE  started'[i] + Cardinality(Owing(i)') + Queued(i)' <= made'[i]
    BY DEF Paid
  <1> USE DEF TInv, TypeOK
  <1>1. /\ Cardinality(Owing(i)) \in Nat /\ Cardinality(Owing(i)') \in Nat
        /\ started[i] \in Nat /\ made[i] \in Nat
        /\ started[i] + Cardinality(Owing(i)) + Queued(i) <= made[i]
    BY OwingFinite, FS_Subset, FS_CardinalityType, QueueAssumption DEF Paid, Owing
  <1>2. CASE UNCHANGED vars
    BY <1>2, PaidUnmoved DEF vars, disk, history, Owing
  <1>3. ASSUME NEW h \in Handlers,
               (\E id \in Ids : Receive(h, id)) \/ HandlerStep(h) \/ CrashHandler(h)
        PROVE  started'[i] + Cardinality(Owing(i)') + Queued(i)' <= made'[i]
    <2>1. runner' = runner /\ started' = started
      BY <1>3 DEF Receive, HandlerStep, Prune, CheckDuplicate, WritePending, WritePendingState,
         CrashHandler, history
    <2>2. Owing(i)' = Owing(i)
      BY <2>1 DEF Owing
    <2>3. CASE WritePending(h)
      <3>1. handler[h].id \in Ids
        BY <2>3 DEF WritePending, Working
      <3>2. CASE i = handler[h].id /\ i \notin files["pending"]
        <4>1. made'[i] = made[i] + 1
          BY <2>3, <3>1, <3>2 DEF WritePending
        <4>2. Queued(i) = 0 /\ Queued(i)' \in {0, 1}
          BY <3>2 DEF Queued
        <4> QED
          BY <1>1, <2>1, <2>2, <4>1, <4>2
      <3>3. CASE ~(i = handler[h].id /\ i \notin files["pending"])
        <4>1. made'[i] = made[i] /\ (i \in files'["pending"] => i \in files["pending"])
          BY <2>3, <3>1, <3>3 DEF WritePending, Directories
        <4> QED
          BY <2>1, <2>2, <4>1, PaidUnmoved
      <3> QED
        BY <3>2, <3>3
    <2>4. CASE ~WritePending(h)
      <3>1. made' = made /\ files'["pending"] = files["pending"]
        BY <1>3, <2>4 DEF Receive, HandlerStep, Prune, CheckDuplicate, WritePendingState,
           CrashHandler, history, disk, Directories
      <3> QED
        BY <2>1, <2>2, <3>1, PaidUnmoved
    <2> QED
      BY <2>3, <2>4
  <1>4. ASSUME NEW r \in Runners, RunnerChoice(r) \/ RunnerWrite(r)
        PROVE  started'[i] + Cardinality(Owing(i)') + Queued(i)' <= made'[i]
    <2>1. made' = made
      BY <1>4 DEF RunnerChoice, RunnerWrite, ListPending, NothingToClaim, ReadClaimed, PassFence,
         DenyFence, RunHelper, CompletionThrows, CrashRunner, ClaimNext, RewriteClaimed,
         WriteRunningState, RecordResult, MoveResult, PublishResult, history
    <2>2. CASE ClaimNext(r) /\ runner'[r].at = "read"
      <3>1. PICK id \in First(r) :
               /\ id \in files["pending"]
               /\ files' = [files EXCEPT !["pending"] = @ \ {id}, !["running"] = @ \cup {id}]
               /\ runner' = [runner EXCEPT ![r].at = "read", ![r].id = id]
        BY <2>2 DEF ClaimNext
      <3>2. started' = started
        BY <2>2 DEF ClaimNext, history
      <3>3. CASE i = id
        <4>1. Owing(i)' = Owing(i) \cup {r}
          BY <2>2, <3>1, <3>3 DEF Owing, ClaimNext
        <4>2. Cardinality(Owing(i)') = Cardinality(Owing(i)) + 1
          <5>1. r \notin Owing(i)
            BY <2>2 DEF Owing, ClaimNext
          <5> QED
            BY <4>1, <5>1, OwingFinite, FS_AddElement
        <4>3. Queued(i) = 1 /\ Queued(i)' = 0
          BY <3>1, <3>3 DEF Queued, Directories
        <4> QED
          BY <1>1, <2>1, <3>2, <4>2, <4>3
      <3>4. CASE i # id
        <4>1. Owing(i)' \subseteq Owing(i)
          BY <2>2, <3>1, <3>4 DEF Owing
        <4>2. i \in files'["pending"] => i \in files["pending"]
          BY <3>1 DEF Directories
        <4> QED
          BY <2>1, <3>2, <4>1, <4>2, PaidUnmoved
      <3> QED
        BY <3>3, <3>4
    <2>3. CASE PassFence(r)
      <3>1. runner[r].id \in Ids /\ files' = files
        BY <2>3 DEF PassFence, Working, disk
      <3>2. CASE i = runner[r].id
        <4>1. started'[i] = started[i] + 1 /\ Queued(i)' = Queued(i) /\ Queued(i) \in Nat
          BY <2>3, <3>1, <3>2 DEF PassFence, Queued
        <4>2. Owing(i)' = Owing(i) \ {r}
          BY <2>3, <3>2 DEF PassFence, Goto, Owing
        <4>3. Cardinality(Owing(i)') = Cardinality(Owing(i)) - 1
          <5>1. r \in Owing(i)
            BY <2>3, <3>2 DEF Owing, PassFence
          <5> QED
            BY <4>2, <5>1, OwingFinite, FS_RemoveElement
        <4> QED
          BY <1>1, <2>1, <4>1, <4>3
      <3>3. CASE i # runner[r].id
        <4>1. Owing(i)' \subseteq Owing(i) /\ started'[i] = started[i]
          BY <2>3, <3>3 DEF PassFence, Goto, Owing
        <4> QED
          BY <2>1, <3>1, <4>1, PaidUnmoved
      <3> QED
        BY <3>2, <3>3
    <2>4. CASE ~(ClaimNext(r) /\ runner'[r].at = "read") /\ ~PassFence(r)
      <3>1. started' = started
        BY <1>4, <2>4 DEF RunnerChoice, RunnerWrite, ListPending, NothingToClaim, ReadClaimed,
           DenyFence, RunHelper, CompletionThrows, CrashRunner, ClaimNext, RewriteClaimed,
           WriteRunningState, RecordResult, MoveResult, PublishResult, history
      <3>2. i \in files'["pending"] => i \in files["pending"]
        <4>1. CASE RunnerChoice(r)
          BY <4>1 DEF RunnerChoice, ListPending, NothingToClaim, ReadClaimed, PassFence,
             DenyFence, RunHelper, CompletionThrows, CrashRunner, disk
        <4>2. CASE ClaimNext(r)
          BY <4>2 DEF ClaimNext, Directories
        <4>3. CASE RewriteClaimed(r) \/ RecordResult(r) \/ WriteRunningState(r) \/ PublishResult(r)
          BY <4>3 DEF RewriteClaimed, RecordResult, WriteRunningState, PublishResult, Directories
        <4>4. CASE MoveResult(r)
          <5>1. runner[r].status \in {"completed", "failed"}
            BY <4>4 DEF MoveResult, Working, Recording
          <5> QED
            BY <4>4, <5>1 DEF MoveResult, Directories
        <4> QED
          BY <1>4, <4>1, <4>2, <4>3, <4>4 DEF RunnerWrite
      <3>3. Owing(i)' \subseteq Owing(i)
        <4>1. CASE Stop(r)
          BY <4>1 DEF Stop, IdleRunner, Owing
        <4>2. CASE ListPending(r) \/ RewriteClaimed(r) \/ WriteRunningState(r) \/ RecordResult(r)
                   \/ MoveResult(r) \/ CompletionThrows(r)
          BY <4>2 DEF ListPending, RewriteClaimed, WriteRunningState, RecordResult, MoveResult,
             CompletionThrows, Goto, Owing
        <4>3. CASE \E ok \in BOOLEAN : RunHelper(r, ok)
          BY <4>3 DEF RunHelper, Owing
        <4>4. CASE ReadClaimed(r) /\ ~Stop(r)
          BY <4>4 DEF ReadClaimed, Goto, Owing
        <4>5. CASE ClaimNext(r)
          <5>1. \/ runner' = [runner EXCEPT ![r].list = runner'[r].list]
                \/ runner'[r].at = "read"
            BY <4>5 DEF ClaimNext
          <5> QED
            BY <2>4, <4>5, <5>1 DEF Owing
        <4> QED
          BY <1>4, <2>4, <4>1, <4>2, <4>3, <4>4, <4>5 DEF RunnerChoice, RunnerWrite,
             NothingToClaim, DenyFence, CrashRunner, PublishResult
      <3> QED
        BY <2>1, <3>1, <3>2, <3>3, PaidUnmoved
    <2> QED
      BY <2>2, <2>3, <2>4
  <1> QED
    BY <1>2, <1>3, <1>4, Steps

\* The root helper starts at most once for every file that was put into pending.
THEOREM HelperOncePerFile == Spec => []OneExecutionPerFile
  <1>1. TInv /\ Paid => OneExecutionPerFile
    <2> SUFFICES ASSUME TInv, Paid, NEW i \in Ids
                 PROVE  started[i] <= made[i]
      BY DEF OneExecutionPerFile
    <2>1. /\ Cardinality(Owing(i)) \in Nat /\ Queued(i) \in Nat
          /\ started[i] \in Nat /\ made[i] \in Nat
          /\ started[i] + Cardinality(Owing(i)) + Queued(i) <= made[i]
      BY OwingFinite DEF Queued, Paid, TInv, TypeOK
    <2> QED
      BY <2>1
  <1> QED
    BY <1>1, InitTInv, NextTInv, InitPaid, NextPaid, PTL DEF Spec

--------------------------------------------------------------------------------
(* Successes are true.                                                     *)

\* A runner about to record a success has seen the helper succeed.
Witnessed ==
    /\ SuccessIsTrue
    /\ \A r \in Runners : runner[r].status = "completed" => runner[r].id \in succeeded

LEMMA InitWitnessed == Init => Witnessed
  BY DEF Init, Witnessed, SuccessIsTrue, IdleRunner, Directories

\* A step that reports no new success.
LEMMA WitnessedUnmoved ==
  ASSUME Witnessed, succeeded \subseteq succeeded',
         files'["completed"] \subseteq files["completed"],
         \A i \in Ids : state'[i] = "completed" => state[i] = "completed"
  PROVE  SuccessIsTrue'
  BY DEF Witnessed, SuccessIsTrue

LEMMA NextWitnessed == TInv /\ TInv' /\ Witnessed /\ [Next]_vars => Witnessed'
  <1> SUFFICES ASSUME TInv, TInv', Witnessed, [Next]_vars
               PROVE  Witnessed'
    OBVIOUS
  <1> USE DEF TInv, TypeOK
  <1>1. CASE UNCHANGED vars
    BY <1>1 DEF vars, disk, history, Witnessed, SuccessIsTrue
  <1>2. ASSUME NEW h \in Handlers,
               (\E id \in Ids : Receive(h, id)) \/ HandlerStep(h) \/ CrashHandler(h)
        PROVE  Witnessed'
    <2>1. runner' = runner /\ succeeded' = succeeded
      BY <1>2 DEF Receive, HandlerStep, Prune, CheckDuplicate, WritePending, WritePendingState,
         CrashHandler, history
    <2>2. files'["completed"] \subseteq files["completed"]
      BY <1>2 DEF Receive, HandlerStep, Prune, CheckDuplicate, WritePending, WritePendingState,
         CrashHandler, disk, Directories
    <2>3. \A i \in Ids : state'[i] = "completed" => state[i] = "completed"
      BY <1>2 DEF Receive, HandlerStep, Prune, CheckDuplicate, WritePending, WritePendingState,
         CrashHandler, disk
    <2> QED
      BY <2>1, <2>2, <2>3, WitnessedUnmoved DEF Witnessed
  <1>3. ASSUME NEW r \in Runners, RunnerChoice(r) \/ RunnerWrite(r)
        PROVE  Witnessed'
    <2>1. succeeded \subseteq succeeded'
      BY <1>3 DEF RunnerChoice, RunnerWrite, ListPending, NothingToClaim, ReadClaimed, PassFence,
         DenyFence, RunHelper, CompletionThrows, CrashRunner, ClaimNext, RewriteClaimed,
         WriteRunningState, RecordResult, MoveResult, PublishResult, history
    <2>2. \A q \in Runners : runner'[q].status = "completed" => runner'[q].id \in succeeded'
      <3>1. \A q \in Runners \ {r} : runner'[q] = runner[q]
        BY RunnerRecord, <1>3
      <3>2. runner'[r].status = "completed" => runner'[r].id \in succeeded'
        <4>1. CASE Stop(r)
          BY <4>1 DEF Stop, IdleRunner
        <4>2. CASE ListPending(r) \/ RewriteClaimed(r) \/ WriteRunningState(r) \/ RecordResult(r)
                   \/ MoveResult(r) \/ (ReadClaimed(r) /\ ~Stop(r)) \/ PassFence(r)
          <5>1. runner'[r].status = runner[r].status /\ runner'[r].id = runner[r].id
            BY <4>2 DEF ListPending, RewriteClaimed, WriteRunningState, RecordResult, MoveResult,
               ReadClaimed, PassFence, Goto
          <5> QED
            BY <5>1, <2>1 DEF Witnessed
        <4>3. CASE \E ok \in BOOLEAN : RunHelper(r, ok)
          <5>1. PICK ok \in BOOLEAN : RunHelper(r, ok)
            BY <4>3
          <5>2. runner'[r].id = runner[r].id
                /\ runner'[r].status = (IF ok THEN "completed" ELSE "failed")
            BY <5>1 DEF RunHelper
          <5>3. ok => runner[r].id \in succeeded'
            BY <5>1 DEF RunHelper
          <5> QED
            BY <5>2, <5>3
        <4>4. CASE CompletionThrows(r)
          BY <4>4 DEF CompletionThrows
        <4>5. CASE ClaimNext(r)
          <5>1. runner'[r].status = runner[r].status /\ runner[r].at = "claim"
            BY <4>5 DEF ClaimNext
          <5> QED
            BY <5>1 DEF Working, Recording
        <4> QED
          BY <1>3, <4>1, <4>2, <4>3, <4>4, <4>5 DEF RunnerChoice, RunnerWrite,
             NothingToClaim, DenyFence, CrashRunner, PublishResult
      <3> QED
        BY <3>1, <3>2, <2>1 DEF Witnessed
    <2>3. SuccessIsTrue'
      <3>1. CASE MoveResult(r)
        <4>1. /\ runner[r].id \in Ids /\ runner[r].status \in {"completed", "failed"}
              /\ state' = state /\ succeeded' = succeeded
          BY <3>1 DEF MoveResult, Working, Recording, history
        <4>2. files' = [files EXCEPT !["running"] = @ \ {runner[r].id},
                                     ![runner[r].status] = @ \cup {runner[r].id}]
          BY <3>1 DEF MoveResult
        <4>3. \A i \in files'["completed"] :
                 i \in files["completed"] \/ (i = runner[r].id /\ runner[r].status = "completed")
          BY <4>1, <4>2 DEF Directories
        <4> QED
          BY <4>1, <4>3 DEF Witnessed, SuccessIsTrue
      <3>2. CASE PublishResult(r)
        <4>1. /\ runner[r].id \in Ids /\ files' = files /\ succeeded' = succeeded
              /\ state' = [state EXCEPT ![runner[r].id] = runner[r].status]
          BY <3>2 DEF PublishResult, Working, history
        <4> QED
          BY <4>1 DEF Witnessed, SuccessIsTrue
      <3>3. CASE ~MoveResult(r) /\ ~PublishResult(r)
        <4>1. files'["completed"] = files["completed"]
          BY <1>3, <3>3 DEF RunnerChoice, RunnerWrite, ListPending, NothingToClaim, ReadClaimed,
             PassFence, DenyFence, RunHelper, CompletionThrows, CrashRunner, ClaimNext,
             RewriteClaimed, WriteRunningState, RecordResult, disk, Directories
        <4>2. \A i \in Ids : state'[i] = "completed" => state[i] = "completed"
          BY <1>3, <3>3 DEF RunnerChoice, RunnerWrite, ListPending, NothingToClaim, ReadClaimed,
             PassFence, DenyFence, RunHelper, CompletionThrows, CrashRunner, ClaimNext,
             RewriteClaimed, WriteRunningState, RecordResult, disk
        <4> QED
          BY <2>1, <4>1, <4>2, WitnessedUnmoved
      <3> QED
        BY <3>1, <3>2, <3>3
    <2> QED
      BY <2>2, <2>3 DEF Witnessed
  <1> QED
    BY <1>1, <1>2, <1>3, Steps

\* A success is only ever reported for an execution whose helper succeeded.
THEOREM SuccessIsWitnessed == Spec => []SuccessIsTrue
  <1>1. Witnessed => SuccessIsTrue
    BY DEF Witnessed
  <1> QED
    BY <1>1, InitTInv, NextTInv, InitWitnessed, NextWitnessed, PTL DEF Spec

--------------------------------------------------------------------------------
(* The queue keeps the promise of MaintenanceQueue.                        *)

Tasks == [r \in Runners |-> Task(runner[r])]

\* A runner's task after its step; the others keep theirs.
LEMMA TaskMoves ==
  ASSUME TInv, NEW r \in Runners, NEW v, runner' = [runner EXCEPT ![r] = v]
  PROVE  Tasks' = [Tasks EXCEPT ![r] = Task(v)]
  BY DEF TInv, TypeOK, Tasks

LEMMA TaskStays ==
  ASSUME TInv, NEW r \in Runners, NEW v, runner' = [runner EXCEPT ![r] = v], Task(v) = Task(runner[r])
  PROVE  Tasks' = Tasks
  <1>1. \A q \in Runners : Task(runner'[q]) = Task(runner[q])
    BY DEF TInv, TypeOK
  <1> QED
    BY <1>1 DEF Tasks

\* What runner r does, seen as a task.
LEMMA TaskOf ==
  ASSUME TInv, NEW r \in Runners
  PROVE  /\ Tasks[r] = Task(runner[r])
         /\ runner[r].at \in {"idle", "claim"} => Tasks[r] = Promise!Nothing
         /\ runner[r].at \in {"read", "rewrite", "state", "fence"} =>
              Tasks[r] = [stage |-> "taken", id |-> runner[r].id, ok |-> FALSE]
         /\ runner[r].at = "helper" =>
              Tasks[r] = [stage |-> "running", id |-> runner[r].id, ok |-> FALSE]
         /\ runner[r].at \in Recording =>
              Tasks[r] = [stage |-> "over", id |-> runner[r].id, ok |-> runner[r].status = "completed"]
  BY DEF TInv, TypeOK, Working, Recording, RunnerSteps, Tasks, Task, Stage, Promise!Nothing, Promise!Doing

LEMMA TaskOfIdle == Task(IdleRunner) = Promise!Nothing
  BY DEF Task, Stage, IdleRunner, Promise!Nothing, Promise!Doing

\* What is on record of a request.
LEMMA ResultsFacts ==
  /\ \A x : x \in Results <=>
       \/ \E i \in files["completed"] \cup {j \in Ids : state[j] = "completed"} : x = [id |-> i, ok |-> TRUE]
       \/ \E i \in files["failed"] \cup {j \in Ids : state[j] = "failed"} : x = [id |-> i, ok |-> FALSE]
  BY DEF Results

\* Results that were on record, or were not.
LEMMA ResultsShrink ==
  ASSUME files'["completed"] \subseteq files["completed"], files'["failed"] \subseteq files["failed"],
         \A i \in Ids : state'[i] \in {"completed", "failed"} => state'[i] = state[i]
  PROVE  Results' \subseteq Results
  BY DEF Results

LEMMA ResultsSame ==
  ASSUME files'["completed"] = files["completed"], files'["failed"] = files["failed"], state' = state
  PROVE  Results' = Results
  BY DEF Results

LEMMA InitPromise == Init => Promise!Init
  <1> SUFFICES ASSUME Init
               PROVE  Promise!Init
    OBVIOUS
  <1>1. Tasks = [r \in Runners |-> Promise!Nothing]
    BY TaskOfIdle DEF Init, Tasks
  <1>2. Results = {}
    BY DEF Init, Results, Directories
  <1>3. files["pending"] = {}
    BY DEF Init, Directories
  <1> QED
    BY <1>1, <1>2, <1>3 DEF Init, Promise!Init, Tasks

\* A handler puts a request, or makes results go.
LEMMA HandlerKeepsPromise ==
  ASSUME TInv, NEW h \in Handlers,
         (\E id \in Ids : Receive(h, id)) \/ HandlerStep(h) \/ CrashHandler(h)
  PROVE  [Promise!Next]_(Promise!vars)
  <1> USE DEF TInv, TypeOK
  <1>1. Tasks' = Tasks /\ started' = started /\ succeeded' = succeeded
    BY DEF Receive, HandlerStep, Prune, CheckDuplicate, WritePending, WritePendingState,
       CrashHandler, history, Tasks
  <1>2. CASE WritePending(h)
    <2> DEFINE i == handler[h].id
    <2>1. i \in Ids
      BY <1>2 DEF WritePending, Working
    <2>2. /\ files' = [files EXCEPT !["pending"] = @ \cup {i}] /\ state' = state
          /\ made' = IF i \in files["pending"] THEN made ELSE [made EXCEPT ![i] = @ + 1]
      BY <1>2 DEF WritePending
    <2>3. /\ files'["pending"] = files["pending"] \cup {i}
          /\ files'["completed"] = files["completed"] /\ files'["failed"] = files["failed"]
      BY <2>2 DEF Directories
    <2>4. Results' = Results
      BY <2>2, <2>3, ResultsSame
    <2>5. CASE i \in files["pending"]
      <3>1. files'["pending"] = files["pending"] /\ made' = made
        BY <2>2, <2>3, <2>5
      <3> QED
        BY <1>1, <2>4, <3>1 DEF Promise!vars, Tasks
    <2>6. CASE i \notin files["pending"]
      <3>1. made' = [made EXCEPT ![i] = @ + 1]
        BY <2>2, <2>6
      <3>2. Promise!Put(i)
        BY <1>1, <2>3, <2>4, <2>6, <3>1 DEF Promise!Put, Tasks
      <3> QED
        BY <2>1, <3>2 DEF Promise!Next
    <2> QED
      BY <2>5, <2>6
  <1>3. CASE ~WritePending(h)
    <2>1. files'["pending"] = files["pending"] /\ made' = made
      BY <1>3 DEF Receive, HandlerStep, Prune, CheckDuplicate, WritePendingState, CrashHandler,
         disk, history, Directories
    <2>2. Results' \subseteq Results
      <3>1. files'["completed"] \subseteq files["completed"] /\ files'["failed"] \subseteq files["failed"]
        BY <1>3 DEF Receive, HandlerStep, Prune, CheckDuplicate, WritePendingState, CrashHandler,
           disk, Directories
      <3>2. \A i \in Ids : state'[i] \in {"completed", "failed"} => state'[i] = state[i]
        BY <1>3 DEF Receive, HandlerStep, Prune, CheckDuplicate, WritePendingState, CrashHandler, disk
      <3> QED
        BY <3>1, <3>2, ResultsShrink
    <2>3. Promise!Forget
      BY <1>1, <2>1, <2>2 DEF Promise!Forget, Tasks
    <2> QED
      BY <2>3 DEF Promise!Next
  <1> QED
    BY <1>2, <1>3

\* The steps of a runner that touch nothing but its task.
LEMMA ChoiceKeepsPromise ==
  ASSUME TInv, NEW r \in Runners, RunnerChoice(r)
  PROVE  [Promise!Next]_(Promise!vars)
  <1> USE DEF TInv, TypeOK
  <1>1. /\ files' = files /\ state' = state /\ made' = made
        /\ Results' = Results
    <2>1. files' = files /\ state' = state /\ made' = made
      BY DEF RunnerChoice, ListPending, NothingToClaim, ReadClaimed, PassFence, DenyFence,
         RunHelper, CompletionThrows, CrashRunner, disk, history
    <2> QED
      BY <2>1, ResultsSame
  <1>2. CASE Stop(r) /\ UNCHANGED <<started, succeeded>>
    <2>1. Tasks' = [Tasks EXCEPT ![r] = Promise!Nothing]
      BY <1>2, TaskMoves, TaskOfIdle DEF Stop
    <2>2. Promise!Drop(r)
      BY <1>1, <1>2, <2>1 DEF Promise!Drop, Tasks
    <2> QED
      BY <2>2 DEF Promise!Next
  <1>3. CASE ListPending(r) \/ (ReadClaimed(r) /\ ~Stop(r))
    <2>1. started' = started /\ succeeded' = succeeded
      BY <1>3 DEF ListPending, ReadClaimed, history
    <2>2. Tasks' = Tasks
      <3>1. PICK v : runner' = [runner EXCEPT ![r] = v] /\ Task(v) = Task(runner[r])
        <4>1. CASE ListPending(r)
          <5> DEFINE v == [runner[r] EXCEPT !.at = "claim", !.list = files["pending"]]
          <5>1. runner' = [runner EXCEPT ![r] = v]
            BY <4>1 DEF ListPending
          <5>2. Task(v) = Task(runner[r])
            BY <4>1 DEF ListPending, Task, Stage
          <5> HIDE DEF v
          <5> QED
            BY <5>1, <5>2
        <4>2. CASE ReadClaimed(r) /\ ~Stop(r)
          <5> DEFINE v == [runner[r] EXCEPT !.at = "rewrite"]
          <5>1. runner' = [runner EXCEPT ![r] = v]
            BY <4>2 DEF ReadClaimed, Goto
          <5>2. Task(v) = Task(runner[r])
            BY <4>2 DEF ReadClaimed, Task, Stage
          <5> HIDE DEF v
          <5> QED
            BY <5>1, <5>2
        <4> QED
          BY <1>3, <4>1, <4>2
      <3> QED
        BY <3>1, TaskStays
    <2> QED
      BY <1>1, <2>1, <2>2 DEF Promise!vars, Tasks
  <1>4. CASE PassFence(r)
    <2> DEFINE v == [runner[r] EXCEPT !.at = "helper"]
    <2>1. runner' = [runner EXCEPT ![r] = v]
      BY <1>4 DEF PassFence, Goto
    <2>2. Tasks' = [Tasks EXCEPT ![r] = Task(v)]
      BY <2>1, TaskMoves
    <2>3. Tasks[r] = [stage |-> "taken", id |-> runner[r].id, ok |-> FALSE]
      BY <1>4, TaskOf DEF PassFence
    <2>4. Task(v) = [stage |-> "running", id |-> runner[r].id, ok |-> FALSE]
      <3>1. v.at = "helper" /\ v.id = runner[r].id /\ v.status = "none"
        BY <1>4 DEF PassFence, Working, Recording
      <3> QED
        BY <3>1 DEF Task, Stage
    <2> HIDE DEF v
    <2>5. Tasks' = [Tasks EXCEPT ![r] = Promise!Doing("running", @.id, FALSE)]
      <3>1. Task(v) = Promise!Doing("running", Tasks[r].id, FALSE)
        BY <2>3, <2>4 DEF Promise!Doing
      <3> QED
        BY <2>2, <3>1
    <2>6. started' = [started EXCEPT ![Tasks[r].id] = @ + 1] /\ succeeded' = succeeded
      BY <1>4, <2>3 DEF PassFence
    <2>7. Promise!Start(r)
      BY <1>1, <2>3, <2>5, <2>6 DEF Promise!Start, Tasks
    <2> QED
      BY <2>7 DEF Promise!Next
  <1>5. CASE \E ok \in BOOLEAN : RunHelper(r, ok)
    <2>1. PICK ok \in BOOLEAN : RunHelper(r, ok)
      BY <1>5
    <2> DEFINE v == [runner[r] EXCEPT !.at = "record", !.status = IF ok THEN "completed" ELSE "failed"]
    <2>2. runner' = [runner EXCEPT ![r] = v]
      BY <2>1 DEF RunHelper
    <2>3. Tasks' = [Tasks EXCEPT ![r] = Task(v)]
      BY <2>2, TaskMoves
    <2>4. Tasks[r] = [stage |-> "running", id |-> runner[r].id, ok |-> FALSE]
      BY <2>1, TaskOf DEF RunHelper
    <2>5. Task(v) = [stage |-> "over", id |-> runner[r].id, ok |-> ok]
      BY DEF Task, Stage
    <2> HIDE DEF v
    <2>6. Tasks' = [Tasks EXCEPT ![r] = Promise!Doing("over", @.id, ok)]
      <3>1. Task(v) = Promise!Doing("over", Tasks[r].id, ok)
        BY <2>4, <2>5 DEF Promise!Doing
      <3> QED
        BY <2>3, <3>1
    <2>7. /\ succeeded' = IF ok THEN succeeded \cup {Tasks[r].id} ELSE succeeded
          /\ started' = started
      BY <2>1, <2>4 DEF RunHelper
    <2>8. Promise!Return(r, ok)
      BY <1>1, <2>4, <2>6, <2>7 DEF Promise!Return, Tasks
    <2> QED
      BY <2>8 DEF Promise!Next
  <1>6. CASE CompletionThrows(r)
    <2> DEFINE v == [runner[r] EXCEPT !.at = "record", !.status = "failed"]
    <2>1. runner' = [runner EXCEPT ![r] = v]
      BY <1>6 DEF CompletionThrows
    <2>2. Tasks' = [Tasks EXCEPT ![r] = Task(v)]
      BY <2>1, TaskMoves
    <2>3. Tasks[r] = [stage |-> "over", id |-> runner[r].id, ok |-> runner[r].status = "completed"]
      BY <1>6, TaskOf DEF CompletionThrows, Recording
    <2>4. Task(v) = [stage |-> "over", id |-> runner[r].id, ok |-> FALSE]
      BY DEF Task, Stage
    <2> HIDE DEF v
    <2>5. Tasks' = [Tasks EXCEPT ![r] = Promise!Doing("over", @.id, FALSE)]
      <3>1. Task(v) = Promise!Doing("over", Tasks[r].id, FALSE)
        BY <2>3, <2>4 DEF Promise!Doing
      <3> QED
        BY <2>2, <3>1
    <2>6. started' = started /\ succeeded' = succeeded
      BY <1>6 DEF CompletionThrows, history
    <2>7. Promise!Fail(r)
      BY <1>1, <2>3, <2>5, <2>6 DEF Promise!Fail, Tasks
    <2> QED
      BY <2>7 DEF Promise!Next
  <1>7. (NothingToClaim(r) \/ DenyFence(r) \/ CrashRunner(r) \/ ReadClaimed(r))
        => UNCHANGED <<started, succeeded>>
    BY DEF NothingToClaim, DenyFence, CrashRunner, ReadClaimed, history
  <1> QED
    BY <1>2, <1>3, <1>4, <1>5, <1>6, <1>7 DEF RunnerChoice, NothingToClaim, DenyFence, CrashRunner

\* The steps of a runner that write a file or a state.
LEMMA WriteKeepsPromise ==
  ASSUME TInv, NEW r \in Runners, RunnerWrite(r)
  PROVE  [Promise!Next]_(Promise!vars)
  <1> USE DEF TInv, TypeOK
  <1>1. made' = made /\ started' = started /\ succeeded' = succeeded
    BY DEF RunnerWrite, ClaimNext, RewriteClaimed, WriteRunningState, RecordResult, MoveResult,
       PublishResult, history
  <1>2. CASE ClaimNext(r)
    <2>1. PICK id \in First(r) :
             IF id \in files["pending"]
             THEN /\ files' = [files EXCEPT !["pending"] = @ \ {id}, !["running"] = @ \cup {id}]
                  /\ runner' = [runner EXCEPT ![r].at = "read", ![r].id = id]
             ELSE /\ files' = files
                  /\ runner' = [runner EXCEPT ![r].list = @ \ {id}]
      BY <1>2 DEF ClaimNext
    <2>2. id \in Ids /\ runner[r].at = "claim" /\ state' = state
      BY <1>2 DEF ClaimNext, First
    <2>3. CASE id \in files["pending"]
      <3> DEFINE v == [runner[r] EXCEPT !.at = "read", !.id = id]
      <3>1. runner' = [runner EXCEPT ![r] = v]
        BY <2>1, <2>3
      <3>2. Tasks' = [Tasks EXCEPT ![r] = Task(v)]
        BY <3>1, TaskMoves
      <3>3. Task(v) = [stage |-> "taken", id |-> id, ok |-> FALSE]
        <4>1. v.at = "read" /\ v.id = id /\ v.status = "none"
          BY <2>2 DEF Working, Recording
        <4> QED
          BY <4>1 DEF Task, Stage
      <3>4. Tasks[r] = Promise!Nothing
        BY <2>2, TaskOf
      <3> HIDE DEF v
      <3>5. /\ files'["pending"] = files["pending"] \ {id}
            /\ files'["completed"] = files["completed"] /\ files'["failed"] = files["failed"]
        BY <2>1, <2>3 DEF Directories
      <3>6. Results' = Results
        BY <2>2, <3>5, ResultsSame
      <3>7. Promise!Take(r, id)
        BY <1>1, <2>3, <3>2, <3>3, <3>4, <3>5, <3>6 DEF Promise!Take, Promise!Doing, Tasks
      <3> QED
        BY <2>2, <3>7 DEF Promise!Next
    <2>4. CASE id \notin files["pending"]
      <3> DEFINE v == [runner[r] EXCEPT !.list = @ \ {id}]
      <3>1. runner' = [runner EXCEPT ![r] = v] /\ files' = files
        BY <2>1, <2>4
      <3>2. Task(v) = Task(runner[r])
        BY DEF Task, Stage
      <3> HIDE DEF v
      <3>4. Tasks' = Tasks
        BY <3>1, <3>2, TaskStays
      <3>5. Results' = Results
        BY <2>2, <3>1, ResultsSame
      <3> QED
        BY <1>1, <3>1, <3>4, <3>5 DEF Promise!vars, Tasks
    <2> QED
      BY <2>3, <2>4
  <1>3. CASE RewriteClaimed(r) \/ RecordResult(r) \/ WriteRunningState(r)
    <2>1. /\ files'["pending"] = files["pending"]
          /\ files'["completed"] = files["completed"] /\ files'["failed"] = files["failed"]
      BY <1>3 DEF RewriteClaimed, RecordResult, WriteRunningState, Directories
    <2>2. \A i \in Ids : state'[i] \in {"completed", "failed"} => state'[i] = state[i]
      BY <1>3 DEF RewriteClaimed, RecordResult, WriteRunningState
    <2>3. Results' \subseteq Results
      BY <2>1, <2>2, ResultsShrink
    <2>4. Tasks' = Tasks
      <3>1. PICK s \in {"state", "move", "fence"} :
              /\ Goto(r, s)
              /\ s = "state" => runner[r].at = "rewrite"
              /\ s = "move" => runner[r].at = "record"
              /\ s = "fence" => runner[r].at = "state"
        BY <1>3 DEF RewriteClaimed, RecordResult, WriteRunningState
      <3> DEFINE v == [runner[r] EXCEPT !.at = s]
      <3>2. runner' = [runner EXCEPT ![r] = v]
        BY <3>1 DEF Goto
      <3>3. Task(v) = Task(runner[r])
        BY <3>1 DEF Task, Stage
      <3> HIDE DEF v
      <3> QED
        BY <3>2, <3>3, TaskStays
    <2>5. Promise!Forget
      BY <1>1, <2>1, <2>3, <2>4 DEF Promise!Forget, Tasks
    <2> QED
      BY <2>5 DEF Promise!Next
  <1>4. CASE MoveResult(r) \/ PublishResult(r)
    <2> DEFINE id == runner[r].id
               x == Promise!Result(Tasks[r])
    <2>1. id \in Ids /\ runner[r].at \in Recording /\ runner[r].status \in {"completed", "failed"}
      BY <1>4 DEF MoveResult, PublishResult, Working, Recording
    <2>2. Tasks[r] = [stage |-> "over", id |-> id, ok |-> runner[r].status = "completed"]
      BY <2>1, TaskOf
    <2>3. x = [id |-> id, ok |-> runner[r].status = "completed"]
      BY <2>2 DEF Promise!Result
    <2> HIDE DEF x
    <2>4. files'["pending"] = files["pending"]
      BY <1>4, <2>1 DEF MoveResult, PublishResult, Directories
    <2>5. /\ x \in Results' /\ Results' \subseteq Results \cup {x}
          /\ \A y \in Results \ Results' : y.id = id
      <3>1. CASE MoveResult(r)
        <4>1. /\ files' = [files EXCEPT !["running"] = @ \ {id}, ![runner[r].status] = @ \cup {id}]
              /\ state' = state
          BY <3>1 DEF MoveResult
        <4>2. CASE runner[r].status = "completed"
          <5>1. files'["completed"] = files["completed"] \cup {id} /\ files'["failed"] = files["failed"]
            BY <4>1, <4>2 DEF Directories
          <5> QED
            BY <2>3, <4>1, <4>2, <5>1 DEF Results
        <4>3. CASE runner[r].status = "failed"
          <5>1. files'["failed"] = files["failed"] \cup {id} /\ files'["completed"] = files["completed"]
            BY <4>1, <4>3 DEF Directories
          <5> QED
            BY <2>3, <4>1, <4>3, <5>1 DEF Results
        <4> QED
          BY <2>1, <4>2, <4>3
      <3>2. CASE PublishResult(r)
        <4>1. files' = files /\ state' = [state EXCEPT ![id] = runner[r].status]
          BY <3>2 DEF PublishResult
        <4>2. CASE runner[r].status = "completed"
          <5>1. {j \in Ids : state'[j] = "completed"} = {j \in Ids : state[j] = "completed"} \cup {id}
            BY <2>1, <4>1, <4>2
          <5>2. {j \in Ids : state'[j] = "failed"} = {j \in Ids : state[j] = "failed"} \ {id}
            BY <2>1, <4>1, <4>2
          <5>3. x \in Results'
            BY <2>3, <4>1, <4>2, <5>1 DEF Results
          <5>4. Results' \subseteq Results \cup {x}
            BY <2>1, <2>3, <4>1, <4>2 DEF Results
          <5>5. \A y \in Results \ Results' : y.id = id
            BY <4>1, <5>1, <5>2 DEF Results
          <5> QED
            BY <5>3, <5>4, <5>5
        <4>3. CASE runner[r].status = "failed"
          <5>1. {j \in Ids : state'[j] = "failed"} = {j \in Ids : state[j] = "failed"} \cup {id}
            BY <2>1, <4>1, <4>3
          <5>2. {j \in Ids : state'[j] = "completed"} = {j \in Ids : state[j] = "completed"} \ {id}
            BY <2>1, <4>1, <4>3
          <5>3. x \in Results'
            BY <2>3, <4>1, <4>3, <5>1 DEF Results
          <5>4. Results' \subseteq Results \cup {x}
            BY <2>1, <2>3, <4>1, <4>3 DEF Results
          <5>5. \A y \in Results \ Results' : y.id = id
            BY <4>1, <5>1, <5>2 DEF Results
          <5> QED
            BY <5>3, <5>4, <5>5
        <4> QED
          BY <2>1, <4>2, <4>3
      <3> QED
        BY <1>4, <3>1, <3>2
    <2>6. \E old \in SUBSET {y \in Results : y.id = id} : Results' = (Results \ old) \cup {x}
      <3>1. Results' = (Results \ (Results \ Results')) \cup {x}
        BY <2>5
      <3>2. Results \ Results' \in SUBSET {y \in Results : y.id = id}
        BY <2>5
      <3> QED
        BY <3>1, <3>2
    <2>7. Tasks' \in {Tasks, [Tasks EXCEPT ![r] = Promise!Nothing]}
      <3>1. CASE MoveResult(r)
        <4> DEFINE v == [runner[r] EXCEPT !.at = "publish"]
        <4>1. runner' = [runner EXCEPT ![r] = v]
          BY <3>1 DEF MoveResult, Goto
        <4>2. Task(v) = Task(runner[r])
          BY <3>1 DEF MoveResult, Task, Stage
        <4> HIDE DEF v
        <4> QED
          BY <4>1, <4>2, TaskStays
      <3>2. CASE PublishResult(r)
        BY <3>2, TaskMoves, TaskOfIdle DEF PublishResult, Stop
      <3> QED
        BY <1>4, <3>1, <3>2
    <2>8. \E old \in SUBSET Promise!About(Tasks[r].id) :
            Results' = (Results \ old) \cup {Promise!Result(Tasks[r])}
      <3>1. Tasks[r].id = id
        BY <2>2
      <3>2. Promise!About(Tasks[r].id) = {y \in Results : y.id = id}
        BY <3>1, Zenon DEF Promise!About
      <3> QED
        BY <2>6, <3>2, Zenon DEF x
    <2>9. Tasks[r].stage = "over" /\ UNCHANGED <<files["pending"], made, started, succeeded>>
      BY <1>1, <2>2, <2>4
    <2>10. Promise!Report(r)
      BY <2>7, <2>8, <2>9, Zenon DEF Promise!Report, Tasks
    <2> QED
      BY <2>10 DEF Promise!Next
  <1> QED
    BY <1>2, <1>3, <1>4 DEF RunnerWrite

LEMMA NextPromise == TInv /\ [Next]_vars => [Promise!Next]_(Promise!vars)
  <1> SUFFICES ASSUME TInv, [Next]_vars
               PROVE  [Promise!Next]_(Promise!vars)
    OBVIOUS
  <1>1. CASE UNCHANGED vars
    BY <1>1 DEF vars, disk, history, Promise!vars, Results
  <1> QED
    BY <1>1, Steps, HandlerKeepsPromise, ChoiceKeepsPromise, WriteKeepsPromise

\* The queue keeps the promise of MaintenanceQueue: the steps at the file system,
\* of any number of handlers and runners that stop, race and fail, are one claim
\* per request put, one start per claim, and results that the helper returned.
THEOREM PromiseImplemented == Spec => ImplementsPromise
  BY InitTInv, NextTInv, InitPromise, NextPromise, PTL DEF Spec, ImplementsPromise, Promise!Spec
================================================================================
