------------------------------ MODULE VpsRunner ------------------------------
(***************************************************************************)
(* The VPS runner's GitHub queue (scripts/run-vps-runner.mjs) and Butler's *)
(* side of it (src/core/remote-codex-executor.js).  Butler posts a queue   *)
(* comment on an issue.  A runner started by a timer reads the comments,   *)
(* picks the oldest pending execution, says "running" and works it off:    *)
(* clone, codex, push, pull request.  Everything it says is a comment;     *)
(* Butler cancels by a marker on the queue comment, which the runner looks *)
(* for at its checkpoints.                                                 *)
(*                                                                         *)
(* A step of a runner is one write to GitHub or one command.  The fence is *)
(* asked before each and the write follows later.  Heartbeats only rewrite *)
(* the comment that says "running" and are left out, as are the wording of *)
(* the comments, the names of the branches and the reviewer fallback.  The *)
(* executions are those of one issue.                                      *)
(***************************************************************************)
EXTENDS Naturals, Sequences, FiniteSets, SequencesExt

CONSTANTS
    Runners,    \* the machines whose runner serves the queue
    NumExecs,   \* bound: executions queued on the issue
    PageSize,   \* comments the picker reads of an issue (100 in the code)
    MaxPicks,   \* bound: pickups of one execution
    MaxFaults   \* bound: handoffs, crashes, and GitHub calls that fail

Execs == 1 .. NumExecs
Kinds == {"open_pr", "revise_pr", "verify", "maintenance"}

ASSUME RunnerAssumption ==
    /\ Runners # {}
    /\ NumExecs \in Nat /\ PageSize \in Nat /\ MaxPicks \in Nat /\ MaxFaults \in Nat

VARIABLES
    comments,  \* the comments of the issue, in order
    kind,      \* kind[e]: what execution e asks for, "none" before it is queued
    canceled,  \* executions whose queue comment carries the cancellation marker
    asked,     \* executions that Butler read as pending and is about to cancel
    latest,    \* latest[e]: the status of the latest event of e
    run,       \* run[r]: the execution of runner r and its step
    holder,    \* the runner the fence admits
    prs,       \* executions with an open pull request of their branch
    faults,    \* history: faults so far; handoffs among them in handoffs
    handoffs,
    picks,     \* history: picks[e]: pickups that reached GitHub
    worked,    \* history: worked[e]: the runners that did work for e
    lost,      \* history: executions whose run ended without a verdict
    unsure     \* history: executions whose report of success was not confirmed

butler == <<kind, asked>>
fence == <<holder, faults, handoffs>>
work == <<prs, worked>>
seen == <<lost, unsure>>
vars == <<comments, butler, canceled, latest, run, fence, work, picks, seen>>

Idle == [exec |-> 0, at |-> "idle", go |-> FALSE, found |-> FALSE, late |-> {}]

Init ==
    /\ comments = <<>> /\ canceled = {} /\ asked = {}
    /\ kind = [e \in Execs |-> "none"]
    /\ latest = [e \in Execs |-> "none"]
    /\ run = [r \in Runners |-> Idle]
    /\ holder \in Runners
    /\ prs = {} /\ lost = {} /\ unsure = {}
    /\ faults = 0 /\ handoffs = 0
    /\ picks = [e \in Execs |-> 0]
    /\ worked = [e \in Execs |-> {}]

--------------------------------------------------------------------------------
(* What a run does, step by step. *)

\* executeVpsRunnerExecution.
BuildSteps ==
    << "before_clone", "workspace", "before_clone_command",
       "clone_started", "clone", "clone_completed", "after_clone",
       "branch", "preflight", "branch_created",
       "before_codex", "codex_started", "codex", "codex_completed", "after_codex",
       "push", "pushed", "list_started", "list", "list_completed",
       "before_pr", "pr_started", "pr", "pr_completed", "completed" >>

\* executeVpsPostMergeVerification, executeVpsPrivilegedMaintenanceRunnerExecution.
StepsOf(k) == CASE k = "verify" -> << "verify", "verified" >>
                [] k = "maintenance" -> << "helper", "helped" >>
                [] OTHER -> BuildSteps

Place(s) == CHOOSE i \in DOMAIN BuildSteps : BuildSteps[i] = s

\* assertVpsRunnerNotCanceled.
Checkpoints ==
    {"before_clone", "before_clone_command", "after_clone", "before_codex", "after_codex", "before_pr"}

\* What changes something outside the comments.
WorkSteps == {"workspace", "clone", "branch", "codex", "push", "pr", "verify", "helper"}

\* What may fail by itself.
Breakable == (WorkSteps \ {"verify"}) \cup {"list"}

Tracked == [clone |-> "clone_failed", clone_completed |-> "clone_failed",
            codex |-> "codex_failed", codex_completed |-> "codex_failed",
            list |-> "list_failed", list_completed |-> "list_failed",
            pr |-> "pr_failed", pr_completed |-> "pr_failed"]

\* Mutant of Resume: a failed codex run is noted and goes on.
ResumeCodex == [clone_failed |-> "failed", codex_failed |-> "after_codex", pr_failed |-> "failed",
                list_failed |-> "before_pr"]

\* After the failure of a tracked command is told: rethrown, for the caller to
\* tell it again, but swallowed by findExistingPullRequest.
Resume == [clone_failed |-> "failed", codex_failed |-> "failed", pr_failed |-> "failed",
           list_failed |-> "before_pr"]

Completions == {"completed", "verified", "helped"}
Failures == {"failed", "no_changes", "clone_failed", "codex_failed", "pr_failed"}
Ends == Completions \cup {"failed", "no_changes", "blocked", "canceled"}

\* The status of the event a step posts.
Status(s) ==
    CASE s \in Completions -> "completed"
      [] s \in Failures -> "failed"
      [] s \in {"list_failed", "blocked", "canceled", "branch_created"} -> s
      [] s \in WorkSteps \cup {"list"} -> "nothing"
      [] OTHER -> "running"

\* Statuses that end an execution for the picker.
Verdicts == {"completed", "failed", "list_failed", "blocked", "canceled"}

\* Where the run of w goes when step w.at succeeds.
Follow(w) ==
    LET k == kind[w.exec]
        next == BuildSteps[Place(w.at) + 1]
    IN CASE w.at = "pickup" -> {StepsOf(k)[1]}
         [] w.at \in Ends -> {"idle"}
         [] w.at \in DOMAIN Resume -> {Resume[w.at]}
         [] w.at = "verify" -> {"verified", "blocked"}
         [] w.at = "helper" -> {"helped"}
         [] w.at \in {"before_clone", "branch"} -> {next, "blocked"}
         [] w.at = "after_codex" -> {"push", IF k = "revise_pr" THEN "no_changes" ELSE "list_started"}
         [] w.at = "before_pr" -> IF w.found THEN {next, "completed", "blocked"} ELSE {next, "blocked"}
         [] OTHER -> {next}

\* Where it goes when the step throws.
Catch(w) ==
    CASE w.at \in {"pickup", "failed"} -> "idle"
      [] kind[w.exec] = "verify" -> "idle"
      [] w.at \in DOMAIN Tracked -> Tracked[w.at]
      [] w.at \in {"list_started", "list_failed"} -> "before_pr"
      [] OTHER -> "failed"

--------------------------------------------------------------------------------
(* Butler. *)

\* dispatchVpsRunnerGitHubQueue; a revision names an open pull request.
Queue(e, k) ==
    /\ kind[e] = "none" /\ \A d \in Execs : d < e => kind[d] # "none"
    /\ kind' = [kind EXCEPT ![e] = k]
    /\ comments' = Append(comments, [exec |-> e, says |-> "queue"])
    /\ prs' = IF k = "revise_pr" THEN prs \cup {e} ELSE prs
    /\ UNCHANGED <<asked, canceled, latest, run, fence, worked, picks, seen>>

\* buildVpsRunnerQueueStates: pending is what has no event that says otherwise.
Pending(e) == kind[e] # "none" /\ latest[e] = "none"

\* cancelVpsRunnerQueue, mode execution: whatever became of it.
Cancel(e) ==
    /\ kind[e] # "none" /\ e \notin canceled
    /\ canceled' = canceled \cup {e}
    /\ UNCHANGED <<comments, butler, latest, run, fence, work, picks, seen>>

\* cancelVpsRunnerQueue, modes issue_pending and drain_pending: read the
\* comments, then mark one queue comment after the other.
ReadPending ==
    /\ asked = {}
    /\ asked' = {e \in Execs : Pending(e) /\ e \notin canceled}
    /\ asked' # {}
    /\ UNCHANGED <<comments, kind, canceled, latest, run, fence, work, picks, seen>>

MarkPending(e) ==
    /\ e \in asked
    /\ asked' = asked \ {e}
    /\ canceled' = canceled \cup {e}
    /\ UNCHANGED <<comments, kind, latest, run, fence, work, picks, seen>>

--------------------------------------------------------------------------------
(* A runner. *)

\* Mutant of Page: pages are counted from zero.
SecondPage == SubSeq(comments, PageSize + 1, Len(comments))

\* readRecentIssueComments, the first page.
Page == SubSeq(comments, 1, IF Len(comments) < PageSize THEN Len(comments) ELSE PageSize)

Queued(e) == [exec |-> e, says |-> "queue"] \in Range(Page)

\* Mutant of Selectable: running executions are picked, too.
SelectableRunning(e) ==
    Queued(e) /\ e \notin canceled
    /\ \A c \in Range(Page) : c.exec = e => c.says \notin Verdicts

\* selectPendingVpsRunnerExecutions, selectPendingVpsPrivilegedMaintenanceExecutions.
Selectable(e) ==
    Queued(e) /\ e \notin canceled
    /\ \A c \in Range(Page) : c.exec = e => c.says \notin Verdicts \cup {"running"}

\* Privileged maintenance first, then the oldest.
Before(d, e) ==
    \/ kind[d] = "maintenance" /\ kind[e] # "maintenance"
    \/ (kind[d] = "maintenance") = (kind[e] = "maintenance") /\ d < e

\* runVpsRunnerOnce up to the choice of the execution.
Poll(r) ==
    /\ run[r] = Idle /\ holder = r
    /\ \E e \in Execs :
         /\ Selectable(e) /\ picks[e] < MaxPicks
         /\ \A d \in Execs \ {e} : Selectable(d) => Before(e, d)
         /\ run' = [run EXCEPT ![r] = [Idle EXCEPT !.exec = e, !.at = "pickup"]]
    /\ UNCHANGED <<comments, butler, canceled, latest, fence, work, picks, seen>>

Busy(r) == run[r].at # "idle"
Fenced(r) == Busy(r) /\ run[r].at \notin Checkpoints

\* authorizeRuntimeExecutor admits the next write.
Admit(r) ==
    /\ Fenced(r) /\ ~run[r].go /\ holder = r
    /\ run' = [run EXCEPT ![r].go = TRUE]
    /\ UNCHANGED <<comments, butler, canceled, latest, fence, work, picks, seen>>

\* Mutant of Say: commands are told, too.
SayAll(e, s) ==
    /\ comments' = Append(comments, [exec |-> e, says |-> s])
    /\ latest' = [latest EXCEPT ![e] = s]

\* The comment of a status: "running" has one comment, every other event its own.
Say(e, s) ==
    IF s = "nothing" THEN UNCHANGED <<comments, latest>>
    ELSE LET c == [exec |-> e, says |-> s]
         IN /\ comments' = IF s = "running" /\ c \in Range(comments) THEN comments
                                                                     ELSE Append(comments, c)
            /\ latest' = [latest EXCEPT ![e] = s]

\* What step w.at of runner r leaves outside.
Effect(r, w) ==
    /\ Say(w.exec, Status(w.at))
    /\ picks' = IF w.at = "pickup" THEN [picks EXCEPT ![w.exec] = @ + 1] ELSE picks
    /\ prs' = IF w.at = "pr" THEN prs \cup {w.exec} ELSE prs
    /\ worked' = IF w.at \in WorkSteps THEN [worked EXCEPT ![w.exec] = @ \cup {r}] ELSE worked

NoEffect == UNCHANGED <<comments, latest, picks, work>>

\* The run of r goes to step s; go is spent.
Goto(w, s) ==
    IF s = "idle" THEN Idle
    ELSE [w EXCEPT !.at = s, !.go = FALSE,
                   !.late = IF w.exec \in canceled /\ w.at \in WorkSteps THEN @ \cup {w.at} ELSE @]

\* gh pr create refuses a branch that has a pull request already.
Possible(w) == w.at = "pr" /\ ~w.found => w.exec \notin prs

\* The admitted step succeeds.
Advance(r) ==
    LET w == run[r] IN
    /\ w.go /\ Possible(w)
    /\ \E s \in Follow(w) :
         run' = [run EXCEPT ![r] = Goto(IF w.at = "list" THEN [w EXCEPT !.found = w.exec \in prs] ELSE w, s)]
    /\ Effect(r, w)
    /\ UNCHANGED <<butler, canceled, fence, seen>>

\* Mutant of Check: the marker is looked for before the clone only.
CheckEarly(r) ==
    LET w == run[r] IN
    /\ w.at \in Checkpoints
    /\ IF w.exec \in canceled /\ Place(w.at) < 4 THEN run' = [run EXCEPT ![r] = Goto(w, "canceled")]
       ELSE \E s \in Follow(w) : run' = [run EXCEPT ![r] = Goto(w, s)]
    /\ UNCHANGED <<comments, butler, canceled, latest, fence, work, picks, seen>>

\* assertVpsRunnerNotCanceled, and what the code decides before the next step.
Check(r) ==
    LET w == run[r] IN
    /\ w.at \in Checkpoints
    /\ IF w.exec \in canceled THEN run' = [run EXCEPT ![r] = Goto(w, "canceled")]
       ELSE \E s \in Follow(w) : run' = [run EXCEPT ![r] = Goto(w, s)]
    /\ UNCHANGED <<comments, butler, canceled, latest, fence, work, picks, seen>>

\* The step throws, done or not.
Throw(r, done) ==
    LET w == run[r]
        s == Catch(w)
    IN /\ IF done THEN Effect(r, w) ELSE NoEffect
       /\ run' = [run EXCEPT ![r] = Goto(IF s = "before_pr" THEN [w EXCEPT !.found = FALSE] ELSE w, s)]
       /\ lost' = IF s = "idle" /\ (w.at # "pickup" \/ done) THEN lost \cup {w.exec} ELSE lost
       /\ unsure' = IF done /\ w.at \in Completions THEN unsure \cup {w.exec} ELSE unsure
       /\ UNCHANGED <<butler, canceled>>

\* A command fails.
Break(r) ==
    /\ run[r].go /\ run[r].at \in Breakable
    /\ \E done \in BOOLEAN : (done => Possible(run[r])) /\ Throw(r, done)
    /\ UNCHANGED fence

\* The fence refuses the next write; to collectVpsPostMergeVerification that
\* is one more failed check.
Refused(r) ==
    /\ Fenced(r) /\ ~run[r].go /\ holder # r
    /\ IF run[r].at # "verify" THEN Throw(r, FALSE)
       ELSE /\ run' = [run EXCEPT ![r] = Goto(run[r], "blocked")]
            /\ NoEffect /\ UNCHANGED <<butler, canceled, seen>>
    /\ UNCHANGED fence

Fault == faults < MaxFaults /\ faults' = faults + 1

\* A call to GitHub fails; a write may have been done all the same.
Outage(r) ==
    /\ Fault
    /\ run[r].at \in Checkpoints \/ run[r].go
    /\ run[r].at \notin Breakable
    /\ \E done \in BOOLEAN : (done => run[r].go) /\ Throw(r, done)
    /\ UNCHANGED <<holder, handoffs>>

Crash(r) ==
    /\ Fault /\ Busy(r)
    /\ run' = [run EXCEPT ![r] = Idle]
    /\ lost' = IF run[r].at = "pickup" THEN lost ELSE lost \cup {run[r].exec}
    /\ UNCHANGED <<comments, butler, canceled, latest, holder, handoffs, work, picks, unsure>>

\* The authority goes to another machine.
Handoff(r) ==
    /\ Fault /\ r # holder
    /\ holder' = r /\ handoffs' = handoffs + 1
    /\ UNCHANGED <<comments, butler, canceled, latest, run, work, picks, seen>>

Serve(r) == Poll(r) \/ Admit(r) \/ Advance(r) \/ Check(r) \/ Break(r) \/ Refused(r)

Next ==
    \/ \E e \in Execs, k \in Kinds : Queue(e, k)
    \/ \E e \in Execs : Cancel(e) \/ MarkPending(e)
    \/ ReadPending
    \/ \E r \in Runners : Serve(r) \/ Outage(r) \/ Crash(r) \/ Handoff(r)

Spec == Init /\ [][Next]_vars

\* The timer starts the runner again and again, its calls and commands end.
FairSpec == Spec /\ WF_vars(\E r \in Runners : Serve(r))

--------------------------------------------------------------------------------
(* Properties. *)

Steps == Range(BuildSteps) \cup Ends \cup Failures
            \cup {"idle", "pickup", "verify", "helper", "list_failed"}

\* Type invariant: the comments, the queue, the fence and the runs hold values the code can write.
TypeOK ==
    /\ comments \in Seq([exec : Execs, says : {"queue", "running", "branch_created"} \cup Verdicts])
    /\ kind \in [Execs -> Kinds \cup {"none"}]
    /\ canceled \subseteq Execs /\ asked \subseteq Execs
    /\ latest \in [Execs -> {"none", "running", "branch_created"} \cup Verdicts]
    /\ run \in [Runners -> [exec : {0} \cup Execs, at : Steps, go : BOOLEAN, found : BOOLEAN,
                            late : SUBSET WorkSteps]]
    /\ holder \in Runners
    /\ prs \subseteq Execs /\ lost \subseteq Execs /\ unsure \subseteq Execs
    /\ faults \in 0 .. MaxFaults /\ handoffs \in 0 .. faults
    /\ picks \in [Execs -> Nat]
    /\ worked \in [Execs -> SUBSET Runners]

\* A cancellation stops a build at the next checkpoint
\* (docs/butler/remote-codex-cli-executor.md:347): what it still does after
\* the marker lies between two checkpoints.
CancelStops ==
    \A r \in Runners : \A a, b \in run[r].late \cap Range(BuildSteps) :
        ~ \E c \in Checkpoints : Place(a) < Place(c) /\ Place(c) < Place(b)

\* However the pickup races with a handoff, two machines work for one
\* execution only when the authority went there and back.
OneWorker == \A e \in Execs : Cardinality(worked[e]) > 1 => handoffs > 1

\* An execution picked up once is reported as completed and as failed only
\* when the report of the completion was not confirmed; a failed lookup of
\* the pull request is reported as a failure that the run then ignores.
OutcomeAgrees ==
    \A e \in Execs :
        LET says == {c.says : c \in {d \in Range(comments) : d.exec = e}}
        IN picks[e] = 1 /\ {"completed", "failed"} \subseteq says => e \in unsure

\* Nobody works on e, and it has a verdict, a cancellation or a fault to show for it.
Ended(e) ==
    /\ \A r \in Runners : run[r].exec # e
    /\ e \in canceled \/ e \in lost \/ \E c \in Range(comments) : c.exec = e /\ c.says \in Verdicts

\* Every queued execution comes to a verdict, is canceled, or was lost to a fault.
QueueDrains == \A e \in Execs : (kind[e] # "none") ~> Ended(e)

\* An execution of privileged maintenance is picked only once
\* (test/vps-runner-script.test.js:127).
MaintenanceOnce == \A e \in Execs : kind[e] = "maintenance" => picks[e] <= 1
================================================================================
