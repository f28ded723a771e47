---------------------------- MODULE VpsRunnerProofs ----------------------------
(***************************************************************************)
(* What holds of the runners for any number of machines, executions,       *)
(* pickups and faults.                                                     *)
(***************************************************************************)
EXTENDS VpsRunner, SequenceTheorems, FiniteSetTheorems, TLAPS

--------------------------------------------------------------------------------
(* The steps of a run.                                                     *)

Builds ==
    {"before_clone", "workspace", "before_clone_command", "clone_started", "clone",
     "clone_completed", "after_clone", "branch", "preflight", "branch_created", "before_codex",
     "codex_started", "codex", "codex_completed", "after_codex", "push", "pushed", "list_started",
     "list", "list_completed", "before_pr", "pr_started", "pr", "pr_completed", "completed"}

LEMMA BuildFacts ==
  /\ DOMAIN BuildSteps = 1 .. 25 /\ BuildSteps[25] = "completed"
  /\ Range(BuildSteps) = Builds
  /\ \A s \in Builds : Place(s) \in 1 .. 25 /\ BuildSteps[Place(s)] = s
  <1>1. DOMAIN BuildSteps = 1 .. 25 /\ BuildSteps[25] = "completed" /\ BuildSteps[1] = "before_clone"
    BY DEF BuildSteps
  <1>2. \A i \in 1 .. 25 : BuildSteps[i] \in Builds
    BY DEF BuildSteps, Builds
  <1>3. \A s \in Builds : \E i \in 1 .. 25 : BuildSteps[i] = s
    BY DEF BuildSteps, Builds
  <1>4. Range(BuildSteps) = Builds
    BY <1>1, <1>2, <1>3 DEF Range
  <1>5. \A s \in Builds : Place(s) \in 1 .. 25 /\ BuildSteps[Place(s)] = s
    BY <1>1, <1>3 DEF Place
  <1> QED
    BY <1>1, <1>4, <1>5

Sayings == {"running", "branch_created"} \cup Verdicts

RunType == [exec : {0} \cup Execs, at : Steps, go : BOOLEAN, found : BOOLEAN, late : SUBSET WorkSteps]

\* A run has an execution, and is admitted for a write only.
RunFits(w) ==
    /\ w \in RunType
    /\ w.at # "idle" => w.exec \in Execs
    /\ w.go => w.at # "idle" /\ w.at \notin Checkpoints

LEMMA StepsAre ==
  Steps = Builds \cup {"failed", "no_changes", "blocked", "canceled", "verified", "helped",
                       "clone_failed", "codex_failed", "pr_failed",
                       "idle", "pickup", "verify", "helper", "list_failed"}
  BY BuildFacts DEF Steps, Ends, Completions, Failures, Builds

LEMMA NextBuild ==
  ASSUME NEW s \in Builds, s # "completed"
  PROVE  BuildSteps[Place(s) + 1] \in Builds
  <1>1. Place(s) \in 1 .. 25 /\ BuildSteps[Place(s)] = s /\ BuildSteps[25] = "completed"
    BY BuildFacts
  <1>2. Place(s) + 1 \in 1 .. 25
    BY <1>1
  <1> QED
    BY <1>2, BuildFacts DEF Range

\* Where a run can go.
LEMMA FollowFits ==
  ASSUME NEW w \in RunType, w.at # "idle", NEW s \in Follow(w)
  PROVE  s \in Steps \ {"pickup"}
  <1> DEFINE k == kind[w.exec]
             next == BuildSteps[Place(w.at) + 1]
  <1>1. CASE w.at = "pickup"
    <2>1. s = StepsOf(k)[1]
      BY <1>1 DEF Follow, Ends, Completions, Resume
    <2>2. StepsOf(k)[1] \in {"verify", "helper", "before_clone"}
      BY DEF StepsOf, BuildSteps
    <2> QED
      BY <2>1, <2>2, StepsAre DEF Builds
  <1>2. CASE w.at \in Ends
    BY <1>2, StepsAre DEF Follow, Ends, Completions, Resume
  <1>3. CASE w.at \in {"clone_failed", "codex_failed", "pr_failed", "list_failed"}
    BY <1>3, StepsAre DEF Follow, Ends, Completions, Resume, Builds
  <1>4. CASE w.at \in {"verify", "helper"}
    BY <1>4, StepsAre DEF Follow, Ends, Completions, Resume, Builds
  <1>5. CASE w.at \in Builds /\ w.at # "completed"
    <2>1. next \in Builds
      BY <1>5, NextBuild
    <2>2. s \in {next, "blocked", "push", "no_changes", "list_started", "completed"}
      <3>1. w.at \notin Ends /\ w.at \notin DOMAIN Resume /\ w.at \notin {"pickup", "verify", "helper"}
        BY <1>5 DEF Ends, Completions, Resume, Builds
      <3> HIDE DEF next
      <3> QED
        BY <3>1 DEF Follow, next
    <2> HIDE DEF next
    <2> QED
      BY <2>1, <2>2, StepsAre DEF Builds
  <1>6. w.at \in Steps
    BY DEF RunType
  <1> QED
    BY <1>1, <1>2, <1>3, <1>4, <1>5, <1>6, StepsAre DEF Ends, Completions

LEMMA CatchFits ==
  ASSUME NEW w \in RunType
  PROVE  Catch(w) \in Steps \ {"pickup"}
  BY StepsAre DEF Catch, Tracked, Builds

\* A step stands in one place.
LEMMA PlaceFacts ==
  /\ \A i, j \in 1 .. 25 : BuildSteps[i] = BuildSteps[j] => i = j
  /\ Place("list_started") = 18 /\ Place("list") = 19 /\ Place("list_completed") = 20
  /\ Place("before_pr") = 21
  <1>1. \A i, j \in 1 .. 25 : BuildSteps[i] = BuildSteps[j] => i = j
    BY DEF BuildSteps
  <1>2. /\ BuildSteps[18] = "list_started" /\ BuildSteps[19] = "list"
        /\ BuildSteps[20] = "list_completed" /\ BuildSteps[21] = "before_pr"
    BY DEF BuildSteps
  <1>3. {"list_started", "list", "list_completed", "before_pr"} \subseteq Builds
    BY DEF Builds
  <1> QED
    BY <1>1, <1>2, <1>3, BuildFacts

\* A run goes from step a to step s, its execution canceled or not: past a checkpoint
\* only when it is not, and otherwise one step on, or over a failed lookup; from a
\* failure to its repetition by the caller or to the end.
Passes(a, s, isCanceled) ==
    /\ a \in Failures => s = "idle" \/ (s = "failed" /\ a # "failed")
    /\ s = "list_failed" => a \in {"list", "list_completed"}
    /\ a \in Checkpoints /\ isCanceled => s \notin Builds
    /\ a \notin Checkpoints /\ s \in Builds =>
          \/ a = "pickup"
          \/ a \in Builds /\ Place(s) = Place(a) + 1
          \/ a \in {"list_started", "list_failed"} /\ s = "before_pr"

LEMMA FollowPasses ==
  ASSUME NEW w \in RunType, w.at # "idle", NEW s \in Follow(w), NEW b, w.at \in Checkpoints => ~b
  PROVE  Passes(w.at, s, b)
  <1> DEFINE k == kind[w.exec]
             next == BuildSteps[Place(w.at) + 1]
  <1>1. CASE w.at \in {"pickup"} \cup Ends \cup {"clone_failed", "codex_failed", "pr_failed",
                                                 "list_failed", "verify", "helper"}
    <2>1. w.at = "pickup" \/ s \notin Builds \/ (w.at = "list_failed" /\ s = "before_pr")
      BY <1>1 DEF Follow, Ends, Completions, Resume, Builds
    <2>2. s # "list_failed"
      <3>1. CASE w.at = "pickup"
        <4>1. s = StepsOf(k)[1]
          BY <3>1 DEF Follow, Ends, Completions, Resume
        <4>2. StepsOf(k)[1] \in {"verify", "helper", "before_clone"}
          BY DEF StepsOf, BuildSteps
        <4> QED
          BY <4>1, <4>2
      <3>2. CASE w.at # "pickup"
        BY <1>1, <3>2 DEF Follow, Ends, Completions, Resume
      <3> QED
        BY <3>1, <3>2
    <2>3. w.at \notin Checkpoints
      BY <1>1 DEF Ends, Completions, Checkpoints
    <2>4. w.at \in Failures => s = "idle" \/ (s = "failed" /\ w.at # "failed")
      BY <1>1 DEF Follow, Failures, Ends, Completions, Resume
    <2> QED
      BY <2>1, <2>2, <2>3, <2>4 DEF Passes
  <1>2. CASE w.at \in Builds /\ w.at # "completed"
    <2>1. next \in Builds /\ Place(next) = Place(w.at) + 1
      <3>1. Place(w.at) \in 1 .. 25 /\ BuildSteps[Place(w.at)] = w.at /\ BuildSteps[25] = "completed"
        BY <1>2, BuildFacts
      <3>2. Place(w.at) + 1 \in 1 .. 25
        BY <1>2, <3>1
      <3>3. next \in Builds
        BY <1>2, NextBuild
      <3>4. Place(next) \in 1 .. 25 /\ BuildSteps[Place(next)] = next
        BY <3>3, BuildFacts
      <3> QED
        BY <3>2, <3>3, <3>4, PlaceFacts
    <2>2. /\ s \in {next, "blocked", "push", "no_changes", "list_started", "completed"}
          /\ w.at \notin Checkpoints => s \in {next, "blocked"}
      <3>1. w.at \notin Ends /\ w.at \notin DOMAIN Resume /\ w.at \notin {"pickup", "verify", "helper"}
        BY <1>2 DEF Ends, Completions, Resume, Builds
      <3> HIDE DEF next
      <3> QED
        BY <3>1 DEF Follow, next, Checkpoints
    <2> HIDE DEF next
    <2>3. "list_failed" \notin Builds /\ "blocked" \notin Builds
      BY DEF Builds
    <2>4. w.at \notin Failures
      BY <1>2 DEF Builds, Failures
    <2> QED
      BY <1>2, <2>1, <2>2, <2>3, <2>4 DEF Passes
  <1>3. w.at \in Steps
    BY DEF RunType
  <1> QED
    BY <1>1, <1>2, <1>3, StepsAre DEF Ends, Completions

LEMMA CompletionEnds ==
  ASSUME NEW w, w.at \in Completions, NEW s \in Follow(w)
  PROVE  s = "idle"
  BY DEF Follow, Ends, Completions, Resume

LEMMA CatchPasses ==
  ASSUME NEW w \in RunType, NEW b
  PROVE  Passes(w.at, Catch(w), b)
  <1>1. Catch(w) \in Builds =>
          Catch(w) = "before_pr" /\ w.at \in {"list_started", "list_failed"}
    BY DEF Catch, Tracked, Builds
  <1>2. Catch(w) = "list_failed" => w.at \in {"list", "list_completed"}
    BY DEF Catch, Tracked
  <1>3. w.at \in {"list_started", "list_failed"} => w.at \notin Checkpoints
    BY DEF Checkpoints
  <1>4. w.at \in Failures => Catch(w) = "idle" \/ (Catch(w) = "failed" /\ w.at # "failed")
    BY DEF Catch, Tracked, Failures
  <1> QED
    BY <1>1, <1>2, <1>3, <1>4 DEF Passes

LEMMA StatusFits ==
  ASSUME NEW s \in Steps
  PROVE  Status(s) = "nothing" \/ Status(s) \in Sayings
  BY DEF Status, Sayings, Verdicts

LEMMA GotoFits ==
  ASSUME NEW w, RunFits(w), w.at # "idle", NEW s \in Steps
  PROVE  RunFits(Goto(w, s)) /\ (s # "idle" => Goto(w, s).at = s /\ Goto(w, s).exec = w.exec)
         /\ ~Goto(w, s).go
  <1>1. CASE s = "idle"
    BY <1>1, StepsAre DEF Goto, Idle, RunFits, RunType
  <1>2. CASE s # "idle"
    <2> DEFINE l == IF w.exec \in canceled /\ w.at \in WorkSteps THEN w.late \cup {w.at} ELSE w.late
               v == [w EXCEPT !.at = s, !.go = FALSE, !.late = l]
    <2>1. Goto(w, s) = v
      BY <1>2 DEF Goto
    <2>2. l \in SUBSET WorkSteps
      BY DEF RunFits, RunType
    <2> HIDE DEF l
    <2>3. v \in RunType /\ v.at = s /\ v.exec = w.exec /\ ~v.go
      BY <2>2 DEF RunFits, RunType
    <2> QED
      BY <1>2, <2>1, <2>3 DEF RunFits
  <1> QED
    BY <1>1, <1>2

--------------------------------------------------------------------------------
(* Types.                                                                  *)

Comment == [exec : Execs, says : {"queue"} \cup Sayings]

\* The parts of the type invariant: what Butler and GitHub hold, and the fence.
Board ==
    /\ comments \in Seq(Comment)
    /\ kind \in [Execs -> Kinds \cup {"none"}]
    /\ canceled \subseteq Execs /\ asked \subseteq Execs
    /\ latest \in [Execs -> {"none"} \cup Sayings]

Ledger ==
    /\ prs \subseteq Execs /\ lost \subseteq Execs /\ unsure \subseteq Execs
    /\ picks \in [Execs -> Nat]
    /\ worked \in [Execs -> SUBSET Runners]

Fence == holder \in Runners /\ faults \in 0 .. MaxFaults /\ handoffs \in 0 .. faults

Fits ==
    /\ Board /\ Ledger /\ Fence
    /\ run \in [Runners -> RunType] /\ \A r \in Runners : RunFits(run[r])

LEMMA IdleFits == RunFits(Idle) /\ Idle.exec = 0 /\ Idle.at = "idle" /\ ~Idle.go
  BY StepsAre DEF RunFits, RunType, Idle

LEMMA InitFits == Init => Fits
  <1> SUFFICES ASSUME Init
               PROVE  Fits
    OBVIOUS
  <1>1. Board
    BY DEF Init, Board
  <1>2. Ledger
    BY DEF Init, Ledger
  <1>3. Fence
    BY RunnerAssumption DEF Init, Fence
  <1>4. \A r \in Runners : run[r] = Idle
    BY DEF Init
  <1>5. run \in [Runners -> RunType]
    BY IdleFits DEF Init, RunFits
  <1> QED
    BY <1>1, <1>2, <1>3, <1>4, <1>5, IdleFits DEF Fits

\* A step of a run that is under way: the admitted write is done, or it is not; a
\* pickup that is not done ends the run, and so does a completion that is done,
\* unless nobody is sure of it.
Moves(r, w, s) ==
    /\ RunFits(w) /\ w.at = run[r].at /\ w.exec = run[r].exec /\ w.late = run[r].late
    /\ w.at # "idle"
    /\ s \in Steps \ {"pickup"} /\ Passes(w.at, s, w.exec \in canceled)
    /\ run' = [run EXCEPT ![r] = Goto(w, s)]
    /\ \/ /\ run[r].go /\ Effect(r, run[r])
          /\ w.at \in Completions => s = "idle" \/ w.exec \in unsure'
       \/ NoEffect /\ (w.at = "pickup" => s = "idle")
    /\ UNCHANGED <<kind, asked, canceled, holder, handoffs>>
    /\ faults' = faults \/ Fault
    /\ lost' \subseteq lost \cup {w.exec}
    /\ unsure \subseteq unsure' /\ unsure' \subseteq unsure \cup {w.exec}

LEMMA FoundFits ==
  ASSUME NEW w, RunFits(w), NEW b \in BOOLEAN
  PROVE  LET v == [w EXCEPT !.found = b]
         IN RunFits(v) /\ v.at = w.at /\ v.exec = w.exec /\ v.late = w.late
  BY DEF RunFits, RunType

LEMMA ThrowMoves ==
  ASSUME Fits, NEW r \in Runners, run[r].at # "idle", NEW done \in BOOLEAN, done => run[r].go,
         Throw(r, done), UNCHANGED <<holder, handoffs>>, faults' = faults \/ Fault
  PROVE  \E w, s : Moves(r, w, s)
  <1> DEFINE w == run[r]
             s == Catch(w)
             v == IF s = "before_pr" THEN [w EXCEPT !.found = FALSE] ELSE w
  <1>1. RunFits(w) /\ w \in RunType
    BY DEF Fits
  <1>2. RunFits(v) /\ v.at = w.at /\ v.exec = w.exec /\ v.late = w.late
    BY <1>1, FoundFits
  <1>3. s \in Steps \ {"pickup"} /\ Passes(w.at, s, w.exec \in canceled)
    BY <1>1, CatchFits, CatchPasses
  <1>4. w.at = "pickup" => s = "idle"
    BY DEF Catch, Tracked
  <1>5. /\ run' = [run EXCEPT ![r] = Goto(v, s)]
        /\ (done /\ Effect(r, w)) \/ NoEffect
        /\ lost' \subseteq lost \cup {w.exec}
        /\ unsure \subseteq unsure' /\ unsure' \subseteq unsure \cup {w.exec}
        /\ UNCHANGED <<kind, asked, canceled>>
    BY DEF Throw, butler
  <1>6. (done /\ Effect(r, w) /\ (w.at \in Completions => w.exec \in unsure')) \/ NoEffect
    BY DEF Throw
  <1> HIDE DEF v, s
  <1>7. Moves(r, v, s)
    BY <1>2, <1>3, <1>4, <1>5, <1>6 DEF Moves
  <1> QED
    BY <1>7

LEMMA RunnerMoves ==
  ASSUME Fits, NEW r \in Runners,
         Advance(r) \/ Check(r) \/ Break(r) \/ Refused(r) \/ Outage(r)
  PROVE  \E w, s : Moves(r, w, s)
  <1> DEFINE w == run[r]
  <1>1. RunFits(w) /\ w \in RunType
    BY DEF Fits
  <1>2. ASSUME NEW v, RunFits(v), v.at = w.at, v.exec = w.exec, v.late = w.late,
               NEW s \in Follow(w), w.at # "idle",
               run' = [run EXCEPT ![r] = Goto(v, s)],
               (w.go /\ Effect(r, w)) \/ (w.at \in Checkpoints /\ NoEffect),
               w.at \in Checkpoints => w.exec \notin canceled,
               UNCHANGED <<kind, asked, canceled, fence, seen>>
        PROVE  Moves(r, v, s)
    <2>1. s \in Steps \ {"pickup"} /\ Passes(w.at, s, w.exec \in canceled)
      BY <1>1, <1>2, FollowFits, FollowPasses
    <2>2. w.at \in Checkpoints => w.at # "pickup"
      BY DEF Checkpoints
    <2>3. w.at \in Completions => s = "idle"
      BY CompletionEnds
    <2> QED
      BY <1>2, <2>1, <2>2, <2>3 DEF Moves, fence, seen
  <1>3. CASE Advance(r)
    <2> DEFINE v == IF w.at = "list" THEN [w EXCEPT !.found = w.exec \in prs] ELSE w
    <2>1. (w.exec \in prs) \in BOOLEAN
      OBVIOUS
    <2>2. RunFits(v) /\ v.at = w.at /\ v.exec = w.exec /\ v.late = w.late
      BY <1>1, <2>1, FoundFits
    <2>3. w.go /\ w.at # "idle" /\ w.at \notin Checkpoints
      BY <1>1, <1>3 DEF Advance, RunFits
    <2>4. PICK s \in Follow(w) : run' = [run EXCEPT ![r] = Goto(v, s)]
      BY <1>3 DEF Advance
    <2>5. Effect(r, w) /\ UNCHANGED <<kind, asked, canceled, fence, seen>>
      BY <1>3 DEF Advance, butler
    <2> HIDE DEF v, w
    <2>6. Moves(r, v, s)
      BY <1>2, <2>2, <2>3, <2>4, <2>5
    <2> QED
      BY <2>6
  <1>4. CASE Check(r)
    <2>1. w.at \in Checkpoints /\ NoEffect /\ UNCHANGED <<kind, asked, canceled, fence, seen>>
      BY <1>4 DEF Check, NoEffect, butler
    <2>2. w.at # "idle" /\ w.at # "pickup"
      BY <2>1 DEF Checkpoints
    <2>3. CASE run' = [run EXCEPT ![r] = Goto(w, "canceled")]
      <3>1. "canceled" \in Steps \ {"pickup"} /\ Passes(w.at, "canceled", w.exec \in canceled)
        BY <2>1, StepsAre DEF Passes, Builds, Checkpoints, Failures
      <3>2. Moves(r, w, "canceled")
        BY <1>1, <2>1, <2>2, <2>3, <3>1 DEF Moves, fence, seen
      <3> QED
        BY <3>2
    <2>4. CASE w.exec \notin canceled /\ \E s \in Follow(w) : run' = [run EXCEPT ![r] = Goto(w, s)]
      <3>1. PICK s \in Follow(w) : run' = [run EXCEPT ![r] = Goto(w, s)]
        BY <2>4
      <3> HIDE DEF w
      <3>2. Moves(r, w, s)
        BY <1>1, <1>2, <2>1, <2>2, <2>4, <3>1
      <3> QED
        BY <3>2
    <2> QED
      BY <1>4, <2>3, <2>4 DEF Check
  <1>5. CASE Break(r)
    <2>1. PICK done \in BOOLEAN : Throw(r, done)
      BY <1>5 DEF Break
    <2>2. w.go /\ UNCHANGED fence /\ w.at # "idle"
      BY <1>1, <1>5 DEF Break, RunFits
    <2> QED
      BY <2>1, <2>2, ThrowMoves DEF fence
  <1>6. CASE Outage(r)
    <2>1. PICK done \in BOOLEAN : (done => run[r].go) /\ Throw(r, done)
      BY <1>6 DEF Outage
    <2>2. w.at # "idle" /\ Fault /\ UNCHANGED <<holder, handoffs>>
      BY <1>1, <1>6 DEF Outage, RunFits, Checkpoints
    <2> QED
      BY <2>1, <2>2, ThrowMoves
  <1>7. CASE Refused(r)
    <2>1. w.at # "idle" /\ UNCHANGED fence
      BY <1>7 DEF Refused, Fenced, Busy
    <2>2. CASE w.at # "verify"
      BY <1>7, <2>1, <2>2, ThrowMoves DEF Refused, fence
    <2>3. CASE w.at = "verify"
      <3>1. /\ run' = [run EXCEPT ![r] = Goto(w, "blocked")]
            /\ NoEffect /\ UNCHANGED <<butler, canceled, seen>>
        BY <1>7, <2>3 DEF Refused
      <3>2. /\ "blocked" \in Steps \ {"pickup"} /\ w.at # "pickup"
            /\ Passes(w.at, "blocked", w.exec \in canceled)
        BY <2>3, StepsAre DEF Passes, Builds, Failures
      <3>3. Moves(r, w, "blocked")
        BY <1>1, <2>1, <3>1, <3>2 DEF Moves, fence, seen, butler
      <3> QED
        BY <3>3
    <2> QED
      BY <2>2, <2>3
  <1> QED
    BY <1>3, <1>4, <1>5, <1>6, <1>7

LEMMA EffectFits ==
  ASSUME Fits, NEW r \in Runners, run[r].at # "idle", Effect(r, run[r])
  PROVE  /\ comments' \in Seq(Comment) /\ latest' \in [Execs -> {"none"} \cup Sayings]
         /\ prs' \subseteq Execs /\ picks' \in [Execs -> Nat] /\ worked' \in [Execs -> SUBSET Runners]
  <1> DEFINE e == run[r].exec
             at == run[r].at
  <1>1. e \in Execs /\ at \in Steps
    BY DEF Fits, RunFits, RunType
  <1>2. /\ comments \in Seq(Comment) /\ latest \in [Execs -> {"none"} \cup Sayings]
        /\ prs \subseteq Execs /\ picks \in [Execs -> Nat] /\ worked \in [Execs -> SUBSET Runners]
    BY DEF Fits, Board, Ledger
  <1>3. /\ Say(e, Status(at))
        /\ picks' = picks \/ picks' = [picks EXCEPT ![e] = @ + 1]
        /\ prs' = prs \/ prs' = prs \cup {e}
        /\ worked' = worked \/ worked' = [worked EXCEPT ![e] = @ \cup {r}]
    BY DEF Effect
  <1> HIDE DEF e, at
  <1>4. prs' \subseteq Execs /\ picks' \in [Execs -> Nat] /\ worked' \in [Execs -> SUBSET Runners]
    <2>1. prs' \subseteq Execs
      BY <1>1, <1>2, <1>3
    <2>2. picks' \in [Execs -> Nat]
      BY <1>1, <1>2, <1>3
    <2>3. worked' \in [Execs -> SUBSET Runners]
      <3>1. worked[e] \cup {r} \in SUBSET Runners
        BY <1>1, <1>2
      <3> QED
        BY <1>1, <1>2, <1>3, <3>1
    <2> QED
      BY <2>1, <2>2, <2>3
  <1>5. CASE Status(at) = "nothing"
    BY <1>2, <1>3, <1>4, <1>5 DEF Say
  <1>6. CASE Status(at) # "nothing"
    <2> DEFINE c == [exec |-> e, says |-> Status(at)]
    <2>1. Status(at) \in Sayings
      BY <1>1, <1>6, StatusFits
    <2>2. c \in Comment
      BY <1>1, <2>1 DEF Comment
    <2>3. /\ comments' = comments \/ comments' = Append(comments, c)
          /\ latest' = [latest EXCEPT ![e] = Status(at)]
      BY <1>3, <1>6 DEF Say
    <2> HIDE DEF c
    <2>4. comments' \in Seq(Comment)
      <3>1. comments \in Seq(Comment)
        BY <1>2
      <3>2. Append(comments, c) \in Seq(Comment)
        BY <2>2, <3>1, AppendProperties
      <3> QED
        BY <2>3, <3>1, <3>2
    <2> QED
      BY <1>1, <1>2, <1>4, <2>1, <2>3, <2>4
  <1> QED
    BY <1>5, <1>6

LEMMA MovesFit ==
  ASSUME Fits, NEW r \in Runners, NEW w, NEW s, Moves(r, w, s)
  PROVE  Fits'
  <1>1. run[r].at # "idle" /\ w.exec \in Execs
    BY DEF Moves, RunFits
  <1>2. /\ comments' \in Seq(Comment) /\ latest' \in [Execs -> {"none"} \cup Sayings]
        /\ prs' \subseteq Execs /\ picks' \in [Execs -> Nat] /\ worked' \in [Execs -> SUBSET Runners]
    <2>1. CASE Effect(r, run[r])
      BY <1>1, <2>1, EffectFits
    <2>2. CASE NoEffect
      BY <2>2 DEF NoEffect, work, Fits, Board, Ledger
    <2> QED
      BY <2>1, <2>2 DEF Moves
  <1>3. Board'
    BY <1>2 DEF Moves, Fits, Board
  <1>4. Ledger'
    <2>1. lost' \subseteq Execs /\ unsure' \subseteq Execs
      BY <1>1 DEF Moves, Fits, Ledger
    <2> QED
      BY <1>2, <2>1 DEF Ledger
  <1>5. Fence'
    <2>1. holder \in Runners /\ faults \in 0 .. MaxFaults /\ handoffs \in 0 .. faults /\ MaxFaults \in Nat
      BY RunnerAssumption DEF Fits, Fence
    <2>2. UNCHANGED <<holder, handoffs>> /\ (faults' = faults \/ (faults < MaxFaults /\ faults' = faults + 1))
      BY DEF Moves, Fault
    <2> QED
      BY <2>1, <2>2 DEF Fence
  <1>6. RunFits(Goto(w, s)) /\ run' = [run EXCEPT ![r] = Goto(w, s)] /\ run \in [Runners -> RunType]
        /\ \A q \in Runners : RunFits(run[q])
    BY GotoFits DEF Moves, Fits
  <1>7. Goto(w, s) \in RunType
    BY <1>6 DEF RunFits
  <1> HIDE DEF RunType
  <1>8. run' \in [Runners -> RunType] /\ \A q \in Runners : run'[q] = IF q = r THEN Goto(w, s) ELSE run[q]
    BY <1>6, <1>7
  <1>9. \A q \in Runners : RunFits(run'[q])
    BY <1>6, <1>8
  <1> QED
    BY <1>3, <1>4, <1>5, <1>8, <1>9 DEF Fits

\* A new value for one run.
LEMMA RunReplaced ==
  ASSUME Fits, NEW r \in Runners, NEW v, RunFits(v), run' = [run EXCEPT ![r] = v]
  PROVE  run' \in [Runners -> RunType] /\ \A q \in Runners : RunFits(run'[q])
  <1>1. v \in RunType /\ run \in [Runners -> RunType] /\ \A q \in Runners : RunFits(run[q])
    BY DEF Fits, RunFits
  <1> QED
    BY <1>1

LEMMA ButlerFits ==
  ASSUME Fits,
         \/ \E e \in Execs, k \in Kinds : Queue(e, k)
         \/ \E e \in Execs : Cancel(e) \/ MarkPending(e)
         \/ ReadPending
  PROVE  Fits'
  <1> USE DEF butler, fence, seen, work
  <1>1. Fence' /\ run' = run
    BY DEF Queue, Cancel, MarkPending, ReadPending, Fits, Fence
  <1>2. Board'
    <2>1. Board
      BY DEF Fits
    <2>2. ASSUME NEW e \in Execs, NEW k \in Kinds, Queue(e, k)
          PROVE  Board'
      <3>1. comments' \in Seq(Comment)
        <4>1. [exec |-> e, says |-> "queue"] \in Comment
          BY DEF Comment
        <4> QED
          BY <2>1, <2>2, <4>1, AppendProperties DEF Queue, Board
      <3>2. kind' \in [Execs -> Kinds \cup {"none"}]
        BY <2>1, <2>2 DEF Queue, Board
      <3> QED
        BY <2>1, <2>2, <3>1, <3>2 DEF Queue, Board
    <2>3. ASSUME NEW e \in Execs, Cancel(e) \/ MarkPending(e)
          PROVE  Board'
      BY <2>1, <2>3 DEF Cancel, MarkPending, Board
    <2>4. CASE ReadPending
      BY <2>1, <2>4 DEF ReadPending, Board
    <2> QED
      BY <2>2, <2>3, <2>4
  <1>3. Ledger'
    BY DEF Queue, Cancel, MarkPending, ReadPending, Fits, Ledger
  <1> QED
    BY <1>1, <1>2, <1>3 DEF Fits

\* The steps of a runner that begin or end a run, and the handoff.
LEMMA OtherFits ==
  ASSUME Fits, NEW r \in Runners, Poll(r) \/ Admit(r) \/ Crash(r) \/ Handoff(r)
  PROVE  Fits'
  <1> USE DEF butler, fence, seen, work
  <1>1. Board' /\ UNCHANGED <<prs, unsure, picks, worked>>
    BY DEF Poll, Admit, Crash, Handoff, Fits, Board
  <1>2. Ledger'
    <2>1. lost' \subseteq Execs
      BY DEF Poll, Admit, Crash, Handoff, Busy, Fits, RunFits, Ledger
    <2> QED
      BY <1>1, <2>1 DEF Fits, Ledger
  <1>3. Fence'
    <2>1. holder \in Runners /\ faults \in 0 .. MaxFaults /\ handoffs \in 0 .. faults /\ MaxFaults \in Nat
      BY RunnerAssumption DEF Fits, Fence
    <2>2. /\ holder' \in {holder, r}
          /\ \/ UNCHANGED <<faults, handoffs>>
             \/ faults < MaxFaults /\ faults' = faults + 1 /\ handoffs' \in {handoffs, handoffs + 1}
      BY DEF Poll, Admit, Crash, Handoff, Fault
    <2> QED
      BY <2>1, <2>2 DEF Fence
  <1>4. run' \in [Runners -> RunType] /\ \A q \in Runners : RunFits(run'[q])
    <2>1. CASE Poll(r)
      <3>1. PICK e \in Execs : run' = [run EXCEPT ![r] = [Idle EXCEPT !.exec = e, !.at = "pickup"]]
        BY <2>1 DEF Poll
      <3>2. RunFits([Idle EXCEPT !.exec = e, !.at = "pickup"])
        BY StepsAre DEF RunFits, RunType, Idle, Checkpoints
      <3> QED
        BY <3>1, <3>2, RunReplaced
    <2>2. CASE Admit(r)
      <3> DEFINE v == [run[r] EXCEPT !.go = TRUE]
      <3>1. RunFits(run[r]) /\ run[r].at # "idle" /\ run[r].at \notin Checkpoints
        BY <2>2 DEF Admit, Fenced, Busy, Fits
      <3>2. RunFits(v)
        BY <3>1 DEF RunFits, RunType
      <3>3. run' = [run EXCEPT ![r] = v]
        BY <2>2 DEF Admit
      <3> QED
        BY <3>2, <3>3, RunReplaced
    <2>3. CASE Crash(r)
      BY <2>3, IdleFits, RunReplaced DEF Crash
    <2>4. CASE Handoff(r)
      BY <2>4 DEF Handoff, Fits
    <2> QED
      BY <2>1, <2>2, <2>3, <2>4
  <1> QED
    BY <1>1, <1>2, <1>3, <1>4 DEF Fits

LEMMA NextFits == Fits /\ [Next]_vars => Fits'
  <1> SUFFICES ASSUME Fits, [Next]_vars
               PROVE  Fits'
    OBVIOUS
  <1>1. ASSUME NEW r \in Runners,
               Advance(r) \/ Check(r) \/ Break(r) \/ Refused(r) \/ Outage(r)
        PROVE  Fits'
    BY <1>1, RunnerMoves, MovesFit
  <1>2. CASE UNCHANGED vars
    BY <1>2 DEF vars, butler, fence, work, seen, Fits, Board, Ledger, Fence
  <1> QED
    BY <1>1, <1>2, ButlerFits, OtherFits DEF Next, Serve

LEMMA FitsInvariant == Spec => []Fits
  BY InitFits, NextFits, PTL DEF Spec

\* The comments, the queue, the fence and the runs hold values the code can write.
THEOREM RunnerTypes == Spec => []TypeOK
  <1>1. Fits => TypeOK
    BY DEF Fits, Board, Ledger, Fence, Comment, Sayings, RunType, TypeOK
  <1> QED
    BY <1>1, FitsInvariant, PTL

--------------------------------------------------------------------------------
(* One machine works for an execution.                                     *)

\* The comments cs say that e was picked up.
Shown(cs, e) == \E i \in 1 .. Len(cs) : cs[i].exec = e /\ cs[i].says \in Verdicts \cup {"running"}

\* Work is done for executions that were picked up.
WorkShown ==
    /\ \A r \in Runners : run[r].at \notin {"idle", "pickup"} => Shown(comments, run[r].exec)
    /\ \A e \in Execs : worked[e] # {} => Shown(comments, e)

\* Before a second handoff there is one former holder f, the holder itself at first.
\* What it was admitted for may still be done; of an execution that the holder has
\* picked up, that can be the pickup only.
Former(f) ==
    /\ handoffs = 0 => f = holder
    /\ \A r \in Runners : r # f /\ r # holder => run[r] = Idle
    /\ \A e \in Execs : worked[e] \subseteq {f, holder}
    /\ f # holder => \A e \in Execs :
          run[holder].exec = e \/ holder \in worked[e]
            => /\ f \notin worked[e]
               /\ run[f].exec = e /\ run[f].go => run[f].at = "pickup"

OneFormer == Len(comments) <= PageSize /\ handoffs <= 1 => \E f \in Runners : Former(f)

LEMMA CommentsGrow ==
  ASSUME Fits, [Next]_vars
  PROVE  comments' = comments \/ \E c \in Comment : comments' = Append(comments, c)
  <1> USE DEF butler, fence, seen, work
  <1>1. ASSUME NEW r \in Runners, Effect(r, run[r]), run[r].at # "idle"
        PROVE  comments' = comments \/ \E c \in Comment : comments' = Append(comments, c)
    <2> DEFINE e == run[r].exec
               t == Status(run[r].at)
               c == [exec |-> e, says |-> t]
    <2>1. e \in Execs /\ (t = "nothing" \/ t \in Sayings)
      BY <1>1, StatusFits DEF Fits, RunFits, RunType
    <2>2. t = "nothing" \/ c \in Comment
      BY <2>1 DEF Comment
    <2>3. Say(e, t)
      BY <1>1 DEF Effect
    <2> HIDE DEF e, t
    <2> QED
      BY <2>2, <2>3 DEF Say
  <1>2. ASSUME NEW r \in Runners,
               Advance(r) \/ Check(r) \/ Break(r) \/ Refused(r) \/ Outage(r)
        PROVE  comments' = comments \/ \E c \in Comment : comments' = Append(comments, c)
    <2>1. PICK w, s : Moves(r, w, s)
      BY <1>2, RunnerMoves
    <2> QED
      BY <1>1, <2>1 DEF Moves, NoEffect
  <1>3. ASSUME NEW e \in Execs, NEW k \in Kinds, Queue(e, k)
        PROVE  \E c \in Comment : comments' = Append(comments, c)
    <2>1. [exec |-> e, says |-> "queue"] \in Comment
      BY DEF Comment
    <2> QED
      BY <1>3, <2>1 DEF Queue
  <1>4. ASSUME NEW e \in Execs, Cancel(e) \/ MarkPending(e)
        PROVE  comments' = comments
    BY <1>4 DEF Cancel, MarkPending
  <1>5. ASSUME NEW r \in Runners, Poll(r) \/ Admit(r) \/ Crash(r) \/ Handoff(r)
        PROVE  comments' = comments
    BY <1>5 DEF Poll, Admit, Crash, Handoff
  <1>6. ReadPending \/ UNCHANGED vars => comments' = comments
    BY DEF ReadPending, vars
  <1> QED
    BY <1>2, <1>3, <1>4, <1>5, <1>6 DEF Next, Serve

LEMMA ShownStays ==
  ASSUME Fits, [Next]_vars
  PROVE  /\ \A e : Shown(comments, e) => Shown(comments', e)
         /\ Len(comments') <= PageSize => Len(comments) <= PageSize
  <1>1. comments \in Seq(Comment) /\ Len(comments) \in Nat
    BY DEF Fits, Board
  <1>2. CASE comments' = comments
    BY <1>2 DEF Shown
  <1>3. ASSUME NEW c \in Comment, comments' = Append(comments, c)
        PROVE  /\ \A e : Shown(comments, e) => Shown(comments', e)
               /\ Len(comments') <= PageSize => Len(comments) <= PageSize
    <2>1. Len(comments') = Len(comments) + 1 /\ \A i \in 1 .. Len(comments) : comments'[i] = comments[i]
      BY <1>1, <1>3, AppendProperties
    <2>2. \A i \in 1 .. Len(comments) : i \in 1 .. Len(comments')
      BY <1>1, <2>1
    <2> QED
      BY <1>1, <2>1, <2>2, RunnerAssumption DEF Shown
  <1> QED
    BY <1>2, <1>3, CommentsGrow

\* An admitted write that says something is shown.
LEMMA EffectShows ==
  ASSUME Fits, NEW r \in Runners, Effect(r, run[r]), run[r].at = "pickup"
  PROVE  Shown(comments', run[r].exec)
  <1> DEFINE e == run[r].exec
             c == [exec |-> e, says |-> "running"]
  <1>1. Status("pickup") = "running"
    BY DEF Status, Completions, Failures, WorkSteps
  <1>2. Say(e, "running")
    BY <1>1 DEF Effect
  <1>3. comments \in Seq(Comment) /\ Len(comments) \in Nat
    BY DEF Fits, Board
  <1>4. CASE c \in Range(comments)
    <2>1. comments' = comments
      BY <1>2, <1>4 DEF Say
    <2>2. \E i \in 1 .. Len(comments) : comments[i] = c
      BY <1>3, <1>4, LenProperties DEF Range
    <2> QED
      BY <2>1, <2>2 DEF Shown
  <1>5. CASE c \notin Range(comments)
    <2>1. comments' = Append(comments, c)
      BY <1>2, <1>5 DEF Say
    <2>2. Len(comments') = Len(comments) + 1 /\ comments'[Len(comments) + 1] = c
      BY <1>3, <2>1
    <2>3. Len(comments) + 1 \in 1 .. Len(comments')
      BY <1>3, <2>2
    <2> QED
      BY <2>2, <2>3 DEF Shown
  <1> QED
    BY <1>4, <1>5

\* What a step of a run under way does to the run and to the work done.
LEMMA MovesDo ==
  ASSUME Fits, NEW r \in Runners, NEW w, NEW s, Moves(r, w, s)
  PROVE  /\ run[r].at # "idle" /\ run[r].exec \in Execs
         /\ \A q \in Runners \ {r} : run'[q] = run[q]
         /\ ~run'[r].go
         /\ \/ run'[r] = Idle
            \/ run'[r].exec = run[r].exec /\ run'[r].at # "pickup"
         /\ run[r].at = "pickup" => run'[r] = Idle \/ Effect(r, run[r])
         /\ \/ worked' = worked
            \/ /\ run[r].go /\ run[r].at \in WorkSteps
               /\ worked' = [worked EXCEPT ![run[r].exec] = @ \cup {r}]
  <1>1. /\ RunFits(w) /\ w.at = run[r].at /\ w.exec = run[r].exec /\ w.at # "idle"
        /\ s \in Steps \ {"pickup"} /\ run' = [run EXCEPT ![r] = Goto(w, s)]
    BY DEF Moves
  <1>2. run \in [Runners -> RunType]
    BY DEF Fits
  <1>3. RunFits(Goto(w, s)) /\ (s # "idle" => Goto(w, s).at = s /\ Goto(w, s).exec = w.exec) /\ ~Goto(w, s).go
    BY <1>1, GotoFits
  <1>4. s = "idle" => Goto(w, s) = Idle
    BY DEF Goto
  <1> HIDE DEF RunType
  <1>5. run'[r] = Goto(w, s) /\ \A q \in Runners \ {r} : run'[q] = run[q]
    BY <1>1, <1>2
  <1>6. run[r].at = "pickup" => run'[r] = Idle \/ Effect(r, run[r])
    BY <1>1, <1>4, <1>5 DEF Moves
  <1>7. \/ worked' = worked
        \/ /\ run[r].go /\ run[r].at \in WorkSteps
           /\ worked' = [worked EXCEPT ![run[r].exec] = @ \cup {r}]
    BY DEF Moves, Effect, NoEffect, work
  <1> QED
    BY <1>1, <1>3, <1>4, <1>5, <1>6, <1>7 DEF RunFits

LEMMA NextShown == Fits /\ WorkShown /\ [Next]_vars => WorkShown'
  <1> SUFFICES ASSUME Fits, WorkShown, [Next]_vars
               PROVE  WorkShown'
    OBVIOUS
  <1> USE DEF butler, fence, seen, work
  <1>1. \A e : Shown(comments, e) => Shown(comments', e)
    BY ShownStays
  <1>2. ASSUME NEW r \in Runners,
               Advance(r) \/ Check(r) \/ Break(r) \/ Refused(r) \/ Outage(r)
        PROVE  WorkShown'
    <2>1. PICK w, s : Moves(r, w, s)
      BY <1>2, RunnerMoves
    <2>2. /\ run[r].at # "idle" /\ run[r].exec \in Execs
          /\ \A q \in Runners \ {r} : run'[q] = run[q]
          /\ \/ run'[r] = Idle
             \/ run'[r].exec = run[r].exec /\ run'[r].at # "pickup"
          /\ run[r].at = "pickup" => run'[r] = Idle \/ Effect(r, run[r])
          /\ \/ worked' = worked
             \/ /\ run[r].go /\ run[r].at \in WorkSteps
                /\ worked' = [worked EXCEPT ![run[r].exec] = @ \cup {r}]
      BY <2>1, MovesDo
    <2>3. run'[r] # Idle => Shown(comments', run[r].exec)
      <3>1. CASE run[r].at = "pickup"
        BY <2>2, <3>1, EffectShows
      <3>2. CASE run[r].at # "pickup"
        BY <1>1, <2>2, <3>2 DEF WorkShown
      <3> QED
        BY <3>1, <3>2
    <2>4. \A q \in Runners : run'[q].at \notin {"idle", "pickup"} => Shown(comments', run'[q].exec)
      BY <1>1, <2>2, <2>3, IdleFits DEF WorkShown
    <2>5. worked \in [Execs -> SUBSET Runners]
      BY DEF Fits, Ledger
    <2>6. \A e \in Execs : worked'[e] # {} => Shown(comments', e)
      <3>1. CASE worked' = worked
        BY <1>1, <3>1 DEF WorkShown
      <3>2. CASE run[r].at \in WorkSteps /\ worked' = [worked EXCEPT ![run[r].exec] = @ \cup {r}]
        <4>1. Shown(comments, run[r].exec)
          BY <2>2, <3>2 DEF WorkShown, WorkSteps
        <4>2. \A e \in Execs \ {run[r].exec} : worked'[e] = worked[e]
          BY <2>5, <3>2
        <4> QED
          BY <1>1, <4>1, <4>2 DEF WorkShown
      <3> QED
        BY <2>2, <3>1, <3>2
    <2> QED
      BY <2>4, <2>6 DEF WorkShown
  <1>3. ASSUME NEW r \in Runners, Poll(r) \/ Admit(r) \/ Crash(r) \/ Handoff(r)
        PROVE  WorkShown'
    <2>1. worked' = worked
      BY <1>3 DEF Poll, Admit, Crash, Handoff
    <2>2. \A q \in Runners : \/ run'[q].at \in {"idle", "pickup"}
                             \/ run'[q].at = run[q].at /\ run'[q].exec = run[q].exec
      <3>1. run \in [Runners -> RunType]
        BY DEF Fits
      <3>2. \A q \in Runners \ {r} : run'[q] = run[q]
        <4> HIDE DEF RunType
        <4> QED
          BY <1>3, <3>1 DEF Poll, Admit, Crash, Handoff
      <3>3. CASE Poll(r)
        BY <3>1, <3>2, <3>3, IdleFits DEF Poll, Idle
      <3>4. CASE Admit(r)
        BY <3>1, <3>2, <3>4 DEF Admit, RunType
      <3>5. CASE Crash(r) \/ Handoff(r)
        BY <3>1, <3>2, <3>5, IdleFits DEF Crash, Handoff
      <3> QED
        BY <1>3, <3>3, <3>4, <3>5
    <2> QED
      BY <1>1, <2>1, <2>2 DEF WorkShown
  <1>4. ASSUME UNCHANGED <<run, worked>>
        PROVE  WorkShown'
    BY <1>1, <1>4 DEF WorkShown
  <1>5. ASSUME \/ \E e \in Execs, k \in Kinds : Queue(e, k)
               \/ \E e \in Execs : Cancel(e) \/ MarkPending(e)
               \/ ReadPending
               \/ UNCHANGED vars
        PROVE  UNCHANGED <<run, worked>>
    BY <1>5 DEF Queue, Cancel, MarkPending, ReadPending, vars
  <1> QED
    BY <1>2, <1>3, <1>4, <1>5 DEF Next, Serve

\* What the picker sees when a page shows the whole issue.
LEMMA PickedUnshown ==
  ASSUME Fits, Len(comments) <= PageSize, NEW e \in Execs, Selectable(e)
  PROVE  ~Shown(comments, e)
  <1>1. comments \in Seq(Comment) /\ Len(comments) \in Nat /\ PageSize \in Nat
    BY RunnerAssumption DEF Fits, Board
  <1>2. Page = comments
    <2>1. Page = SubSeq(comments, 1, Len(comments))
      <3>1. CASE Len(comments) < PageSize
        BY <3>1 DEF Page
      <3>2. CASE ~(Len(comments) < PageSize)
        <4>1. PageSize = Len(comments)
          BY <1>1, <3>2
        <4> QED
          BY <3>2, <4>1 DEF Page
      <3> QED
        BY <3>1, <3>2
    <2> QED
      BY <1>1, <2>1, SubSeqFull
  <1>3. \A i \in 1 .. Len(comments) : comments[i] \in Range(comments)
    BY <1>1, LenProperties DEF Range
  <1> QED
    BY <1>2, <1>3 DEF Selectable, Shown

\* A former holder does not pick up, and is admitted for nothing more.
LEMMA FormerMoves ==
  ASSUME Fits, NEW f \in Runners, Former(f), NEW r \in Runners, NEW w, NEW s, Moves(r, w, s)
  PROVE  Former(f)'
  <1>1. /\ run[r].at # "idle" /\ run[r].exec \in Execs
        /\ \A q \in Runners \ {r} : run'[q] = run[q]
        /\ ~run'[r].go
        /\ run'[r] = Idle \/ run'[r].exec = run[r].exec
        /\ \/ worked' = worked
           \/ /\ run[r].go /\ run[r].at \in WorkSteps
              /\ worked' = [worked EXCEPT ![run[r].exec] = @ \cup {r}]
    BY MovesDo
  <1>2. holder' = holder /\ handoffs' = handoffs /\ holder \in Runners
    BY DEF Moves, Fits, Fence
  <1>3. r \in {f, holder}
    BY <1>1, IdleFits DEF Former
  <1>4. worked \in [Execs -> SUBSET Runners]
    BY DEF Fits, Ledger
  <1>5. 0 \notin Execs
    BY RunnerAssumption DEF Execs
  <1> DEFINE e0 == run[r].exec
  <1>6. /\ \A e \in Execs \ {e0} : worked'[e] = worked[e]
        /\ \/ worked'[e0] = worked[e0]
           \/ run[r].go /\ run[r].at # "pickup" /\ worked'[e0] = worked[e0] \cup {r}
    <2>1. CASE worked' = worked
      BY <2>1
    <2>2. CASE /\ run[r].go /\ run[r].at \in WorkSteps
               /\ worked' = [worked EXCEPT ![e0] = @ \cup {r}]
      <3>1. run[r].at # "pickup"
        BY <2>2 DEF WorkSteps
      <3> HIDE DEF e0
      <3> QED
        BY <1>1, <1>4, <2>2, <3>1 DEF e0
    <2> QED
      BY <1>1, <2>1, <2>2
  <1>7. \A e \in Execs : worked'[e] \subseteq {f, holder}
    BY <1>1, <1>3, <1>6 DEF Former
  <1>8. \A q \in Runners : q # f /\ q # holder => run'[q] = Idle
    BY <1>1, <1>3 DEF Former
  <1>9. ASSUME f # holder, NEW e \in Execs, run'[holder].exec = e \/ holder \in worked'[e]
        PROVE  /\ f \notin worked'[e]
               /\ run'[f].exec = e /\ run'[f].go => run'[f].at = "pickup"
    <2>1. CASE r = holder
      <3>1. run'[f] = run[f]
        BY <1>1, <1>9, <2>1
      <3>2. run[holder].exec = e \/ holder \in worked[e]
        BY <1>1, <1>5, <1>6, <1>9, <2>1, IdleFits
      <3>3. /\ f \notin worked[e]
            /\ run[f].exec = e /\ run[f].go => run[f].at = "pickup"
        BY <1>9, <3>2 DEF Former
      <3>4. f \notin worked'[e]
        BY <1>6, <1>9, <2>1, <3>3
      <3> QED
        BY <3>1, <3>3, <3>4
    <2>2. CASE r = f
      <3>1. ~run'[f].go /\ run'[holder] = run[holder]
        BY <1>1, <1>2, <1>9, <2>2
      <3>2. run[holder].exec = e \/ holder \in worked[e]
        BY <1>6, <1>9, <2>2, <3>1
      <3>3. /\ f \notin worked[e]
            /\ run[f].exec = e /\ run[f].go => run[f].at = "pickup"
        BY <1>9, <3>2 DEF Former
      <3>4. f \notin worked'[e]
        BY <1>6, <2>2, <3>3
      <3> QED
        BY <3>1, <3>4
    <2> QED
      BY <1>3, <2>1, <2>2
  <1> QED
    BY <1>2, <1>7, <1>8, <1>9 DEF Former

LEMMA FormerPolls ==
  ASSUME Fits, WorkShown, Len(comments) <= PageSize, NEW f \in Runners, Former(f),
         NEW r \in Runners, Poll(r)
  PROVE  Former(f)'
  <1>1. /\ holder = r /\ UNCHANGED <<holder, handoffs, worked>> /\ run[r] = Idle
    BY DEF Poll, fence, work
  <1>2. PICK e0 \in Execs :
           /\ Selectable(e0)
           /\ run' = [run EXCEPT ![r] = [Idle EXCEPT !.exec = e0, !.at = "pickup"]]
    BY DEF Poll
  <1>3. run \in [Runners -> RunType] /\ \A q \in Runners : RunFits(run[q])
    BY DEF Fits
  <1>4. \A q \in Runners \ {r} : run'[q] = run[q]
    <2> HIDE DEF RunType
    <2> QED
      BY <1>2, <1>3
  <1>5. run'[r].exec = e0
    BY <1>2, <1>3 DEF Idle
  <1>6. ~Shown(comments, e0)
    BY <1>2, PickedUnshown
  <1>7. worked[e0] = {} /\ \A q \in Runners : run[q].exec = e0 /\ run[q].go => run[q].at = "pickup"
    BY <1>3, <1>6 DEF WorkShown, RunFits
  <1>8. ASSUME f # holder, NEW e \in Execs, run'[holder].exec = e \/ holder \in worked[e]
        PROVE  /\ f \notin worked[e]
               /\ run'[f].exec = e /\ run'[f].go => run'[f].at = "pickup"
    <2>1. run'[f] = run[f]
      BY <1>1, <1>4, <1>8
    <2>2. CASE e = e0
      BY <1>7, <2>1, <2>2
    <2>3. CASE e # e0
      BY <1>1, <1>5, <1>8, <2>1, <2>3 DEF Former
    <2> QED
      BY <2>2, <2>3
  <1> QED
    BY <1>1, <1>4, <1>8 DEF Former

LEMMA NextFormer == Fits /\ WorkShown /\ OneFormer /\ [Next]_vars => OneFormer'
  <1> SUFFICES ASSUME Fits, WorkShown, OneFormer, [Next]_vars,
                      Len(comments') <= PageSize, handoffs' <= 1
               PROVE  \E f \in Runners : Former(f)'
    BY DEF OneFormer
  <1> USE DEF butler, fence, seen, work
  <1>1. Len(comments) <= PageSize
    BY ShownStays
  <1>2. run \in [Runners -> RunType] /\ handoffs \in Nat /\ holder \in Runners
    BY RunnerAssumption DEF Fits, Fence
  <1>3. ASSUME handoffs' = handoffs
        PROVE  \E f \in Runners : Former(f)
    BY <1>1, <1>3 DEF OneFormer
  <1>4. ASSUME NEW r \in Runners,
               Advance(r) \/ Check(r) \/ Break(r) \/ Refused(r) \/ Outage(r)
        PROVE  \E f \in Runners : Former(f)'
    <2>1. PICK w, s : Moves(r, w, s)
      BY <1>4, RunnerMoves
    <2>2. PICK f \in Runners : Former(f)
      BY <1>3, <2>1 DEF Moves
    <2> QED
      BY <2>1, <2>2, FormerMoves
  <1>5. ASSUME NEW r \in Runners, Poll(r)
        PROVE  \E f \in Runners : Former(f)'
    <2>1. PICK f \in Runners : Former(f)
      BY <1>3, <1>5 DEF Poll
    <2> QED
      BY <1>1, <1>5, <2>1, FormerPolls
  <1>6. ASSUME NEW r \in Runners, Admit(r)
        PROVE  \E f \in Runners : Former(f)'
    <2>1. PICK f \in Runners : Former(f)
      BY <1>3, <1>6 DEF Admit
    <2>2. /\ r = holder /\ UNCHANGED <<holder, handoffs, worked>>
          /\ run' = [run EXCEPT ![r] = [@ EXCEPT !.go = TRUE]]
      BY <1>6 DEF Admit
    <2>3. run'[r].exec = run[r].exec
      BY <1>2, <2>2 DEF RunType
    <2>4. \A q \in Runners \ {r} : run'[q] = run[q]
      <3> HIDE DEF RunType
      <3> QED
        BY <1>2, <2>2
    <2>5. Former(f)'
      BY <2>1, <2>2, <2>3, <2>4 DEF Former
    <2> QED
      BY <2>5
  <1>7. ASSUME NEW r \in Runners, Crash(r)
        PROVE  \E f \in Runners : Former(f)'
    <2>1. PICK f \in Runners : Former(f)
      BY <1>3, <1>7 DEF Crash
    <2>2. UNCHANGED <<holder, handoffs, worked>> /\ run' = [run EXCEPT ![r] = Idle]
      BY <1>7 DEF Crash
    <2>3. run'[r] = Idle /\ \A q \in Runners \ {r} : run'[q] = run[q]
      <3> HIDE DEF RunType
      <3> QED
        BY <1>2, <2>2
    <2>4. 0 \notin Execs
      BY RunnerAssumption DEF Execs
    <2>5. Former(f)'
      BY <2>1, <2>2, <2>3, <2>4, IdleFits DEF Former
    <2> QED
      BY <2>5
  <1>8. ASSUME NEW r \in Runners, Handoff(r)
        PROVE  \E f \in Runners : Former(f)'
    <2>1. handoffs' = handoffs + 1 /\ holder' = r /\ r # holder /\ UNCHANGED <<run, worked>>
      BY <1>8 DEF Handoff
    <2>2. handoffs = 0
      BY <1>2, <2>1
    <2>3. Former(holder)
      BY <1>1, <2>2 DEF OneFormer, Former
    <2>4. 0 \notin Execs
      BY RunnerAssumption DEF Execs
    <2>5. /\ run[r] = Idle /\ \A e \in Execs : worked[e] \subseteq {holder}
          /\ \A q \in Runners : q # holder => run[q] = Idle
      BY <2>1, <2>3 DEF Former
    <2>6. \A e \in Execs : run[r].exec # e /\ r \notin worked[e]
      BY <2>1, <2>4, <2>5, IdleFits
    <2>0. PICK f \in Runners : f = holder
      BY <1>2
    <2>7. /\ handoffs' # 0
          /\ \A q \in Runners : q # f /\ q # holder' => run'[q] = Idle
          /\ \A e \in Execs : worked'[e] \subseteq {f, holder'}
          /\ \A e \in Execs : ~(run'[holder'].exec = e \/ holder' \in worked'[e])
      BY <1>2, <2>0, <2>1, <2>5, <2>6
    <2>8. Former(f)'
      BY <2>7 DEF Former
    <2> QED
      BY <2>8
  <1>9. ASSUME UNCHANGED <<run, worked, holder, handoffs>>
        PROVE  \E f \in Runners : Former(f)'
    <2>1. PICK f \in Runners : Former(f)
      BY <1>3, <1>9
    <2>2. Former(f)'
      BY <1>9, <2>1 DEF Former
    <2> QED
      BY <2>2
  <1>10. ASSUME \/ \E e \in Execs, k \in Kinds : Queue(e, k)
                \/ \E e \in Execs : Cancel(e) \/ MarkPending(e)
                \/ ReadPending
                \/ UNCHANGED vars
         PROVE  UNCHANGED <<run, worked, holder, handoffs>>
    BY <1>10 DEF Queue, Cancel, MarkPending, ReadPending, vars
  <1> QED
    BY <1>4, <1>5, <1>6, <1>7, <1>8, <1>9, <1>10 DEF Next, Serve

\* As long as a page shows the whole issue, two machines work for one execution only
\* when the authority went there and back, whatever crashes, fails or is canceled
\* in between.
THEOREM OneMachine == Spec => [](Len(comments) <= PageSize => OneWorker)
  <1> DEFINE Inv == Fits /\ WorkShown /\ OneFormer
  <1>1. Init => Inv
    <2> SUFFICES ASSUME Init
                 PROVE  WorkShown /\ OneFormer
      BY InitFits
    <2>1. (\A r \in Runners : run[r] = Idle) /\ (\A e \in Execs : worked[e] = {}) /\ holder \in Runners
      BY DEF Init
    <2>2. 0 \notin Execs
      BY RunnerAssumption DEF Execs
    <2>3. WorkShown
      BY <2>1, IdleFits DEF WorkShown
    <2>4. Former(holder)
      BY <2>1 DEF Former
    <2> QED
      BY <2>1, <2>3, <2>4 DEF OneFormer
  <1>2. Inv /\ [Next]_vars => Inv'
    BY NextFits, NextShown, NextFormer
  <1>3. Inv => (Len(comments) <= PageSize => OneWorker)
    <2> SUFFICES ASSUME Inv, Len(comments) <= PageSize, NEW e \in Execs, ~(handoffs > 1)
                 PROVE  ~(Cardinality(worked[e]) > 1)
      BY DEF OneWorker
    <2>1. handoffs <= 1
      BY RunnerAssumption DEF Fits, Fence
    <2>2. PICK f \in Runners : Former(f)
      BY <2>1 DEF OneFormer
    <2>3. \E r \in Runners : worked[e] \subseteq {r}
      <3>1. holder \in Runners
        BY DEF Fits, Fence
      <3> QED
        BY <2>2, <3>1 DEF Former
    <2>4. PICK r \in Runners : worked[e] \subseteq {r}
      BY <2>3
    <2>5. worked[e] = {} \/ worked[e] = {r}
      BY <2>4
    <2>6. Cardinality(worked[e]) \in {0, 1}
      BY <2>5, FS_EmptySet, FS_Singleton
    <2> HIDE DEF Inv
    <2> QED
      BY <2>6
  <1> HIDE DEF Inv
  <1> QED
    BY <1>1, <1>2, <1>3, PTL DEF Spec

--------------------------------------------------------------------------------
(* What a canceled execution still does.                                   *)

\* No checkpoint lies between steps a and b.
Clear(a, b) == ~ \E c \in Checkpoints : Place(a) < Place(c) /\ Place(c) < Place(b)

\* All that w did since the marker was set lies behind step s, no checkpoint between.
Behind(w, s) == \A a \in w.late \cap Builds : Place(a) < Place(s) /\ Clear(a, s)

\* The late work of w, C the canceled executions.
LateFits(w, C) ==
    /\ w.late # {} => w.exec \in C
    /\ w.at \in Builds => Behind(w, w.at)
    /\ w.at = "list_failed" => Behind(w, "before_pr")
    /\ w.at = "pickup" => w.late = {}
    /\ \A a, b \in w.late \cap Builds : Clear(a, b)

LateWork == \A r \in Runners : LateFits(run[r], canceled)

LEMMA Places ==
  /\ Checkpoints \subseteq Builds /\ Checkpoints \cap WorkSteps = {}
  /\ \A a \in Builds : Place(a) \in 1 .. 25
  /\ \A a, b \in Builds : Place(a) = Place(b) => a = b
  <1>1. Checkpoints \subseteq Builds /\ Checkpoints \cap WorkSteps = {}
    BY DEF Checkpoints, Builds, WorkSteps
  <1>2. \A a \in Builds : Place(a) \in 1 .. 25 /\ BuildSteps[Place(a)] = a
    BY BuildFacts
  <1> QED
    BY <1>1, <1>2

\* Going on from a step that is no checkpoint leaves no checkpoint in between.
LEMMA ClearOn ==
  ASSUME NEW a \in Builds, NEW b \in Builds, NEW s \in Builds,
         b \notin Checkpoints, Place(s) = Place(b) + 1,
         a = b \/ (Place(a) < Place(b) /\ Clear(a, b))
  PROVE  Place(a) < Place(s) /\ Clear(a, s)
  <1>1. \A c \in Checkpoints : Place(c) \in 1 .. 25 /\ Place(c) # Place(b)
    BY Places
  <1>2. Place(a) \in 1 .. 25 /\ Place(b) \in 1 .. 25
    BY Places
  <1> QED
    BY <1>1, <1>2 DEF Clear

\* Nor does the way from the lookup of the pull request to before_pr.
LEMMA ClearOver ==
  ASSUME NEW a \in Builds, NEW b \in {"list_started", "list", "list_completed"},
         Place(a) < Place(b), Clear(a, b)
  PROVE  Place(a) < Place("before_pr") /\ Clear(a, "before_pr")
  <1>1. Place(b) \in 18 .. 20 /\ Place("before_pr") = 21
    BY PlaceFacts
  <1>2. /\ {"list_started", "list", "list_completed", "before_pr"} \subseteq Builds
        /\ {"list_started", "list", "list_completed"} \cap Checkpoints = {}
    BY DEF Builds, Checkpoints
  <1>3. \A c \in Checkpoints : Place(c) \in 1 .. 25 /\ Place(c) \notin {18, 19, 20}
    BY <1>2, Places, PlaceFacts
  <1>4. Place(a) \in 1 .. 25
    BY Places
  <1> QED
    BY <1>1, <1>3, <1>4 DEF Clear

LEMMA LateGoes ==
  ASSUME NEW w, RunFits(w), w.at # "idle", LateFits(w, canceled),
         NEW s \in Steps \ {"pickup"}, Passes(w.at, s, w.exec \in canceled)
  PROVE  LateFits(Goto(w, s), canceled)
  <1> DEFINE l == IF w.exec \in canceled /\ w.at \in WorkSteps THEN w.late \cup {w.at} ELSE w.late
             v == Goto(w, s)
  <1>1. CASE s = "idle"
    BY <1>1 DEF LateFits, Goto, Idle, Builds
  <1>2. CASE s # "idle"
    <2>1. v.at = s /\ v.exec = w.exec /\ v.late = l
      BY <1>2 DEF Goto, RunFits, RunType
    <2>2. v.late # {} => v.exec \in canceled
      BY <2>1 DEF LateFits
    <2>3. \A a \in l \cap Builds : w.exec \in canceled /\ w.at # "pickup"
      BY DEF LateFits, WorkSteps
    <2>4. ASSUME NEW a \in l \cap Builds, NEW b \in l \cap Builds
          PROVE  Clear(a, b)
      <3>1. CASE a \in w.late /\ b \in w.late
        BY <2>4, <3>1 DEF LateFits
      <3>2. CASE a = w.at \/ b = w.at
        <4>1. w.at \in Builds
          BY <2>4, <3>2
        <4>2. \A c \in w.late \cap Builds : Place(c) < Place(w.at) /\ Clear(c, w.at)
          BY <4>1 DEF LateFits, Behind
        <4>3. \A c \in Builds : Place(c) \in 1 .. 25
          BY Places
        <4>4. (a = w.at \/ a \in w.late) /\ (b = w.at \/ b \in w.late)
          BY <2>4
        <4>5. CASE b = w.at /\ a \in w.late
          BY <2>4, <4>2, <4>5
        <4>6. CASE a = w.at
          <5>1. b = a \/ Place(b) < Place(a)
            BY <2>4, <4>2, <4>4, <4>6
          <5>2. Place(a) \in 1 .. 25 /\ Place(b) \in 1 .. 25 /\ \A c \in Checkpoints : Place(c) \in 1 .. 25
            BY <2>4, <4>3, Places
          <5>3. Place(b) <= Place(a)
            BY <5>1, <5>2
          <5> HIDE DEF l
          <5> QED
            BY <5>2, <5>3 DEF Clear
        <4> QED
          BY <3>2, <4>4, <4>5, <4>6
      <3> QED
        BY <2>4, <3>1, <3>2
    <2>5. ASSUME s \in Builds, NEW a \in l \cap Builds
          PROVE  Place(a) < Place(s) /\ Clear(a, s)
      <3>1. w.at \notin Checkpoints
        BY <2>3, <2>5 DEF Passes
      <3>2. CASE w.at \in Builds /\ Place(s) = Place(w.at) + 1
        <4>1. a = w.at \/ (Place(a) < Place(w.at) /\ Clear(a, w.at))
          BY <2>5, <3>2 DEF LateFits, Behind
        <4> QED
          BY <2>5, <3>1, <3>2, <4>1, ClearOn
      <3>3. CASE w.at = "list_started" /\ s = "before_pr"
        <4>1. w.at \in Builds /\ w.at \notin WorkSteps
          BY <3>3 DEF Builds, WorkSteps
        <4>2. Place(a) < Place(w.at) /\ Clear(a, w.at)
          BY <2>5, <4>1 DEF LateFits, Behind
        <4> HIDE DEF l
        <4> QED
          BY <2>5, <3>3, <4>2, ClearOver
      <3>4. CASE w.at = "list_failed" /\ s = "before_pr"
        BY <2>5, <3>4 DEF LateFits, Behind, WorkSteps
      <3> QED
        BY <2>3, <2>5, <3>1, <3>2, <3>3, <3>4 DEF Passes
    <2>6. ASSUME s = "list_failed", NEW a \in l \cap Builds
          PROVE  Place(a) < Place("before_pr") /\ Clear(a, "before_pr")
      <3>1. w.at \in {"list", "list_completed"}
        BY <2>6 DEF Passes
      <3>2. w.at \in Builds /\ w.at \notin WorkSteps
        BY <3>1 DEF Builds, WorkSteps
      <3>3. Place(a) < Place(w.at) /\ Clear(a, w.at)
        BY <2>6, <3>2 DEF LateFits, Behind
      <3> HIDE DEF l
      <3> QED
        BY <2>6, <3>1, <3>3, ClearOver
    <2> HIDE DEF l, v
    <2>7. /\ v.at \in Builds => Behind(v, v.at)
          /\ v.at = "list_failed" => Behind(v, "before_pr")
      BY <2>1, <2>5, <2>6 DEF Behind
    <2>8. v.at # "pickup"
      BY <2>1
    <2>9. \A a, b \in v.late \cap Builds : Clear(a, b)
      BY <2>1, <2>4
    <2>10. LateFits(v, canceled)
      BY <2>2, <2>7, <2>8, <2>9 DEF LateFits
    <2> QED
      BY <2>10 DEF v
  <1> QED
    BY <1>1, <1>2

LEMMA NextLate == Fits /\ LateWork /\ [Next]_vars => LateWork'
  <1> SUFFICES ASSUME Fits, LateWork, [Next]_vars
               PROVE  LateWork'
    OBVIOUS
  <1> USE DEF butler, fence, seen, work
  <1>1. run \in [Runners -> RunType] /\ \A r \in Runners : RunFits(run[r])
    BY DEF Fits
  <1>2. LateFits(Idle, canceled)
    BY DEF LateFits, Idle, Builds
  <1>3. ASSUME NEW r \in Runners,
               Advance(r) \/ Check(r) \/ Break(r) \/ Refused(r) \/ Outage(r)
        PROVE  LateWork'
    <2>1. PICK w, s : Moves(r, w, s)
      BY <1>3, RunnerMoves
    <2>2. LateFits(run[r], canceled)
      BY DEF LateWork
    <2>3. /\ RunFits(w) /\ w.at = run[r].at /\ w.exec = run[r].exec /\ w.late = run[r].late
          /\ w.at # "idle" /\ s \in Steps \ {"pickup"} /\ Passes(w.at, s, w.exec \in canceled)
          /\ run' = [run EXCEPT ![r] = Goto(w, s)] /\ canceled' = canceled
      BY <2>1 DEF Moves
    <2>4. LateFits(w, canceled)
      BY <2>2, <2>3 DEF LateFits, Behind
    <2>5. LateFits(Goto(w, s), canceled)
      BY <2>3, <2>4, LateGoes
    <2>6. run'[r] = Goto(w, s) /\ \A q \in Runners \ {r} : run'[q] = run[q]
      <3> HIDE DEF RunType
      <3> QED
        BY <1>1, <2>3
    <2> QED
      BY <2>3, <2>5, <2>6 DEF LateWork
  <1>4. ASSUME NEW r \in Runners, Poll(r) \/ Admit(r) \/ Crash(r) \/ Handoff(r)
        PROVE  LateWork'
    <2>1. canceled' = canceled
      BY <1>4 DEF Poll, Admit, Crash, Handoff
    <2>2. \A q \in Runners \ {r} : run'[q] = run[q]
      <3> HIDE DEF RunType
      <3> QED
        BY <1>1, <1>4 DEF Poll, Admit, Crash, Handoff
    <2>3. CASE Poll(r)
      <3>1. run'[r].at = "pickup" /\ run'[r].late = {}
        BY <1>1, <2>3 DEF Poll, Idle
      <3>2. LateFits(run'[r], canceled)
        BY <3>1 DEF LateFits, Builds
      <3> QED
        BY <2>1, <2>2, <3>2 DEF LateWork
    <2>4. CASE Admit(r)
      <3>1. /\ run'[r].at = run[r].at /\ run'[r].exec = run[r].exec
            /\ run'[r].late = run[r].late
        BY <1>1, <2>4 DEF Admit, RunType
      <3>2. LateFits(run'[r], canceled)
        BY <3>1 DEF LateWork, LateFits, Behind
      <3> QED
        BY <2>1, <2>2, <3>2 DEF LateWork
    <2>5. CASE Crash(r)
      <3>1. run'[r] = Idle
        <4> HIDE DEF RunType
        <4> QED
          BY <1>1, <2>5 DEF Crash
      <3> QED
        BY <1>2, <2>1, <2>2, <3>1 DEF LateWork
    <2>6. CASE Handoff(r)
      BY <2>1, <2>6 DEF Handoff, LateWork
    <2> QED
      BY <1>4, <2>3, <2>4, <2>5, <2>6
  <1>5. ASSUME run' = run, canceled \subseteq canceled'
        PROVE  LateWork'
    BY <1>5 DEF LateWork, LateFits
  <1>6. ASSUME \/ \E e \in Execs, k \in Kinds : Queue(e, k)
               \/ \E e \in Execs : Cancel(e) \/ MarkPending(e)
               \/ ReadPending
               \/ UNCHANGED vars
        PROVE  run' = run /\ canceled \subseteq canceled'
    BY <1>6 DEF Queue, Cancel, MarkPending, ReadPending, vars
  <1> QED
    BY <1>3, <1>4, <1>5, <1>6 DEF Next, Serve

\* A cancellation stops a build at the next checkpoint, whatever step of the run
\* the marker meets and however often commands and GitHub calls fail.
THEOREM CancellationStops == Spec => []CancelStops
  <1>1. Init => LateWork
    BY DEF Init, LateWork, LateFits, Idle, Builds
  <1>2. Fits /\ LateWork /\ [Next]_vars => (Fits /\ LateWork)'
    BY NextFits, NextLate
  <1>3. LateWork => CancelStops
    BY BuildFacts DEF LateWork, LateFits, Clear, CancelStops
  <1> QED
    BY <1>1, <1>2, <1>3, InitFits, PTL DEF Spec

--------------------------------------------------------------------------------
(* What an execution reports.                                              *)

Said(e, t) == [exec |-> e, says |-> t] \in Range(comments)

\* Run r has told of execution e that it is under way.
Past(r, e) == run[r].exec = e /\ run[r].at \notin {"idle", "pickup"}

\* An execution picked up once has one run.  It ends with the completion it
\* reports, and after a failure nothing is left but to repeat it.
Told(e) ==
    /\ picks[e] = 0 =>
         /\ \A r \in Runners : ~Past(r, e)
         /\ ~Said(e, "failed") /\ ~Said(e, "completed")
    /\ picks[e] = 1 =>
         /\ \A q, r \in Runners : Past(q, e) /\ Past(r, e) => q = r
         /\ Said(e, "failed") => \A r \in Runners : Past(r, e) => run[r].at = "failed"
         /\ Said(e, "completed") => e \in unsure \/ \A r \in Runners : ~Past(r, e)
         /\ Said(e, "failed") /\ Said(e, "completed") => e \in unsure

Outcomes == \A e \in Execs : Told(e)

LEMMA SaidNext ==
  ASSUME NEW c, comments \in Seq(Comment), c \in Comment, NEW x \in Comment
  PROVE  /\ comments' = comments => (x \in Range(comments') <=> x \in Range(comments))
         /\ comments' = Append(comments, c)
              => (x \in Range(comments') <=> x \in Range(comments) \/ x = c)
  <1>1. CASE comments' = Append(comments, c)
    <2>1. /\ Len(comments') = Len(comments) + 1 /\ Len(comments) \in Nat
          /\ \A i \in 1 .. Len(comments) : comments'[i] = comments[i]
          /\ comments'[Len(comments) + 1] = c
          /\ DOMAIN comments' = 1 .. Len(comments') /\ DOMAIN comments = 1 .. Len(comments)
      BY <1>1, AppendProperties, LenProperties
    <2>2. \A i \in 1 .. Len(comments') : i \in 1 .. Len(comments) \/ i = Len(comments) + 1
      BY <2>1
    <2>3. \A i \in 1 .. Len(comments) : i \in 1 .. Len(comments')
      BY <2>1
    <2>4. Len(comments) + 1 \in 1 .. Len(comments')
      BY <2>1
    <2> QED
      BY <2>1, <2>2, <2>3, <2>4 DEF Range
  <1>2. CASE comments' # Append(comments, c)
    BY <1>2
  <1> QED
    BY <1>1, <1>2

\* What a run under way reports is the status of its step.
LEMMA EffectSays ==
  ASSUME Fits, NEW r \in Runners, run[r].at # "idle", Effect(r, run[r]),
         NEW e \in Execs, NEW t \in {"failed", "completed"}, Said(e, t)'
  PROVE  \/ Said(e, t)
         \/ /\ e = run[r].exec
            /\ t = "failed" => run[r].at \in Failures
            /\ t = "completed" => run[r].at \in Completions
  <1> DEFINE d == run[r].exec
             u == Status(run[r].at)
             c == [exec |-> d, says |-> u]
             x == [exec |-> e, says |-> t]
  <1>1. d \in Execs /\ run[r].at \in Steps /\ comments \in Seq(Comment)
    BY DEF Fits, RunFits, RunType, Board
  <1>2. u = "nothing" \/ u \in Sayings
    BY <1>1, StatusFits
  <1>3. x \in Comment
    BY DEF Comment, Sayings, Verdicts
  <1>4. Say(d, u)
    BY DEF Effect
  <1>5. (u = "failed" => run[r].at \in Failures) /\ (u = "completed" => run[r].at \in Completions)
    BY <1>1 DEF Status
  <1>6. CASE u = "nothing"
    BY <1>4, <1>6 DEF Say, Said
  <1>7. CASE u # "nothing"
    <2>1. c \in Comment
      BY <1>1, <1>2, <1>7 DEF Comment
    <2>2. comments' = comments \/ comments' = Append(comments, c)
      BY <1>4, <1>7 DEF Say
    <2>3. x \in Range(comments) \/ x = c
      <3> HIDE DEF c, x
      <3>1. x \in Range(comments')
        BY DEF Said, x
      <3> QED
        BY <1>1, <1>3, <2>1, <2>2, <3>1, SaidNext
    <2> HIDE DEF u
    <2>4. x = c => e = d /\ t = u
      OBVIOUS
    <2> QED
      BY <1>5, <2>3, <2>4 DEF Said
  <1> QED
    BY <1>6, <1>7

LEMMA MovesTell ==
  ASSUME Fits, Outcomes, NEW r \in Runners, NEW w, NEW s, Moves(r, w, s), NEW e \in Execs
  PROVE  Told(e)'
  <1> DEFINE d == run[r].exec
             at == run[r].at
  <1>1. /\ run \in [Runners -> RunType] /\ RunFits(w) /\ w.at = at /\ w.exec = d /\ at # "idle"
        /\ s \in Steps \ {"pickup"} /\ d \in Execs /\ picks \in [Execs -> Nat]
        /\ unsure \subseteq unsure' /\ Told(e)
    BY DEF Moves, Fits, RunFits, Ledger, Outcomes
  <1>2. /\ at \in Failures => s = "idle" \/ (s = "failed" /\ at # "failed")
    BY <1>1 DEF Moves, Passes
  <1>3. \A q \in Runners : run'[q] = IF q = r THEN Goto(w, s) ELSE run[q]
    <2> HIDE DEF RunType
    <2> QED
      BY <1>1 DEF Moves
  <1>4. (s = "idle" => Goto(w, s).at = "idle") /\ (s # "idle" => Goto(w, s).at = s /\ Goto(w, s).exec = d)
    <2>1. s = "idle" => Goto(w, s).at = "idle"
      BY IdleFits DEF Goto
    <2>2. s # "idle" => Goto(w, s).at = s /\ Goto(w, s).exec = w.exec
      BY <1>1, GotoFits
    <2> QED
      BY <1>1, <2>1, <2>2
  <1>5. /\ \A q \in Runners \ {r} : (Past(q, e)' <=> Past(q, e)) /\ run'[q].at = run[q].at
        /\ Past(r, e)' => s # "idle" /\ e = d /\ run'[r].at = s
    <2>1. ASSUME NEW q \in Runners \ {r}
          PROVE  run'[q] = run[q]
      BY <1>3
    <2>2. run'[r] = Goto(w, s)
      BY <1>3
    <2>3. Past(r, e)' <=> run'[r].exec = e /\ run'[r].at \notin {"idle", "pickup"}
      BY DEF Past
    <2> HIDE DEF d
    <2> QED
      BY <1>4, <2>1, <2>2, <2>3 DEF Past
  <1>6. CASE NoEffect /\ (at = "pickup" => s = "idle")
    <2>1. UNCHANGED <<comments, picks>>
      BY <1>6 DEF NoEffect
    <2>2. \A t : Said(e, t)' <=> Said(e, t)
      BY <2>1 DEF Said
    <2>3. \A q \in Runners : Past(q, e)' => Past(q, e)
      BY <1>1, <1>5, <1>6 DEF Past
    <2>4. \A q \in Runners : Past(q, e)' /\ run[q].at = "failed" => run'[q].at = "failed"
      BY <1>2, <1>5 DEF Failures
    <2> QED
      BY <1>1, <2>1, <2>2, <2>3, <2>4 DEF Told
  <1>7. CASE /\ Effect(r, run[r])
             /\ at \in Completions => s = "idle" \/ d \in unsure'
    <2>1. \A t \in {"failed", "completed"} : Said(e, t)' =>
            Said(e, t) \/ (e = d /\ (t = "failed" => at \in Failures) /\ (t = "completed" => at \in Completions))
      BY <1>1, <1>7, EffectSays
    <2>2. CASE at = "pickup"
      <3>1. picks' = [picks EXCEPT ![d] = @ + 1]
        BY <1>7, <2>2 DEF Effect
      <3>2. \A t \in {"failed", "completed"} : Said(e, t)' => Said(e, t)
        BY <2>1, <2>2 DEF Failures, Completions
      <3>3. CASE e = d
        <4>1. picks'[e] = picks[e] + 1 /\ picks[e] \in Nat
          BY <1>1, <3>1, <3>3
        <4>2. picks'[e] = 1 => \A q \in Runners : Past(q, e)' => q = r
          BY <1>1, <1>5, <4>1 DEF Told
        <4>3. picks'[e] = 1 => ~Said(e, "failed")' /\ ~Said(e, "completed")'
          BY <1>1, <3>2, <4>1 DEF Told
        <4> QED
          BY <4>1, <4>2, <4>3 DEF Told
      <3>4. CASE e # d
        <4>1. picks'[e] = picks[e]
          BY <1>1, <3>1, <3>4
        <4>2. \A q \in Runners : Past(q, e)' => Past(q, e) /\ run'[q].at = run[q].at
          BY <1>1, <1>5, <3>4 DEF Past
        <4> QED
          BY <1>1, <3>2, <4>1, <4>2 DEF Told
      <3> QED
        BY <3>3, <3>4
    <2>3. CASE at # "pickup"
      <3>1. picks' = picks /\ Past(r, d)
        BY <1>1, <1>7, <2>3 DEF Effect, Past
      <3>2. \A q \in Runners : Past(q, e)' => Past(q, e)
        BY <1>5, <3>1 DEF Past
      <3>3. CASE e # d
        <4>1. \A t \in {"failed", "completed"} : Said(e, t)' => Said(e, t)
          BY <2>1, <3>3
        <4>2. \A q \in Runners : Past(q, e)' => Past(q, e) /\ run'[q].at = run[q].at
          BY <1>5, <3>2, <3>3
        <4> QED
          BY <1>1, <3>1, <4>1, <4>2 DEF Told
      <3>4. CASE e = d
        <4>1. picks'[e] = picks[e] /\ picks[e] # 0
          BY <1>1, <3>1, <3>4 DEF Told
        <4> SUFFICES ASSUME picks[e] = 1
                     PROVE  Told(e)'
          BY <4>1 DEF Told
        <4>2. /\ \A q \in Runners : Past(q, e) => q = r
              /\ Said(e, "failed") => at = "failed"
              /\ Said(e, "completed") => e \in unsure
          BY <1>1, <3>1, <3>4 DEF Told
        <4>3. Said(e, "failed")' => s = "idle" \/ s = "failed"
          BY <1>2, <2>1, <4>2 DEF Failures
        <4>4. Said(e, "completed")' => e \in unsure' \/ (at \in Completions /\ s = "idle")
          BY <1>1, <1>7, <2>1, <3>4, <4>2
        <4>5. Said(e, "failed")' => at \in Failures
          BY <2>1, <4>2 DEF Failures
        <4>6. Failures \cap Completions = {}
          BY DEF Failures, Completions
        <4>7. Said(e, "failed")' /\ Said(e, "completed")' => e \in unsure'
          BY <4>4, <4>5, <4>6
        <4>8. \A q \in Runners : Past(q, e)' => q = r /\ s # "idle" /\ run'[q].at = s
          BY <1>5, <3>2, <4>2
        <4> QED
          BY <4>1, <4>3, <4>4, <4>7, <4>8 DEF Told
      <3> QED
        BY <3>3, <3>4
    <2> QED
      BY <2>2, <2>3
  <1> QED
    BY <1>1, <1>6, <1>7 DEF Moves

LEMMA NextOutcomes == Fits /\ Outcomes /\ [Next]_vars => Outcomes'
  <1> SUFFICES ASSUME Fits, Outcomes, [Next]_vars, NEW e \in Execs
               PROVE  Told(e)'
    BY DEF Outcomes
  <1> USE DEF butler, fence, seen, work
  <1>1. Told(e) /\ run \in [Runners -> RunType] /\ comments \in Seq(Comment)
    BY DEF Fits, Board, Outcomes
  <1>2. ASSUME NEW r \in Runners,
               Advance(r) \/ Check(r) \/ Break(r) \/ Refused(r) \/ Outage(r)
        PROVE  Told(e)'
    BY <1>2, RunnerMoves, MovesTell
  <1>3. ASSUME NEW r \in Runners, Poll(r) \/ Admit(r) \/ Crash(r) \/ Handoff(r)
        PROVE  Told(e)'
    <2>1. UNCHANGED <<comments, picks, unsure>>
      BY <1>3 DEF Poll, Admit, Crash, Handoff
    <2>2. \A q \in Runners : Past(q, e)' => Past(q, e) /\ run'[q].at = run[q].at
      <3>1. CASE Poll(r)
        <4>1. PICK d \in Execs : run' = [run EXCEPT ![r] = [Idle EXCEPT !.exec = d, !.at = "pickup"]]
          BY <3>1 DEF Poll
        <4>2. [Idle EXCEPT !.exec = d, !.at = "pickup"].at = "pickup"
          BY DEF Idle
        <4> HIDE DEF RunType
        <4> QED
          BY <1>1, <4>1, <4>2 DEF Past
      <3>2. CASE Admit(r)
        <4>1. run' = [run EXCEPT ![r] = [@ EXCEPT !.go = TRUE]]
          BY <3>2 DEF Admit
        <4>2. \A q \in Runners : run'[q].exec = run[q].exec /\ run'[q].at = run[q].at
          BY <1>1, <4>1 DEF RunType
        <4> QED
          BY <4>2 DEF Past
      <3>3. CASE Crash(r)
        <4>1. run' = [run EXCEPT ![r] = Idle]
          BY <3>3 DEF Crash
        <4> HIDE DEF RunType
        <4> QED
          BY <1>1, <4>1, IdleFits DEF Past
      <3>4. CASE Handoff(r)
        BY <3>4 DEF Handoff, Past
      <3> QED
        BY <1>3, <3>1, <3>2, <3>3, <3>4
    <2>3. \A t : Said(e, t)' <=> Said(e, t)
      BY <2>1 DEF Said
    <2> QED
      BY <1>1, <2>1, <2>2, <2>3 DEF Told
  <1>4. ASSUME UNCHANGED <<run, picks, unsure>>,
               \A t \in {"failed", "completed"} : Said(e, t)' => Said(e, t)
        PROVE  Told(e)'
    BY <1>1, <1>4 DEF Told, Past
  <1>5. ASSUME NEW d \in Execs, NEW k \in Kinds, Queue(d, k)
        PROVE  Told(e)'
    <2> DEFINE c == [exec |-> d, says |-> "queue"]
    <2>1. UNCHANGED <<run, picks, unsure>> /\ comments' = Append(comments, c)
      BY <1>5 DEF Queue
    <2>2. ASSUME NEW t \in {"failed", "completed"}, Said(e, t)'
          PROVE  Said(e, t)
      <3> DEFINE x == [exec |-> e, says |-> t]
      <3>1. x \in Comment /\ c \in Comment /\ x # c
        BY DEF Comment, Sayings, Verdicts
      <3>2. x \in Range(comments')
        BY <2>2 DEF Said
      <3> HIDE DEF x, c
      <3>3. x \in Range(comments)
        BY <1>1, <2>1, <3>1, <3>2, SaidNext
      <3> QED
        BY <3>3 DEF Said, x
    <2> QED
      BY <1>4, <2>1, <2>2
  <1>6. CASE (\E d \in Execs : Cancel(d) \/ MarkPending(d)) \/ ReadPending \/ UNCHANGED vars
    <2>1. UNCHANGED <<run, picks, unsure, comments>>
      BY <1>6 DEF Cancel, MarkPending, ReadPending, vars
    <2> QED
      BY <1>4, <2>1 DEF Said
  <1> QED
    BY <1>2, <1>3, <1>5, <1>6 DEF Next, Serve

\* An execution picked up once is reported as completed and as failed only when the
\* report of the completion was not confirmed, whatever fails, stops or hands over.
THEOREM OutcomesAgree == Spec => []OutcomeAgrees
  <1>1. Init => Outcomes
    <2> SUFFICES ASSUME Init, NEW e \in Execs
                 PROVE  Told(e)
      BY DEF Outcomes
    <2>1. picks[e] = 0 /\ Range(comments) = {} /\ \A r \in Runners : run[r] = Idle
      BY DEF Init, Range
    <2> QED
      BY <2>1, IdleFits DEF Told, Past, Said
  <1>2. Outcomes /\ Fits => OutcomeAgrees
    <2> SUFFICES ASSUME Outcomes, Fits, NEW e \in Execs, picks[e] = 1,
                        {"completed", "failed"}
                          \subseteq {c.says : c \in {d \in Range(comments) : d.exec = e}}
                 PROVE  e \in unsure
      BY DEF OutcomeAgrees
    <2>1. ASSUME NEW t \in {"completed", "failed"}
          PROVE  Said(e, t)
      <3>1. PICK c \in Range(comments) : c.exec = e /\ c.says = t
        OBVIOUS
      <3>2. comments \in Seq(Comment)
        BY DEF Fits, Board
      <3>3. c \in Comment
        BY <3>1, <3>2, LenProperties DEF Range
      <3>4. c = [exec |-> e, says |-> t]
        BY <3>1, <3>3 DEF Comment
      <3> QED
        BY <3>1, <3>4 DEF Said
    <2> QED
      BY <2>1 DEF Outcomes, Told
  <1> QED
    BY <1>1, <1>2, FitsInvariant, NextOutcomes, PTL DEF Spec
================================================================================
