----------------------------- MODULE BridgeControl -----------------------------
(***************************************************************************)
(* Control messages from the Worker to the app-server bridge: the restart  *)
(* that follows a successful deploy, and the envelope of a privileged      *)
(* maintenance execution (src/worker/runtime.js, run-dashboard-app-server- *)
(* bridge.mjs, sync-dashboard-app-server-bridge-after-deploy.mjs).         *)
(*                                                                         *)
(* A deploy event is stored, then followed up once: the chat room claims   *)
(* the request id, sends the message on a bridge socket and keeps the      *)
(* claim; the bridge remembers what it has done in memory, starts a        *)
(* detached script, and is restarted by that very script.                  *)
(***************************************************************************)
EXTENDS Integers, Sequences, FiniteSets

CONSTANTS
    Deploys,     \* runs of the deploy workflow that succeeded
    Helpers,     \* executions for the local helper queue
    MaxTries,    \* bound: requests to the Worker per item
    MaxFaults    \* bound: stops, lost connections and failed calls

ASSUME ControlAssumption ==
    /\ Deploys \cap Helpers = {}
    /\ MaxTries \in Nat
    /\ MaxFaults \in Nat

Requests == Deploys \cup Helpers

VARIABLES
    calls,     \* calls[r][i]: the handler of the i-th request for r
    events,    \* deploys whose event is in the dashboard event store
    claims,    \* requests claimed in the room's storage
    up,        \* the bridge is connected
    stale,     \* the room still lists a socket whose bridge is gone
    toBridge,  \* control messages under way
    toRoom,    \* results under way
    done,      \* requests the bridge process remembers
    launches,  \* launches[r]: scripts started, or envelopes queued, for r
    scripts,   \* restart scripts that run
    chat,      \* chat[r]: what the chat was told about r
    why,       \* history: what went wrong with r
    faults

handlers == <<calls, events>>
wire == <<up, stale, toBridge, toRoom>>
bridge == <<done, launches, scripts>>
vars == <<calls, events, claims, up, stale, toBridge, toRoom, done, launches, scripts, chat, why, faults>>

Steps == {"read", "store", "ask", "report", "end"}
Notices == {"blocked", "duplicate", "failed", "queued"}
Reasons == {"stopped", "append", "wire", "failed"}

Call(s, k, m) == [step |-> s, known |-> k, told |-> m]
At(r, i, s) == i \in 1..Len(calls[r]) /\ calls[r][i].step = s
Move(r, i, s) == calls' = [calls EXCEPT ![r][i].step = s]

\* the handler goes on to tell the chat m ("" is no message); the caller of a helper execution gets it as the answer
Tell(r, i, m) ==
    calls' = [calls EXCEPT ![r][i] = Call(IF r \in Deploys THEN "report" ELSE "end", @.known, m)]

\* something the environment does to the system; bounded
Fault == faults < MaxFaults /\ faults' = faults + 1
Calm == UNCHANGED faults

Blame(rs, reason) == why' = [r \in Requests |-> IF r \in rs THEN why[r] \cup {reason} ELSE why[r]]

\* a bridge result; the one of a launch that failed lacks the repository
Result(r, s) == [request |-> r, status |-> s, repository |-> (s # "failed")]
Results == {Result(r, s) : r \in Requests, s \in {"started", "duplicate", "failed", "blocked", "queued"}}

Travelling == {toBridge[i] : i \in 1..Len(toBridge)}
Answering == {toRoom[i].request : i \in 1..Len(toRoom)}

Init ==
    /\ calls = [r \in Requests |-> << >>]
    /\ events = {} /\ claims = {} /\ done = {} /\ scripts = {}
    /\ up = FALSE /\ stale = FALSE
    /\ toBridge = << >> /\ toRoom = << >>
    /\ launches = [r \in Requests |-> 0]
    /\ chat = [r \in Requests |-> {}]
    /\ why = [r \in Requests |-> {}]
    /\ faults = 0

-----------------------------------------------------------------------------
(* The Worker *)

\* The workflow posts its event again when it got no answer, a workflow that is run again keeps its run id, and an owner
\* may repeat the request for an execution: a new handler may start while earlier ones are still running.
Post(r) ==
    /\ Len(calls[r]) < MaxTries
    /\ calls' = [calls EXCEPT ![r] = Append(@, Call(IF r \in Deploys THEN "read" ELSE "ask", FALSE, ""))]
    /\ Calm
    /\ UNCHANGED <<events, claims, chat, why>> /\ UNCHANGED wire /\ UNCHANGED bridge

\* readDashboardEventById: an error of the store counts as "no such event"
Read(r, i) ==
    /\ At(r, i, "read")
    /\ \/ Calm /\ calls' = [calls EXCEPT ![r][i] = Call("store", r \in events, "")]
       \/ r \in events /\ Fault /\ Move(r, i, "store")
    /\ UNCHANGED <<events, claims, chat, why>> /\ UNCHANGED wire /\ UNCHANGED bridge

\* the event is stored before the follow-up; one that was known gets no follow-up
Store(r, i) ==
    /\ At(r, i, "store")
    /\ events' = events \cup {r}
    /\ Move(r, i, IF calls[r][i].known THEN "end" ELSE "ask")
    /\ Calm
    /\ UNCHANGED <<claims, chat, why>> /\ UNCHANGED wire /\ UNCHANGED bridge

\* no memory provider, no repository, or no grant for this deploy
Refuse(r, i) ==
    /\ At(r, i, "ask")
    /\ Tell(r, i, "blocked")
    /\ Calm
    /\ UNCHANGED <<events, claims, chat, why>> /\ UNCHANGED wire /\ UNCHANGED bridge

\* what the Worker makes of the room's answer m; it may also not get one, and then takes the room for unavailable
Answer(r, i, m) ==
    \/ Calm /\ Tell(r, i, m)
    \/ Fault /\ Tell(r, i, "blocked")

\* the claim and the send are one step of the room: nothing but storage is waited for
Claimed(r, i) ==
    /\ At(r, i, "ask") /\ r \in claims
    /\ Answer(r, i, "duplicate")
    /\ UNCHANGED <<events, claims, chat, why>> /\ UNCHANGED wire /\ UNCHANGED bridge

\* Mutant of Unavailable: the claim is kept.
UnavailableKept(r, i) ==
    /\ At(r, i, "ask") /\ r \notin claims
    /\ ~up /\ ~stale
    /\ claims' = claims \cup {r}
    /\ Answer(r, i, "blocked")
    /\ UNCHANGED <<events, chat, why>> /\ UNCHANGED wire /\ UNCHANGED bridge

\* Mutant of Unavailable: nobody is told.
UnavailableSilent(r, i) ==
    /\ At(r, i, "ask") /\ r \notin claims
    /\ ~up /\ ~stale
    /\ Answer(r, i, "")
    /\ UNCHANGED <<events, claims, chat, why>> /\ UNCHANGED wire /\ UNCHANGED bridge

Unavailable(r, i) ==
    /\ At(r, i, "ask") /\ r \notin claims
    /\ ~up /\ ~stale
    /\ Answer(r, i, "blocked")
    /\ UNCHANGED <<events, claims, chat, why>> /\ UNCHANGED wire /\ UNCHANGED bridge

\* Mutant of Send: only the bridge remembers the request.
SendUnclaimed(r, i) ==
    /\ At(r, i, "ask") /\ r \notin claims
    /\ \/ up /\ toBridge' = Append(toBridge, r) /\ UNCHANGED why
       \/ stale /\ UNCHANGED toBridge /\ Blame({r}, "wire")
    /\ Answer(r, i, "")
    /\ UNCHANGED <<events, claims, up, stale, toRoom, chat>> /\ UNCHANGED bridge

\* the first bridge socket may be one whose bridge is gone
Send(r, i) ==
    /\ At(r, i, "ask") /\ r \notin claims
    /\ claims' = claims \cup {r}
    /\ \/ up /\ toBridge' = Append(toBridge, r) /\ UNCHANGED why
       \/ stale /\ UNCHANGED toBridge /\ Blame({r}, "wire")
    /\ Answer(r, i, "")
    /\ UNCHANGED <<events, up, stale, toRoom, chat>> /\ UNCHANGED bridge

\* Mutant of Report: a follow-up without a message is appended as an empty one.
ReportEmpty(r, i) ==
    /\ At(r, i, "report")
    /\ Calm /\ chat' = [chat EXCEPT ![r] = @ \cup {calls[r][i].told}]
    /\ Move(r, i, "end")
    /\ UNCHANGED <<events, claims, why>> /\ UNCHANGED wire /\ UNCHANGED bridge

\* appendMany; an error of the chat store is only recorded with the event
Report(r, i) ==
    /\ At(r, i, "report")
    /\ \/ Calm /\ chat' = [chat EXCEPT ![r] = @ \cup ({calls[r][i].told} \ {""})] /\ UNCHANGED why
       \/ calls[r][i].told # "" /\ Fault /\ Blame({r}, "append") /\ UNCHANGED chat
    /\ Move(r, i, "end")
    /\ UNCHANGED <<events, claims>> /\ UNCHANGED wire /\ UNCHANGED bridge

\* the invocation stops, or a call it makes throws
Stop(r, i) ==
    /\ i \in 1..Len(calls[r]) /\ calls[r][i].step # "end"
    /\ Move(r, i, "end")
    /\ Fault /\ Blame({r}, "stopped")
    /\ UNCHANGED <<events, claims, chat>> /\ UNCHANGED wire /\ UNCHANGED bridge

-----------------------------------------------------------------------------
(* The connection and the bridge process *)

Connect ==
    /\ ~up /\ up' = TRUE
    /\ Calm
    /\ UNCHANGED <<events, calls, claims, stale, toBridge, toRoom, chat, why>> /\ UNCHANGED bridge

\* the room learns that a socket is closed
Forget ==
    /\ stale /\ stale' = FALSE
    /\ Calm
    /\ UNCHANGED <<events, calls, claims, up, toBridge, toRoom, chat, why>> /\ UNCHANGED bridge

\* what is under way is lost, and the room may not notice
Cut ==
    /\ up' = FALSE /\ stale' \in {stale, up \/ stale}
    /\ toBridge' = << >> /\ toRoom' = << >>
    /\ Blame(Travelling \cup Answering, "wire")

Disconnect ==
    /\ up /\ Fault /\ Cut
    /\ UNCHANGED <<events, calls, claims, chat>> /\ UNCHANGED bridge

BridgeStops ==
    /\ Fault /\ Cut
    /\ done' = {}
    /\ UNCHANGED <<events, calls, claims, launches, scripts, chat>>

Reply(r, s) == toRoom' = Append(toRoom, Result(r, s)) /\ toBridge' = Tail(toBridge)
Reads(r) == up /\ toBridge # << >> /\ r = Head(toBridge)

\* claimDeployBridgeSyncRestartRequest, then spawn; a request it has already done is answered without one
Launch(r) ==
    /\ Reads(r) /\ r \in Deploys
    /\ done' = done \cup {r}
    /\ launches' = [launches EXCEPT ![r] = IF r \in done THEN @ ELSE @ + 1]
    /\ scripts' = IF r \in done THEN scripts ELSE scripts \cup {r}
    /\ Reply(r, IF r \in done THEN "duplicate" ELSE "started")
    /\ Calm
    /\ UNCHANGED <<events, calls, claims, up, stale, chat, why>>

\* spawn throws: the bridge forgets the request
LaunchFails(r) ==
    /\ Reads(r) /\ r \in Deploys \ done
    /\ Reply(r, "failed")
    /\ Fault /\ Blame({r}, "failed")
    /\ UNCHANGED <<events, calls, claims, up, stale, chat>> /\ UNCHANGED bridge

\* enqueueVpsLocalHelperExecution; the bridge keeps no memory of these, the pending file does
Enqueue(r) ==
    /\ Reads(r) /\ r \in Helpers
    /\ \/ /\ launches' = [launches EXCEPT ![r] = @ + 1]
          /\ Reply(r, "queued") /\ Calm /\ UNCHANGED why
       \/ /\ Reply(r, "blocked") /\ Fault /\ Blame({r}, "failed") /\ UNCHANGED launches
    /\ UNCHANGED <<events, calls, claims, up, stale, done, scripts, chat>>

\* the script gives up: the checkout is dirty, or a command fails
GiveUp(r) ==
    /\ r \in scripts
    /\ scripts' = scripts \ {r}
    /\ Calm
    /\ UNCHANGED <<events, calls, claims, done, launches, chat, why>> /\ UNCHANGED wire

\* systemctl restart: the bridge and what it remembers are gone
RestartBridge(r) ==
    /\ r \in scripts
    /\ scripts' = scripts \ {r}
    /\ done' = {} /\ Cut
    /\ Calm
    /\ UNCHANGED <<events, calls, claims, launches, chat>>

-----------------------------------------------------------------------------
(* The room receives a result *)

\* deployBridgeControlIdempotencyKey: no repository, no key, no release
Release(res) ==
    claims' = IF res.status = "failed" /\ res.repository THEN claims \ {res.request} ELSE claims

\* a started script is shown and not stored
Receive ==
    /\ up /\ toRoom # << >>
    /\ LET res == Head(toRoom) IN
         /\ Release(res)
         /\ chat' = [chat EXCEPT ![res.request] = @ \cup ({res.status} \ {"started"})]
    /\ toRoom' = Tail(toRoom)
    /\ Calm
    /\ UNCHANGED <<events, calls, up, stale, toBridge, why>> /\ UNCHANGED bridge

-----------------------------------------------------------------------------
Handler(r, i) == Read(r, i) \/ Store(r, i) \/ Refuse(r, i) \/ Claimed(r, i) \/ Unavailable(r, i)
                 \/ Send(r, i) \/ Report(r, i)
Bridge == \E r \in Requests : Launch(r) \/ LaunchFails(r) \/ Enqueue(r)
Script == \E r \in Requests : GiveUp(r) \/ RestartBridge(r)

Next ==
    \/ \E r \in Requests : Post(r) \/ \E i \in 1..MaxTries : Handler(r, i) \/ Stop(r, i)
    \/ Connect \/ Forget \/ Disconnect \/ BridgeStops
    \/ Bridge \/ Script \/ Receive

Spec == Init /\ [][Next]_vars

\* a handler that can go on does, and a connected bridge reads its messages; no fairness for requests and connections
FairSpec ==
    /\ Spec
    /\ \A r \in Requests : \A i \in 1..MaxTries : WF_vars(Handler(r, i))
    /\ WF_vars(Bridge)
    /\ WF_vars(Receive)

-----------------------------------------------------------------------------
(* Properties *)

\* Every variable holds a value of its kind; what the chat is told is one of the four notices of the code.
TypeOK ==
    /\ calls \in [Requests -> Seq([step : Steps, known : BOOLEAN, told : Notices \cup {""}])]
    /\ events \subseteq Deploys
    /\ claims \subseteq Requests /\ done \subseteq Requests /\ scripts \subseteq Deploys
    /\ up \in BOOLEAN /\ stale \in BOOLEAN
    /\ toBridge \in Seq(Requests) /\ toRoom \in Seq(Results)
    /\ launches \in [Requests -> Nat]
    /\ chat \in [Requests -> SUBSET Notices]
    /\ why \in [Requests -> SUBSET Reasons]
    /\ faults \in 0..MaxFaults

\* A deploy restarts the bridge, and an execution reaches the helper queue, at most once, however often the event or the
\* request is repeated, whichever handlers overlap, and although a bridge that restarts forgets what it has done.
OneLaunch == \A r \in Requests : launches[r] <= 1

Quiet(r) ==
    /\ \A i \in 1..Len(calls[r]) : calls[r][i].step = "end"
    /\ r \notin Travelling \cup Answering

\* A claim refuses every later attempt, so one that outlives its attempt must stand for a launch - or for the two ways in
\* which the code leaves it behind: the message was lost after the send, or the bridge failed to act on it.
ClaimHasReason ==
    \A r \in claims : Quiet(r) => launches[r] > 0 \/ why[r] \cap {"wire", "failed"} # {}

\* Every stored deploy ends in a restart script, a notice in the chat, or a fault that explains why there is neither.
FollowUpEnds ==
    \A r \in Deploys : r \in events ~> (launches[r] > 0 \/ chat[r] # {} \/ why[r] # {})

\* What the room says when a launch has failed: "この deployRunId の retry guard は解放します" (runtime.js:6268), the claim is
\* released. The result of a failed launch carries no repository, so its key is empty and nothing is.
FailedLaunchReleases ==
    [][\A r \in Deploys : "failed" \in chat'[r] \ chat[r] => r \notin claims']_vars

================================================================================
