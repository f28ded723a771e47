------------------------------ MODULE BridgeTurn ------------------------------
(***************************************************************************)
(* The turns of the dashboard app-server bridge                            *)
(* (scripts/run-dashboard-app-server-bridge.mjs).  Every connection to the *)
(* dashboard has a queue of turn requests and runs them one by one: ask    *)
(* the fence, start or resume a backend thread, subscribe to the           *)
(* notifications, fetch the media, start the turn, wait for its end.  All  *)
(* connections share one codex app-server child, which answers the         *)
(* requests and sends notifications to every subscribed handler.           *)
(*                                                                         *)
(* The process is single threaded: a step ends where the code waits.       *)
(* Activity only pushes the watchdog back, so a timer that is set may fire *)
(* in any later state.  What the app server writes is read in the same     *)
(* step, since nothing else of the bridge can tell how long it was on its  *)
(* way.  The room is told of an event in the step that sends it; an event  *)
(* for a closed socket is lost.                                            *)
(***************************************************************************)
EXTENDS Naturals, Sequences, FiniteSets, SequencesExt

CONSTANTS
    NumTurns,   \* bound: turn requests of the room, retries included
    MaxFaults,  \* bound: disconnections, exits of the app-server child, and
                \* error notifications that name no thread
    Pinned,     \* the runs whose selection names a model
    None        \* no thread, no run, no turn

Turns == 1 .. NumTurns
Conns == 1 .. MaxFaults + 1
Runs == [turn : Turns, attempt : {1, 2}]  \* a backend turn, and the thread started for it

ASSUME BridgeAssumption ==
    /\ NumTurns \in Nat /\ MaxFaults \in Nat
    /\ Pinned \subseteq Runs
    /\ None \notin Runs \cup Turns

VARIABLES
    open,      \* the connection whose socket is open, or 0
    conns,     \* connections made so far
    queue,     \* queue[c]: the turnQueue of connection c, the running turn first
    turn,      \* turn[t]: the request and the locals of its handler
    listeners, \* the turns subscribed to notifications, in order
    approver,  \* the turn whose handler gets approval requests
    unheard,   \* turns whose completion was rejected before anything awaits it
    wire,      \* wire[t]: the request of t that the app server has not answered, its thread
    backend,   \* backend[r]: where run r is, and on which thread
    room,      \* the room's app_server_thread mapping
    told,      \* history: told[t]: the replies and timeouts sent for t
    failed,    \* history: the turns reported as failed
    faults     \* history: faults so far

links == <<open, conns>>
server == <<wire, backend>>
outbox == <<room, told, failed>>
vars == <<links, queue, turn, listeners, approver, unheard, server, outbox, faults>>

NewTurn == [at |-> "new", conn |-> 0, attempt |-> 1, thread |-> None, resumed |-> FALSE,
            run |-> None, timedOut |-> FALSE, settled |-> "no", saved |-> None, armed |-> FALSE]

Over == [is |-> "ended", thread |-> None]
NoRequest == [asks |-> "none", thread |-> None]

Init ==
    /\ open = 0 /\ conns = 0
    /\ queue = [c \in Conns |-> <<>>]
    /\ turn = [t \in Turns |-> NewTurn]
    /\ listeners = <<>> /\ approver = None /\ unheard = {}
    /\ wire = [t \in Turns |-> NoRequest]
    /\ backend = [r \in Runs |-> [is |-> "none", thread |-> None]]
    /\ room = None
    /\ told = [t \in Turns |-> <<>>] /\ failed = {}
    /\ faults = 0

\* The members of the sequence s that are in the set S, in their order.
Keep(s, S) ==
    LET kept[i \in 0 .. Len(s)] ==
          IF i = 0 THEN <<>>
          ELSE IF s[i] \in S THEN Append(kept[i - 1], s[i]) ELSE kept[i - 1]
    IN  kept[Len(s)]

RunOf(t) == [turn |-> t, attempt |-> turn[t].attempt]
Listening(t) == t \in Range(listeners)

\* Nothing but the rest of a chunk is handled between a rejection that
\* nothing awaits and the end of the pass of the event loop, where it is fatal.
Calm == unheard = {}

--------------------------------------------------------------------------------
(* Events of the bridge, and what the room keeps of them. *)

\* Which turn, what it says, the backend thread and run it names, and
\* whether it asks the room to reset the backend thread.
Event(t, says, thread, run, reset) ==
    [turn |-> t, says |-> says, thread |-> thread, run |-> run, reset |-> reset]

Status(t, thread) == Event(t, "status", thread, None, FALSE)
Failed(t) == Event(t, "failed", None, None, FALSE)
Silent(t) == Event(t, "nothing", None, None, FALSE)

\* acceptAppServerBridgeMessage: the thread of an event is written to the
\* mapping, then a reset removes the mapping.  The last event of es counts that
\* does either and comes over an open socket.
Accepted(es) ==
    LET written == Keep(es, {e \in Range(es) : /\ turn[e.turn].conn = open
                                               /\ e.reset \/ e.thread # None})
    IN  IF written = <<>> THEN room
        ELSE IF Last(written).reset THEN None ELSE Last(written).thread

\* The replies and timeouts of turn t among es.
Finals(t, es) ==
    LET finals == Keep(es, {e \in Range(es) : e.turn = t /\ e.says \in {"reply", "late", "timeout"}})
    IN  [i \in DOMAIN finals |-> [says |-> finals[i].says, run |-> finals[i].run]]

\* safeSend of the events es, in order.
Tell(es) ==
    /\ room' = Accepted(es)
    /\ told' = [t \in Turns |-> told[t] \o Finals(t, es)]
    /\ failed' = failed \cup {e.turn : e \in {f \in Range(es) : f.says = "failed"}}

--------------------------------------------------------------------------------
(* The connections and their queues. *)

Fault == faults < MaxFaults /\ faults' = faults + 1

Connect ==
    /\ open = 0 /\ conns <= MaxFaults
    /\ conns' = conns + 1 /\ open' = conns + 1
    /\ UNCHANGED <<queue, turn, listeners, approver, unheard, server, outbox, faults>>

\* The queue of the closed connection goes on; its events are lost.
Disconnect ==
    /\ open # 0 /\ Fault
    /\ open' = 0
    /\ UNCHANGED <<conns, queue, turn, listeners, approver, unheard, server, outbox>>

\* dispatchOwnerMessageToAppServerBridge: the request carries the mapping
\* as it is when the room sends it.
Request(t) ==
    /\ Calm /\ open # 0
    /\ turn[t].at = "new" /\ \A u \in 1 .. t - 1 : turn[u].at # "new"
    /\ turn' = [turn EXCEPT ![t].at = "queued", ![t].conn = open, ![t].thread = room]
    /\ queue' = [queue EXCEPT ![open] = Append(@, t)]
    /\ UNCHANGED <<links, listeners, approver, unheard, server, outbox, faults>>

Running(t) == turn[t].at # "new" /\ queue[turn[t].conn] # <<>> /\ Head(queue[turn[t].conn]) = t

\* Mutant of Unsubscribe: the approval handler stays.
UnsubscribeOnly(t) ==
    /\ listeners' = Keep(listeners, Turns \ {t})
    /\ approver' = approver

\* cleanupNotifications: unsubscribe and put the former approval handler back.
Unsubscribe(t) ==
    /\ listeners' = Keep(listeners, Turns \ {t})
    /\ approver' = IF Listening(t) THEN turn[t].saved ELSE approver

\* What is left of a handler nobody refers to any more.
Gone(w, at) == [NewTurn EXCEPT !.at = at, !.conn = w.conn, !.attempt = w.attempt,
                               !.timedOut = w.timedOut]

\* After cleanupNotifications: only a handler that still runs keeps its locals.
Left(w) == IF w.at = "ended" THEN Gone(w, "ended") ELSE [w EXCEPT !.armed = FALSE]

\* Mutant of End: a failed turn is not cleaned up either.
EndListening(t, w) ==
    /\ turn' = [turn EXCEPT ![t] = [w EXCEPT !.at = "ended"]]
    /\ queue' = [queue EXCEPT ![w.conn] = Tail(@)]
    /\ IF w.timedOut \/ w.settled = "rejected" THEN UNCHANGED <<listeners, approver>>
       ELSE Unsubscribe(t)

\* The handler of the running turn t ends: its finally block, and the next turn.
\* A turn that timed out keeps listening.
End(t, w) ==
    /\ turn' = [turn EXCEPT ![t] = IF w.timedOut /\ Listening(t)
                                   THEN [w EXCEPT !.at = "ended"] ELSE Gone(w, "ended")]
    /\ queue' = [queue EXCEPT ![w.conn] = Tail(@)]
    /\ IF w.timedOut THEN UNCHANGED <<listeners, approver>> ELSE Unsubscribe(t)

--------------------------------------------------------------------------------
(* The handler of a turn. *)

\* The fence refuses, or no app server can be prepared.
Refuse(t) ==
    /\ Calm /\ turn[t].at = "queued" /\ Running(t)
    /\ End(t, turn[t])
    /\ Tell(<<Failed(t)>>)
    /\ UNCHANGED <<links, unheard, server, faults>>

\* thread/resume or thread/start is asked for.
Start(t) ==
    /\ Calm /\ turn[t].at = "queued" /\ Running(t)
    /\ turn' = [turn EXCEPT ![t].at = "thread", ![t].resumed = (turn[t].thread # None)]
    /\ wire' = [wire EXCEPT ![t] = [asks |-> "thread", thread |-> turn[t].thread]]
    /\ UNCHANGED <<links, queue, listeners, approver, unheard, backend, outbox, faults>>

\* The media are there: turn/start is asked for, in time or after a timeout.
MediaReady(t) ==
    /\ Calm /\ turn[t].at = "media"
    /\ turn' = [turn EXCEPT ![t].at = "starting"]
    /\ wire' = [wire EXCEPT ![t] = [asks |-> "turn", thread |-> turn[t].thread]]
    /\ UNCHANGED <<links, queue, listeners, approver, unheard, backend, outbox, faults>>

\* Mutant of RequestTimeout: the timeout is marked as sent before it is sent.
RequestTimeoutSilent(t) ==
    /\ Calm /\ turn[t].at \in {"thread", "starting"}
    /\ End(t, [turn[t] EXCEPT !.timedOut = TRUE])
    /\ UNCHANGED <<links, unheard, server, outbox, faults>>

\* Mutant of RequestTimeout: a timeout that the watchdog has told is told again.
RequestTimeoutAgain(t) ==
    /\ Calm /\ turn[t].at \in {"thread", "starting"}
    /\ End(t, [turn[t] EXCEPT !.timedOut = TRUE])
    /\ Tell(<<Event(t, "timeout", turn[t].thread, turn[t].run, FALSE)>>)
    /\ UNCHANGED <<links, unheard, server, faults>>

\* Mutant of RequestTimeout: turn/start is awaited without a timeout.
RequestTimeoutThread(t) ==
    /\ Calm /\ turn[t].at = "thread"
    /\ End(t, [turn[t] EXCEPT !.timedOut = TRUE])
    /\ Tell(<<Event(t, "timeout", turn[t].thread, turn[t].run, FALSE)>>)
    /\ UNCHANGED <<links, unheard, server, faults>>

\* awaitAppServerRequestWithTimeout: the request is abandoned; its answer,
\* if one comes, is ignored, but a turn it asked for may begin.
RequestTimeout(t) ==
    LET w == turn[t] IN
    /\ Calm /\ w.at \in {"thread", "starting"}
    /\ End(t, [w EXCEPT !.timedOut = TRUE])
    /\ Tell(IF w.timedOut THEN <<>>
            ELSE <<Event(t, "timeout", w.thread, w.run, FALSE)>>)
    /\ wire' = IF w.at = "thread" THEN [wire EXCEPT ![t] = NoRequest] ELSE wire
    /\ UNCHANGED <<links, unheard, backend, faults>>

\* onStalled of the watchdog: the timeout is told, the handler is released,
\* the subscription stays until the late-completion timer fires.
Stall(t) ==
    LET w == turn[t] IN
    /\ Calm /\ w.at \in {"media", "starting", "awaiting"} /\ w.settled = "no"
    /\ turn' = [turn EXCEPT ![t].timedOut = TRUE, ![t].settled = "resolved", ![t].armed = TRUE]
    /\ Tell(<<Event(t, "timeout", w.thread, w.run, FALSE)>>)
    /\ UNCHANGED <<links, queue, listeners, approver, unheard, server, faults>>

LateCleanup(t) ==
    /\ Calm /\ turn[t].armed
    /\ turn' = [turn EXCEPT ![t] = Left(@)]
    /\ Unsubscribe(t)
    /\ UNCHANGED <<links, queue, unheard, server, outbox, faults>>

\* The awaited completion is there.  A pinned model that the account does not
\* support is tried once more without the model, on a new thread.
Finish(t) ==
    LET w == turn[t] IN
    /\ Calm /\ w.at = "awaiting" /\ w.settled # "no"
    /\ IF w.settled = "refused" /\ w.attempt = 1
       THEN \/ /\ turn' = [turn EXCEPT ![t] = [NewTurn EXCEPT !.at = "thread", !.conn = w.conn,
                                                             !.attempt = 2]]
               /\ wire' = [wire EXCEPT ![t] = [asks |-> "thread", thread |-> None]]
               /\ Unsubscribe(t)
               /\ UNCHANGED <<queue, outbox>>
            \/ /\ End(t, w) /\ Tell(<<Failed(t)>>)
               /\ UNCHANGED wire
       ELSE /\ End(t, w)
            /\ Tell(IF w.settled = "refused" THEN <<Event(t, "failed", None, None, TRUE)>> ELSE <<>>)
            /\ UNCHANGED wire
    /\ UNCHANGED <<links, unheard, backend, faults>>

--------------------------------------------------------------------------------
(* The answers of the app server.  A request that was given up is answered  *)
(* in vain, but the turn it asked for may begin.                            *)

\* The thread is there, the one asked for or a new one: the handler
\* subscribes and takes the approval requests.
ThreadReady(t) ==
    LET thread == IF turn[t].thread = None THEN RunOf(t) ELSE turn[t].thread IN
    /\ wire[t].asks = "thread" /\ turn[t].at = "thread"
    /\ wire' = [wire EXCEPT ![t] = NoRequest]
    /\ turn' = [turn EXCEPT ![t].at = "media", ![t].thread = thread, ![t].saved = approver]
    /\ listeners' = Append(listeners, t)
    /\ approver' = t
    /\ Tell(<<Status(t, thread)>>)
    /\ UNCHANGED <<links, queue, unheard, backend, faults>>

\* The run begins; its notifications may overtake the answer.
BeginRun(t) ==
    /\ wire[t].asks = "turn" /\ backend[RunOf(t)].is = "none"
    /\ backend' = [backend EXCEPT ![RunOf(t)] = [is |-> "running", thread |-> wire[t].thread]]
    /\ UNCHANGED <<links, queue, turn, listeners, approver, unheard, wire, outbox, faults>>

\* The turn has its id, unless a notification gave it another one before.
TurnReady(t) ==
    LET w == turn[t] IN
    /\ wire[t].asks = "turn" /\ w.at = "starting" /\ backend[RunOf(t)].is # "none"
    /\ wire' = [wire EXCEPT ![t] = NoRequest]
    /\ IF w.run \in {None, RunOf(t)}
       THEN /\ turn' = [turn EXCEPT ![t].at = "awaiting", ![t].run = RunOf(t)]
            /\ unheard' = unheard \ {t}
            /\ Tell(<<Status(t, w.thread)>>)
            /\ UNCHANGED <<queue, listeners, approver>>
       ELSE /\ End(t, w)
            /\ Tell(<<Failed(t)>>)
            /\ UNCHANGED unheard
    /\ UNCHANGED <<links, backend, faults>>

\* The app server refuses the request, or the exit of the child rejects it.
RequestRefused(t) ==
    /\ turn[t].at \in {"thread", "starting"} /\ (wire[t] = NoRequest \/ backend[RunOf(t)].is = "none")
    /\ wire' = [wire EXCEPT ![t] = NoRequest]
    /\ End(t, turn[t])
    /\ Tell(<<Failed(t)>>)
    /\ UNCHANGED <<links, unheard, backend, faults>>

--------------------------------------------------------------------------------
(* The notifications of the app server. *)

Notice(kind, thread, run) == [kind |-> kind, thread |-> thread, run |-> run]

\* Mutant of Matches: the turn id is not compared.
MatchesThread(w, m) == w.thread = m.thread \/ None \in {w.thread, m.thread}

\* matchesAppServerTurnNotification: what either side does not know matches.
Matches(w, m) ==
    /\ w.thread = m.thread \/ None \in {w.thread, m.thread}
    /\ w.run = m.run \/ None \in {w.run, m.run}

\* A pinned model that the account refuses is not told to the room.
Refuses(t, m) == m.kind = "unsupported" /\ RunOf(t) \in Pinned

\* What handler t sends for notification m.
Says(t, m) ==
    LET w == turn[t]
        thread == IF m.thread = None THEN w.thread ELSE m.thread
        reset == m.kind = "unsupported" \/ (m.kind = "window" /\ w.resumed)
    IN  IF ~Matches(w, m) \/ Refuses(t, m) THEN Silent(t)
        ELSE IF m.kind = "activity" THEN Status(t, thread)
        ELSE IF m.kind = "completed"
        THEN Event(t, IF w.timedOut THEN "late" ELSE "reply", thread, m.run, FALSE)
        ELSE Event(t, "failed", thread, None, reset)

\* The locals of handler t after m: the turn id is adopted when none was
\* known, and the first ending settles the completion.
Heard(t, m) ==
    LET w == [turn[t] EXCEPT !.run = IF @ = None THEN m.run ELSE @] IN
    IF ~Matches(turn[t], m) THEN turn[t]
    ELSE IF m.kind = "activity" \/ (w.settled # "no" /\ ~w.timedOut) THEN w
    ELSE IF w.timedOut THEN Left(w)
    ELSE [w EXCEPT !.settled = IF m.kind = "completed" THEN "resolved"
                               ELSE IF Refuses(t, m) THEN "refused" ELSE "rejected"]

\* Every listener hears m; one that timed out leaves with the ending.
Notify(m) ==
    LET leaves == {t \in Turns : turn[t].timedOut /\ m.kind # "activity" /\ Matches(turn[t], m)}
        leaving == Keep(listeners, leaves)
        heard == [t \in Turns |-> IF Listening(t) THEN Heard(t, m) ELSE turn[t]]
    IN  /\ turn' = heard
        /\ Tell([i \in DOMAIN listeners |-> Says(listeners[i], m)])
        /\ listeners' = Keep(listeners, Turns \ leaves)
        /\ approver' = IF leaving = <<>> THEN approver ELSE turn[Last(leaving)].saved
        /\ unheard' = {t \in Turns : /\ heard[t].at \in {"media", "starting"}
                                     /\ heard[t].settled \in {"rejected", "refused"}}
        /\ UNCHANGED <<links, queue, wire>>

Progress(r) ==
    /\ backend[r].is = "running"
    /\ Notify(Notice("activity", backend[r].thread, r))
    /\ UNCHANGED <<backend, faults>>

\* error, with the ids of the run: its turn/completed is still to come.
RunError(r, kind) ==
    /\ backend[r].is = "running"
    /\ backend' = [backend EXCEPT ![r].is = "failing"]
    /\ Notify(Notice(kind, backend[r].thread, r))
    /\ UNCHANGED faults

\* turn/completed.
EndRun(r, kind) ==
    /\ backend[r].is \in {"running", "failing"}
    /\ backend[r].is = "failing" => kind = "failed"
    /\ backend' = [backend EXCEPT ![r] = Over]
    /\ Notify(Notice(kind, backend[r].thread, r))
    /\ UNCHANGED faults

\* error without ids matches every listener.
StrayError ==
    /\ Fault
    /\ Notify(Notice("failed", None, None))
    /\ UNCHANGED backend

\* A rejection that nothing awaits ends the process, and every turn with it.
Die ==
    /\ ~Calm
    /\ open' = 0
    /\ queue' = [c \in Conns |-> <<>>]
    /\ turn' = [t \in Turns |-> IF turn[t].at \in {"new", "ended"}
                                THEN Left(turn[t]) ELSE Gone(turn[t], "dead")]
    /\ listeners' = <<>> /\ approver' = None /\ unheard' = {}
    /\ wire' = [t \in Turns |-> NoRequest]
    /\ backend' = [r \in Runs |-> IF backend[r].is = "none" THEN backend[r]
                                  ELSE Over]
    /\ UNCHANGED <<conns, outbox, faults>>

\* The child exits: its runs are gone and what was asked is rejected.
ChildExit ==
    /\ Fault
    /\ wire' = [t \in Turns |-> NoRequest]
    /\ backend' = [r \in Runs |-> IF backend[r].is = "none" THEN backend[r]
                                  ELSE Over]
    /\ UNCHANGED <<links, queue, turn, listeners, approver, unheard, outbox>>

--------------------------------------------------------------------------------
Handler(t) == Refuse(t) \/ Start(t) \/ MediaReady(t) \/ RequestTimeout(t) \/ Stall(t) \/ Finish(t)

AppServer ==
    \/ \E t \in Turns : ThreadReady(t) \/ BeginRun(t) \/ TurnReady(t) \/ RequestRefused(t)
    \/ \E r \in Runs : \/ Progress(r)
                       \/ \E kind \in {"window", "unsupported"} : RunError(r, kind)
                       \/ \E kind \in {"completed", "failed"} : EndRun(r, kind)
    \/ StrayError \/ ChildExit

Step ==
    \/ Connect \/ Disconnect
    \/ \E t \in Turns : Request(t) \/ Handler(t) \/ LateCleanup(t)
    \/ Die \/ AppServer

Spec == Init /\ [][Step]_vars

\* The event loop of the bridge goes on: its own steps and its timers, of
\* whichever turn.  The app server and the network owe nothing.
Loop == Die \/ \E t \in Turns : Handler(t)
FairSpec == Spec /\ WF_vars(Loop)

--------------------------------------------------------------------------------
Phases == {"new", "queued", "thread", "media", "starting", "awaiting", "ended", "dead"}
Endings == [says : {"reply", "late", "timeout"}, run : Runs \cup {None}]
MaybeRun == Runs \cup {None}
Handlers == [at : Phases, conn : 0 .. MaxFaults + 1, attempt : {1, 2}, thread : MaybeRun,
             resumed : BOOLEAN, run : MaybeRun, timedOut : BOOLEAN,
             settled : {"no", "resolved", "rejected", "refused"},
             saved : Turns \cup {None}, armed : BOOLEAN]

\* The state is well formed, and the queues, the subscriptions and the phases
\* of the handlers fit together: a handler holds the head of its queue from its
\* first request to its end, and only a timeout leaves a listener behind.
TypeOK ==
    /\ conns \in 0 .. MaxFaults + 1 /\ open \in {0, conns}
    /\ turn \in [Turns -> Handlers]
    /\ listeners \in Seq(Turns) /\ approver \in Turns \cup {None} /\ unheard \subseteq Turns
    /\ queue \in [Conns -> Seq(Turns)]
    /\ wire \in [Turns -> [asks : {"none", "thread", "turn"}, thread : MaybeRun]]
    /\ backend \in [Runs -> [is : {"none", "running", "failing", "ended"},
                             thread : MaybeRun]]
    /\ room \in MaybeRun
    /\ told \in [Turns -> Seq(Endings)] /\ failed \subseteq Turns
    /\ faults \in 0 .. MaxFaults
    /\ \A t \in Turns :
         /\ turn[t].at \in {"thread", "media", "starting", "awaiting"} => Running(t)
         /\ turn[t].at = "ended" /\ Listening(t) => turn[t].timedOut

\* The places of the endings of turn t that say one of says.
Told(t, says) == {i \in DOMAIN told[t] : told[t][i].says \in says}

\* A turn that the bridge has ended was answered or reported as failed, on
\* every way out of the handler, also when the error thrown says that the
\* failure was sent already (run-dashboard-app-server-bridge.mjs:3066).
EndsReported == \A t \in Turns : turn[t].at = "ended" => told[t] # <<>> \/ t \in failed

\* Over both attempts, a timeout, its late completion, adopted turn ids and
\* several notices in one chunk, a turn gives one reply and one timeout at
\* most, and never a reply in time after its timeout.
OneReply ==
    \A t \in Turns :
      /\ Cardinality(Told(t, {"reply", "late"})) <= 1
      /\ Cardinality(Told(t, {"timeout"})) <= 1
      /\ \A i, j \in DOMAIN told[t] :
           i < j => ~(told[t][i].says = "timeout" /\ told[t][j].says = "reply")

\* The reply that a turn reports is that of its own backend turn u, but for
\* the overlaps that the turn ids cannot tell apart: the two turns had
\* different connections, or t is a late listener that had no turn id yet when
\* it timed out, or u was given up and its run ends before t has its own id.
ReplyIsOwn ==
    \A t \in Turns : \A e \in Range(told[t]) :
      LET u == e.run.turn IN
      e.says \in {"reply", "late"} /\ u # t =>
        \/ turn[u].conn # turn[t].conn
        \/ t < u /\ \E f \in Range(told[t]) : f.says = "timeout" /\ f.run = None
        \/ u < t /\ (u \in failed \/ Told(u, {"timeout"}) # {})

\* Approval requests go to the turn that runs, and to nobody when none does,
\* as long as no turn timed out or was left on an older connection: every way
\* out of a handler puts the former approval handler back.
ApprovalsFollowTheTurn ==
    conns <= 1 /\ (\A t \in Turns : ~turn[t].timedOut) =>
      approver = IF listeners = <<>> THEN None ELSE Last(listeners)

\* Every turn request that reached a queue ends, whatever the app server leaves
\* unanswered: no turn holds the later ones of its connection back for ever.
\* A turn that has ended does not begin again, so it is enough that in the end
\* none is under way.
TurnsEnd == <>[](\A t \in Turns : turn[t].at \in {"new", "ended", "dead"})
================================================================================
