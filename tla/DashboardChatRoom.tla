--------------------------- MODULE DashboardChatRoom ---------------------------
(***************************************************************************)
(* One thread of the dashboard chat (class DashboardChatRoom of            *)
(* src/worker/runtime.js): owner messages come in over page sockets, are   *)
(* saved, and become turn requests on the socket of an app-server bridge,  *)
(* at once or, when no bridge is connected, from a pending queue that the  *)
(* next bridge connection drains.                                          *)
(*                                                                         *)
(* The room is a Durable Object: no other event is delivered while it      *)
(* waits for its own storage, so a handler is cut into steps only where it *)
(* waits for something else (the chat store in D1, the registry, GitHub).  *)
(* Every message names a repository, so a dispatch waits for the traffic-  *)
(* control context before it sends.                                        *)
(***************************************************************************)
EXTENDS Naturals, Sequences, FiniteSets, SequencesExt

CONSTANTS
    Messages,     \* client message ids
    Maintenance,  \* the messages the Worker answers by itself
    Calls,        \* owner_message handlers that may run at once
    Connections,  \* bridge connections, each opened once
    None,         \* no message, no connection
    MaxPending,   \* length of the pending queue
    MaxSends,     \* bound: messages received from pages
    MaxResets,    \* bound: turns that exceed the context window
    MaxRestarts   \* bound: restarts of the room

ASSUME RoomAssumption ==
    /\ Maintenance \subseteq Messages
    /\ None \notin Connections \cup Messages
    /\ MaxPending \in Nat \ {0}
    /\ {MaxSends, MaxResets, MaxRestarts} \subseteq Nat

VARIABLES
    thread,   \* the owner messages in the chat store
    accepted, \* the messages with an owner_message record in storage
    pending,  \* storage: the messages that wait for a bridge
    retried,  \* storage: the messages with an app_server_context_retry record
    call,     \* call[h]: an owner_message handler, its message and the bridge it saw
    drain,    \* drain[c]: what the drain of connection c has to do and could not send
    retrying, \* retries about to be dispatched
    conn,     \* conn[c]: the state of a bridge connection
    turns,    \* turns[c]: the turn requests c has not answered, per message
    sends,    \* history: messages received so far
    acked,    \* history: the messages acknowledged to the page
    sent,     \* history: turn requests sent for an owner message, per message
    retries,  \* history: turn requests sent again after a context reset, per message
    resets,   \* history: context resets so far
    restarts  \* history: restarts so far

storage == <<accepted, pending, retried>>
sockets == <<conn, turns>>
vars == <<thread, storage, call, drain, retrying, sockets,
          sends, acked, sent, retries, resets, restarts>>

CallSteps == {"idle", "lookup", "resolve", "save", "stored", "dispatch"}
Quiet == [at |-> "idle", message |-> None, bridge |-> None]
Drained == [records |-> <<>>, remaining |-> <<>>]

Open == {c \in Connections : conn[c] = "open"}

Init ==
    /\ thread = {} /\ accepted = {} /\ pending = <<>> /\ retried = {}
    /\ call = [h \in Calls |-> Quiet]
    /\ drain = [c \in Connections |-> Drained]
    /\ retrying = {}
    /\ conn = [c \in Connections |-> "new"]
    /\ turns = [c \in Connections |-> [m \in Messages |-> 0]]
    /\ sends = 0
    /\ acked = {}
    /\ sent = [m \in Messages |-> 0]
    /\ retries = [m \in Messages |-> 0]
    /\ resets = 0 /\ restarts = 0

--------------------------------------------------------------------------------
(* acceptOwnerMessage. *)

Finish(h) == call' = [call EXCEPT ![h] = Quiet]
Goto(h, step) == call' = [call EXCEPT ![h].at = step]

\* A page sends a message, or sends it again because it saw no acknowledgement.
\* One that already has its record in storage is acknowledged as a duplicate.
Receive(h, m) ==
    /\ call[h].at = "idle"
    /\ sends < MaxSends
    /\ sends' = sends + 1
    /\ IF m \in accepted
       THEN acked' = acked \cup {m} /\ call' = call
       ELSE acked' = acked /\ call' = [call EXCEPT ![h].at = "lookup", ![h].message = m]
    /\ UNCHANGED <<thread, storage, drain, retrying, sockets, sent, retries, resets, restarts>>

\* hasAcceptedOwnerMessage falls back to the thread in the chat store.
Lookup(h) ==
    LET m == call[h].message IN
    /\ call[h].at = "lookup"
    /\ IF m \in thread
       THEN acked' = acked \cup {m} /\ Finish(h)
       ELSE acked' = acked /\ Goto(h, "resolve")
    /\ UNCHANGED <<thread, storage, drain, retrying, sockets, sends, sent, retries, resets, restarts>>

\* The repository or the media cannot be resolved: the page is told of the error.
Reject(h) ==
    /\ call[h].at = "resolve"
    /\ Finish(h)
    /\ UNCHANGED <<thread, storage, drain, retrying, sockets, sends, acked, sent, retries, resets, restarts>>

\* Mutant of Resolve: the handler goes on without waiting for the chat store.
ResolveUnsaved(h, c) ==
    /\ call[h].at = "resolve"
    /\ c \in (IF Open = {} THEN {None} ELSE Open)
    /\ call' = [call EXCEPT ![h].at = "stored", ![h].bridge = c]
    /\ UNCHANGED <<thread, storage, drain, retrying, sockets, sends, acked, sent, retries, resets, restarts>>

\* The bridge is chosen here, and used after the message is saved.
Resolve(h, c) ==
    /\ call[h].at = "resolve"
    /\ c \in (IF Open = {} THEN {None} ELSE Open)
    /\ call' = [call EXCEPT ![h].at = "save", ![h].bridge = c]
    /\ UNCHANGED <<thread, storage, drain, retrying, sockets, sends, acked, sent, retries, resets, restarts>>

\* store.appendMany commits (the row is replaced when it is there already) ...
Save(h) ==
    /\ call[h].at = "save"
    /\ thread' = thread \cup {call[h].message}
    /\ Goto(h, "stored")
    /\ UNCHANGED <<storage, drain, retrying, sockets, sends, acked, sent, retries, resets, restarts>>

\* ... or fails, and the handler with it.
SaveFails(h) ==
    /\ call[h].at = "save"
    /\ Finish(h)
    /\ UNCHANGED <<thread, storage, drain, retrying, sockets, sends, acked, sent, retries, resets, restarts>>

\* writeAcceptedOwnerMessage and the acknowledgement.
Accept(h) ==
    /\ call[h].at = "stored"
    /\ accepted' = accepted \cup {call[h].message}
    /\ acked' = acked \cup {call[h].message}

Later == UNCHANGED <<thread, retried, drain, retrying, sends, retries, resets, restarts>>

\* A message the Worker answers itself goes no further.
AnswerInWorker(h) ==
    /\ Accept(h)
    /\ call[h].message \in Maintenance
    /\ Finish(h)
    /\ Later
    /\ UNCHANGED <<pending, sockets, sent>>

\* The filter of writePendingAppServerOwnerMessage; a message waits at most once.
Without(queue, m) ==
    IF m \in ToSet(queue) THEN RemoveAt(queue, CHOOSE i \in DOMAIN queue : queue[i] = m)
                          ELSE queue

\* Mutant of Queue: the queue is never cut.
QueueUncut(queue, m) == Append(Without(queue, m), m)

\* writePendingAppServerOwnerMessage: the last MaxPending messages, each once.
Queue(queue, m) ==
    LET all == Append(Without(queue, m), m)
    IN SubSeq(all, IF Len(all) > MaxPending THEN Len(all) - MaxPending + 1 ELSE 1, Len(all))

\* No bridge was connected when the handler looked: the message waits for one.
Wait(h) ==
    /\ Accept(h)
    /\ call[h].message \notin Maintenance
    /\ call[h].bridge = None
    /\ pending' = Queue(pending, call[h].message)
    /\ Finish(h)
    /\ Later
    /\ UNCHANGED <<sockets, sent>>

Forward(h) ==
    /\ Accept(h)
    /\ call[h].message \notin Maintenance
    /\ call[h].bridge # None
    /\ Goto(h, "dispatch")
    /\ Later
    /\ UNCHANGED <<pending, sockets, sent>>

\* sendSocket of a turn request: nothing happens on a socket that is not open.
Requested(c, m) == IF c \in Open THEN [turns EXCEPT ![c][m] = @ + 1] ELSE turns

Counted(count, c, m) == IF c \in Open THEN [count EXCEPT ![m] = @ + 1] ELSE count

Dispatch(h) ==
    LET m == call[h].message
        c == call[h].bridge
    IN
    /\ call[h].at = "dispatch"
    /\ turns' = Requested(c, m)
    /\ sent' = Counted(sent, c, m)
    /\ Finish(h)
    /\ UNCHANGED <<thread, storage, drain, retrying, conn, sends, acked, retries, resets, restarts>>

--------------------------------------------------------------------------------
(* Bridges. *)

\* acceptSocket, and the first step of drainPendingAppServerOwnerMessages: the
\* queue is read, and stays in storage.
Connect(c) ==
    /\ conn[c] = "new"
    /\ conn' = [conn EXCEPT ![c] = "open"]
    /\ drain' = [drain EXCEPT ![c].records = pending]
    /\ UNCHANGED <<thread, storage, call, retrying, turns, sends, acked, sent, retries, resets, restarts>>

\* Mutant of DrainNext: a record that could not be sent is not kept.
DrainForgetsUnsent(c) ==
    LET m == Head(drain[c].records)
        rest == Tail(drain[c].records)
    IN
    /\ drain[c].records # <<>>
    /\ turns' = Requested(c, m)
    /\ sent' = Counted(sent, c, m)
    /\ IF rest = <<>>
       THEN pending' = <<>> /\ drain' = [drain EXCEPT ![c] = Drained]
       ELSE pending' = pending /\ drain' = [drain EXCEPT ![c].records = rest]
    /\ UNCHANGED <<thread, accepted, retried, call, retrying, conn, sends, acked, retries, resets, restarts>>

\* The next record is dispatched, or kept when the socket is gone; after the last
\* one the records that were kept replace the queue.
DrainNext(c) ==
    LET m == Head(drain[c].records)
        rest == Tail(drain[c].records)
        kept == IF c \in Open THEN drain[c].remaining ELSE Append(drain[c].remaining, m)
    IN
    /\ drain[c].records # <<>>
    /\ turns' = Requested(c, m)
    /\ sent' = Counted(sent, c, m)
    /\ IF rest = <<>>
       THEN pending' = kept /\ drain' = [drain EXCEPT ![c] = Drained]
       ELSE pending' = pending /\ drain' = [drain EXCEPT ![c] = [records |-> rest, remaining |-> kept]]
    /\ UNCHANGED <<thread, accepted, retried, call, retrying, conn, sends, acked, retries, resets, restarts>>

\* What a bridge had not answered when its socket closed is never answered.
Closed(cs) ==
    /\ conn' = [c \in Connections |-> IF c \in cs THEN "closed" ELSE conn[c]]
    /\ turns' = [c \in Connections |-> IF c \in cs THEN [m \in Messages |-> 0] ELSE turns[c]]

Disconnect(c) ==
    /\ c \in Open
    /\ Closed({c})
    /\ UNCHANGED <<thread, storage, call, drain, retrying, sends, acked, sent, retries, resets, restarts>>

Answered(c, m) == turns' = [turns EXCEPT ![c][m] = @ - 1]

\* The bridge reports the end of a turn.
EndTurn(c, m) ==
    /\ turns[c][m] > 0
    /\ Answered(c, m)
    /\ UNCHANGED <<thread, storage, call, drain, retrying, conn, sends, acked, sent, retries, resets, restarts>>

\* Mutant of ContextReset: the retry leaves no record.
ContextResetUnrecorded(c, m) ==
    /\ turns[c][m] > 0
    /\ resets < MaxResets
    /\ resets' = resets + 1
    /\ Answered(c, m)
    /\ retried' = retried
    /\ retrying' = IF m \in retried THEN retrying ELSE retrying \cup {[bridge |-> c, message |-> m]}
    /\ UNCHANGED <<thread, accepted, pending, call, drain, conn, sends, acked, sent, retries, restarts>>

\* The bridge reports that the turn exceeded the context window: the message is
\* sent again on that socket, unless it was retried before.
ContextReset(c, m) ==
    /\ turns[c][m] > 0
    /\ resets < MaxResets
    /\ resets' = resets + 1
    /\ Answered(c, m)
    /\ retried' = retried \cup {m}
    /\ retrying' = IF m \in retried THEN retrying ELSE retrying \cup {[bridge |-> c, message |-> m]}
    /\ UNCHANGED <<thread, accepted, pending, call, drain, conn, sends, acked, sent, retries, restarts>>

DispatchRetry(r) ==
    /\ r \in retrying
    /\ retrying' = retrying \ {r}
    /\ turns' = Requested(r.bridge, r.message)
    /\ retries' = Counted(retries, r.bridge, r.message)
    /\ UNCHANGED <<thread, storage, call, drain, conn, sends, acked, sent, resets, restarts>>

\* The object is restarted: its handlers and sockets are gone, its storage is not.
Restart ==
    /\ restarts < MaxRestarts
    /\ restarts' = restarts + 1
    /\ call' = [h \in Calls |-> Quiet]
    /\ drain' = [c \in Connections |-> Drained]
    /\ retrying' = {}
    /\ Closed(Open)
    /\ UNCHANGED <<thread, storage, sends, acked, sent, retries, resets>>

CallStep(h) ==
    \/ Lookup(h)
    \/ \E c \in Connections \cup {None} : Resolve(h, c)
    \/ Save(h)
    \/ AnswerInWorker(h)
    \/ Wait(h)
    \/ Forward(h)
    \/ Dispatch(h)

Next ==
    \/ \E h \in Calls :
        \/ \E m \in Messages : Receive(h, m)
        \/ CallStep(h)
        \/ Reject(h)
        \/ SaveFails(h)
    \/ \E c \in Connections :
        \/ Connect(c)
        \/ DrainNext(c)
        \/ Disconnect(c)
        \/ \E m \in Messages : EndTurn(c, m) \/ ContextReset(c, m)
    \/ \E r \in retrying : DispatchRetry(r)
    \/ Restart

Spec == Init /\ [][Next]_vars

--------------------------------------------------------------------------------
(* Properties. *)

TypeOK ==
    /\ thread \subseteq Messages /\ accepted \subseteq Messages
    /\ retried \subseteq Messages /\ acked \subseteq Messages
    /\ pending \in Seq(Messages) /\ Len(pending) <= MaxPending /\ IsInjective(pending)
    /\ call \in [Calls -> [at : CallSteps, message : Messages \cup {None},
                           bridge : Connections \cup {None}]]
    /\ drain \in [Connections -> [records : Seq(Messages), remaining : Seq(Messages)]]
    /\ retrying \subseteq [bridge : Connections, message : Messages]
    /\ conn \in [Connections -> {"new", "open", "closed"}]
    /\ turns \in [Connections -> [Messages -> Nat]]
    /\ {sent, retries} \subseteq [Messages -> Nat]
    /\ {sends, resets, restarts} \subseteq Nat

Waiting == ToSet(pending)

\* Whatever resends, errors, bridges and restarts come in between, a message that
\* the page was told is accepted, or that a bridge was asked to answer, is in the
\* chat store; and nothing the Worker answers itself ever reaches a bridge.
SavedFirst ==
    \A m \in Messages :
        /\ m \in acked \/ sent[m] > 0 => m \in thread
        /\ m \in Maintenance => sent[m] = 0

\* However often a message was sent to bridges and failed there, it is retried
\* with a fresh backend thread at most once.
RetriedOnce == \A m \in Messages : retries[m] <= 1

\* A message leaves the pending queue only for one of three reasons: a turn request
\* was sent for it, newer messages pushed it out of a full queue, or a drain that
\* had read the queue before the message was in it has replaced the queue.
LeavesWithReason ==
    [][\A m \in Waiting \ Waiting' :
          \/ sent'[m] > 0
          \/ Len(pending) = MaxPending /\ Len(pending') = MaxPending
          \/ \E c \in Connections :
                /\ drain[c].records # <<>> /\ drain'[c].records = <<>>
                /\ m \notin ToSet(drain[c].records \o drain[c].remaining)]_vars

\* A record that a drain holds is sent on an open socket or put back into the
\* queue; only a restart may drop it, and the queue in storage still has it then.
Held(c) == ToSet(drain[c].records) \cup ToSet(drain[c].remaining)

DrainKeeps ==
    [][\A c \in Connections : \A m \in Held(c) \ Held(c)' :
          \/ m \in Waiting'
          \/ restarts' > restarts /\ pending' = pending
          \/ c \in Open /\ sent'[m] = sent[m] + 1]_vars

\* "pending owner messages are not lost" over a restart of the bridge
\* (docs/development-strategy/issue-741-vps-local-helper-queue.md): one that waits
\* goes on waiting until a turn request is sent for it.
PendingNotLost == [][\A m \in Waiting \ Waiting' : sent'[m] > 0]_vars

\* A page that saw no acknowledgement sends the message again and leaves the
\* deduplication to the server (docs/development-strategy/
\* issue-450-websocket-only-reconnect-resend.md): one turn per message.
OneTurn == \A m \in Messages : sent[m] <= 1
================================================================================
