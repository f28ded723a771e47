------------------------ MODULE DashboardChatRoomProofs ------------------------
(***************************************************************************)
(* What holds of the chat room for any number of messages, handlers and    *)
(* connections, any queue length, and any number of resends and restarts.  *)
(***************************************************************************)
EXTENDS DashboardChatRoom, SequenceTheorems, TLAPS

--------------------------------------------------------------------------------
(* One retry per message.                                                  *)

\* The retries of a message that are about to be sent.
Coming(m) == {r \in retrying : r.message = m}

\* The record in storage comes first, and then there is one retry: to come, or
\* sent once at most.
RetryOfRecord ==
    /\ retries \in [Messages -> Nat]
    /\ retrying \subseteq [bridge : Connections, message : Messages]
    /\ \A m \in Messages :
          \/ m \notin retried /\ retries[m] = 0 /\ Coming(m) = {}
          \/ m \in retried /\ retries[m] = 0 /\ \E r \in Coming(m) : Coming(m) = {r}
          \/ m \in retried /\ retries[m] <= 1 /\ Coming(m) = {}

LEMMA InitRetry == Init => RetryOfRecord
  BY DEF Init, RetryOfRecord, Coming

LEMMA NextRetry == RetryOfRecord /\ [Next]_vars => RetryOfRecord'
  <1> SUFFICES ASSUME RetryOfRecord, [Next]_vars
               PROVE  RetryOfRecord'
    OBVIOUS
  <1>1. CASE UNCHANGED <<retries, retrying, retried>>
    BY <1>1 DEF RetryOfRecord, Coming
  <1>2. ASSUME NEW c \in Connections, NEW m \in Messages, ContextReset(c, m)
        PROVE  RetryOfRecord'
    <2> DEFINE r == [bridge |-> c, message |-> m]
    <2>1. /\ retries' = retries /\ retried' = retried \cup {m}
          /\ retrying' = IF m \in retried THEN retrying ELSE retrying \cup {r}
      BY <1>2 DEF ContextReset
    <2>2. CASE m \in retried
      BY <2>1, <2>2 DEF RetryOfRecord, Coming
    <2>3. CASE m \notin retried
      <3>1. Coming(m) = {} /\ retries[m] = 0
        BY <2>3 DEF RetryOfRecord
      <3>2. Coming(m)' = {r}
        BY <2>1, <2>3, <3>1 DEF Coming
      <3>3. \A n \in Messages \ {m} : Coming(n)' = Coming(n)
        BY <2>1, <2>3 DEF Coming
      <3>4. r \in [bridge : Connections, message : Messages]
        OBVIOUS
      <3> HIDE DEF r
      <3> QED
        BY <2>1, <2>3, <3>1, <3>2, <3>3, <3>4 DEF RetryOfRecord
    <2> QED
      BY <2>2, <2>3
  <1>3. ASSUME NEW r \in retrying, DispatchRetry(r)
        PROVE  RetryOfRecord'
    <2>1. r.message \in Messages /\ r \in Coming(r.message)
      BY DEF RetryOfRecord, Coming
    <2>2. /\ retrying' = retrying \ {r} /\ retried' = retried
          /\ \/ retries' = retries
             \/ retries' = [retries EXCEPT ![r.message] = @ + 1]
      BY <1>3 DEF DispatchRetry, Counted, storage
    <2>3. /\ r.message \in retried /\ retries[r.message] = 0 /\ Coming(r.message) = {r}
      BY <2>1 DEF RetryOfRecord
    <2>4. Coming(r.message)' = {}
      BY <2>2, <2>3 DEF Coming
    <2>5. \A n \in Messages \ {r.message} : Coming(n)' = Coming(n)
      BY <2>2 DEF Coming
    <2>6. /\ retries' \in [Messages -> Nat] /\ retries'[r.message] <= 1
          /\ \A n \in Messages \ {r.message} : retries'[n] = retries[n]
      BY <2>1, <2>2, <2>3 DEF RetryOfRecord
    <2> QED
      BY <2>1, <2>2, <2>3, <2>4, <2>5, <2>6 DEF RetryOfRecord
  <1>4. CASE Restart
    <2>1. retrying' = {} /\ retries' = retries /\ retried' = retried
      BY <1>4 DEF Restart, storage
    <2> QED
      BY <2>1 DEF RetryOfRecord, Coming
  <1>5. ASSUME NEW h \in Calls,
               (\E m \in Messages : Receive(h, m)) \/ CallStep(h) \/ Reject(h) \/ SaveFails(h)
        PROVE  UNCHANGED <<retries, retrying, retried>>
    BY <1>5 DEF Receive, CallStep, Lookup, Resolve, Save, AnswerInWorker, Wait, Forward, Dispatch,
       Reject, SaveFails, Later, storage
  <1>6. ASSUME NEW c \in Connections,
               \/ Connect(c) \/ DrainNext(c) \/ Disconnect(c)
               \/ \E m \in Messages : EndTurn(c, m)
        PROVE  UNCHANGED <<retries, retrying, retried>>
    BY <1>6 DEF Connect, DrainNext, Disconnect, EndTurn, storage
  <1> QED
    BY <1>1, <1>2, <1>3, <1>4, <1>5, <1>6 DEF Next, vars, storage

\* However often a message was sent to bridges and failed there, it is retried
\* with a fresh backend thread at most once.
THEOREM OneRetry == Spec => []RetriedOnce
  <1>1. RetryOfRecord => RetriedOnce
    BY DEF RetryOfRecord, RetriedOnce
  <1> QED
    BY <1>1, InitRetry, NextRetry, PTL DEF Spec

--------------------------------------------------------------------------------
(* Saved first.                                                            *)

\* The messages a bridge may be asked to answer.
Savable == thread \ Maintenance

\* Wherever a message is on its way to a bridge, it is saved.
SavedOnTheWay ==
    /\ accepted \subseteq thread /\ acked \subseteq thread /\ thread \subseteq Messages
    /\ sent \in [Messages -> Nat]
    /\ \A m \in Messages : sent[m] > 0 => m \in Savable
    /\ pending \in Seq(Savable)
    /\ drain \in [Connections -> [records : Seq(Savable), remaining : Seq(Savable)]]
    /\ call \in [Calls -> [at : CallSteps, message : Messages \cup {None},
                            bridge : Connections \cup {None}]]
    /\ \A h \in Calls :
          /\ call[h].at # "idle" => call[h].message \in Messages
          /\ call[h].at = "stored" => call[h].message \in thread
          /\ call[h].at = "dispatch" => call[h].message \in Savable

LEMMA InitSaved == Init => SavedOnTheWay
  BY DEF Init, SavedOnTheWay, Savable, Drained, Quiet, CallSteps

LEMMA RemoveSaved ==
  ASSUME NEW S, NEW q \in Seq(S), NEW i \in 1 .. Len(q)
  PROVE  RemoveAt(q, i) \in Seq(S)
  <1>1. i \in Int /\ Len(q) \in Nat /\ \A j \in 1 .. Len(q) : q[j] \in S
    OBVIOUS
  <1>2. ASSUME NEW j \in 1 .. i - 1
        PROVE  q[j] \in S
    <2>1. j \in 1 .. Len(q)
      BY <1>1
    <2> QED
      BY <1>1, <2>1
  <1>3. ASSUME NEW j \in i + 1 .. Len(q)
        PROVE  q[j] \in S
    <2>1. j \in 1 .. Len(q)
      BY <1>1
    <2> QED
      BY <1>1, <2>1
  <1>4. SubSeq(q, 1, i - 1) \in Seq(S)
    BY <1>1, <1>2, SubSeqProperties
  <1>5. SubSeq(q, i + 1, Len(q)) \in Seq(S)
    BY <1>1, <1>3, SubSeqProperties
  <1> QED
    BY <1>4, <1>5, ConcatProperties DEF RemoveAt

\* A queue of saved messages stays one: when it is cut and extended by one of them.
LEMMA QueueSaved ==
  ASSUME NEW S, NEW q \in Seq(S), NEW m \in S
  PROVE  Queue(q, m) \in Seq(S)
  <1>1. Without(q, m) \in Seq(S)
    <2>1. CASE m \in ToSet(q)
      <3> DEFINE i == CHOOSE i \in DOMAIN q : q[i] = m
      <3>1. i \in 1 .. Len(q)
        BY <2>1 DEF ToSet
      <3> HIDE DEF i
      <3>2. RemoveAt(q, i) \in Seq(S)
        BY <3>1, RemoveSaved
      <3> QED
        BY <2>1, <3>2 DEF Without, i
    <2> QED
      BY <2>1 DEF Without
  <1> DEFINE all == Append(Without(q, m), m)
  <1>2. all \in Seq(S) /\ Len(all) \in Nat
    BY <1>1
  <1> HIDE DEF all
  <1>3. SubSeq(all, 1, Len(all)) \in Seq(S)
    BY <1>2, SubSeqProperties
  <1>4. Len(all) > MaxPending => SubSeq(all, Len(all) - MaxPending + 1, Len(all)) \in Seq(S)
    BY <1>2, RoomAssumption, SubSeqProperties
  <1> QED
    BY <1>3, <1>4 DEF Queue, all

\* A step in which the store only grows and nothing new is on its way.
LEMMA SavedGrows ==
  ASSUME SavedOnTheWay, thread \subseteq thread', thread' \subseteq Messages
  PROVE  Savable \subseteq Savable' /\ Seq(Savable) \subseteq Seq(Savable')
  BY SeqMonotonic DEF Savable

\* A handler's record after a step of its.
LEMMA CallMoves ==
  ASSUME SavedOnTheWay, NEW h \in Calls, thread \subseteq thread',
         NEW v \in [at : CallSteps, message : Messages \cup {None},
                    bridge : Connections \cup {None}],
         v.at # "idle" => v.message \in Messages,
         v.at = "stored" => v.message \in thread',
         v.at = "dispatch" => v.message \in Savable',
         call' = [call EXCEPT ![h] = v]
  PROVE  /\ call' \in [Calls -> [at : CallSteps, message : Messages \cup {None},
                                 bridge : Connections \cup {None}]]
         /\ \A g \in Calls :
               /\ call'[g].at # "idle" => call'[g].message \in Messages
               /\ call'[g].at = "stored" => call'[g].message \in thread'
               /\ call'[g].at = "dispatch" => call'[g].message \in Savable'
  BY DEF SavedOnTheWay, Savable

\* The steps of a handler, and the page's message that starts it.
LEMMA CallSaved ==
  ASSUME SavedOnTheWay, NEW h \in Calls,
         (\E m \in Messages : Receive(h, m)) \/ CallStep(h) \/ Reject(h) \/ SaveFails(h)
  PROVE  SavedOnTheWay'
  <1> DEFINE old == call[h]
             CallType == [at : CallSteps, message : Messages \cup {None},
                          bridge : Connections \cup {None}]
             Fits(v) == /\ v \in CallType
                        /\ v.at # "idle" => v.message \in Messages
                        /\ v.at = "stored" => v.message \in thread'
                        /\ v.at = "dispatch" => v.message \in Savable'
  <1>1. /\ old \in CallType
        /\ old.at # "idle" => old.message \in Messages
        /\ old.at = "stored" => old.message \in thread
        /\ old.at = "dispatch" => old.message \in Savable
    BY DEF SavedOnTheWay
  <1>2. thread \subseteq thread' /\ thread' \subseteq Messages
    BY <1>1 DEF Receive, CallStep, Lookup, Resolve, Save, AnswerInWorker, Wait, Forward, Dispatch,
       Reject, SaveFails, Later, SavedOnTheWay
  <1>3. Savable \subseteq Savable' /\ Seq(Savable) \subseteq Seq(Savable')
    BY <1>2, SavedGrows
  <1>4. Fits(Quiet)
    BY DEF Quiet, CallSteps
  <1>5. \E v : Fits(v) /\ call' = [call EXCEPT ![h] = v]
    <2>1. CASE Finish(h)
      BY <2>1, <1>4 DEF Finish
    <2>2. CASE \E m \in Messages : Receive(h, m)
      <3>1. PICK m \in Messages : Receive(h, m)
        BY <2>2
      <3>2. CASE call' = call
        BY <3>1, <3>2, <1>1 DEF Receive, SavedOnTheWay
      <3>3. CASE call' # call
        <4> DEFINE v == [old EXCEPT !.at = "lookup", !.message = m]
        <4>1. Fits(v)
          BY <1>1 DEF CallSteps
        <4>2. call' = [call EXCEPT ![h] = v]
          BY <3>1, <3>3 DEF Receive
        <4> QED
          BY <4>1, <4>2
      <3> QED
        BY <3>2, <3>3
    <2>3. CASE \E c \in Connections \cup {None} : Resolve(h, c)
      <3>1. PICK c \in Connections \cup {None} : Resolve(h, c)
        BY <2>3
      <3> DEFINE v == [old EXCEPT !.at = "save", !.bridge = c]
      <3>2. Fits(v)
        BY <1>1, <3>1 DEF CallSteps, Resolve
      <3>3. call' = [call EXCEPT ![h] = v]
        BY <3>1 DEF Resolve
      <3> QED
        BY <3>2, <3>3
    <2>4. CASE Lookup(h) /\ ~Finish(h)
      <3> DEFINE v == [old EXCEPT !.at = "resolve"]
      <3>1. Fits(v)
        BY <1>1, <2>4 DEF CallSteps, Lookup
      <3>2. call' = [call EXCEPT ![h] = v]
        BY <2>4 DEF Lookup, Goto
      <3> QED
        BY <3>1, <3>2
    <2>5. CASE Save(h)
      <3> DEFINE v == [old EXCEPT !.at = "stored"]
      <3>1. Fits(v)
        BY <1>1, <2>5 DEF CallSteps, Save
      <3>2. call' = [call EXCEPT ![h] = v]
        BY <2>5 DEF Save, Goto
      <3> QED
        BY <3>1, <3>2
    <2>6. CASE Forward(h)
      <3> DEFINE v == [old EXCEPT !.at = "dispatch"]
      <3>1. Fits(v)
        BY <1>1, <1>3, <2>6 DEF CallSteps, Forward, Accept, Savable
      <3>2. call' = [call EXCEPT ![h] = v]
        BY <2>6 DEF Forward, Goto
      <3> QED
        BY <3>1, <3>2
    <2> QED
      BY <2>1, <2>2, <2>3, <2>4, <2>5, <2>6 DEF CallStep, AnswerInWorker, Wait, Dispatch, Reject,
         SaveFails
  <1>6. /\ call' \in [Calls -> CallType]
        /\ \A g \in Calls :
              /\ call'[g].at # "idle" => call'[g].message \in Messages
              /\ call'[g].at = "stored" => call'[g].message \in thread'
              /\ call'[g].at = "dispatch" => call'[g].message \in Savable'
    BY <1>2, <1>5, CallMoves
  <1>7. accepted' \subseteq thread' /\ acked' \subseteq thread'
    <2>1. CASE AnswerInWorker(h) \/ Wait(h) \/ Forward(h)
      BY <1>1, <1>2, <2>1 DEF AnswerInWorker, Wait, Forward, Accept, SavedOnTheWay
    <2>2. CASE \/ \E m \in Messages : Receive(h, m)
               \/ Lookup(h) \/ Save(h) \/ Dispatch(h) \/ Reject(h) \/ SaveFails(h)
               \/ \E c \in Connections \cup {None} : Resolve(h, c)
      BY <1>1, <1>2, <2>2 DEF Receive, Lookup, Save, Dispatch, Reject, SaveFails, Resolve,
         SavedOnTheWay, storage
    <2> QED
      BY <2>1, <2>2 DEF CallStep
  <1>8. sent' \in [Messages -> Nat] /\ \A m \in Messages : sent'[m] > 0 => m \in Savable'
    <2>1. CASE sent' = sent
      BY <1>3, <2>1 DEF SavedOnTheWay
    <2>2. CASE sent' # sent
      <3>1. old.message \in Savable /\ sent' = [sent EXCEPT ![old.message] = @ + 1]
        BY <1>1, <2>2 DEF Receive, CallStep, Lookup, Resolve, Save, AnswerInWorker, Wait, Forward,
           Dispatch, Reject, SaveFails, Later, Counted
      <3>2. sent' \in [Messages -> Nat] /\ \A m \in Messages \ {old.message} : sent'[m] = sent[m]
        BY <3>1 DEF SavedOnTheWay, Savable
      <3> QED
        BY <1>3, <3>1, <3>2 DEF SavedOnTheWay
    <2> QED
      BY <2>1, <2>2
  <1>9. pending' \in Seq(Savable')
    <2>1. CASE Wait(h)
      <3>1. old.message \in Savable /\ pending \in Seq(Savable)
        BY <1>1, <2>1 DEF Wait, Accept, Savable, SavedOnTheWay
      <3>2. pending' = Queue(pending, old.message)
        BY <2>1 DEF Wait
      <3> QED
        BY <1>3, <3>1, <3>2, QueueSaved
    <2>2. CASE ~Wait(h)
      <3>1. pending' = pending
        BY <2>2 DEF Receive, CallStep, Lookup, Resolve, Save, AnswerInWorker, Forward, Dispatch,
           Reject, SaveFails, storage
      <3> QED
        BY <1>3, <3>1 DEF SavedOnTheWay
    <2> QED
      BY <2>1, <2>2
  <1>10. drain' \in [Connections -> [records : Seq(Savable'), remaining : Seq(Savable')]]
    <2>1. drain' = drain
      BY DEF Receive, CallStep, Lookup, Resolve, Save, AnswerInWorker, Wait, Forward, Dispatch,
         Reject, SaveFails, Later
    <2> QED
      BY <1>3, <2>1 DEF SavedOnTheWay
  <1> QED
    BY <1>2, <1>6, <1>7, <1>8, <1>9, <1>10 DEF SavedOnTheWay

\* The steps in which a bridge's drain sends one more of the saved messages.
LEMMA DrainSaved ==
  ASSUME SavedOnTheWay, NEW c \in Connections, DrainNext(c)
  PROVE  SavedOnTheWay'
  <1> DEFINE records == drain[c].records
             m == Head(records)
             rest == Tail(records)
             kept == IF c \in Open THEN drain[c].remaining ELSE Append(drain[c].remaining, m)
             Work == [records : Seq(Savable), remaining : Seq(Savable)]
  <1>1. drain[c] \in Work /\ records # <<>>
    BY DEF SavedOnTheWay, DrainNext
  <1>2. records \in Seq(Savable) /\ drain[c].remaining \in Seq(Savable)
    BY <1>1
  <1>3. m \in Savable /\ rest \in Seq(Savable)
    BY <1>1, <1>2, HeadTailProperties
  <1>4. kept \in Seq(Savable)
    BY <1>2, <1>3, AppendProperties
  <1>5. Drained \in Work
    BY DEF Drained
  <1>6. \/ pending' = kept /\ drain' = [drain EXCEPT ![c] = Drained]
        \/ pending' = pending /\ drain' = [drain EXCEPT ![c] = [records |-> rest, remaining |-> kept]]
    BY DEF DrainNext
  <1>7. UNCHANGED <<thread, accepted, acked, call>>
    BY DEF DrainNext
  <1>8. sent' = sent \/ sent' = [sent EXCEPT ![m] = @ + 1]
    BY DEF DrainNext, Counted
  <1> HIDE DEF m, rest, kept
  <1>9. sent' \in [Messages -> Nat] /\ \A n \in Messages : sent'[n] > 0 => n \in Savable
    <2>1. CASE sent' = [sent EXCEPT ![m] = @ + 1]
      <3>1. sent' \in [Messages -> Nat] /\ \A n \in Messages \ {m} : sent'[n] = sent[n]
        BY <1>3, <2>1 DEF SavedOnTheWay, Savable
      <3> QED
        BY <1>3, <3>1 DEF SavedOnTheWay
    <2> QED
      BY <1>8, <2>1 DEF SavedOnTheWay
  <1>10. pending' \in Seq(Savable)
    BY <1>4, <1>6 DEF SavedOnTheWay
  <1>11. drain' \in [Connections -> Work]
    <2> DEFINE left == [records |-> rest, remaining |-> kept]
    <2>1. left \in Work
      BY <1>3, <1>4
    <2>2. drain \in [Connections -> Work]
      BY DEF SavedOnTheWay
    <2>3. \/ drain' = [drain EXCEPT ![c] = Drained]
          \/ drain' = [drain EXCEPT ![c] = left]
      BY <1>6
    <2> HIDE DEF left, Work
    <2> QED
      BY <1>5, <2>1, <2>2, <2>3
  <1>12. Savable' = Savable
    BY <1>7 DEF Savable
  <1> QED
    BY <1>7, <1>9, <1>10, <1>11, <1>12 DEF SavedOnTheWay

LEMMA NextSaved == SavedOnTheWay /\ [Next]_vars => SavedOnTheWay'
  <1> SUFFICES ASSUME SavedOnTheWay, [Next]_vars
               PROVE  SavedOnTheWay'
    OBVIOUS
  <1> DEFINE Work == [records : Seq(Savable), remaining : Seq(Savable)]
  <1>1. ASSUME UNCHANGED <<thread, accepted, pending, acked, sent>>,
               call' = call \/ call' = [h \in Calls |-> Quiet],
               drain' \in [Connections -> Work]
        PROVE  SavedOnTheWay'
    <2>1. Savable' = Savable
      BY <1>1 DEF Savable
    <2>2. CASE call' = call
      BY <1>1, <2>1, <2>2 DEF SavedOnTheWay
    <2>3. CASE call' = [h \in Calls |-> Quiet]
      BY <1>1, <2>1, <2>3 DEF SavedOnTheWay, Quiet, CallSteps
    <2> QED
      BY <1>1, <2>2, <2>3
  <1>2. drain \in [Connections -> Work] /\ pending \in Seq(Savable)
    BY DEF SavedOnTheWay
  <1>3. ASSUME NEW h \in Calls,
               (\E m \in Messages : Receive(h, m)) \/ CallStep(h) \/ Reject(h) \/ SaveFails(h)
        PROVE  SavedOnTheWay'
    BY <1>3, CallSaved
  <1>4. ASSUME NEW c \in Connections, Connect(c)
        PROVE  SavedOnTheWay'
    <2>1. drain' = [drain EXCEPT ![c] = [@ EXCEPT !.records = pending]]
      BY <1>4 DEF Connect
    <2>2. drain' \in [Connections -> Work]
      BY <1>2, <2>1
    <2> QED
      BY <1>1, <1>4, <2>2 DEF Connect, storage
  <1>5. ASSUME NEW c \in Connections, DrainNext(c)
        PROVE  SavedOnTheWay'
    BY <1>5, DrainSaved
  <1>6. ASSUME NEW c \in Connections,
               Disconnect(c) \/ \E m \in Messages : EndTurn(c, m) \/ ContextReset(c, m)
        PROVE  SavedOnTheWay'
    BY <1>1, <1>2, <1>6 DEF Disconnect, EndTurn, ContextReset, storage
  <1>7. ASSUME NEW r \in retrying, DispatchRetry(r)
        PROVE  SavedOnTheWay'
    BY <1>1, <1>2, <1>7 DEF DispatchRetry, storage
  <1>8. CASE Restart
    <2>1. drain' = [c \in Connections |-> Drained] /\ Drained \in Work
      BY <1>8 DEF Restart, Drained
    <2>2. drain' \in [Connections -> Work]
      BY <2>1
    <2> QED
      BY <1>1, <1>8, <2>2 DEF Restart, storage
  <1>9. CASE UNCHANGED vars
    BY <1>1, <1>2, <1>9 DEF vars, storage
  <1> QED
    BY <1>3, <1>4, <1>5, <1>6, <1>7, <1>8, <1>9 DEF Next

\* No acknowledgement and no turn request goes out for a message that is not in
\* the chat store: a page may forget what was acknowledged, a bridge never
\* answers what the thread does not show.
THEOREM SavedBeforeSent == Spec => []SavedFirst
  <1>1. SavedOnTheWay => SavedFirst
    BY DEF SavedOnTheWay, SavedFirst, Savable
  <1> QED
    BY <1>1, InitSaved, NextSaved, PTL DEF Spec

--------------------------------------------------------------------------------
(* The pending queue: each message once, and never too many.               *)

LEMMA SetOfSeq ==
  ASSUME NEW S, NEW q \in Seq(S)
  PROVE  ToSet(q) = {q[i] : i \in 1 .. Len(q)} /\ ToSet(q) \subseteq S /\ Len(q) \in Nat
  <1>1. DOMAIN q = 1 .. Len(q) /\ Len(q) \in Nat /\ \A i \in 1 .. Len(q) : q[i] \in S
    BY LenProperties
  <1> QED
    BY <1>1 DEF ToSet

LEMMA InjectiveSeq ==
  ASSUME NEW S, NEW q \in Seq(S)
  PROVE  IsInjective(q) <=> \A i, j \in 1 .. Len(q) : q[i] = q[j] => i = j
  BY LenProperties DEF IsInjective

LEMMA RemoveAtElements ==
  ASSUME NEW S, NEW q \in Seq(S), NEW i \in 1 .. Len(q)
  PROVE  /\ RemoveAt(q, i) \in Seq(S) /\ Len(RemoveAt(q, i)) = Len(q) - 1
         /\ \A j \in 1 .. Len(q) - 1 : RemoveAt(q, i)[j] = q[IF j < i THEN j ELSE j + 1]
  <1> DEFINE a == SubSeq(q, 1, i - 1)
             b == SubSeq(q, i + 1, Len(q))
  <1>1. i \in Int /\ Len(q) \in Nat /\ 1 <= i /\ i <= Len(q) /\ \A j \in 1 .. Len(q) : q[j] \in S
    OBVIOUS
  <1>2. \A j \in 1 .. i - 1 : q[j] \in S
    <2> SUFFICES ASSUME NEW j \in 1 .. i - 1
                 PROVE  q[j] \in S
      OBVIOUS
    <2>1. j \in 1 .. Len(q)
      BY <1>1
    <2> QED
      BY <1>1, <2>1
  <1>3. \A j \in i + 1 .. Len(q) : q[j] \in S
    <2> SUFFICES ASSUME NEW j \in i + 1 .. Len(q)
                 PROVE  q[j] \in S
      OBVIOUS
    <2>1. j \in 1 .. Len(q)
      BY <1>1
    <2> QED
      BY <1>1, <2>1
  <1>4. /\ a \in Seq(S) /\ Len(a) = i - 1
        /\ \A j \in 1 .. i - 1 : a[j] = q[j]
    <2>1. /\ a \in Seq(S) /\ Len(a) = IF 1 <= i - 1 THEN (i - 1) - 1 + 1 ELSE 0
          /\ \A j \in 1 .. (i - 1) - 1 + 1 : a[j] = q[1 + j - 1]
      BY <1>1, <1>2, SubSeqProperties
    <2> HIDE DEF a
    <2> QED
      BY <1>1, <2>1
  <1>5. /\ b \in Seq(S) /\ Len(b) = Len(q) - i
        /\ \A j \in 1 .. Len(q) - i : b[j] = q[i + j]
    <2>1. /\ b \in Seq(S) /\ Len(b) = IF i + 1 <= Len(q) THEN Len(q) - (i + 1) + 1 ELSE 0
          /\ \A j \in 1 .. Len(q) - (i + 1) + 1 : b[j] = q[(i + 1) + j - 1]
      BY <1>1, <1>3, SubSeqProperties
    <2> HIDE DEF b
    <2> QED
      BY <1>1, <2>1
  <1>6. RemoveAt(q, i) = a \o b
    BY DEF RemoveAt
  <1> HIDE DEF a, b
  <1>7. /\ a \o b \in Seq(S) /\ Len(a \o b) = Len(a) + Len(b)
        /\ \A j \in 1 .. Len(a) + Len(b) :
              (a \o b)[j] = IF j <= Len(a) THEN a[j] ELSE b[j - Len(a)]
    BY <1>4, <1>5, ConcatProperties
  <1>8. Len(a) + Len(b) = Len(q) - 1
    BY <1>1, <1>4, <1>5
  <1>9. ASSUME NEW j \in 1 .. Len(q) - 1
        PROVE  (a \o b)[j] = q[IF j < i THEN j ELSE j + 1]
    <2>1. CASE j < i
      <3>1. j \in 1 .. i - 1 /\ j <= Len(a)
        BY <1>1, <1>4, <2>1
      <3> QED
        BY <1>4, <1>7, <1>8, <2>1, <3>1
    <2>2. CASE ~(j < i)
      <3>1. ~(j <= Len(a)) /\ j - Len(a) \in 1 .. Len(q) - i /\ i + (j - Len(a)) = j + 1
        BY <1>1, <1>4, <2>2
      <3> QED
        BY <1>5, <1>7, <1>8, <2>2, <3>1
    <2> QED
      BY <2>1, <2>2
  <1> QED
    BY <1>6, <1>7, <1>8, <1>9

\* The queue without a message.
LEMMA WithoutFacts ==
  ASSUME NEW q \in Seq(Messages), IsInjective(q), NEW m \in Messages
  PROVE  LET w == Without(q, m) IN
         /\ w \in Seq(Messages) /\ IsInjective(w) /\ ToSet(w) = ToSet(q) \ {m}
         /\ Len(w) <= Len(q) /\ (Len(w) = Len(q) => w = q)
  <1> DEFINE w == Without(q, m)
  <1>1. Len(q) \in Nat /\ \A i, j \in 1 .. Len(q) : q[i] = q[j] => i = j
    BY InjectiveSeq, SetOfSeq
  <1>2. ToSet(q) = {q[i] : i \in 1 .. Len(q)}
    BY SetOfSeq
  <1>3. CASE m \notin ToSet(q)
    <2>1. w = q
      BY <1>3 DEF Without
    <2> QED
      BY <1>1, <1>3, <2>1
  <1>4. CASE m \in ToSet(q)
    <2> DEFINE i == CHOOSE i \in DOMAIN q : q[i] = m
    <2>1. i \in 1 .. Len(q) /\ q[i] = m
      BY <1>4, LenProperties DEF ToSet
    <2>2. w = RemoveAt(q, i)
      BY <1>4 DEF Without
    <2> HIDE DEF w, i
    <2>3. /\ w \in Seq(Messages) /\ Len(w) = Len(q) - 1
          /\ \A j \in 1 .. Len(q) - 1 : w[j] = q[IF j < i THEN j ELSE j + 1]
      BY <2>1, <2>2, RemoveAtElements
    <2> DEFINE at(j) == IF j < i THEN j ELSE j + 1
    <2>4. \A j \in 1 .. Len(w) : at(j) \in 1 .. Len(q) /\ at(j) # i
      BY <1>1, <2>1, <2>3
    <2>5. \A j, k \in 1 .. Len(w) : at(j) = at(k) => j = k
      BY <1>1, <2>1, <2>3
    <2>6. \A j \in 1 .. Len(w) : w[j] = q[at(j)]
      BY <2>3
    <2>7. \A k \in 1 .. Len(q) : k # i => \E j \in 1 .. Len(w) : at(j) = k
      <3> SUFFICES ASSUME NEW k \in 1 .. Len(q), k # i
                   PROVE  \E j \in 1 .. Len(w) : at(j) = k
        OBVIOUS
      <3>1. CASE k < i
        BY <1>1, <2>1, <2>3, <3>1
      <3>2. CASE k > i
        <4>1. k - 1 \in 1 .. Len(w) /\ at(k - 1) = k
          BY <1>1, <2>1, <2>3, <3>2
        <4> QED
          BY <4>1
      <3> QED
        BY <2>1, <3>1, <3>2
    <2> HIDE DEF at
    <2>8. \A j, k \in 1 .. Len(w) : w[j] = w[k] => j = k
      BY <1>1, <2>4, <2>5, <2>6
    <2>9. IsInjective(w)
      BY <2>3, <2>8, InjectiveSeq
    <2>10. ToSet(w) = {w[j] : j \in 1 .. Len(w)}
      BY <2>3, SetOfSeq
    <2>11. ToSet(w) \subseteq ToSet(q) \ {m}
      BY <1>1, <1>2, <2>1, <2>4, <2>6, <2>10
    <2>12. ToSet(q) \ {m} \subseteq ToSet(w)
      BY <1>2, <2>1, <2>6, <2>7, <2>10
    <2>13. Len(w) < Len(q)
      BY <1>1, <2>3
    <2> QED
      BY <1>1, <2>3, <2>9, <2>11, <2>12, <2>13 DEF w
  <1> QED
    BY <1>3, <1>4

LEMMA AppendFacts ==
  ASSUME NEW q \in Seq(Messages), IsInjective(q), NEW m \in Messages, m \notin ToSet(q)
  PROVE  /\ Append(q, m) \in Seq(Messages) /\ IsInjective(Append(q, m))
         /\ ToSet(Append(q, m)) = ToSet(q) \cup {m}
         /\ Len(Append(q, m)) = Len(q) + 1 /\ Append(q, m)[Len(q) + 1] = m
  <1> DEFINE a == Append(q, m)
  <1>1. Len(q) \in Nat /\ \A i, j \in 1 .. Len(q) : q[i] = q[j] => i = j
    BY InjectiveSeq, SetOfSeq
  <1>2. /\ a \in Seq(Messages) /\ Len(a) = Len(q) + 1 /\ a[Len(q) + 1] = m
        /\ \A i \in 1 .. Len(q) : a[i] = q[i]
    BY AppendProperties
  <1> HIDE DEF a
  <1>3. ToSet(q) = {q[i] : i \in 1 .. Len(q)} /\ ToSet(a) = {a[i] : i \in 1 .. Len(a)}
    BY <1>2, SetOfSeq
  <1>4. \A i \in 1 .. Len(a) : i \in 1 .. Len(q) \/ i = Len(q) + 1
    BY <1>1, <1>2
  <1>5. \A i \in 1 .. Len(q) : i \in 1 .. Len(a) /\ q[i] # m
    BY <1>1, <1>2, <1>3
  <1>6. Len(q) + 1 \in 1 .. Len(a)
    BY <1>1, <1>2
  <1>7. ToSet(a) = ToSet(q) \cup {m}
    BY <1>2, <1>3, <1>4, <1>5, <1>6
  <1>8. \A i, j \in 1 .. Len(a) : a[i] = a[j] => i = j
    BY <1>1, <1>2, <1>4, <1>5
  <1>9. IsInjective(a)
    BY <1>2, <1>8, InjectiveSeq
  <1> QED
    BY <1>2, <1>7, <1>9 DEF a

\* The last messages of a queue.
LEMMA SuffixFacts ==
  ASSUME NEW q \in Seq(Messages), IsInjective(q), NEW k \in 1 .. Len(q)
  PROVE  LET s == SubSeq(q, k, Len(q)) IN
         /\ s \in Seq(Messages) /\ IsInjective(s) /\ Len(s) = Len(q) - k + 1
         /\ q[Len(q)] \in ToSet(s) /\ (k = 1 => s = q)
  <1> DEFINE s == SubSeq(q, k, Len(q))
  <1>1. Len(q) \in Nat /\ k \in Int /\ 1 <= k /\ k <= Len(q)
        /\ \A i, j \in 1 .. Len(q) : q[i] = q[j] => i = j
    BY InjectiveSeq, SetOfSeq
  <1>2. \A i \in k .. Len(q) : i \in 1 .. Len(q)
    BY <1>1
  <1>3. \A i \in k .. Len(q) : q[i] \in Messages
    BY <1>2, ElementOfSeq
  <1>4. /\ s \in Seq(Messages) /\ Len(s) = Len(q) - k + 1
        /\ \A i \in 1 .. Len(q) - k + 1 : s[i] = q[k + i - 1]
    BY <1>1, <1>3, SubSeqProperties
  <1>5. k = 1 => s = q
    BY SubSeqFull
  <1> HIDE DEF s
  <1>6. \A i \in 1 .. Len(s) : k + i - 1 \in 1 .. Len(q)
    BY <1>1, <1>4
  <1>7. \A i, j \in 1 .. Len(s) : k + i - 1 = k + j - 1 => i = j
    BY <1>1, <1>4
  <1>8. \A i, j \in 1 .. Len(s) : s[i] = s[j] => i = j
    BY <1>1, <1>4, <1>6, <1>7
  <1>9. IsInjective(s)
    BY <1>4, <1>8, InjectiveSeq
  <1>10. Len(s) \in 1 .. Len(s) /\ k + Len(s) - 1 = Len(q)
    BY <1>1, <1>4
  <1>11. q[Len(q)] \in ToSet(s)
    BY <1>4, <1>10, SetOfSeq
  <1> QED
    BY <1>4, <1>5, <1>9, <1>11 DEF s

\* A queue that can be in storage.
IsQueue(q) == q \in Seq(Messages) /\ Len(q) <= MaxPending /\ IsInjective(q)

\* A message is queued once, and pushes others out only of a queue that is full.
LEMMA QueueFacts ==
  ASSUME NEW q, IsQueue(q), NEW m \in Messages
  PROVE  /\ IsQueue(Queue(q, m))
         /\ \A n \in ToSet(q) \ ToSet(Queue(q, m)) :
               Len(q) = MaxPending /\ Len(Queue(q, m)) = MaxPending
  <1> DEFINE w == Without(q, m)
             all == Append(w, m)
             k == IF Len(all) > MaxPending THEN Len(all) - MaxPending + 1 ELSE 1
  <1>1. q \in Seq(Messages) /\ Len(q) <= MaxPending /\ IsInjective(q) /\ Len(q) \in Nat
        /\ MaxPending \in Nat \ {0}
    BY RoomAssumption, SetOfSeq DEF IsQueue
  <1>2. /\ w \in Seq(Messages) /\ IsInjective(w) /\ ToSet(w) = ToSet(q) \ {m}
        /\ Len(w) <= Len(q) /\ (Len(w) = Len(q) => w = q) /\ Len(w) \in Nat
    BY <1>1, WithoutFacts, SetOfSeq
  <1> HIDE DEF w
  <1>3. m \notin ToSet(w)
    BY <1>2
  <1>4. /\ all \in Seq(Messages) /\ IsInjective(all) /\ ToSet(all) = ToSet(w) \cup {m}
        /\ Len(all) = Len(w) + 1 /\ all[Len(w) + 1] = m
    BY <1>2, <1>3, AppendFacts
  <1>5. Queue(q, m) = SubSeq(all, k, Len(all))
    BY DEF Queue, w
  <1> HIDE DEF all
  <1>6. k \in 1 .. Len(all) /\ Len(all) - k + 1 <= MaxPending
        /\ (k # 1 => Len(w) = Len(q) /\ Len(q) = MaxPending /\ Len(all) - k + 1 = MaxPending)
    BY <1>1, <1>2, <1>4
  <1> HIDE DEF k
  <1>7. /\ Queue(q, m) \in Seq(Messages) /\ IsInjective(Queue(q, m))
        /\ Len(Queue(q, m)) = Len(all) - k + 1
        /\ m \in ToSet(Queue(q, m)) /\ (k = 1 => Queue(q, m) = all)
    BY <1>4, <1>5, <1>6, SuffixFacts
  <1>8. IsQueue(Queue(q, m))
    BY <1>6, <1>7 DEF IsQueue
  <1>9. ASSUME NEW n \in ToSet(q) \ ToSet(Queue(q, m))
        PROVE  k # 1
    BY <1>2, <1>4, <1>7, <1>9
  <1> QED
    BY <1>6, <1>7, <1>8, <1>9

--------------------------------------------------------------------------------
(* The queue, the drains and the sockets.                                  *)

\* What a drain still has to send and what it keeps are parts of one queue.
DrainFits(d) ==
    /\ d.records \in Seq(Messages) /\ d.remaining \in Seq(Messages)
    /\ IsInjective(d.records) /\ IsInjective(d.remaining)
    /\ ToSet(d.records) \cap ToSet(d.remaining) = {}
    /\ Len(d.records) + Len(d.remaining) <= MaxPending

TurnCounts == [Connections -> [Messages -> Nat]]

RoomFits ==
    /\ retried \subseteq Messages
    /\ IsQueue(pending)
    /\ \A c \in Connections : DrainFits(drain[c]) /\ (conn[c] = "new" => drain[c] = Drained)
    /\ conn \in [Connections -> {"new", "open", "closed"}]
    /\ turns \in TurnCounts
    /\ sends \in Nat /\ resets \in Nat /\ restarts \in Nat

LEMMA DrainedFits == DrainFits(Drained)
  <1>1. Drained.records = << >> /\ Drained.remaining = << >>
    BY DEF Drained
  <1>2. << >> \in Seq(Messages) /\ Len(<< >>) = 0 /\ ToSet(<< >>) = {} /\ IsInjective(<< >>)
    BY DEF ToSet, IsInjective
  <1> QED
    BY <1>1, <1>2, RoomAssumption DEF DrainFits

LEMMA InitFits == Init => RoomFits
  <1> SUFFICES ASSUME Init
               PROVE  RoomFits
    OBVIOUS
  <1>1. IsQueue(pending)
    <2>1. pending = << >> /\ << >> \in Seq(Messages) /\ Len(<< >>) = 0 /\ IsInjective(<< >>)
      BY DEF Init, IsInjective
    <2> QED
      BY <2>1, RoomAssumption DEF IsQueue
  <1>2. \A c \in Connections : drain[c] = Drained
    BY DEF Init
  <1>3. conn \in [Connections -> {"new", "open", "closed"}] /\ turns \in TurnCounts
    BY DEF Init, TurnCounts
  <1>4. retried \subseteq Messages /\ sends \in Nat /\ resets \in Nat /\ restarts \in Nat
    BY DEF Init
  <1> QED
    BY <1>1, <1>2, <1>3, <1>4, DrainedFits DEF RoomFits

LEMMA RequestedCounts ==
  ASSUME turns \in TurnCounts, NEW c, NEW m \in Messages
  PROVE  Requested(c, m) \in TurnCounts
  BY DEF Requested, TurnCounts, Open

LEMMA ClosedFits ==
  ASSUME RoomFits, NEW cs, Closed(cs)
  PROVE  /\ conn' \in [Connections -> {"new", "open", "closed"}] /\ turns' \in TurnCounts
         /\ \A c \in Connections : conn'[c] = "new" => conn[c] = "new"
  BY DEF RoomFits, Closed, TurnCounts

\* The messages of a handler, a drain and a retry.
LEMMA MessageOfCall ==
  ASSUME SavedOnTheWay, NEW h \in Calls, call[h].at # "idle"
  PROVE  call[h].message \in Messages
  BY DEF SavedOnTheWay

LEMMA CallFits ==
  ASSUME SavedOnTheWay, RoomFits, NEW h \in Calls,
         (\E m \in Messages : Receive(h, m)) \/ CallStep(h) \/ Reject(h) \/ SaveFails(h)
  PROVE  RoomFits'
  <1> USE DEF storage, sockets
  <1>1. UNCHANGED <<retried, drain, conn, resets, restarts>>
    BY DEF Receive, CallStep, Lookup, Resolve, Save, AnswerInWorker, Wait, Forward, Dispatch,
       Reject, SaveFails, Later
  <1>2. sends' \in Nat
    <2>1. sends' = sends \/ sends' = sends + 1
      BY DEF Receive, CallStep, Lookup, Resolve, Save, AnswerInWorker, Wait, Forward, Dispatch,
         Reject, SaveFails, Later
    <2> QED
      BY <2>1 DEF RoomFits
  <1>3. IsQueue(pending')
    <2>1. CASE Wait(h)
      BY <2>1, MessageOfCall, QueueFacts DEF Wait, Accept, RoomFits
    <2>2. CASE ~Wait(h)
      <3>1. pending' = pending
        BY <2>2 DEF Receive, CallStep, Lookup, Resolve, Save, AnswerInWorker, Forward, Dispatch,
           Reject, SaveFails
      <3> QED
        BY <3>1 DEF RoomFits
    <2> QED
      BY <2>1, <2>2
  <1>4. turns' \in TurnCounts
    <2>1. CASE Dispatch(h)
      BY <2>1, MessageOfCall, RequestedCounts DEF Dispatch, RoomFits
    <2>2. CASE ~Dispatch(h)
      <3>1. turns' = turns
        BY <2>2 DEF Receive, CallStep, Lookup, Resolve, Save, AnswerInWorker, Wait, Forward,
           Reject, SaveFails
      <3> QED
        BY <3>1 DEF RoomFits
    <2> QED
      BY <2>1, <2>2
  <1> QED
    BY <1>1, <1>2, <1>3, <1>4 DEF RoomFits

\* The next record of a drain: what is left of it, and what it keeps.
LEMMA DrainStep ==
  ASSUME SavedOnTheWay, RoomFits, NEW c \in Connections, DrainNext(c)
  PROVE  LET d == drain[c]
             m == Head(d.records)
             rest == Tail(d.records)
             kept == IF c \in Open THEN d.remaining ELSE Append(d.remaining, m)
         IN /\ m \in Messages /\ IsQueue(kept)
            /\ DrainFits([records |-> rest, remaining |-> kept])
            /\ ToSet(d.records) = ToSet(rest) \cup {m}
            /\ ToSet(kept) = IF c \in Open THEN ToSet(d.remaining) ELSE ToSet(d.remaining) \cup {m}
  <1> DEFINE r == drain[c].records
             k == drain[c].remaining
             m == Head(r)
             rest == Tail(r)
             kept == IF c \in Open THEN k ELSE Append(k, m)
  <1>1. /\ r \in Seq(Messages) /\ k \in Seq(Messages) /\ IsInjective(r) /\ IsInjective(k)
        /\ ToSet(r) \cap ToSet(k) = {} /\ Len(r) + Len(k) <= MaxPending
        /\ r # << >>
    BY DEF RoomFits, DrainFits, DrainNext
  <1> HIDE DEF r, k
  <1>2. /\ Len(r) \in Nat /\ Len(k) \in Nat /\ Len(r) > 0 /\ MaxPending \in Nat
        /\ \A i, j \in 1 .. Len(r) : r[i] = r[j] => i = j
    BY <1>1, InjectiveSeq, SetOfSeq, EmptySeq, RoomAssumption
  <1>3. /\ m \in Messages /\ m = r[1] /\ rest \in Seq(Messages) /\ Len(rest) = Len(r) - 1
        /\ \A i \in 1 .. Len(rest) : rest[i] = r[i + 1]
    <2>1. m = r[1]
      BY <1>1
    <2> QED
      BY <1>1, <2>1, HeadTailProperties
  <1> HIDE DEF m, rest
  <1>4. ToSet(r) = {r[i] : i \in 1 .. Len(r)} /\ ToSet(rest) = {rest[i] : i \in 1 .. Len(rest)}
    BY <1>1, <1>3, SetOfSeq
  <1>5. \A i \in 1 .. Len(rest) : i + 1 \in 1 .. Len(r) /\ i + 1 # 1
    BY <1>2, <1>3
  <1>6. \A i \in 1 .. Len(r) : i # 1 => i - 1 \in 1 .. Len(rest) /\ (i - 1) + 1 = i
    BY <1>2, <1>3
  <1>7. 1 \in 1 .. Len(r)
    BY <1>2
  <1>8. \A i, j \in 1 .. Len(rest) : rest[i] = rest[j] => i = j
    <2> SUFFICES ASSUME NEW i \in 1 .. Len(rest), NEW j \in 1 .. Len(rest), rest[i] = rest[j]
                 PROVE  i = j
      OBVIOUS
    <2>1. i + 1 = j + 1
      BY <1>2, <1>3, <1>5
    <2> QED
      BY <2>1
  <1>9. IsInjective(rest)
    BY <1>3, <1>8, InjectiveSeq
  <1>10. m \notin ToSet(rest)
    BY <1>2, <1>3, <1>4, <1>5, <1>7
  <1>11. ToSet(r) = ToSet(rest) \cup {m}
    <2>1. ToSet(rest) \cup {m} \subseteq ToSet(r)
      BY <1>3, <1>4, <1>5, <1>7
    <2>2. ASSUME NEW i \in 1 .. Len(r)
          PROVE  r[i] \in ToSet(rest) \cup {m}
      <3>1. CASE i = 1
        BY <1>3, <3>1
      <3>2. CASE i # 1
        <4>1. i - 1 \in 1 .. Len(rest) /\ rest[i - 1] = r[i]
          BY <1>3, <1>6, <3>2
        <4> QED
          BY <1>4, <4>1
      <3> QED
        BY <3>1, <3>2
    <2> QED
      BY <1>4, <2>1, <2>2
  <1>12. m \notin ToSet(k)
    BY <1>1, <1>11
  <1>13. /\ kept \in Seq(Messages) /\ IsInjective(kept) /\ Len(kept) <= Len(k) + 1 /\ Len(kept) \in Nat
         /\ ToSet(kept) = IF c \in Open THEN ToSet(k) ELSE ToSet(k) \cup {m}
    <2>1. CASE c \in Open
      BY <1>1, <1>2, <2>1
    <2>2. CASE c \notin Open
      <3>1. /\ Append(k, m) \in Seq(Messages) /\ IsInjective(Append(k, m))
            /\ ToSet(Append(k, m)) = ToSet(k) \cup {m} /\ Len(Append(k, m)) = Len(k) + 1
        BY <1>1, <1>3, <1>12, AppendFacts
      <3>2. kept = Append(k, m)
        BY <2>2
      <3> HIDE DEF kept
      <3> QED
        BY <1>2, <2>2, <3>1, <3>2
    <2> QED
      BY <2>1, <2>2
  <1> HIDE DEF kept
  <1>14. Len(kept) <= MaxPending /\ Len(rest) + Len(kept) <= MaxPending
    BY <1>1, <1>2, <1>3, <1>13
  <1>15. ToSet(rest) \cap ToSet(kept) = {}
    BY <1>1, <1>10, <1>11, <1>13
  <1>16. IsQueue(kept)
    BY <1>13, <1>14 DEF IsQueue
  <1>17. DrainFits([records |-> rest, remaining |-> kept])
    BY <1>3, <1>9, <1>13, <1>14, <1>15 DEF DrainFits
  <1> QED
    BY <1>3, <1>11, <1>13, <1>16, <1>17 DEF r, k, m, rest, kept

LEMMA DrainNextFits ==
  ASSUME SavedOnTheWay, RoomFits, NEW c \in Connections, DrainNext(c)
  PROVE  RoomFits'
  <1> DEFINE d == drain[c]
             m == Head(d.records)
             rest == Tail(d.records)
             kept == IF c \in Open THEN d.remaining ELSE Append(d.remaining, m)
             left == [records |-> rest, remaining |-> kept]
  <1>1. m \in Messages /\ IsQueue(kept) /\ DrainFits(left)
    BY DrainStep
  <1>2. /\ turns' = Requested(c, m)
        /\ \/ pending' = kept /\ drain' = [drain EXCEPT ![c] = Drained]
           \/ pending' = pending /\ drain' = [drain EXCEPT ![c] = left]
        /\ UNCHANGED <<retried, conn, sends, resets, restarts>>
    BY DEF DrainNext
  <1>3. d.records # << >>
    BY DEF DrainNext
  <1>4. conn[c] # "new"
    BY <1>3 DEF RoomFits, Drained
  <1> HIDE DEF m, kept, left, d, rest
  <1>5. IsQueue(pending')
    BY <1>1, <1>2 DEF RoomFits
  <1>6. turns' \in TurnCounts
    BY <1>1, <1>2, RequestedCounts DEF RoomFits
  <1>7. ASSUME NEW e \in Connections
        PROVE  DrainFits(drain'[e]) /\ (conn'[e] = "new" => drain'[e] = Drained)
    <2> DEFINE Work == [records : Seq(Savable), remaining : Seq(Savable)]
    <2>2. drain \in [Connections -> Work]
      BY DEF SavedOnTheWay
    <2> HIDE DEF Work
    <2>1. e # c => drain'[e] = drain[e]
      BY <1>2, <2>2
    <2>3. drain'[c] = Drained \/ drain'[c] = left
      BY <1>2, <2>2
    <2>4. DrainFits(drain[e]) /\ (conn[e] = "new" => drain[e] = Drained)
      BY DEF RoomFits
    <2> QED
      BY <1>1, <1>2, <1>4, <2>1, <2>3, <2>4, DrainedFits
  <1> QED
    BY <1>2, <1>5, <1>6, <1>7 DEF RoomFits

LEMMA SocketFits ==
  ASSUME SavedOnTheWay, RetryOfRecord, RoomFits,
         \/ \E c \in Connections : \/ Connect(c) \/ Disconnect(c)
                                   \/ \E m \in Messages : EndTurn(c, m) \/ ContextReset(c, m)
         \/ \E r \in retrying : DispatchRetry(r)
         \/ Restart
  PROVE  RoomFits'
  <1> USE DEF storage
  <1>1. sends' \in Nat /\ resets' \in Nat /\ restarts' \in Nat
    <2>1. sends \in Nat /\ resets \in Nat /\ restarts \in Nat
      BY DEF RoomFits
    <2>2. /\ sends' = sends
          /\ resets' = resets \/ resets' = resets + 1
          /\ restarts' = restarts \/ restarts' = restarts + 1
      BY DEF Connect, Disconnect, EndTurn, ContextReset, DispatchRetry, Restart
    <2> QED
      BY <2>1, <2>2
  <1>2. pending' = pending /\ retried' \subseteq Messages
    BY DEF Connect, Disconnect, EndTurn, ContextReset, DispatchRetry, Restart, RoomFits
  <1>3. turns' \in TurnCounts
    <2>1. turns \in TurnCounts
      BY DEF RoomFits
    <2>2. ASSUME NEW c \in Connections, NEW m \in Messages, turns[c][m] > 0, Answered(c, m)
          PROVE  turns' \in TurnCounts
      <3>1. turns[c] \in [Messages -> Nat] /\ turns[c][m] - 1 \in Nat
        BY <2>1, <2>2 DEF TurnCounts
      <3>2. turns' = [turns EXCEPT ![c] = [turns[c] EXCEPT ![m] = @ - 1]]
        BY <2>2 DEF Answered
      <3>3. [turns[c] EXCEPT ![m] = @ - 1] \in [Messages -> Nat]
        BY <3>1
      <3> QED
        BY <2>1, <3>2, <3>3 DEF TurnCounts
    <2>3. ASSUME NEW r \in retrying, DispatchRetry(r)
          PROVE  turns' \in TurnCounts
      <3>1. r.message \in Messages
        BY DEF RetryOfRecord
      <3> QED
        BY <2>1, <2>3, <3>1, RequestedCounts DEF DispatchRetry
    <2>4. CASE \E cs : Closed(cs)
      BY <2>4, ClosedFits
    <2> QED
      BY <2>1, <2>2, <2>3, <2>4 DEF Connect, Disconnect, EndTurn, ContextReset, Restart
  <1>4. /\ conn' \in [Connections -> {"new", "open", "closed"}]
        /\ \A c \in Connections : DrainFits(drain'[c]) /\ (conn'[c] = "new" => drain'[c] = Drained)
    <2>1. /\ conn \in [Connections -> {"new", "open", "closed"}]
          /\ \A c \in Connections : DrainFits(drain[c]) /\ (conn[c] = "new" => drain[c] = Drained)
      BY DEF RoomFits
    <2>2. ASSUME NEW c \in Connections, Connect(c)
          PROVE  <1>4!1 /\ <1>4!2
      <3> DEFINE d == [records |-> pending, remaining |-> << >>]
      <3>1. drain[c] = Drained
        BY <2>1, <2>2 DEF Connect
      <3>2. drain' = [drain EXCEPT ![c] = [@ EXCEPT !.records = pending]]
            /\ conn' = [conn EXCEPT ![c] = "open"]
        BY <2>2 DEF Connect
      <3>3. drain \in [Connections -> [records : Seq(Savable), remaining : Seq(Savable)]]
        BY DEF SavedOnTheWay
      <3>4. drain'[c] = d /\ \A e \in Connections \ {c} : drain'[e] = drain[e]
        BY <3>1, <3>2, <3>3 DEF Drained
      <3>5. DrainFits(d)
        <4>1. IsQueue(pending) /\ Len(pending) \in Nat
          BY SetOfSeq DEF RoomFits, IsQueue
        <4>2. << >> \in Seq(Messages) /\ Len(<< >>) = 0 /\ ToSet(<< >>) = {} /\ IsInjective(<< >>)
          BY DEF ToSet, IsInjective
        <4>3. d.records = pending /\ d.remaining = << >>
          OBVIOUS
        <4> HIDE DEF d
        <4> QED
          BY <4>1, <4>2, <4>3 DEF DrainFits, IsQueue
      <3> HIDE DEF d
      <3> QED
        BY <2>1, <3>2, <3>4, <3>5
    <2>3. CASE UNCHANGED <<drain, conn>>
      BY <2>1, <2>3
    <2>4. CASE UNCHANGED drain /\ \E cs : Closed(cs)
      BY <2>1, <2>4, ClosedFits
    <2>5. CASE Restart
      <3>1. \A c \in Connections : drain'[c] = Drained
        BY <2>5 DEF Restart
      <3>2. Closed(Open)
        BY <2>5 DEF Restart
      <3> QED
        BY <3>1, <3>2, ClosedFits, DrainedFits
    <2> QED
      BY <2>2, <2>3, <2>4, <2>5 DEF Disconnect, EndTurn, ContextReset, DispatchRetry
  <1> QED
    BY <1>1, <1>2, <1>3, <1>4 DEF RoomFits

Room == SavedOnTheWay /\ RetryOfRecord /\ RoomFits

LEMMA RoomInvariant == Spec => []Room
  <1>1. Init => Room
    BY InitSaved, InitRetry, InitFits DEF Room
  <1>2. Room /\ [Next]_vars => Room'
    <2> SUFFICES ASSUME Room, [Next]_vars
                 PROVE  RoomFits'
      BY NextSaved, NextRetry DEF Room
    <2>1. CASE UNCHANGED vars
      BY <2>1 DEF vars, storage, sockets, Room, RoomFits
    <2> QED
      BY <2>1, CallFits, DrainNextFits, SocketFits DEF Room, Next
  <1> QED
    BY <1>1, <1>2, PTL DEF Spec

\* The chat store, the room's storage, the handlers, the drains, the sockets and the
\* counts stay well formed; in particular no message is queued twice.
THEOREM RoomTypes == Spec => []TypeOK
  <1>1. Room => TypeOK
    <2> SUFFICES ASSUME Room
                 PROVE  TypeOK
      OBVIOUS
    <2>1. /\ thread \subseteq Messages /\ accepted \subseteq Messages
          /\ retried \subseteq Messages /\ acked \subseteq Messages
      BY DEF Room, SavedOnTheWay, RoomFits
    <2>2. pending \in Seq(Messages) /\ Len(pending) <= MaxPending /\ IsInjective(pending)
      BY DEF Room, RoomFits, IsQueue
    <2>3. call \in [Calls -> [at : CallSteps, message : Messages \cup {None},
                              bridge : Connections \cup {None}]]
      BY DEF Room, SavedOnTheWay
    <2>4. drain \in [Connections -> [records : Seq(Messages), remaining : Seq(Messages)]]
      <3>1. thread \subseteq Messages
        BY DEF Room, SavedOnTheWay
      <3>2. Savable \subseteq Messages
        BY <3>1 DEF Savable
      <3>3. Seq(Savable) \subseteq Seq(Messages)
        BY <3>2, SeqMonotonic
      <3>4. drain \in [Connections -> [records : Seq(Savable), remaining : Seq(Savable)]]
        BY DEF Room, SavedOnTheWay
      <3> QED
        BY <3>3, <3>4
    <2>5. retrying \subseteq [bridge : Connections, message : Messages]
      BY DEF Room, RetryOfRecord
    <2>6. conn \in [Connections -> {"new", "open", "closed"}] /\ turns \in [Connections -> [Messages -> Nat]]
      BY DEF Room, RoomFits, TurnCounts
    <2>7. {sent, retries} \subseteq [Messages -> Nat]
      BY DEF Room, SavedOnTheWay, RetryOfRecord
    <2>8. {sends, resets, restarts} \subseteq Nat
      BY DEF Room, RoomFits
    <2> QED
      BY <2>1, <2>2, <2>3, <2>4, <2>5, <2>6, <2>7, <2>8 DEF TypeOK
  <1> QED
    BY <1>1, RoomInvariant, PTL

--------------------------------------------------------------------------------
(* Why a message leaves the queue, or a drain.                             *)

\* Only a handler that waits and the last step of a drain write the queue.
LEMMA QueueWriters ==
  ASSUME [Next]_vars, pending' # pending
  PROVE  (\E h \in Calls : Wait(h)) \/ \E c \in Connections : DrainNext(c)
  <1> USE DEF storage
  <1>1. ASSUME NEW h \in Calls,
               \/ \E m \in Messages : Receive(h, m)
               \/ CallStep(h) /\ ~Wait(h)
               \/ Reject(h) \/ SaveFails(h)
        PROVE  FALSE
    BY <1>1 DEF Receive, CallStep, Lookup, Resolve, Save, AnswerInWorker, Forward, Dispatch,
       Reject, SaveFails
  <1>2. ASSUME NEW c \in Connections,
               Connect(c) \/ Disconnect(c) \/ \E m \in Messages : EndTurn(c, m) \/ ContextReset(c, m)
        PROVE  FALSE
    BY <1>2 DEF Connect, Disconnect, EndTurn, ContextReset
  <1>3. ~Restart /\ ~ (\E r \in retrying : DispatchRetry(r)) /\ ~UNCHANGED vars
    BY DEF Restart, DispatchRetry, vars
  <1> QED
    BY <1>1, <1>2, <1>3 DEF Next

\* A drain sends the record it takes, or keeps it.
LEMMA DrainSends ==
  ASSUME Room, NEW c \in Connections, DrainNext(c), c \in Open
  PROVE  LET m == Head(drain[c].records) IN sent'[m] = sent[m] + 1 /\ sent'[m] > 0
  <1> DEFINE m == Head(drain[c].records)
  <1>1. m \in Messages
    BY DrainStep DEF Room
  <1>2. sent' = [sent EXCEPT ![m] = @ + 1] /\ sent \in [Messages -> Nat]
    BY DEF DrainNext, Counted, Room, SavedOnTheWay
  <1> HIDE DEF m
  <1> QED
    BY <1>1, <1>2 DEF m

LEMMA LeavesQueue ==
  ASSUME Room, [Next]_vars, NEW m \in Waiting \ Waiting'
  PROVE  \/ sent'[m] > 0
         \/ Len(pending) = MaxPending /\ Len(pending') = MaxPending
         \/ \E c \in Connections :
               /\ drain[c].records # <<>> /\ drain'[c].records = <<>>
               /\ m \notin ToSet(drain[c].records \o drain[c].remaining)
  <1>1. pending' # pending
    BY DEF Waiting
  <1>2. ASSUME NEW h \in Calls, Wait(h)
        PROVE  Len(pending) = MaxPending /\ Len(pending') = MaxPending
    <2>1. call[h].message \in Messages /\ IsQueue(pending) /\ pending' = Queue(pending, call[h].message)
      BY <1>2, MessageOfCall DEF Wait, Accept, Room, RoomFits
    <2> QED
      BY <2>1, QueueFacts DEF Waiting
  <1>3. ASSUME NEW c \in Connections, DrainNext(c), ~(sent'[m] > 0)
        PROVE  \E e \in Connections :
                  /\ drain[e].records # <<>> /\ drain'[e].records = <<>>
                  /\ m \notin ToSet(drain[e].records \o drain[e].remaining)
    <2> DEFINE r == drain[c].records
               k == drain[c].remaining
               x == Head(r)
               rest == Tail(r)
               kept == IF c \in Open THEN k ELSE Append(k, x)
    <2>1. /\ ToSet(r) = ToSet(rest) \cup {x}
          /\ ToSet(kept) = IF c \in Open THEN ToSet(k) ELSE ToSet(k) \cup {x}
      BY <1>3, DrainStep DEF Room
    <2>2. rest = << >> /\ pending' = kept /\ drain' = [drain EXCEPT ![c] = Drained] /\ r # << >>
      BY <1>1, <1>3 DEF DrainNext
    <2>3. r \in Seq(Messages) /\ k \in Seq(Messages)
      BY DEF Room, RoomFits, DrainFits
    <2>4. drain'[c] = Drained
      <3> DEFINE Work == [records : Seq(Savable), remaining : Seq(Savable)]
      <3>1. drain \in [Connections -> Work]
        BY DEF Room, SavedOnTheWay
      <3> HIDE DEF Work
      <3> QED
        BY <2>2, <3>1
    <2>5. c \in Open => sent'[x] > 0
      BY <1>3, DrainSends
    <2> HIDE DEF r, k, x, rest, kept
    <2>6. ToSet(rest) = {}
      BY <2>2 DEF ToSet
    <2>7. m \notin ToSet(k) /\ m \notin ToSet(r)
      BY <1>3, <2>1, <2>2, <2>5, <2>6 DEF Waiting
    <2>8. ToSet(r \o k) \subseteq ToSet(r) \cup ToSet(k)
      <3>1. /\ r \o k \in Seq(Messages) /\ Len(r \o k) = Len(r) + Len(k)
            /\ Len(r) \in Nat /\ Len(k) \in Nat
            /\ \A i \in 1 .. Len(r) + Len(k) :
                  (r \o k)[i] = IF i <= Len(r) THEN r[i] ELSE k[i - Len(r)]
        BY <2>3, ConcatProperties, SetOfSeq
      <3>2. /\ ToSet(r \o k) = {(r \o k)[i] : i \in 1 .. Len(r) + Len(k)}
            /\ ToSet(r) = {r[i] : i \in 1 .. Len(r)} /\ ToSet(k) = {k[i] : i \in 1 .. Len(k)}
        BY <2>3, <3>1, SetOfSeq
      <3>3. \A i \in 1 .. Len(r) + Len(k) : i \in 1 .. Len(r) \/ (~(i <= Len(r)) /\ i - Len(r) \in 1 .. Len(k))
        BY <3>1
      <3> QED
        BY <3>1, <3>2, <3>3
    <2>9. Drained.records = << >>
      BY DEF Drained
    <2> QED
      BY <2>2, <2>4, <2>7, <2>8, <2>9 DEF r, k
  <1> QED
    BY <1>1, <1>2, <1>3, QueueWriters

\* Whatever overlaps, a message leaves the queue of the room because a turn request
\* was sent for it, because the queue was full, or because an older drain replaced
\* the queue - the one loss that the code does not intend.
THEOREM LeavesTheQueue == Spec => LeavesWithReason
  <1>1. Room /\ [Next]_vars
        => [\A m \in Waiting \ Waiting' :
              \/ sent'[m] > 0
              \/ Len(pending) = MaxPending /\ Len(pending') = MaxPending
              \/ \E c \in Connections :
                    /\ drain[c].records # <<>> /\ drain'[c].records = <<>>
                    /\ m \notin ToSet(drain[c].records \o drain[c].remaining)]_vars
    BY LeavesQueue
  <1> QED
    BY <1>1, RoomInvariant, PTL DEF Spec, LeavesWithReason

\* Only these steps touch a drain.
LEMMA DrainWriters ==
  ASSUME [Next]_vars, drain' # drain
  PROVE  Restart \/ \E c \in Connections : Connect(c) \/ DrainNext(c)
  <1>1. ASSUME NEW h \in Calls,
               (\E m \in Messages : Receive(h, m)) \/ CallStep(h) \/ Reject(h) \/ SaveFails(h)
        PROVE  FALSE
    BY <1>1 DEF Receive, CallStep, Lookup, Resolve, Save, AnswerInWorker, Wait, Forward, Dispatch,
       Reject, SaveFails, Later
  <1>2. ASSUME NEW c \in Connections,
               Disconnect(c) \/ \E m \in Messages : EndTurn(c, m) \/ ContextReset(c, m)
        PROVE  FALSE
    BY <1>2 DEF Disconnect, EndTurn, ContextReset
  <1>3. ~ (\E r \in retrying : DispatchRetry(r)) /\ ~UNCHANGED vars
    BY DEF DispatchRetry, vars
  <1> QED
    BY <1>1, <1>2, <1>3 DEF Next

LEMMA LeavesDrain ==
  ASSUME Room, [Next]_vars, NEW c \in Connections, NEW m \in Held(c) \ Held(c)'
  PROVE  \/ m \in Waiting'
         \/ restarts' > restarts /\ pending' = pending
         \/ c \in Open /\ sent'[m] = sent[m] + 1
  <1> DEFINE Work == [records : Seq(Savable), remaining : Seq(Savable)]
  <1>1. drain \in [Connections -> Work] /\ drain[c] # drain'[c]
    BY DEF Held, Room, SavedOnTheWay
  <1> HIDE DEF Work
  <1>2. CASE Restart
    <2>1. restarts \in Nat
      BY DEF Room, RoomFits
    <2> QED
      BY <1>2, <2>1 DEF Restart, storage
  <1>3. ASSUME NEW e \in Connections, Connect(e)
        PROVE  FALSE
    <2>1. drain'[c] # drain[c] => e = c
      BY <1>1, <1>3 DEF Connect
    <2>2. drain[e] = Drained
      BY <1>3 DEF Connect, Room, RoomFits
    <2>3. Held(e) = {}
      BY <2>2 DEF Held, Drained, ToSet
    <2> QED
      BY <1>1, <2>1, <2>3
  <1>4. ASSUME NEW e \in Connections, DrainNext(e)
        PROVE  m \in Waiting' \/ (c \in Open /\ sent'[m] = sent[m] + 1)
    <2>1. e = c
      BY <1>1, <1>4 DEF DrainNext
    <2>2. DrainNext(c)
      BY <1>4, <2>1
    <2> DEFINE r == drain[c].records
               k == drain[c].remaining
               x == Head(r)
               rest == Tail(r)
               kept == IF c \in Open THEN k ELSE Append(k, x)
               left == [records |-> rest, remaining |-> kept]
    <2>3. /\ ToSet(r) = ToSet(rest) \cup {x}
          /\ ToSet(kept) = IF c \in Open THEN ToSet(k) ELSE ToSet(k) \cup {x}
      BY <2>2, DrainStep DEF Room
    <2>4. \/ rest = << >> /\ pending' = kept
          \/ drain' = [drain EXCEPT ![c] = left]
      BY <2>2 DEF DrainNext
    <2>5. c \in Open => sent'[x] = sent[x] + 1
      BY <2>2, DrainSends
    <2>6. m \in ToSet(r) \cup ToSet(k)
      BY DEF Held
    <2>7. left.records = rest /\ left.remaining = kept
      OBVIOUS
    <2> HIDE DEF r, k, x, rest, kept, left
    <2>8. CASE rest = << >> /\ pending' = kept
      <3>1. ToSet(rest) = {}
        BY <2>8 DEF ToSet
      <3> QED
        BY <2>3, <2>5, <2>6, <2>8, <3>1 DEF Waiting
    <2>9. CASE drain' = [drain EXCEPT ![c] = left]
      <3>1. drain'[c] = left
        BY <1>1, <2>9
      <3>2. Held(c)' = ToSet(rest) \cup ToSet(kept)
        BY <2>7, <3>1 DEF Held
      <3> QED
        BY <2>3, <2>5, <2>6, <3>2
    <2> QED
      BY <2>4, <2>8, <2>9
  <1> QED
    BY <1>1, <1>2, <1>3, <1>4, DrainWriters

\* What a drain has read is sent on an open socket, goes back into the queue, or is
\* still in the queue when a restart cuts the drain short.
THEOREM DrainsKeep == Spec => DrainKeeps
  <1>1. Room /\ [Next]_vars
        => [\A c \in Connections : \A m \in Held(c) \ Held(c)' :
              \/ m \in Waiting'
              \/ restarts' > restarts /\ pending' = pending
              \/ c \in Open /\ sent'[m] = sent[m] + 1]_vars
    BY LeavesDrain
  <1> QED
    BY <1>1, RoomInvariant, PTL DEF Spec, DrainKeeps
================================================================================
