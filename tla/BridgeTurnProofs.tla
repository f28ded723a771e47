--------------------------- MODULE BridgeTurnProofs ---------------------------
(***************************************************************************)
(* What holds of the turns of the bridge for any number of turns, faults   *)
(* and pinned models.                                                      *)
(***************************************************************************)
EXTENDS BridgeTurn, SequenceTheorems, FiniteSetTheorems, WellFoundedInduction, TLAPS

--------------------------------------------------------------------------------
(* The members of a sequence that are kept.  Keep is a recursive function, *)
(* and what it returns is shown with the least index at which a claim      *)
(* fails.                                                                  *)

LEMMA LeastNumber ==
  ASSUME NEW B, B \subseteq Nat, B # {}
  PROVE  \E m \in B : \A k \in B : m <= k
  <1> DEFINE R == {p \in Nat \X Nat : p[1] < p[2]}
  <1>1. IsWellFoundedOn(R, Nat)
    BY NatLessThanWellFounded DEF OpToRel
  <1> HIDE DEF R
  <1>2. \E m \in B : \A k \in B : ~(<<k, m>> \in R)
    BY <1>1, WFMin, Zenon
  <1>3. \A k, m \in Nat : <<k, m>> \in R <=> k < m
    BY DEF R
  <1>4. PICK m \in B : \A k \in B : ~(<<k, m>> \in R)
    BY <1>2
  <1>5. \A k \in B : ~(k < m) /\ k \in Nat /\ m \in Nat
    BY <1>3, <1>4
  <1>6. \A k \in B : m <= k
    BY <1>5
  <1> QED
    BY <1>6

\* f is the recursive function of Keep(s, S), for the first n members of s.
Keeps(f, s, S, n) ==
    f = [i \in 0 .. n |-> IF i = 0 THEN <<>>
                          ELSE IF s[i] \in S THEN Append(f[i - 1], s[i]) ELSE f[i - 1]]

LEMMA KeepsExists ==
  ASSUME NEW s, NEW S, NEW n \in Nat
  PROVE  \E f : Keeps(f, s, S, n)
  <1> DEFINE B == {k \in Nat : ~ \E f : Keeps(f, s, S, k)}
  <1> SUFFICES ASSUME n \in B
               PROVE  FALSE
    OBVIOUS
  <1>1. PICK m \in B : \A k \in B : m <= k
    BY LeastNumber
  <1>2. m \in Nat /\ ~ \E f : Keeps(f, s, S, m)
    OBVIOUS
  <1>3. m # 0
    <2>1. Keeps([i \in 0 .. 0 |-> <<>>], s, S, 0)
      BY DEF Keeps
    <2> QED
      BY <1>2, <2>1
  <1>4. m - 1 \in Nat /\ m - 1 \notin B
    BY <1>1, <1>2, <1>3
  <1>5. PICK f : Keeps(f, s, S, m - 1)
    BY <1>4
  <1> DEFINE step(g, i) == IF i = 0 THEN <<>>
                           ELSE IF s[i] \in S THEN Append(g[i - 1], s[i]) ELSE g[i - 1]
             g == [i \in 0 .. m |-> IF i < m THEN f[i] ELSE step(f, m)]
  <1>6. \A i \in 0 .. m - 1 : f[i] = step(f, i)
    BY <1>5 DEF Keeps
  <1>7. \A i \in 0 .. m - 1 : g[i] = f[i]
    BY <1>2
  <1>8. \A i \in 1 .. m : g[i - 1] = f[i - 1]
    BY <1>2, <1>7
  <1>9. ASSUME NEW i \in 0 .. m
        PROVE  g[i] = step(g, i)
    <2>1. step(g, i) = step(f, i)
      <3>1. CASE i = 0
        BY <3>1
      <3>2. CASE i # 0
        <4>1. i \in 1 .. m
          BY <1>2, <3>2
        <4>2. g[i - 1] = f[i - 1]
          BY <1>8, <4>1
        <4> HIDE DEF g
        <4> QED
          BY <4>2
      <3> QED
        BY <3>1, <3>2
    <2>2. CASE i < m
      <3>1. i \in 0 .. m - 1
        BY <1>2, <2>2
      <3> HIDE DEF g, step
      <3> QED
        BY <1>6, <1>7, <2>1, <3>1
    <2>3. CASE i = m
      <3>1. g[i] = step(f, m)
        BY <1>2, <2>3
      <3> HIDE DEF g, step
      <3> QED
        BY <2>1, <2>3, <3>1
    <2> QED
      BY <1>2, <2>2, <2>3
  <1>10. Keeps(g, s, S, m)
    <2>1. g = [i \in 0 .. m |-> g[i]]
      OBVIOUS
    <2>2. [i \in 0 .. m |-> g[i]] = [i \in 0 .. m |-> step(g, i)]
      <3> HIDE DEF g, step
      <3> QED
        BY <1>9
    <2>3. g = [i \in 0 .. m |-> step(g, i)]
      BY <2>1, <2>2
    <2> HIDE DEF g
    <2> QED
      BY <2>3 DEF Keeps
  <1> QED
    BY <1>2, <1>10

\* k is the subsequence of the first n members of s that are in S; h says where
\* its members come from.
Embeds(k, h, s, S, n) ==
    /\ h \in [1 .. Len(k) -> 1 .. n]
    /\ \A i, j \in 1 .. Len(k) : i < j => h[i] < h[j]
    /\ \A i \in 1 .. Len(k) : k[i] = s[h[i]] /\ k[i] \in S
    /\ \A j \in 1 .. n : s[j] \in S => \E i \in 1 .. Len(k) : h[i] = j

LEMMA EmbedsNext ==
  ASSUME NEW U, NEW s \in Seq(U), NEW S, NEW n \in 1 .. Len(s),
         NEW k \in Seq(U), NEW h, Embeds(k, h, s, S, n - 1)
  PROVE  LET l == IF s[n] \in S THEN Append(k, s[n]) ELSE k
         IN  l \in Seq(U) /\ \E g : Embeds(l, g, s, S, n)
  <1> DEFINE l == IF s[n] \in S THEN Append(k, s[n]) ELSE k
  <1>1. Len(s) \in Nat /\ n \in Nat /\ n >= 1 /\ s[n] \in U /\ Len(k) \in Nat
    BY LenProperties, ElementOfSeq
  <1>2. CASE s[n] \notin S
    <2>1. l = k
      BY <1>2
    <2>2. Embeds(k, h, s, S, n)
      BY <1>1, <1>2 DEF Embeds
    <2> QED
      BY <2>1, <2>2
  <1>3. CASE s[n] \in S
    <2> DEFINE g == [i \in 1 .. Len(k) + 1 |-> IF i = Len(k) + 1 THEN n ELSE h[i]]
    <2>1. /\ l = Append(k, s[n])
          /\ l \in Seq(U) /\ Len(l) = Len(k) + 1 /\ l[Len(k) + 1] = s[n]
          /\ \A i \in 1 .. Len(k) : l[i] = k[i]
      BY <1>1, <1>3, AppendProperties
    <2> HIDE DEF l
    <2>2. g[Len(k) + 1] = n /\ \A i \in 1 .. Len(k) : g[i] = h[i] /\ g[i] \in 1 .. n - 1
      <3>1. g[Len(k) + 1] = n
        BY <1>1
      <3>2. \A i \in 1 .. Len(k) : i \in 1 .. Len(k) + 1 /\ i # Len(k) + 1
        BY <1>1
      <3>3. \A i \in 1 .. Len(k) : g[i] = h[i]
        BY <3>2
      <3> HIDE DEF g
      <3> QED
        BY <3>1, <3>3 DEF Embeds
    <2>3. g \in [1 .. Len(l) -> 1 .. n]
      BY <1>1, <2>1 DEF Embeds
    <2> HIDE DEF g
    <2>4. \A i \in 1 .. Len(l) : i \in 1 .. Len(k) \/ i = Len(k) + 1
      BY <1>1, <2>1
    <2>5. \A i, j \in 1 .. Len(l) : i < j => g[i] < g[j]
      <3> SUFFICES ASSUME NEW i \in 1 .. Len(l), NEW j \in 1 .. Len(l), i < j
                   PROVE  g[i] < g[j]
        OBVIOUS
      <3>1. i \in 1 .. Len(k)
        BY <1>1, <2>1
      <3>2. CASE j \in 1 .. Len(k)
        BY <2>2, <3>1, <3>2 DEF Embeds
      <3>3. CASE j = Len(k) + 1
        BY <1>1, <2>2, <3>1, <3>3
      <3> QED
        BY <2>4, <3>2, <3>3
    <2>6. \A i \in 1 .. Len(l) : l[i] = s[g[i]] /\ l[i] \in S
      BY <1>3, <2>1, <2>2, <2>4 DEF Embeds
    <2>7. \A j \in 1 .. n : s[j] \in S => \E i \in 1 .. Len(l) : g[i] = j
      <3> SUFFICES ASSUME NEW j \in 1 .. n, s[j] \in S
                   PROVE  \E i \in 1 .. Len(l) : g[i] = j
        OBVIOUS
      <3>1. CASE j = n
        <4>1. Len(k) + 1 \in 1 .. Len(l)
          BY <1>1, <2>1
        <4> QED
          BY <2>2, <3>1, <4>1
      <3>2. CASE j # n
        <4>1. j \in 1 .. n - 1
          BY <1>1, <3>2
        <4>2. PICK i \in 1 .. Len(k) : h[i] = j
          BY <4>1 DEF Embeds
        <4>3. i \in 1 .. Len(l)
          BY <1>1, <2>1
        <4> QED
          BY <2>2, <4>2, <4>3
      <3> QED
        BY <3>1, <3>2
    <2>8. Embeds(l, g, s, S, n)
      BY <2>3, <2>5, <2>6, <2>7 DEF Embeds
    <2> QED
      BY <2>1, <2>8 DEF l
  <1> QED
    BY <1>2, <1>3

\* What is kept of s is a subsequence of it, and has every member that is in S.
LEMMA KeepEmbeds ==
  ASSUME NEW U, NEW s \in Seq(U), NEW S
  PROVE  Keep(s, S) \in Seq(U) /\ \E h : Embeds(Keep(s, S), h, s, S, Len(s))
  <1> DEFINE f == CHOOSE f : Keeps(f, s, S, Len(s))
             Good(n) == f[n] \in Seq(U) /\ \E h : Embeds(f[n], h, s, S, n)
             B == {n \in 0 .. Len(s) : ~ Good(n)}
  <1>1. Len(s) \in Nat
    BY LenProperties
  <1>2. Keeps(f, s, S, Len(s))
    BY <1>1, KeepsExists
  <1>3. Keep(s, S) = f[Len(s)]
    BY DEF Keep, Keeps
  <1> HIDE DEF f
  <1>4. f[0] = <<>>
    BY <1>1, <1>2 DEF Keeps
  <1>5. \A i \in 1 .. Len(s) : f[i] = IF s[i] \in S THEN Append(f[i - 1], s[i]) ELSE f[i - 1]
    <2> SUFFICES ASSUME NEW i \in 1 .. Len(s)
                 PROVE  f[i] = IF s[i] \in S THEN Append(f[i - 1], s[i]) ELSE f[i - 1]
      OBVIOUS
    <2>1. i \in 0 .. Len(s) /\ i # 0
      BY <1>1
    <2> QED
      BY <1>2, <2>1 DEF Keeps
  <1>6. Good(0)
    <2>1. Embeds(<<>>, [i \in {} |-> 0], s, S, 0)
      BY DEF Embeds
    <2> QED
      BY <1>4, <2>1
  <1>7. ASSUME NEW n \in 1 .. Len(s), Good(n - 1)
        PROVE  Good(n)
    <2>1. PICK h : Embeds(f[n - 1], h, s, S, n - 1)
      BY <1>7
    <2>2. LET l == IF s[n] \in S THEN Append(f[n - 1], s[n]) ELSE f[n - 1]
          IN  l \in Seq(U) /\ \E g : Embeds(l, g, s, S, n)
      BY <1>7, <2>1, EmbedsNext
    <2> QED
      BY <1>5, <2>2
  <1>8. B = {}
    <2> SUFFICES ASSUME B # {}
                 PROVE  FALSE
      OBVIOUS
    <2>1. B \subseteq Nat
      BY <1>1
    <2>2. PICK m \in B : \A k \in B : m <= k
      <3> HIDE DEF B
      <3> QED
        BY <2>1, LeastNumber
    <2>3. m \in 0 .. Len(s) /\ ~ Good(m)
      BY DEF B
    <2>4. m # 0
      BY <1>6, <2>3
    <2>5. m \in 1 .. Len(s) /\ m - 1 \in 0 .. Len(s) /\ ~(m <= m - 1)
      BY <1>1, <2>3, <2>4
    <2>6. m - 1 \notin B
      BY <2>2, <2>5
    <2>7. Good(m - 1)
      BY <2>5, <2>6 DEF B
    <2> QED
      BY <1>7, <2>3, <2>5, <2>7
  <1>9. Len(s) \in 0 .. Len(s)
    BY <1>1
  <1>10. Good(Len(s))
    BY <1>8, <1>9 DEF B
  <1> QED
    BY <1>3, <1>10

LEMMA RangeOf ==
  ASSUME NEW U, NEW s \in Seq(U)
  PROVE  /\ Len(s) \in Nat /\ DOMAIN s = 1 .. Len(s) /\ \A i \in 1 .. Len(s) : s[i] \in U
         /\ \A x : x \in Range(s) <=> \E i \in 1 .. Len(s) : s[i] = x
         /\ Range(s) \subseteq U
         /\ IsInjective(s) <=> \A i, j \in 1 .. Len(s) : s[i] = s[j] => i = j
         /\ s = <<>> <=> Len(s) = 0
  BY LenProperties, EmptySeq DEF Range, IsInjective

LEMMA KeepFacts ==
  ASSUME NEW U, NEW s \in Seq(U), NEW S
  PROVE  LET k == Keep(s, S) IN
         /\ k \in Seq(U)
         /\ \A x : x \in Range(k) <=> x \in Range(s) /\ x \in S
         /\ IsInjective(s) => IsInjective(k)
         /\ k = <<>> <=> \A x \in Range(s) : x \notin S
         /\ k # <<>> => Last(k) \in Range(s) /\ Last(k) \in S
  <1> DEFINE k == Keep(s, S)
  <1>1. k \in Seq(U) /\ \E h : Embeds(k, h, s, S, Len(s))
    BY KeepEmbeds
  <1> HIDE DEF k
  <1>2. PICK h : Embeds(k, h, s, S, Len(s))
    BY <1>1
  <1>3. /\ Len(k) \in Nat /\ (k = <<>> <=> Len(k) = 0)
        /\ \A x : x \in Range(k) <=> \E i \in 1 .. Len(k) : k[i] = x
        /\ IsInjective(k) <=> \A i, j \in 1 .. Len(k) : k[i] = k[j] => i = j
    BY <1>1, RangeOf
  <1>4. /\ Len(s) \in Nat
        /\ \A x : x \in Range(s) <=> \E i \in 1 .. Len(s) : s[i] = x
        /\ IsInjective(s) <=> \A i, j \in 1 .. Len(s) : s[i] = s[j] => i = j
    BY RangeOf
  <1>5. \A x : x \in Range(k) <=> x \in Range(s) /\ x \in S
    <2>1. ASSUME NEW x, x \in Range(k)
          PROVE  x \in Range(s) /\ x \in S
      <3>1. PICK i \in 1 .. Len(k) : k[i] = x
        BY <1>3, <2>1
      <3>2. h[i] \in 1 .. Len(s) /\ s[h[i]] = x /\ x \in S
        BY <1>2, <3>1 DEF Embeds
      <3> QED
        BY <1>4, <3>2
    <2>2. ASSUME NEW x, x \in Range(s), x \in S
          PROVE  x \in Range(k)
      <3>1. PICK j \in 1 .. Len(s) : s[j] = x
        BY <1>4, <2>2
      <3>2. PICK i \in 1 .. Len(k) : h[i] = j
        BY <1>2, <2>2, <3>1 DEF Embeds
      <3>3. k[i] = x
        BY <1>2, <3>1, <3>2 DEF Embeds
      <3> QED
        BY <1>3, <3>3
    <2> QED
      BY <2>1, <2>2
  <1>6. ASSUME IsInjective(s), NEW i \in 1 .. Len(k), NEW j \in 1 .. Len(k), k[i] = k[j]
        PROVE  i = j
    <2>1. s[h[i]] = s[h[j]] /\ h[i] \in 1 .. Len(s) /\ h[j] \in 1 .. Len(s)
      BY <1>2, <1>6 DEF Embeds
    <2>2. h[i] = h[j] /\ h[i] \in Nat
      BY <1>4, <1>6, <2>1
    <2>3. ~(i < j) /\ ~(j < i)
      BY <1>2, <2>2 DEF Embeds
    <2> QED
      BY <1>3, <2>3
  <1>7. k # <<>> => Last(k) \in Range(k)
    <2> SUFFICES ASSUME k # <<>>
                 PROVE  Last(k) \in Range(k)
      OBVIOUS
    <2>1. Len(k) \in 1 .. Len(k) /\ k[Len(k)] = Last(k)
      BY <1>3 DEF Last
    <2> QED
      BY <1>3, <2>1
  <1>8. k = <<>> <=> \A x : x \notin Range(k)
    <2>1. k = <<>> => 1 .. Len(k) = {}
      BY <1>3
    <2> QED
      BY <1>3, <1>7, <2>1
  <1> QED
    BY <1>1, <1>3, <1>5, <1>6, <1>7, <1>8 DEF k

\* What is kept is short when little can be.
LEMMA KeepOne ==
  ASSUME NEW U, NEW s \in Seq(U), NEW S,
         \A i, j \in 1 .. Len(s) : s[i] \in S /\ s[j] \in S => i = j
  PROVE  \/ Keep(s, S) = <<>> /\ \A i \in 1 .. Len(s) : s[i] \notin S
         \/ /\ Len(Keep(s, S)) = 1 /\ Keep(s, S) \in Seq(U)
            /\ \E i \in 1 .. Len(s) : Keep(s, S)[1] = s[i] /\ s[i] \in S
  <1> DEFINE k == Keep(s, S)
  <1>1. k \in Seq(U) /\ \E h : Embeds(k, h, s, S, Len(s))
    BY KeepEmbeds
  <1> HIDE DEF k
  <1>2. PICK h : Embeds(k, h, s, S, Len(s))
    BY <1>1
  <1>3. Len(k) \in Nat /\ Len(s) \in Nat /\ (k = <<>> <=> Len(k) = 0)
    BY <1>1, RangeOf
  <1>4. \A i \in 1 .. Len(k) : h[i] \in 1 .. Len(s) /\ k[i] = s[h[i]] /\ s[h[i]] \in S
    BY <1>2 DEF Embeds
  <1>5. \A i, j \in 1 .. Len(k) : ~(i < j)
    <2> SUFFICES ASSUME NEW i \in 1 .. Len(k), NEW j \in 1 .. Len(k), i < j
                 PROVE  FALSE
      OBVIOUS
    <2>1. h[i] = h[j] /\ h[i] < h[j] /\ h[i] \in Int
      BY <1>2, <1>4 DEF Embeds
    <2> QED
      BY <2>1
  <1>6. Len(k) <= 1
    <2> SUFFICES ASSUME ~(Len(k) <= 1)
                 PROVE  FALSE
      OBVIOUS
    <2>1. 1 \in 1 .. Len(k) /\ 2 \in 1 .. Len(k) /\ 1 < 2
      BY <1>3
    <2> QED
      BY <1>5, <2>1
  <1>7. CASE Len(k) = 0
    <2>1. \A i \in 1 .. Len(s) : s[i] \notin S
      BY <1>2, <1>7 DEF Embeds
    <2> QED
      BY <1>3, <1>7, <2>1 DEF k
  <1>8. CASE Len(k) = 1
    <2>1. 1 \in 1 .. Len(k)
      BY <1>8
    <2> QED
      BY <1>1, <1>4, <1>8, <2>1 DEF k
  <1>9. Len(k) = 0 \/ Len(k) = 1
    <2>1. \A n \in Nat : n <= 1 => n = 0 \/ n = 1
      OBVIOUS
    <2>2. Len(k) \in Nat
      BY <1>3
    <2> QED
      BY <1>6, <2>1, <2>2
  <1> QED
    BY <1>7, <1>8, <1>9

--------------------------------------------------------------------------------
(* The inductive invariant.                                                *)

Busy == {"thread", "media", "starting", "awaiting"}
Live == {"media", "starting", "awaiting"}

Types ==
    /\ conns \in 0 .. MaxFaults + 1 /\ open \in {0, conns}
    /\ turn \in [Turns -> Handlers]
    /\ listeners \in Seq(Turns) /\ approver \in Turns \cup {None} /\ unheard \subseteq Turns
    /\ queue \in [Conns -> Seq(Turns)]
    /\ wire \in [Turns -> [asks : {"none", "thread", "turn"}, thread : MaybeRun]]
    /\ backend \in [Runs -> [is : {"none", "running", "failing", "ended"}, thread : MaybeRun]]
    /\ room \in MaybeRun
    /\ told \in [Turns -> Seq(Endings)] /\ failed \subseteq Turns
    /\ faults \in 0 .. MaxFaults

\* What the locals of the handler of turn t say of each other.
HandlerFits(t) ==
    LET w == turn[t] IN
    /\ w.at # "new" => w.conn \in Conns /\ w.conn <= conns
    /\ w.at \in Busy => Running(t)
    /\ w.at \in {"new", "queued", "thread"} => ~w.timedOut /\ w.settled = "no" /\ w.run = None
    /\ w.at \in Live /\ w.timedOut => w.settled = "resolved"
    /\ Listening(t) => w.at \in Live \/ (w.at = "ended" /\ w.timedOut)

Shape == Types /\ IsInjective(listeners) /\ \A t \in Turns : HandlerFits(t)

Waiting == Busy \cup {"queued"}

QueueFits ==
    /\ \A c \in Conns : \A i, j \in DOMAIN queue[c] : i < j => queue[c][i] < queue[c][j]
    /\ \A c \in Conns : \A i \in DOMAIN queue[c] :
          turn[queue[c][i]].conn = c /\ turn[queue[c][i]].at \in Waiting
    /\ \A t \in Turns : turn[t].at \in Waiting => t \in Range(queue[turn[t].conn])
    /\ \A t, u \in Turns : t < u /\ turn[u].at # "new" => turn[t].at # "new"

\* The turns of a connection begin one after the other.
InTurn ==
    \A t, u \in Turns :
      t < u /\ turn[u].conn = turn[t].conn /\ turn[u].at \notin {"new", "queued"} =>
        turn[t].at \in {"ended", "dead"}

\* The requests of turn t and the backend turns that it knows of.
AnswersFit(t) ==
    LET w == turn[t] IN
    /\ wire[t].asks = "thread" => w.at = "thread"
    /\ wire[t].asks = "turn" => w.at = "starting" \/ (w.at = "ended" /\ w.timedOut)
    /\ w.attempt = 2 => backend[[turn |-> t, attempt |-> 1]].is \in {"failing", "ended"}
    /\ w.at = "awaiting" => w.run = RunOf(t) /\ backend[RunOf(t)].is # "none"
    /\ w.run # None => backend[w.run].is # "none"
    /\ w.at \in Live /\ w.settled = "refused" =>
         w.run # None /\ backend[w.run].is \in {"failing", "ended"}

\* A backend turn, and the turn that it runs for.
BackendFits(r) ==
    LET w == turn[r.turn] IN
    backend[r].is # "none" =>
      /\ w.at \notin {"new", "queued"}
      /\ r.attempt <= w.attempt
      /\ r.attempt = w.attempt => w.at \in {"starting", "awaiting", "ended", "dead"}
      /\ w.at = "dead" => backend[r].is = "ended"

RunsFit == (\A t \in Turns : AnswersFit(t)) /\ (\A r \in Runs : BackendFits(r))

Reply(e) == e.says \in {"reply", "late"}

ToldFits(t) ==
    /\ turn[t].timedOut <=> \E e \in Range(told[t]) : e.says = "timeout"
    /\ \A e \in Range(told[t]) : Reply(e) =>
         /\ e.run \in Runs /\ backend[e.run].is = "ended"
         /\ turn[t].at \in Live \cup {"ended", "dead"}
         /\ turn[t].at \in Live => turn[t].run = e.run
         /\ Listening(t) => turn[t].run = e.run
    /\ turn[t].at \in Live /\ turn[t].settled = "refused" =>
         \A e \in Range(told[t]) : ~Reply(e)
    /\ turn[t].at \in Live /\ turn[t].settled = "resolved" /\ ~turn[t].timedOut =>
         \E e \in Range(told[t]) : Reply(e)
    /\ turn[t].at \in Live /\ turn[t].settled = "rejected" => t \in failed
    /\ turn[t].at = "ended" => told[t] # <<>> \/ t \in failed

Once(t) ==
    /\ \A i, j \in DOMAIN told[t] : Reply(told[t][i]) /\ Reply(told[t][j]) => i = j
    /\ \A i, j \in DOMAIN told[t] : told[t][i].says = "timeout" /\ told[t][j].says = "timeout" => i = j
    /\ \A i, j \in DOMAIN told[t] : i < j => ~(told[t][i].says = "timeout" /\ told[t][j].says = "reply")

TellsFit == \A t \in Turns : ToldFits(t)

\* What ReplyIsOwn allows besides the own turn.
Excused(t, u) ==
    \/ turn[u].conn # turn[t].conn
    \/ t < u /\ \E f \in Range(told[t]) : f.says = "timeout" /\ f.run = None
    \/ u < t /\ (u \in failed \/ \E f \in Range(told[u]) : f.says = "timeout")

OwnRuns ==
    /\ \A t \in Turns :
         turn[t].timedOut /\ Listening(t) /\ turn[t].run = None =>
           \E f \in Range(told[t]) : f.says = "timeout" /\ f.run = None
    /\ \A r \in Runs : backend[r].is = "running" /\ turn[r.turn].at = "ended" =>
         r.turn \in failed \/ \E f \in Range(told[r.turn]) : f.says = "timeout"
    /\ \A t \in Turns, r \in Runs :
         turn[t].run = r /\ r.turn # t /\ backend[r].is = "running" => Excused(t, r.turn)
    /\ \A t \in Turns : \A e \in Range(told[t]) :
         Reply(e) /\ e.run.turn # t => Excused(t, e.run.turn)

Alone == conns <= 1 /\ \A t \in Turns : ~turn[t].timedOut

ApproverFits ==
    Alone =>
      /\ (\A t \in Turns : ~Listening(t)) => approver = None
      /\ \A t \in Turns : Listening(t) =>
           approver = t /\ turn[t].saved = None /\ \A u \in Turns : Listening(u) => u = t

--------------------------------------------------------------------------------
(* What is told.                                                           *)

Says6 == {"status", "failed", "nothing", "reply", "late", "timeout"}
Events == [turn : Turns, says : Says6, thread : MaybeRun, run : MaybeRun, reset : BOOLEAN]
Final(e) == e.says \in {"reply", "late", "timeout"}
EndingOf(e) == [says |-> e.says, run |-> e.run]

LEMMA EventType ==
  ASSUME NEW t \in Turns, NEW says \in Says6, NEW thread \in MaybeRun, NEW run \in MaybeRun,
         NEW reset \in BOOLEAN
  PROVE  LET e == Event(t, says, thread, run, reset) IN
         /\ e \in Events
         /\ e.turn = t /\ e.says = says /\ e.thread = thread /\ e.run = run /\ e.reset = reset
  BY DEF Event, Events

\* The endings of turn t in events that name it once.
LEMMA FinalsFacts ==
  ASSUME NEW es \in Seq(Events), NEW t \in Turns,
         \A i, j \in 1 .. Len(es) : es[i].turn = es[j].turn => i = j
  PROVE  /\ Finals(t, es) \in Seq(Endings)
         /\ (\A i \in 1 .. Len(es) : ~(es[i].turn = t /\ Final(es[i]))) => Finals(t, es) = <<>>
         /\ \A i \in 1 .. Len(es) : es[i].turn = t /\ Final(es[i]) => Finals(t, es) = <<EndingOf(es[i])>>
  <1> DEFINE S == {e \in Range(es) : e.turn = t /\ e.says \in {"reply", "late", "timeout"}}
             k == Keep(es, S)
             f == [i \in DOMAIN k |-> [says |-> k[i].says, run |-> k[i].run]]
  <1>1. Finals(t, es) = f
    BY DEF Finals
  <1>2. /\ Len(es) \in Nat /\ \A i \in 1 .. Len(es) : es[i] \in Events
        /\ \A e : e \in Range(es) <=> \E i \in 1 .. Len(es) : es[i] = e
    BY RangeOf
  <1>3. \A i \in 1 .. Len(es) : es[i] \in S <=> es[i].turn = t /\ Final(es[i])
    BY <1>2 DEF Final
  <1>4. \A i, j \in 1 .. Len(es) : es[i] \in S /\ es[j] \in S => i = j
    BY <1>3
  <1> HIDE DEF S
  <1>5. \/ k = <<>> /\ \A i \in 1 .. Len(es) : es[i] \notin S
        \/ /\ Len(k) = 1 /\ k \in Seq(Events)
           /\ \E i \in 1 .. Len(es) : k[1] = es[i] /\ es[i] \in S
    BY <1>4, KeepOne
  <1> HIDE DEF k
  <1>6. CASE k = <<>> /\ \A i \in 1 .. Len(es) : es[i] \notin S
    <2>1. f = <<>> /\ f \in Seq(Endings)
      BY <1>6
    <2> QED
      BY <1>1, <1>3, <1>6, <2>1
  <1>7. CASE /\ Len(k) = 1 /\ k \in Seq(Events)
             /\ \E i \in 1 .. Len(es) : k[1] = es[i] /\ es[i] \in S
    <2>1. PICK i \in 1 .. Len(es) : k[1] = es[i] /\ es[i] \in S
      BY <1>7
    <2>2. DOMAIN k = 1 .. 1
      BY <1>7, LenProperties
    <2>3. f = <<EndingOf(es[i])>>
      BY <2>1, <2>2 DEF EndingOf
    <2>4. EndingOf(es[i]) \in Endings
      <3>1. es[i] \in Events /\ Final(es[i])
        BY <1>2, <1>3, <2>1
      <3> QED
        BY <3>1 DEF Events, Final, EndingOf, Endings, MaybeRun
    <2>5. f \in Seq(Endings)
      <3> HIDE DEF f
      <3> QED
        BY <2>3, <2>4
    <2>6. \A j \in 1 .. Len(es) : es[j] \in S => j = i
      BY <1>4, <2>1
    <2> HIDE DEF f
    <2> QED
      BY <1>1, <1>3, <2>1, <2>3, <2>5, <2>6
  <1> QED
    BY <1>5, <1>6, <1>7

\* One step of the bridge tells at most one thing of a turn.
LEMMA TellFacts ==
  ASSUME Types, NEW es \in Seq(Events), Tell(es),
         \A i, j \in 1 .. Len(es) : es[i].turn = es[j].turn => i = j
  PROVE  /\ room' \in MaybeRun /\ told' \in [Turns -> Seq(Endings)] /\ failed' \subseteq Turns
         /\ \A i \in 1 .. Len(es) :
              told'[es[i].turn] = IF Final(es[i]) THEN Append(told[es[i].turn], EndingOf(es[i]))
                                  ELSE told[es[i].turn]
         /\ \A t \in Turns : (\A i \in 1 .. Len(es) : es[i].turn # t) => told'[t] = told[t]
         /\ \A t \in Turns : t \in failed' <=>
              t \in failed \/ \E i \in 1 .. Len(es) : es[i].turn = t /\ es[i].says = "failed"
  <1>1. /\ Len(es) \in Nat /\ \A i \in 1 .. Len(es) : es[i] \in Events
        /\ \A e : e \in Range(es) <=> \E i \in 1 .. Len(es) : es[i] = e
        /\ Range(es) \subseteq Events
    BY RangeOf
  <1>2. room' \in MaybeRun
    <2> DEFINE S == {e \in Range(es) : /\ turn[e.turn].conn = open
                                       /\ e.reset \/ e.thread # None}
               k == Keep(es, S)
    <2>1. room' = IF k = <<>> THEN room ELSE IF Last(k).reset THEN None ELSE Last(k).thread
      BY DEF Tell, Accepted
    <2> HIDE DEF S
    <2>2. k # <<>> => Last(k) \in Range(es)
      BY KeepFacts
    <2> HIDE DEF k
    <2>3. k # <<>> => Last(k) \in Events
      BY <1>1, <2>2
    <2>4. k # <<>> => Last(k).thread \in MaybeRun
      BY <2>3 DEF Events
    <2> QED
      BY <2>1, <2>4 DEF Types, MaybeRun
  <1>3. \A t \in Turns : told'[t] = told[t] \o Finals(t, es)
    BY DEF Tell
  <1>4. \A t \in Turns : told[t] \in Seq(Endings)
    BY DEF Types
  <1>5. told' \in [Turns -> Seq(Endings)]
    <2>1. told' = [t \in Turns |-> told[t] \o Finals(t, es)]
      BY DEF Tell
    <2>2. \A t \in Turns : told[t] \o Finals(t, es) \in Seq(Endings)
      BY <1>4, FinalsFacts, ConcatProperties
    <2> QED
      BY <2>1, <2>2
  <1>6. ASSUME NEW i \in 1 .. Len(es)
        PROVE  told'[es[i].turn] = IF Final(es[i]) THEN Append(told[es[i].turn], EndingOf(es[i]))
                                   ELSE told[es[i].turn]
    <2> DEFINE t == es[i].turn
    <2>1. t \in Turns /\ told[t] \in Seq(Endings)
      BY <1>1, <1>4 DEF Events
    <2>2. \A j \in 1 .. Len(es) : es[j].turn = t => j = i
      OBVIOUS
    <2>3. CASE Final(es[i])
      <3>1. Finals(t, es) = <<EndingOf(es[i])>> /\ EndingOf(es[i]) \in Endings
        <4>1. es[i] \in Events
          BY <1>1
        <4>2. EndingOf(es[i]) \in Endings
          BY <2>3, <4>1 DEF Events, Final, EndingOf, Endings, MaybeRun
        <4> QED
          BY <2>1, <2>3, <4>2, FinalsFacts
      <3>2. told'[t] = told[t] \o <<EndingOf(es[i])>>
        BY <1>3, <2>1, <3>1
      <3>3. Append(told[t], EndingOf(es[i])) = told[t] \o <<EndingOf(es[i])>>
        BY <2>1, <3>1, AppendIsConcat
      <3> QED
        BY <2>3, <3>2, <3>3
    <2>4. CASE ~Final(es[i])
      <3>1. Finals(t, es) = <<>>
        BY <2>1, <2>2, <2>4, FinalsFacts
      <3>2. told'[t] = told[t] \o <<>>
        BY <1>3, <2>1, <3>1
      <3>3. told[t] \o <<>> = told[t]
        BY <2>1, ConcatEmptySeq
      <3> QED
        BY <2>4, <3>2, <3>3
    <2> QED
      BY <2>3, <2>4
  <1>7. ASSUME NEW t \in Turns, \A i \in 1 .. Len(es) : es[i].turn # t
        PROVE  told'[t] = told[t]
    <2>1. Finals(t, es) = <<>>
      BY <1>7, FinalsFacts
    <2>2. told'[t] = told[t] \o <<>>
      BY <1>3, <2>1
    <2> QED
      BY <1>4, <2>2, ConcatEmptySeq
  <1>8. failed' = failed \cup {e.turn : e \in {f \in Range(es) : f.says = "failed"}}
    BY DEF Tell
  <1>9. failed' \subseteq Turns
    BY <1>1, <1>8 DEF Events, Types
  <1>10. \A t \in Turns : t \in failed' <=>
              t \in failed \/ \E i \in 1 .. Len(es) : es[i].turn = t /\ es[i].says = "failed"
    BY <1>1, <1>8
  <1> QED
    BY <1>2, <1>5, <1>6, <1>7, <1>9, <1>10

LEMMA TellNone ==
  ASSUME Types, Tell(<<>>)
  PROVE  room' \in MaybeRun /\ told' = told /\ failed' = failed
  <1> DEFINE es == <<>>
  <1>1. es \in Seq(Events) /\ Len(es) = 0 /\ 1 .. Len(es) = {}
    OBVIOUS
  <1>2. Tell(es)
    OBVIOUS
  <1>3. failed' = failed
    BY DEF Tell, Range
  <1> HIDE DEF es
  <1>4. \A i, j \in 1 .. Len(es) : es[i].turn = es[j].turn => i = j
    BY <1>1
  <1>5. /\ room' \in MaybeRun /\ told' \in [Turns -> Seq(Endings)]
        /\ \A t \in Turns : (\A i \in 1 .. Len(es) : es[i].turn # t) => told'[t] = told[t]
    BY <1>1, <1>2, <1>4, TellFacts
  <1>6. \A t \in Turns : told'[t] = told[t]
    BY <1>1, <1>5
  <1>7. told' = told
    BY <1>5, <1>6 DEF Types
  <1> QED
    BY <1>3, <1>5, <1>7

LEMMA TellOne ==
  ASSUME Types, NEW e \in Events, Tell(<<e>>)
  PROVE  /\ room' \in MaybeRun /\ told' \in [Turns -> Seq(Endings)] /\ failed' \subseteq Turns
         /\ \A t \in Turns : told'[t] = IF t = e.turn /\ Final(e) THEN Append(told[t], EndingOf(e))
                                        ELSE told[t]
         /\ \A t \in Turns : t \in failed' <=> t \in failed \/ (t = e.turn /\ e.says = "failed")
  <1> DEFINE es == <<e>>
  <1>1. es \in Seq(Events) /\ Len(es) = 1 /\ es[1] = e
    OBVIOUS
  <1>2. Tell(es)
    OBVIOUS
  <1> HIDE DEF es
  <1>3. \A i \in 1 .. Len(es) : i = 1
    BY <1>1
  <1>4. \A i, j \in 1 .. Len(es) : es[i].turn = es[j].turn => i = j
    BY <1>3
  <1>5. /\ room' \in MaybeRun /\ told' \in [Turns -> Seq(Endings)] /\ failed' \subseteq Turns
        /\ \A i \in 1 .. Len(es) :
              told'[es[i].turn] = IF Final(es[i]) THEN Append(told[es[i].turn], EndingOf(es[i]))
                                  ELSE told[es[i].turn]
        /\ \A t \in Turns : (\A i \in 1 .. Len(es) : es[i].turn # t) => told'[t] = told[t]
        /\ \A t \in Turns : t \in failed' <=>
              t \in failed \/ \E i \in 1 .. Len(es) : es[i].turn = t /\ es[i].says = "failed"
    BY <1>1, <1>2, <1>4, TellFacts
  <1>6. 1 \in 1 .. Len(es)
    BY <1>1
  <1> QED
    BY <1>1, <1>3, <1>5, <1>6

--------------------------------------------------------------------------------
(* What the operations of a handler do to the state.                       *)

LEMMA UnsubscribeFacts ==
  ASSUME Types, IsInjective(listeners), NEW t \in Turns, Unsubscribe(t)
  PROVE  /\ listeners' \in Seq(Turns) /\ IsInjective(listeners')
         /\ \A u : u \in Range(listeners') <=> Listening(u) /\ u # t
         /\ approver' \in Turns \cup {None}
         /\ approver' = IF Listening(t) THEN turn[t].saved ELSE approver
  <1>1. listeners' = Keep(listeners, Turns \ {t})
    BY DEF Unsubscribe
  <1>2. listeners \in Seq(Turns) /\ Range(listeners) \subseteq Turns
    BY RangeOf DEF Types
  <1>3. turn[t].saved \in Turns \cup {None}
    BY DEF Types, Handlers
  <1>4. /\ listeners' \in Seq(Turns) /\ (IsInjective(listeners) => IsInjective(listeners'))
        /\ \A u : u \in Range(listeners') <=> u \in Range(listeners) /\ u \in Turns \ {t}
    BY <1>1, <1>2, KeepFacts
  <1> QED
    BY <1>2, <1>3, <1>4 DEF Unsubscribe, Types, Listening

\* The handler of the running turn t ends with the locals w.
LEMMA EndFacts ==
  ASSUME Types, IsInjective(listeners), NEW t \in Turns, turn[t].conn \in Conns, Running(t),
         NEW w \in Handlers, w.conn = turn[t].conn, w.attempt = turn[t].attempt,
         End(t, w)
  PROVE  /\ turn' \in [Turns -> Handlers] /\ \A u \in Turns : u # t => turn'[u] = turn[u]
         /\ turn'[t].at = "ended" /\ turn'[t].conn = turn[t].conn
         /\ turn'[t].attempt = turn[t].attempt /\ turn'[t].timedOut = w.timedOut
         /\ w.timedOut /\ Listening(t) => turn'[t].run = w.run
         /\ ~(w.timedOut /\ Listening(t)) => turn'[t].run = None
         /\ queue' \in [Conns -> Seq(Turns)] /\ queue'[turn[t].conn] = Tail(queue[turn[t].conn])
         /\ \A c \in Conns : c # turn[t].conn => queue'[c] = queue[c]
         /\ listeners' \in Seq(Turns) /\ IsInjective(listeners')
         /\ \A u : u \in Range(listeners') <=> Listening(u) /\ (u # t \/ w.timedOut)
         /\ approver' \in Turns \cup {None}
         /\ ~w.timedOut => approver' = IF Listening(t) THEN turn[t].saved ELSE approver
  <1> DEFINE e == IF w.timedOut /\ Listening(t) THEN [w EXCEPT !.at = "ended"] ELSE Gone(w, "ended")
  <1>1. turn' = [turn EXCEPT ![t] = e]
    BY DEF End
  <1>2. /\ e \in Handlers /\ e.at = "ended" /\ e.conn = w.conn /\ e.attempt = w.attempt
        /\ e.timedOut = w.timedOut
        /\ w.timedOut /\ Listening(t) => e.run = w.run
        /\ ~(w.timedOut /\ Listening(t)) => e.run = None
    <2>1. CASE w.timedOut /\ Listening(t)
      BY <2>1 DEF Handlers, Phases
    <2>2. CASE ~(w.timedOut /\ Listening(t))
      BY <2>2 DEF Gone, NewTurn, Handlers, Phases, MaybeRun
    <2> QED
      BY <2>1, <2>2
  <1> HIDE DEF e
  <1>3. /\ turn' \in [Turns -> Handlers] /\ turn'[t] = e
        /\ \A u \in Turns : u # t => turn'[u] = turn[u]
    BY <1>1, <1>2 DEF Types
  <1>4. /\ queue' \in [Conns -> Seq(Turns)] /\ queue'[turn[t].conn] = Tail(queue[turn[t].conn])
        /\ \A c \in Conns : c # turn[t].conn => queue'[c] = queue[c]
    <2>1. queue' = [queue EXCEPT ![turn[t].conn] = Tail(queue[turn[t].conn])]
      BY DEF End
    <2>2. Tail(queue[turn[t].conn]) \in Seq(Turns)
      BY HeadTailProperties DEF Running, Types
    <2> QED
      BY <2>1, <2>2 DEF Types
  <1>5. /\ listeners' \in Seq(Turns) /\ IsInjective(listeners')
        /\ \A u : u \in Range(listeners') <=> Listening(u) /\ (u # t \/ w.timedOut)
        /\ approver' \in Turns \cup {None}
        /\ ~w.timedOut => approver' = IF Listening(t) THEN turn[t].saved ELSE approver
    <2>1. CASE w.timedOut
      BY <2>1 DEF End, Types, Listening
    <2>2. CASE ~w.timedOut
      <3>1. Unsubscribe(t)
        BY <2>2 DEF End
      <3> QED
        BY <2>2, <3>1, UnsubscribeFacts
    <2> QED
      BY <2>1, <2>2
  <1> QED
    BY <1>2, <1>3, <1>4, <1>5

Kinds == {"activity", "window", "unsupported", "completed", "failed"}
Notices == [kind : Kinds, thread : MaybeRun, run : MaybeRun]

\* What a handler makes of a notification.
LEMMA HeardFacts ==
  ASSUME Types, NEW t \in Turns, NEW m \in Notices
  PROVE  LET w == turn[t]
             h == Heard(t, m)
             ending == Matches(w, m) /\ m.kind # "activity"
         IN
         /\ h \in Handlers /\ h.at = w.at /\ h.conn = w.conn /\ h.attempt = w.attempt
         /\ h.timedOut = w.timedOut
         /\ ~Matches(w, m) => h = w
         /\ Matches(w, m) /\ ~(ending /\ w.timedOut /\ w.at = "ended") =>
              /\ h.run = IF w.run = None THEN m.run ELSE w.run
              /\ h.saved = w.saved
         /\ ~(ending /\ ~w.timedOut /\ w.settled = "no") /\ ~(ending /\ w.timedOut) =>
              h.settled = w.settled
         /\ ending /\ w.timedOut /\ w.at # "ended" => h.settled = w.settled
         /\ ending /\ ~w.timedOut /\ w.settled = "no" =>
              h.settled = IF m.kind = "completed" THEN "resolved"
                          ELSE IF Refuses(t, m) THEN "refused" ELSE "rejected"
         /\ ending /\ w.timedOut /\ w.at = "ended" => h.run = None
  <1> DEFINE w == turn[t]
             v == [w EXCEPT !.run = IF @ = None THEN m.run ELSE @]
             s == IF m.kind = "completed" THEN "resolved"
                  ELSE IF Refuses(t, m) THEN "refused" ELSE "rejected"
             h == Heard(t, m)
  <1>1. w \in Handlers /\ m.run \in MaybeRun
    BY DEF Types, Notices
  <1>2. /\ v \in Handlers /\ v.at = w.at /\ v.conn = w.conn /\ v.attempt = w.attempt
        /\ v.timedOut = w.timedOut /\ v.settled = w.settled /\ v.saved = w.saved
        /\ v.run = IF w.run = None THEN m.run ELSE w.run
    BY <1>1 DEF Handlers
  <1>3. h = IF ~Matches(w, m) THEN w
            ELSE IF m.kind = "activity" \/ (v.settled # "no" /\ ~v.timedOut) THEN v
            ELSE IF v.timedOut THEN Left(v)
            ELSE [v EXCEPT !.settled = s]
    BY DEF Heard
  <1> HIDE DEF v, h, w, s
  <1>4. /\ Left(v) \in Handlers /\ Left(v).at = v.at /\ Left(v).conn = v.conn
        /\ Left(v).attempt = v.attempt /\ Left(v).timedOut = v.timedOut
        /\ v.at = "ended" => Left(v).run = None
        /\ v.at # "ended" => /\ Left(v).run = v.run /\ Left(v).saved = v.saved
                             /\ Left(v).settled = v.settled
    <2>1. CASE v.at = "ended"
      BY <1>2, <2>1 DEF Left, Gone, NewTurn, Handlers, Phases, MaybeRun
    <2>2. CASE v.at # "ended"
      BY <1>2, <2>2 DEF Left, Handlers
    <2> QED
      BY <2>1, <2>2
  <1>5. s \in {"resolved", "refused", "rejected"}
    BY DEF s
  <1>6. LET x == [v EXCEPT !.settled = s] IN
        /\ x \in Handlers /\ x.at = v.at /\ x.conn = v.conn /\ x.attempt = v.attempt
        /\ x.timedOut = v.timedOut /\ x.settled = s /\ x.saved = v.saved /\ x.run = v.run
    BY <1>2, <1>5 DEF Handlers
  <1>7. CASE ~Matches(w, m)
    BY <1>1, <1>3, <1>7 DEF h, w
  <1>8. CASE Matches(w, m) /\ (m.kind = "activity" \/ (v.settled # "no" /\ ~v.timedOut))
    <2>1. h = v
      BY <1>3, <1>8
    <2> QED
      BY <1>2, <1>8, <2>1 DEF h, w
  <1>9. CASE Matches(w, m) /\ m.kind # "activity" /\ v.timedOut
    <2>1. h = Left(v)
      BY <1>3, <1>9
    <2> QED
      BY <1>2, <1>4, <1>9, <2>1 DEF h, w
  <1>10. CASE Matches(w, m) /\ m.kind # "activity" /\ ~v.timedOut /\ v.settled = "no"
    <2>1. h = [v EXCEPT !.settled = s]
      BY <1>3, <1>10
    <2> QED
      BY <1>2, <1>6, <1>10, <2>1 DEF h, w, s
  <1> QED
    BY <1>7, <1>8, <1>9, <1>10

\* What it says of it.
LEMMA SaysFacts ==
  ASSUME Types, NEW t \in Turns, NEW m \in Notices
  PROVE  LET w == turn[t]
             e == Says(t, m)
         IN
         /\ e \in Events /\ e.turn = t
         /\ Final(e) <=> Matches(w, m) /\ m.kind = "completed"
         /\ Final(e) => /\ EndingOf(e) = [says |-> IF w.timedOut THEN "late" ELSE "reply", run |-> m.run]
                        /\ EndingOf(e) \in Endings
         /\ e.says = "failed" <=> /\ Matches(w, m) /\ ~Refuses(t, m)
                                  /\ m.kind \notin {"activity", "completed"}
  <1> DEFINE w == turn[t]
             e == Says(t, m)
             thread == IF m.thread = None THEN w.thread ELSE m.thread
             reset == m.kind = "unsupported" \/ (m.kind = "window" /\ w.resumed)
  <1>1. /\ w.thread \in MaybeRun /\ w.timedOut \in BOOLEAN /\ w.resumed \in BOOLEAN
        /\ m.thread \in MaybeRun /\ m.run \in MaybeRun /\ m.kind \in Kinds
    BY DEF Types, Notices, Handlers
  <1>2. thread \in MaybeRun /\ reset \in BOOLEAN /\ None \in MaybeRun
    BY <1>1 DEF MaybeRun
  <1>3. e = IF ~Matches(w, m) \/ Refuses(t, m) THEN Event(t, "nothing", None, None, FALSE)
            ELSE IF m.kind = "activity" THEN Event(t, "status", thread, None, FALSE)
            ELSE IF m.kind = "completed"
            THEN Event(t, IF w.timedOut THEN "late" ELSE "reply", thread, m.run, FALSE)
            ELSE Event(t, "failed", thread, None, reset)
    BY DEF Says, Silent, Status
  <1> HIDE DEF thread, reset, e
  <1>4. Refuses(t, m) => m.kind = "unsupported"
    BY DEF Refuses
  <1>5. CASE ~Matches(w, m) \/ Refuses(t, m)
    <2>1. e = Event(t, "nothing", None, None, FALSE)
      BY <1>3, <1>5
    <2>2. e \in Events /\ e.turn = t /\ e.says = "nothing"
      BY <1>2, <2>1 DEF Event, Events, Says6
    <2> QED
      BY <1>4, <1>5, <2>2 DEF e, Final
  <1>6. CASE Matches(w, m) /\ m.kind = "activity"
    <2>1. e = Event(t, "status", thread, None, FALSE)
      BY <1>3, <1>4, <1>6
    <2>2. e \in Events /\ e.turn = t /\ e.says = "status"
      BY <1>2, <2>1 DEF Event, Events, Says6
    <2> QED
      BY <1>6, <2>2 DEF e, Final
  <1>7. CASE Matches(w, m) /\ m.kind = "completed"
    <2> DEFINE says == IF w.timedOut THEN "late" ELSE "reply"
    <2>1. e = Event(t, says, thread, m.run, FALSE)
      BY <1>3, <1>4, <1>7
    <2>2. says \in Says6 /\ says \in {"reply", "late"}
      BY DEF Says6
    <2>3. e \in Events /\ e.turn = t /\ e.says = says /\ e.run = m.run
      BY <1>1, <1>2, <2>1, <2>2 DEF Event, Events
    <2>4. EndingOf(e) \in Endings
      BY <1>1, <2>2, <2>3 DEF EndingOf, Endings, MaybeRun
    <2> QED
      BY <1>7, <2>2, <2>3, <2>4 DEF e, Final, EndingOf
  <1>8. CASE Matches(w, m) /\ ~Refuses(t, m) /\ m.kind \notin {"activity", "completed"}
    <2>1. e = Event(t, "failed", thread, None, reset)
      BY <1>3, <1>8
    <2>2. e \in Events /\ e.turn = t /\ e.says = "failed"
      BY <1>2, <2>1 DEF Event, Events, Says6
    <2> QED
      BY <1>8, <2>2 DEF e, Final
  <1> QED
    BY <1>5, <1>6, <1>7, <1>8

\* Every listener hears the notification, once.
LEMMA NotifyFacts ==
  ASSUME Types, IsInjective(listeners), NEW m \in Notices, Notify(m)
  PROVE  /\ turn' = [t \in Turns |-> IF Listening(t) THEN Heard(t, m) ELSE turn[t]]
         /\ turn' \in [Turns -> Handlers]
         /\ room' \in MaybeRun /\ told' \in [Turns -> Seq(Endings)] /\ failed' \subseteq Turns
         /\ \A t \in Turns :
              /\ ~(Listening(t) /\ Final(Says(t, m))) => told'[t] = told[t]
              /\ Listening(t) /\ Final(Says(t, m)) =>
                   told'[t] = Append(told[t], EndingOf(Says(t, m)))
              /\ t \in failed' <=> t \in failed \/ (Listening(t) /\ Says(t, m).says = "failed")
         /\ listeners' \in Seq(Turns) /\ IsInjective(listeners')
         /\ \A t \in Turns : t \in Range(listeners') <=>
              Listening(t) /\ ~(turn[t].timedOut /\ m.kind # "activity" /\ Matches(turn[t], m))
         /\ approver' \in Turns \cup {None}
         /\ (\A t \in Turns : ~turn[t].timedOut) => approver' = approver
         /\ unheard' \subseteq Turns /\ UNCHANGED <<links, queue, wire>>
  <1> DEFINE es == [i \in DOMAIN listeners |-> Says(listeners[i], m)]
             leaves == {t \in Turns : turn[t].timedOut /\ m.kind # "activity" /\ Matches(turn[t], m)}
             leaving == Keep(listeners, leaves)
  <1>1. /\ listeners \in Seq(Turns) /\ Len(listeners) \in Nat /\ DOMAIN listeners = 1 .. Len(listeners)
        /\ \A i \in 1 .. Len(listeners) : listeners[i] \in Turns
        /\ \A t : Listening(t) <=> \E i \in 1 .. Len(listeners) : listeners[i] = t
        /\ \A i, j \in 1 .. Len(listeners) : listeners[i] = listeners[j] => i = j
    BY RangeOf DEF Types, Listening
  <1>2. turn' = [t \in Turns |-> IF Listening(t) THEN Heard(t, m) ELSE turn[t]]
    BY DEF Notify
  <1>3. turn' \in [Turns -> Handlers]
    <2>1. \A t \in Turns : Heard(t, m) \in Handlers /\ turn[t] \in Handlers
      BY HeardFacts DEF Types
    <2> QED
      BY <1>2, <2>1
  <1>4. /\ es \in Seq(Events) /\ Len(es) = Len(listeners)
        /\ \A i \in 1 .. Len(listeners) : es[i] = Says(listeners[i], m) /\ es[i].turn = listeners[i]
    <2>1. \A i \in 1 .. Len(listeners) : Says(listeners[i], m) \in Events
                                         /\ Says(listeners[i], m).turn = listeners[i]
      BY <1>1, SaysFacts
    <2>2. es \in [1 .. Len(listeners) -> Events]
      BY <1>1, <2>1
    <2>3. es \in Seq(Events) /\ Len(es) = Len(listeners)
      <3> HIDE DEF es
      <3> QED
        BY <1>1, <2>2, IsASeq, LenProperties
    <2> QED
      BY <1>1, <2>1, <2>3
  <1>5. Tell(es)
    BY DEF Notify
  <1> HIDE DEF es
  <1>6. \A i, j \in 1 .. Len(es) : es[i].turn = es[j].turn => i = j
    BY <1>1, <1>4
  <1>7. /\ room' \in MaybeRun /\ told' \in [Turns -> Seq(Endings)] /\ failed' \subseteq Turns
        /\ \A i \in 1 .. Len(es) :
              told'[es[i].turn] = IF Final(es[i]) THEN Append(told[es[i].turn], EndingOf(es[i]))
                                  ELSE told[es[i].turn]
        /\ \A t \in Turns : (\A i \in 1 .. Len(es) : es[i].turn # t) => told'[t] = told[t]
        /\ \A t \in Turns : t \in failed' <=>
              t \in failed \/ \E i \in 1 .. Len(es) : es[i].turn = t /\ es[i].says = "failed"
    BY <1>4, <1>5, <1>6, TellFacts
  <1>8. ASSUME NEW t \in Turns
        PROVE  /\ ~(Listening(t) /\ Final(Says(t, m))) => told'[t] = told[t]
               /\ Listening(t) /\ Final(Says(t, m)) =>
                    told'[t] = Append(told[t], EndingOf(Says(t, m)))
               /\ t \in failed' <=> t \in failed \/ (Listening(t) /\ Says(t, m).says = "failed")
    <2>1. CASE Listening(t)
      <3>1. PICK i \in 1 .. Len(listeners) : listeners[i] = t
        BY <1>1, <2>1
      <3>2. i \in 1 .. Len(es) /\ es[i] = Says(t, m) /\ es[i].turn = t
        BY <1>4, <3>1
      <3>3. \A j \in 1 .. Len(es) : es[j].turn = t => j = i
        BY <1>6, <3>2
      <3>4. told'[t] = IF Final(Says(t, m)) THEN Append(told[t], EndingOf(Says(t, m))) ELSE told[t]
        BY <1>7, <3>2
      <3>5. t \in failed' <=> t \in failed \/ Says(t, m).says = "failed"
        BY <1>7, <3>2, <3>3
      <3> QED
        BY <2>1, <3>4, <3>5
    <2>2. CASE ~Listening(t)
      <3>1. \A i \in 1 .. Len(es) : es[i].turn # t
        BY <1>1, <1>4, <2>2
      <3> QED
        BY <1>7, <2>2, <3>1
    <2> QED
      BY <2>1, <2>2
  <1>9. /\ listeners' \in Seq(Turns) /\ IsInjective(listeners')
        /\ \A t \in Turns : t \in Range(listeners') <=> Listening(t) /\ t \notin leaves
    <2>1. listeners' = Keep(listeners, Turns \ leaves)
      BY DEF Notify
    <2> HIDE DEF leaves
    <2>2. /\ listeners' \in Seq(Turns) /\ (IsInjective(listeners) => IsInjective(listeners'))
          /\ \A t : t \in Range(listeners') <=> t \in Range(listeners) /\ t \in Turns \ leaves
      BY <1>1, <2>1, KeepFacts
    <2> QED
      BY <2>2 DEF Listening
  <1>10. approver' = IF leaving = <<>> THEN approver ELSE turn[Last(leaving)].saved
    BY DEF Notify
  <1>11. /\ approver' \in Turns \cup {None}
         /\ (\A t \in Turns : ~turn[t].timedOut) => approver' = approver
    <2>1. (\A t \in Turns : ~turn[t].timedOut) => leaves = {}
      OBVIOUS
    <2> HIDE DEF leaves
    <2>2. /\ leaving = <<>> <=> \A x \in Range(listeners) : x \notin leaves
          /\ leaving # <<>> => Last(leaving) \in Range(listeners)
      BY <1>1, KeepFacts
    <2> HIDE DEF leaving
    <2>3. leaving # <<>> => Last(leaving) \in Turns
      BY <1>1, <2>2, RangeOf
    <2>4. leaving # <<>> => turn[Last(leaving)].saved \in Turns \cup {None}
      BY <2>3 DEF Types, Handlers
    <2>5. leaves = {} => leaving = <<>>
      BY <2>2
    <2>6. (\A t \in Turns : ~turn[t].timedOut) => leaving = <<>>
      BY <2>1, <2>5
    <2> QED
      BY <1>10, <2>4, <2>6 DEF Types
  <1>12. unheard' \subseteq Turns /\ UNCHANGED <<links, queue, wire>>
    BY DEF Notify
  <1> QED
    BY <1>2, <1>3, <1>7, <1>8, <1>9, <1>11, <1>12

--------------------------------------------------------------------------------
(* Types, and how the handlers, the queues and the subscriptions fit.      *)

LEMMA Named == None \notin Turns /\ None \in MaybeRun /\ Runs \subseteq MaybeRun /\ NewTurn \in Handlers
  BY BridgeAssumption DEF MaybeRun, NewTurn, Handlers, Phases, Turns

LEMMA ConnsFacts == Conns \subseteq Nat /\ 0 \notin Conns /\ Turns \subseteq Nat
                    /\ \A c \in Conns : c \in 0 .. MaxFaults + 1
  BY BridgeAssumption DEF Conns, Turns

LEMMA RunOfType ==
  ASSUME Types, NEW t \in Turns
  PROVE  RunOf(t) \in Runs /\ RunOf(t).turn = t /\ RunOf(t).attempt = turn[t].attempt
  BY DEF Types, Handlers, RunOf, Runs

\* A handler that a step leaves alone still fits.
LEMMA SameFits ==
  ASSUME NEW u \in Turns, HandlerFits(u), turn'[u] = turn[u],
         conns \in Nat, conns' \in Nat, conns <= conns', turn[u].conn \in Nat,
         turn[u].at \in Busy /\ Running(u) => Running(u)',
         u \in Range(listeners') => Listening(u)
  PROVE  HandlerFits(u)'
  BY ConnsFacts DEF HandlerFits, Listening

LEMMA InitShape == Init => Shape
  <1> SUFFICES ASSUME Init
               PROVE  Shape
    OBVIOUS
  <1>1. Types
    BY Named, BridgeAssumption DEF Init, Types, Endings, NoRequest, MaybeRun
  <1>2. IsInjective(listeners) /\ \A t : ~Listening(t)
    BY DEF Init, IsInjective, Listening, Range
  <1>3. ASSUME NEW t \in Turns
        PROVE  HandlerFits(t)
    BY <1>2 DEF Init, HandlerFits, NewTurn, Busy, Live
  <1> QED
    BY <1>1, <1>2, <1>3 DEF Shape

LEMMA TypesOf ==
  ASSUME Types, NEW t \in Turns
  PROVE  /\ turn[t] \in Handlers /\ turn[t].conn \in Nat /\ turn[t].at \in Phases
         /\ turn[t].timedOut \in BOOLEAN /\ turn[t].thread \in MaybeRun /\ turn[t].run \in MaybeRun
         /\ wire[t] \in [asks : {"none", "thread", "turn"}, thread : MaybeRun]
         /\ conns \in Nat /\ open \in Nat /\ room \in MaybeRun
  BY BridgeAssumption DEF Types, Handlers

\* The end of a handler.
LEMMA EndShape ==
  ASSUME Shape, NEW t \in Turns, turn[t].at \in Waiting, Running(t),
         NEW w \in Handlers, w.conn = turn[t].conn, w.attempt = turn[t].attempt,
         End(t, w), UNCHANGED conns
  PROVE  /\ turn' \in [Turns -> Handlers] /\ queue' \in [Conns -> Seq(Turns)]
         /\ listeners' \in Seq(Turns) /\ approver' \in Turns \cup {None}
         /\ IsInjective(listeners') /\ \A u \in Turns : HandlerFits(u)'
  <1>1. Types /\ IsInjective(listeners) /\ \A u \in Turns : HandlerFits(u)
    BY DEF Shape
  <1>2. turn[t].conn \in Conns /\ turn[t].conn <= conns
    BY <1>1 DEF HandlerFits, Waiting, Busy
  <1>3. /\ turn' \in [Turns -> Handlers] /\ \A u \in Turns : u # t => turn'[u] = turn[u]
        /\ turn'[t].at = "ended" /\ turn'[t].conn = turn[t].conn /\ turn'[t].timedOut = w.timedOut
        /\ queue' \in [Conns -> Seq(Turns)]
        /\ \A c \in Conns : c # turn[t].conn => queue'[c] = queue[c]
        /\ listeners' \in Seq(Turns) /\ IsInjective(listeners')
        /\ \A u : u \in Range(listeners') <=> Listening(u) /\ (u # t \/ w.timedOut)
        /\ approver' \in Turns \cup {None}
    BY <1>1, <1>2, EndFacts
  <1>4. HandlerFits(t)'
    BY <1>2, <1>3 DEF HandlerFits, Busy, Live, Listening
  <1>5. ASSUME NEW u \in Turns, u # t
        PROVE  HandlerFits(u)'
    <2>1. turn[u].at \in Busy => turn[u].conn \in Conns
      BY <1>1 DEF HandlerFits, Busy
    <2>2. turn[u].at \in Busy /\ Running(u) => Running(u)'
      <3> SUFFICES ASSUME turn[u].at \in Busy, Running(u)
                   PROVE  Running(u)'
        OBVIOUS
      <3>1. turn[u].conn # turn[t].conn
        BY <1>5 DEF Running
      <3> QED
        BY <1>3, <1>5, <2>1, <3>1 DEF Running
    <2>3. conns' = conns /\ conns \in Nat /\ turn[u].conn \in Nat
      BY <1>1, TypesOf
    <2> QED
      BY <1>1, <1>3, <1>5, <2>2, <2>3, SameFits
  <1> QED
    BY <1>3, <1>4, <1>5

\* A handler goes on, in the same place of its queue.
LEMMA MoveShape ==
  ASSUME Shape, NEW t \in Turns, NEW w \in Handlers,
         turn' = [turn EXCEPT ![t] = w],
         w.conn = turn[t].conn, turn[t].at # "new",
         turn[t].at \in Busy \/ Running(t), w.at \in Busy,
         w.at = "thread" => ~w.timedOut /\ w.settled = "no" /\ w.run = None,
         w.timedOut => w.settled = "resolved",
         UNCHANGED <<conns, queue>>,
         \A u \in Turns : u \in Range(listeners') => Listening(u) \/ u = t,
         t \in Range(listeners') => w.at \in Live
  PROVE  turn' \in [Turns -> Handlers] /\ \A u \in Turns : HandlerFits(u)'
  <1>1. Types /\ \A u \in Turns : HandlerFits(u)
    BY DEF Shape
  <1>2. turn' \in [Turns -> Handlers] /\ turn'[t] = w /\ \A u \in Turns : u # t => turn'[u] = turn[u]
    BY <1>1 DEF Types
  <1>3. Running(t)'
    BY <1>1, <1>2 DEF HandlerFits, Running, Busy
  <1>4. HandlerFits(t)'
    BY <1>1, <1>2, <1>3 DEF HandlerFits, Busy, Live, Listening
  <1>5. ASSUME NEW u \in Turns, u # t
        PROVE  HandlerFits(u)'
    <2>1. conns' = conns /\ conns \in Nat /\ turn[u].conn \in Nat
      BY <1>1, TypesOf
    <2>2. Running(u) => Running(u)'
      BY <1>2, <1>5 DEF Running
    <2>3. u \in Range(listeners') => Listening(u)
      BY <1>5
    <2> QED
      BY <1>1, <1>2, <1>5, <2>1, <2>2, <2>3, SameFits
  <1> QED
    BY <1>2, <1>4, <1>5

LEMMA FailedEvent ==
  ASSUME NEW t \in Turns
  PROVE  /\ Failed(t) \in Events /\ Failed(t).turn = t /\ Failed(t).says = "failed"
         /\ ~Final(Failed(t))
  BY Named DEF Failed, Event, Events, Says6, Final

LEMMA StatusEvent ==
  ASSUME NEW t \in Turns, NEW thread \in MaybeRun
  PROVE  /\ Status(t, thread) \in Events /\ Status(t, thread).turn = t
         /\ Status(t, thread).says = "status" /\ ~Final(Status(t, thread))
  BY Named DEF Status, Event, Events, Says6, Final

LEMMA TimeoutEvent ==
  ASSUME NEW t \in Turns, NEW thread \in MaybeRun, NEW run \in MaybeRun
  PROVE  LET e == Event(t, "timeout", thread, run, FALSE) IN
         /\ e \in Events /\ e.turn = t /\ e.says = "timeout" /\ Final(e)
         /\ EndingOf(e) = [says |-> "timeout", run |-> run]
  BY DEF Event, Events, Says6, Final, EndingOf

LEMMA ResetEvent ==
  ASSUME NEW t \in Turns
  PROVE  LET e == Event(t, "failed", None, None, TRUE) IN
         /\ e \in Events /\ e.turn = t /\ e.says = "failed" /\ ~Final(e)
  BY Named DEF Event, Events, Says6, Final

ToldTypes == room' \in MaybeRun /\ told' \in [Turns -> Seq(Endings)] /\ failed' \subseteq Turns

LEMMA TellTypes ==
  ASSUME Types, NEW e \in Events, Tell(<<e>>) \/ Tell(<<>>) \/ UNCHANGED outbox
  PROVE  ToldTypes
  <1>1. CASE Tell(<<e>>)
    BY <1>1, TellOne DEF ToldTypes
  <1>2. CASE Tell(<<>>)
    BY <1>2, TellNone DEF ToldTypes, Types
  <1>3. CASE UNCHANGED outbox
    BY <1>3 DEF ToldTypes, Types, outbox
  <1> QED
    BY <1>1, <1>2, <1>3

\* Types' in parts: the connections, the handlers, the app server, the events.
LEMMA TypesParts ==
  ASSUME conns' \in 0 .. MaxFaults + 1, open' \in {0, conns'}, faults' \in 0 .. MaxFaults,
         turn' \in [Turns -> Handlers], queue' \in [Conns -> Seq(Turns)],
         listeners' \in Seq(Turns), approver' \in Turns \cup {None}, unheard' \subseteq Turns,
         wire' \in [Turns -> [asks : {"none", "thread", "turn"}, thread : MaybeRun]],
         backend' \in [Runs -> [is : {"none", "running", "failing", "ended"}, thread : MaybeRun]],
         ToldTypes
  PROVE  Types'
  BY DEF Types, ToldTypes

LEMMA ConnectShape == Shape /\ Connect => Shape'
  <1> SUFFICES ASSUME Shape, Connect
               PROVE  Shape'
    OBVIOUS
  <1>1. Types /\ IsInjective(listeners) /\ \A u \in Turns : HandlerFits(u)
    BY DEF Shape
  <1>2. /\ conns <= MaxFaults /\ conns' = conns + 1 /\ open' = conns + 1
        /\ UNCHANGED <<queue, turn, listeners, approver, unheard, server, outbox, faults>>
    BY DEF Connect
  <1>3. conns' \in 0 .. MaxFaults + 1 /\ conns' \in Nat /\ conns <= conns' /\ conns \in Nat
    BY <1>1, <1>2, BridgeAssumption DEF Types
  <1>4. Types'
    BY <1>1, <1>2, <1>3 DEF Types, server, outbox
  <1>5. ASSUME NEW u \in Turns
        PROVE  HandlerFits(u)'
    <2>1. turn'[u] = turn[u] /\ (Running(u) => Running(u)') /\ turn[u].conn \in Nat
          /\ (u \in Range(listeners') => Listening(u))
      BY <1>1, <1>2, TypesOf DEF Running, Listening
    <2> QED
      BY <1>1, <1>3, <2>1, SameFits
  <1>6. IsInjective(listeners')
    BY <1>1, <1>2
  <1> QED
    BY <1>4, <1>5, <1>6 DEF Shape

\* Steps that leave the handlers and their queues alone.
LEMMA StillShape ==
  ASSUME Shape, UNCHANGED <<conns, queue, turn, listeners>>, Types'
  PROVE  Shape'
  <1>1. IsInjective(listeners) /\ \A u \in Turns : HandlerFits(u)
    BY DEF Shape
  <1>2. \A u \in Turns : HandlerFits(u)'
    BY <1>1 DEF HandlerFits, Running, Listening
  <1> QED
    BY <1>1, <1>2 DEF Shape

LEMMA LinkShape == Shape /\ (Disconnect \/ ChildExit \/ \E t \in Turns : BeginRun(t)) => Shape'
  <1> SUFFICES ASSUME Shape, Disconnect \/ ChildExit \/ \E t \in Turns : BeginRun(t)
               PROVE  Shape'
    OBVIOUS
  <1>1. Types
    BY DEF Shape
  <1>2. CASE Disconnect
    <2>1. Types'
      BY <1>1, <1>2, BridgeAssumption DEF Disconnect, Fault, Types, server, outbox
    <2> QED
      BY <1>2, <2>1, StillShape DEF Disconnect
  <1>3. CASE ChildExit
    <2>1. /\ wire' \in [Turns -> [asks : {"none", "thread", "turn"}, thread : MaybeRun]]
          /\ backend' \in [Runs -> [is : {"none", "running", "failing", "ended"}, thread : MaybeRun]]
      BY <1>1, <1>3, Named DEF ChildExit, NoRequest, Over, Types
    <2>2. Types'
      BY <1>1, <1>3, <2>1, BridgeAssumption DEF ChildExit, Fault, Types, links, outbox
    <2> QED
      BY <1>3, <2>2, StillShape DEF ChildExit, links
  <1>4. CASE \E t \in Turns : BeginRun(t)
    <2>1. PICK t \in Turns : BeginRun(t)
      BY <1>4
    <2>2. backend' \in [Runs -> [is : {"none", "running", "failing", "ended"}, thread : MaybeRun]]
      <3>1. [is |-> "running", thread |-> wire[t].thread]
              \in [is : {"none", "running", "failing", "ended"}, thread : MaybeRun]
        BY <1>1, TypesOf
      <3> QED
        BY <1>1, <2>1, <3>1 DEF BeginRun, Types
    <2>3. Types'
      BY <1>1, <2>1, <2>2 DEF BeginRun, Types, links, outbox
    <2> QED
      BY <2>1, <2>3, StillShape DEF BeginRun, links
  <1> QED
    BY <1>2, <1>3, <1>4

LEMMA RequestShape == \A t \in Turns : Shape /\ Request(t) => Shape'
  <1> SUFFICES ASSUME NEW t \in Turns, Shape, Request(t)
               PROVE  Shape'
    OBVIOUS
  <1>1. Types /\ IsInjective(listeners) /\ \A u \in Turns : HandlerFits(u)
    BY DEF Shape
  <1>2. open = conns /\ open \in Conns /\ open \in Nat /\ open <= conns
    BY <1>1, BridgeAssumption DEF Request, Types, Conns
  <1> DEFINE w == [turn[t] EXCEPT !.at = "queued", !.conn = open, !.thread = room]
  <1>3. w \in Handlers /\ w.at = "queued" /\ w.conn = open /\ w.timedOut = turn[t].timedOut
        /\ w.settled = turn[t].settled /\ w.run = turn[t].run
    <2>1. turn[t] \in Handlers /\ room \in MaybeRun /\ open \in 0 .. MaxFaults + 1
      BY <1>1, <1>2, ConnsFacts, TypesOf
    <2> QED
      BY <2>1 DEF Handlers, Phases
  <1>4. /\ turn' \in [Turns -> Handlers] /\ turn'[t] = w
        /\ \A u \in Turns : u # t => turn'[u] = turn[u]
    <2>1. turn' = [turn EXCEPT ![t] = w]
      BY DEF Request
    <2> HIDE DEF w
    <2> QED
      BY <1>1, <1>3, <2>1 DEF Types
  <1> HIDE DEF w
  <1>5. /\ queue' \in [Conns -> Seq(Turns)]
        /\ \A c \in Conns : queue[c] # <<>> => queue'[c] # <<>> /\ Head(queue'[c]) = Head(queue[c])
    <2>1. queue' = [queue EXCEPT ![open] = Append(queue[open], t)]
      BY DEF Request
    <2>2. queue[open] \in Seq(Turns)
      BY <1>1, <1>2 DEF Types
    <2>3. /\ Append(queue[open], t) \in Seq(Turns) /\ Append(queue[open], t) # <<>>
          /\ queue[open] # <<>> => Head(Append(queue[open], t)) = Head(queue[open])
      BY <2>2, AppendProperties, HeadTailAppend
    <2> QED
      BY <1>1, <1>2, <2>1, <2>3 DEF Types
  <1>6. Types'
    BY <1>1, <1>4, <1>5 DEF Request, Types, links, server, outbox
  <1>7. HandlerFits(t)'
    BY <1>1, <1>2, <1>3, <1>4 DEF Request, HandlerFits, Busy, Live, Listening, links
  <1>8. ASSUME NEW u \in Turns, u # t
        PROVE  HandlerFits(u)'
    <2>1. turn[u].at \in Busy => turn[u].conn \in Conns
      BY <1>1 DEF HandlerFits, Busy
    <2>2. turn[u].at \in Busy /\ Running(u) => Running(u)'
      BY <1>4, <1>5, <1>8, <2>1 DEF Running
    <2>3. conns' = conns /\ conns \in Nat /\ turn[u].conn \in Nat
          /\ (u \in Range(listeners') => Listening(u))
      BY <1>1, TypesOf DEF Request, links, Listening
    <2> QED
      BY <1>1, <1>4, <1>8, <2>2, <2>3, SameFits
  <1>9. IsInjective(listeners')
    BY <1>1 DEF Request
  <1> QED
    BY <1>6, <1>7, <1>8, <1>9 DEF Shape

LEMMA HandlerShape ==
  ASSUME Shape, NEW t \in Turns,
         Refuse(t) \/ Start(t) \/ MediaReady(t) \/ RequestTimeout(t) \/ Stall(t) \/ Finish(t)
  PROVE  Shape'
  <1>1. Types /\ IsInjective(listeners) /\ \A u \in Turns : HandlerFits(u)
    BY DEF Shape
  <1> DEFINE w == turn[t]
  <1>2. w \in Handlers /\ w.thread \in MaybeRun /\ w.run \in MaybeRun /\ w.conn \in Nat
    BY <1>1, TypesOf
  <1>3. w.at \in Busy => Running(t)
    BY <1>1 DEF HandlerFits
  <1>4. CASE Refuse(t)
    <2>1. /\ w.at = "queued" /\ Running(t) /\ End(t, w) /\ Tell(<<Failed(t)>>)
          /\ UNCHANGED <<links, unheard, server, faults>>
      BY <1>4 DEF Refuse
    <2>2. /\ turn' \in [Turns -> Handlers] /\ queue' \in [Conns -> Seq(Turns)]
          /\ listeners' \in Seq(Turns) /\ approver' \in Turns \cup {None}
          /\ IsInjective(listeners') /\ \A u \in Turns : HandlerFits(u)'
      BY <1>2, <2>1, EndShape DEF links, Waiting
    <2>3. ToldTypes
      BY <1>1, <2>1, TellTypes, FailedEvent
    <2>4. Types'
      BY <1>1, <2>1, <2>2, <2>3, TypesParts DEF Types, links, server
    <2> QED
      BY <2>2, <2>4 DEF Shape
  <1>5. CASE Start(t)
    <2> DEFINE v == [w EXCEPT !.at = "thread", !.resumed = (w.thread # None)]
    <2>1. /\ w.at = "queued" /\ Running(t) /\ turn' = [turn EXCEPT ![t] = v]
          /\ wire' = [wire EXCEPT ![t] = [asks |-> "thread", thread |-> w.thread]]
          /\ UNCHANGED <<links, queue, listeners, approver, unheard, backend, outbox, faults>>
      BY <1>5 DEF Start
    <2>2. /\ v \in Handlers /\ v.at = "thread" /\ v.conn = w.conn /\ v.timedOut = w.timedOut
          /\ v.settled = w.settled /\ v.run = w.run
      BY <1>2 DEF Handlers, Phases
    <2> HIDE DEF v
    <2>3. ~w.timedOut /\ w.settled = "no" /\ w.run = None /\ ~Listening(t)
      BY <1>1, <2>1 DEF HandlerFits, Live
    <2>4. turn' \in [Turns -> Handlers] /\ \A u \in Turns : HandlerFits(u)'
      <3>1. UNCHANGED <<conns, queue>> /\ listeners' = listeners
        BY <2>1 DEF links
      <3> QED
        BY <2>1, <2>2, <2>3, <3>1, MoveShape DEF Busy, Listening
    <2>5. wire' \in [Turns -> [asks : {"none", "thread", "turn"}, thread : MaybeRun]]
      BY <1>1, <1>2, <2>1 DEF Types
    <2>6. Types'
      BY <1>1, <2>1, <2>4, <2>5 DEF Types, links, outbox
    <2> QED
      BY <1>1, <2>1, <2>4, <2>6 DEF Shape
  <1>6. CASE MediaReady(t)
    <2> DEFINE v == [w EXCEPT !.at = "starting"]
    <2>1. /\ w.at = "media" /\ turn' = [turn EXCEPT ![t] = v]
          /\ wire' = [wire EXCEPT ![t] = [asks |-> "turn", thread |-> w.thread]]
          /\ UNCHANGED <<links, queue, listeners, approver, unheard, backend, outbox, faults>>
      BY <1>6 DEF MediaReady
    <2>2. /\ v \in Handlers /\ v.at = "starting" /\ v.conn = w.conn /\ v.timedOut = w.timedOut
          /\ v.settled = w.settled
      BY <1>2 DEF Handlers, Phases
    <2> HIDE DEF v
    <2>3. w.timedOut => w.settled = "resolved"
      BY <1>1, <2>1 DEF HandlerFits, Live
    <2>4. turn' \in [Turns -> Handlers] /\ \A u \in Turns : HandlerFits(u)'
      <3>1. UNCHANGED <<conns, queue>> /\ listeners' = listeners
        BY <2>1 DEF links
      <3> QED
        BY <2>1, <2>2, <2>3, <3>1, MoveShape DEF Busy, Live, Listening
    <2>5. wire' \in [Turns -> [asks : {"none", "thread", "turn"}, thread : MaybeRun]]
      BY <1>1, <1>2, <2>1 DEF Types
    <2>6. Types'
      BY <1>1, <2>1, <2>4, <2>5 DEF Types, links, outbox
    <2> QED
      BY <1>1, <2>1, <2>4, <2>6 DEF Shape
  <1>7. CASE RequestTimeout(t)
    <2> DEFINE v == [w EXCEPT !.timedOut = TRUE]
               e == Event(t, "timeout", w.thread, w.run, FALSE)
    <2>1. /\ w.at \in {"thread", "starting"} /\ End(t, v)
          /\ Tell(<<e>>) \/ Tell(<<>>)
          /\ wire' = IF w.at = "thread" THEN [wire EXCEPT ![t] = NoRequest] ELSE wire
          /\ UNCHANGED <<links, unheard, backend, faults>>
      BY <1>7 DEF RequestTimeout
    <2>2. v \in Handlers /\ v.conn = w.conn /\ v.attempt = w.attempt
      BY <1>2 DEF Handlers
    <2>3. e \in Events
      BY <1>2, TimeoutEvent
    <2> HIDE DEF v, e
    <2>4. /\ turn' \in [Turns -> Handlers] /\ queue' \in [Conns -> Seq(Turns)]
          /\ listeners' \in Seq(Turns) /\ approver' \in Turns \cup {None}
          /\ IsInjective(listeners') /\ \A u \in Turns : HandlerFits(u)'
      BY <1>2, <1>3, <2>1, <2>2, EndShape DEF links, Waiting, Busy
    <2>5. ToldTypes
      BY <1>1, <2>1, <2>3, TellTypes
    <2>6. wire' \in [Turns -> [asks : {"none", "thread", "turn"}, thread : MaybeRun]]
      BY <1>1, <2>1, Named DEF Types, NoRequest
    <2>7. Types'
      BY <1>1, <2>1, <2>4, <2>5, <2>6, TypesParts DEF Types, links
    <2> QED
      BY <2>4, <2>7 DEF Shape
  <1>8. CASE Stall(t)
    <2> DEFINE v == [w EXCEPT !.timedOut = TRUE, !.settled = "resolved", !.armed = TRUE]
               e == Event(t, "timeout", w.thread, w.run, FALSE)
    <2>1. /\ w.at \in Live /\ turn' = [turn EXCEPT ![t] = v] /\ Tell(<<e>>)
          /\ UNCHANGED <<links, queue, listeners, approver, unheard, server, faults>>
      BY <1>8 DEF Stall, Live
    <2>2. /\ v \in Handlers /\ v.at = w.at /\ v.conn = w.conn /\ v.settled = "resolved"
      BY <1>2 DEF Handlers
    <2>3. e \in Events
      BY <1>2, TimeoutEvent
    <2> HIDE DEF v, e
    <2>4. turn' \in [Turns -> Handlers] /\ \A u \in Turns : HandlerFits(u)'
      <3>1. UNCHANGED <<conns, queue>> /\ listeners' = listeners
        BY <2>1 DEF links
      <3> QED
        BY <2>1, <2>2, <3>1, MoveShape DEF Busy, Live, Listening
    <2>5. ToldTypes
      BY <1>1, <2>1, <2>3, TellTypes
    <2>6. Types'
      BY <1>1, <2>1, <2>4, <2>5, TypesParts DEF Types, links, server
    <2> QED
      BY <1>1, <2>1, <2>4, <2>6 DEF Shape
  <1>9. CASE Finish(t)
    <2>1. w.at = "awaiting" /\ w.settled # "no" /\ UNCHANGED <<links, unheard, backend, faults>>
      BY <1>9 DEF Finish
    <2>2. CASE /\ w.settled = "refused"
               /\ turn' = [turn EXCEPT ![t] = [NewTurn EXCEPT !.at = "thread", !.conn = w.conn,
                                                              !.attempt = 2]]
               /\ wire' = [wire EXCEPT ![t] = [asks |-> "thread", thread |-> None]]
               /\ Unsubscribe(t)
               /\ UNCHANGED <<queue, outbox>>
      <3> DEFINE v == [NewTurn EXCEPT !.at = "thread", !.conn = w.conn, !.attempt = 2]
      <3>1. /\ v \in Handlers /\ v.at = "thread" /\ v.conn = w.conn /\ ~v.timedOut
            /\ v.settled = "no" /\ v.run = None
        BY <1>2, Named DEF Handlers, Phases, NewTurn
      <3>2. turn' = [turn EXCEPT ![t] = v]
        BY <2>2
      <3> HIDE DEF v
      <3>3. /\ listeners' \in Seq(Turns) /\ IsInjective(listeners')
            /\ \A u : u \in Range(listeners') <=> Listening(u) /\ u # t
            /\ approver' \in Turns \cup {None}
        BY <1>1, <2>2, UnsubscribeFacts
      <3>4. turn' \in [Turns -> Handlers] /\ \A u \in Turns : HandlerFits(u)'
        <4>1. UNCHANGED <<conns, queue>>
          BY <2>1, <2>2 DEF links
        <4> QED
          BY <2>1, <3>1, <3>2, <3>3, <4>1, MoveShape DEF Busy
      <3>5. wire' \in [Turns -> [asks : {"none", "thread", "turn"}, thread : MaybeRun]]
        BY <1>1, <2>2, Named DEF Types
      <3>6. Types'
        BY <1>1, <2>1, <2>2, <3>3, <3>4, <3>5 DEF Types, links, outbox
      <3> QED
        BY <3>3, <3>4, <3>6 DEF Shape
    <2>3. CASE /\ End(t, w)
               /\ Tell(<<Failed(t)>>) \/ Tell(<<Event(t, "failed", None, None, TRUE)>>) \/ Tell(<<>>)
               /\ UNCHANGED wire
      <3>1. /\ turn' \in [Turns -> Handlers] /\ queue' \in [Conns -> Seq(Turns)]
            /\ listeners' \in Seq(Turns) /\ approver' \in Turns \cup {None}
            /\ IsInjective(listeners') /\ \A u \in Turns : HandlerFits(u)'
        BY <1>2, <1>3, <2>1, <2>3, EndShape DEF links, Waiting, Busy
      <3>2. ToldTypes
        BY <1>1, <2>3, TellTypes, FailedEvent, ResetEvent
      <3>3. Types'
        BY <1>1, <2>1, <2>3, <3>1, <3>2, TypesParts DEF Types, links
      <3> QED
        BY <3>1, <3>3 DEF Shape
    <2> QED
      BY <1>9, <2>2, <2>3 DEF Finish
  <1> QED
    BY <1>4, <1>5, <1>6, <1>7, <1>8, <1>9

LEMMA LateCleanupShape ==
  ASSUME Shape, NEW t \in Turns, LateCleanup(t)
  PROVE  Shape'
  <1> DEFINE w == turn[t]
  <1>1. Types /\ IsInjective(listeners) /\ \A u \in Turns : HandlerFits(u)
    BY DEF Shape
  <1>2. w \in Handlers
    BY <1>1, TypesOf
  <1>3. /\ turn' = [turn EXCEPT ![t] = Left(w)] /\ Unsubscribe(t)
        /\ UNCHANGED <<links, queue, unheard, server, outbox, faults>>
    BY DEF LateCleanup
  <1>4. /\ Left(w) \in Handlers /\ Left(w).at = w.at /\ Left(w).conn = w.conn
        /\ Left(w).timedOut = w.timedOut
        /\ w.at # "ended" => Left(w).settled = w.settled /\ Left(w).run = w.run
    BY <1>2, Named DEF Left, Gone, NewTurn, Handlers, Phases
  <1>5. /\ turn' \in [Turns -> Handlers] /\ turn'[t] = Left(w)
        /\ \A u \in Turns : u # t => turn'[u] = turn[u]
    BY <1>1, <1>3, <1>4 DEF Types
  <1>6. /\ listeners' \in Seq(Turns) /\ IsInjective(listeners')
        /\ \A u : u \in Range(listeners') <=> Listening(u) /\ u # t
        /\ approver' \in Turns \cup {None}
    BY <1>1, <1>3, UnsubscribeFacts
  <1>7. Types'
    BY <1>1, <1>3, <1>5, <1>6 DEF Types, links, server, outbox
  <1>8. HandlerFits(t)'
    BY <1>1, <1>3, <1>4, <1>5, <1>6 DEF HandlerFits, Running, Listening, links, Busy, Live
  <1>9. ASSUME NEW u \in Turns, u # t
        PROVE  HandlerFits(u)'
    <2>1. /\ turn'[u] = turn[u] /\ (Running(u) => Running(u)') /\ turn[u].conn \in Nat
          /\ (u \in Range(listeners') => Listening(u)) /\ conns \in Nat /\ conns' = conns
      BY <1>1, <1>3, <1>5, <1>6, <1>9, TypesOf DEF Running, links
    <2> QED
      BY <1>1, <2>1, SameFits
  <1> QED
    BY <1>6, <1>7, <1>8, <1>9 DEF Shape

LEMMA AnswerShape ==
  ASSUME Shape, NEW t \in Turns, ThreadReady(t) \/ TurnReady(t) \/ RequestRefused(t)
  PROVE  Shape'
  <1>1. Types /\ IsInjective(listeners) /\ \A u \in Turns : HandlerFits(u)
    BY DEF Shape
  <1> DEFINE w == turn[t]
  <1>2. w \in Handlers /\ w.thread \in MaybeRun /\ w.run \in MaybeRun /\ w.conn \in Nat
    BY <1>1, TypesOf
  <1>3. w.at \in Busy => Running(t)
    BY <1>1 DEF HandlerFits
  <1>4. [wire EXCEPT ![t] = NoRequest]
          \in [Turns -> [asks : {"none", "thread", "turn"}, thread : MaybeRun]]
    BY <1>1, Named DEF Types, NoRequest
  <1>5. RunOf(t) \in Runs /\ RunOf(t) \in MaybeRun
    BY <1>1, RunOfType, Named
  <1>6. CASE ThreadReady(t)
    <2> DEFINE thread == IF w.thread = None THEN RunOf(t) ELSE w.thread
               v == [w EXCEPT !.at = "media", !.thread = thread, !.saved = approver]
    <2>1. thread \in MaybeRun
      BY <1>2, <1>5
    <2>2. /\ w.at = "thread" /\ turn' = [turn EXCEPT ![t] = v]
          /\ wire' = [wire EXCEPT ![t] = NoRequest]
          /\ listeners' = Append(listeners, t) /\ approver' = t
          /\ Tell(<<Status(t, thread)>>)
          /\ UNCHANGED <<links, queue, unheard, backend, faults>>
      BY <1>6 DEF ThreadReady
    <2> HIDE DEF thread
    <2>3. /\ v \in Handlers /\ v.at = "media" /\ v.conn = w.conn /\ v.timedOut = w.timedOut
          /\ v.settled = w.settled
      BY <1>1, <1>2, <2>1 DEF Types, Handlers, Phases
    <2> HIDE DEF v
    <2>4. ~w.timedOut /\ ~Listening(t)
      BY <1>1, <2>2 DEF HandlerFits, Live
    <2>5. /\ listeners' \in Seq(Turns) /\ IsInjective(listeners')
          /\ \A u : u \in Range(listeners') <=> Listening(u) \/ u = t
      <3>1. listeners \in Seq(Turns)
        BY <1>1 DEF Types
      <3>2. /\ Len(listeners) \in Nat
            /\ \A u : Listening(u) <=> \E i \in 1 .. Len(listeners) : listeners[i] = u
            /\ \A i, j \in 1 .. Len(listeners) : listeners[i] = listeners[j] => i = j
        BY <1>1, <3>1, RangeOf DEF Listening
      <3>3. /\ listeners' \in Seq(Turns) /\ Len(listeners') = Len(listeners) + 1
            /\ \A i \in 1 .. Len(listeners) : listeners'[i] = listeners[i]
            /\ listeners'[Len(listeners) + 1] = t
        BY <2>2, <3>1, AppendProperties
      <3>4. \A i \in 1 .. Len(listeners') : i \in 1 .. Len(listeners) \/ i = Len(listeners) + 1
        BY <3>2, <3>3
      <3>5. \A i \in 1 .. Len(listeners) : i \in 1 .. Len(listeners') /\ listeners[i] # t
        BY <2>4, <3>2, <3>3
      <3>6. Len(listeners) + 1 \in 1 .. Len(listeners')
        BY <3>2, <3>3
      <3>7. \A i, j \in 1 .. Len(listeners') : listeners'[i] = listeners'[j] => i = j
        BY <3>2, <3>3, <3>4, <3>5
      <3>8. \A u : u \in Range(listeners') <=> \E i \in 1 .. Len(listeners') : listeners'[i] = u
        BY <3>3, RangeOf
      <3>9. \A u : u \in Range(listeners') <=> Listening(u) \/ u = t
        BY <3>2, <3>3, <3>4, <3>5, <3>6, <3>8
      <3> QED
        BY <3>3, <3>7, <3>9, RangeOf
    <2>6. turn' \in [Turns -> Handlers] /\ \A u \in Turns : HandlerFits(u)'
      <3>1. UNCHANGED <<conns, queue>>
        BY <2>2 DEF links
      <3> QED
        BY <2>2, <2>3, <2>4, <2>5, <3>1, MoveShape DEF Busy, Live
    <2>7. ToldTypes
      BY <1>1, <2>1, <2>2, TellTypes, StatusEvent
    <2>8. Types'
      BY <1>1, <1>4, <2>2, <2>5, <2>6, <2>7, TypesParts DEF Types, links
    <2> QED
      BY <2>5, <2>6, <2>8 DEF Shape
  <1>7. CASE TurnReady(t)
    <2>1. /\ w.at = "starting" /\ wire' = [wire EXCEPT ![t] = NoRequest]
          /\ UNCHANGED <<links, backend, faults>>
      BY <1>7 DEF TurnReady
    <2>2. CASE /\ turn' = [turn EXCEPT ![t].at = "awaiting", ![t].run = RunOf(t)]
               /\ unheard' = unheard \ {t}
               /\ Tell(<<Status(t, w.thread)>>)
               /\ UNCHANGED <<queue, listeners, approver>>
      <3> DEFINE v == [w EXCEPT !.at = "awaiting", !.run = RunOf(t)]
      <3>1. /\ v \in Handlers /\ v.at = "awaiting" /\ v.conn = w.conn /\ v.timedOut = w.timedOut
            /\ v.settled = w.settled
        BY <1>2, <1>5 DEF Handlers, Phases
      <3>2. turn' = [turn EXCEPT ![t] = v]
        BY <2>2
      <3> HIDE DEF v
      <3>3. w.timedOut => w.settled = "resolved"
        BY <1>1, <2>1 DEF HandlerFits, Live
      <3>4. turn' \in [Turns -> Handlers] /\ \A u \in Turns : HandlerFits(u)'
        <4>1. UNCHANGED <<conns, queue>> /\ listeners' = listeners
          BY <2>1, <2>2 DEF links
        <4> QED
          BY <2>1, <3>1, <3>2, <3>3, <4>1, MoveShape DEF Busy, Live, Listening
      <3>5. ToldTypes
        BY <1>1, <1>2, <2>2, TellTypes, StatusEvent
      <3>6. Types'
        BY <1>1, <1>4, <2>1, <2>2, <3>4, <3>5, TypesParts DEF Types, links
      <3> QED
        BY <1>1, <2>2, <3>4, <3>6 DEF Shape
    <2>3. CASE End(t, w) /\ Tell(<<Failed(t)>>) /\ UNCHANGED unheard
      <3>1. /\ turn' \in [Turns -> Handlers] /\ queue' \in [Conns -> Seq(Turns)]
            /\ listeners' \in Seq(Turns) /\ approver' \in Turns \cup {None}
            /\ IsInjective(listeners') /\ \A u \in Turns : HandlerFits(u)'
        BY <1>2, <1>3, <2>1, <2>3, EndShape DEF links, Waiting, Busy
      <3>2. ToldTypes
        BY <1>1, <2>3, TellTypes, FailedEvent
      <3>3. Types'
        BY <1>1, <1>4, <2>1, <2>3, <3>1, <3>2, TypesParts DEF Types, links
      <3> QED
        BY <3>1, <3>3 DEF Shape
    <2> QED
      BY <1>7, <2>2, <2>3 DEF TurnReady
  <1>8. CASE RequestRefused(t)
    <2>1. /\ w.at \in {"thread", "starting"} /\ wire' = [wire EXCEPT ![t] = NoRequest]
          /\ End(t, w) /\ Tell(<<Failed(t)>>)
          /\ UNCHANGED <<links, unheard, backend, faults>>
      BY <1>8 DEF RequestRefused
    <2>2. /\ turn' \in [Turns -> Handlers] /\ queue' \in [Conns -> Seq(Turns)]
          /\ listeners' \in Seq(Turns) /\ approver' \in Turns \cup {None}
          /\ IsInjective(listeners') /\ \A u \in Turns : HandlerFits(u)'
      BY <1>2, <1>3, <2>1, EndShape DEF links, Waiting, Busy
    <2>3. ToldTypes
      BY <1>1, <2>1, TellTypes, FailedEvent
    <2>4. Types'
      BY <1>1, <1>4, <2>1, <2>2, <2>3, TypesParts DEF Types, links
    <2> QED
      BY <2>2, <2>4 DEF Shape
  <1> QED
    BY <1>6, <1>7, <1>8

\* The steps in which the app server says something to every listener.
Notifies(m) ==
    /\ Notify(m) /\ m \in Notices
    /\ \/ UNCHANGED <<backend, faults>> /\ m.kind = "activity" /\ m.run \in Runs
          /\ backend[m.run].is = "running"
       \/ /\ m.run \in Runs /\ backend[m.run].is = "running" /\ m.kind \in {"window", "unsupported"}
          /\ backend' = [backend EXCEPT ![m.run].is = "failing"] /\ UNCHANGED faults
       \/ /\ m.run \in Runs /\ backend[m.run].is \in {"running", "failing"}
          /\ m.kind \in {"completed", "failed"} /\ (backend[m.run].is = "failing" => m.kind = "failed")
          /\ backend' = [backend EXCEPT ![m.run] = Over] /\ UNCHANGED faults
       \/ m.run = None /\ m.kind = "failed" /\ Fault /\ UNCHANGED backend

Notification ==
    \/ \E r \in Runs : \/ Progress(r)
                       \/ \E kind \in {"window", "unsupported"} : RunError(r, kind)
                       \/ \E kind \in {"completed", "failed"} : EndRun(r, kind)
    \/ StrayError

LEMMA NotificationNotifies ==
  ASSUME Types, Notification
  PROVE  \E m : Notifies(m)
  <1>1. \A r \in Runs : r \in MaybeRun /\ backend[r].thread \in MaybeRun
    BY Named DEF Types
  <1>2. ASSUME NEW r \in Runs, NEW kind \in Kinds
        PROVE  LET m == Notice(kind, backend[r].thread, r) IN
               m \in Notices /\ m.kind = kind /\ m.run = r
    BY <1>1 DEF Notice, Notices
  <1>3. ASSUME NEW r \in Runs, Progress(r)
        PROVE  \E m : Notifies(m)
    <2> DEFINE m == Notice("activity", backend[r].thread, r)
    <2>1. m \in Notices /\ m.kind = "activity" /\ m.run = r
      BY <1>2 DEF Kinds
    <2>2. backend[r].is = "running" /\ Notify(m) /\ UNCHANGED <<backend, faults>>
      BY <1>3 DEF Progress
    <2> HIDE DEF m
    <2> QED
      BY <2>1, <2>2 DEF Notifies
  <1>4. ASSUME NEW r \in Runs, NEW kind \in {"window", "unsupported"}, RunError(r, kind)
        PROVE  \E m : Notifies(m)
    <2> DEFINE m == Notice(kind, backend[r].thread, r)
    <2>1. m \in Notices /\ m.kind = kind /\ m.run = r
      BY <1>2 DEF Kinds
    <2>2. /\ backend[r].is = "running" /\ backend' = [backend EXCEPT ![r].is = "failing"]
          /\ Notify(m) /\ UNCHANGED faults
      BY <1>4 DEF RunError
    <2> HIDE DEF m
    <2> QED
      BY <2>1, <2>2 DEF Notifies
  <1>5. ASSUME NEW r \in Runs, NEW kind \in {"completed", "failed"}, EndRun(r, kind)
        PROVE  \E m : Notifies(m)
    <2> DEFINE m == Notice(kind, backend[r].thread, r)
    <2>1. m \in Notices /\ m.kind = kind /\ m.run = r
      BY <1>2 DEF Kinds
    <2>2. /\ backend[r].is \in {"running", "failing"} /\ (backend[r].is = "failing" => kind = "failed")
          /\ backend' = [backend EXCEPT ![r] = Over] /\ Notify(m) /\ UNCHANGED faults
      BY <1>5 DEF EndRun
    <2> HIDE DEF m
    <2> QED
      BY <2>1, <2>2 DEF Notifies
  <1>6. ASSUME StrayError
        PROVE  \E m : Notifies(m)
    <2> DEFINE m == Notice("failed", None, None)
    <2>1. m \in Notices /\ m.kind = "failed" /\ m.run = None
      BY Named DEF Notice, Notices, Kinds
    <2>2. Fault /\ Notify(m) /\ UNCHANGED backend
      BY <1>6 DEF StrayError
    <2> HIDE DEF m
    <2> QED
      BY <2>1, <2>2 DEF Notifies
  <1> QED
    BY <1>3, <1>4, <1>5, <1>6 DEF Notification

\* What a notification says of the run it names.
LEMMA NotifyBackend ==
  ASSUME Types, NEW m, Notifies(m)
  PROVE  /\ backend' \in [Runs -> [is : {"none", "running", "failing", "ended"}, thread : MaybeRun]]
         /\ \A r \in Runs :
              /\ backend'[r].is = "none" <=> backend[r].is = "none"
              /\ backend'[r].is = "running" => backend[r].is = "running"
              /\ backend[r].is \in {"failing", "ended"} => backend'[r].is \in {"failing", "ended"}
              /\ backend[r].is = "ended" => backend'[r].is = "ended"
         /\ m.run \in Runs => backend[m.run].is \in {"running", "failing"}
         /\ m.kind = "completed" =>
              m.run \in Runs /\ backend[m.run].is = "running" /\ backend'[m.run].is = "ended"
         /\ m.kind = "unsupported" =>
              m.run \in Runs /\ backend[m.run].is = "running" /\ backend'[m.run].is = "failing"
         /\ m.kind = "activity" => m.run \in Runs
         /\ m.run \in Runs /\ m.kind # "activity" => backend'[m.run].is # "running"
  <1> DEFINE B == [is : {"none", "running", "failing", "ended"}, thread : MaybeRun]
  <1>1. backend \in [Runs -> B] /\ Over \in B /\ Over.is = "ended" /\ None \notin Runs
    BY Named, BridgeAssumption DEF Types, Over
  <1>2. \A b \in B : [b EXCEPT !.is = "failing"] \in B /\ [b EXCEPT !.is = "failing"].is = "failing"
    OBVIOUS
  <1>3. CASE UNCHANGED backend /\ m.kind = "activity" /\ m.run \in Runs /\ backend[m.run].is = "running"
    BY <1>1, <1>3
  <1>4. CASE UNCHANGED backend /\ m.run = None /\ m.kind = "failed"
    BY <1>1, <1>4
  <1>5. CASE /\ m.run \in Runs /\ backend[m.run].is = "running" /\ m.kind \in {"window", "unsupported"}
             /\ backend' = [backend EXCEPT ![m.run].is = "failing"]
    <2>1. /\ backend' \in [Runs -> B] /\ backend'[m.run].is = "failing"
          /\ \A r \in Runs : r # m.run => backend'[r] = backend[r]
      BY <1>1, <1>2, <1>5
    <2> HIDE DEF B
    <2> QED
      BY <1>5, <2>1 DEF B
  <1>6. CASE /\ m.run \in Runs /\ backend[m.run].is \in {"running", "failing"}
             /\ m.kind \in {"completed", "failed"} /\ (backend[m.run].is = "failing" => m.kind = "failed")
             /\ backend' = [backend EXCEPT ![m.run] = Over]
    <2>1. /\ backend' \in [Runs -> B] /\ backend'[m.run].is = "ended"
          /\ \A r \in Runs : r # m.run => backend'[r] = backend[r]
      BY <1>1, <1>6
    <2> HIDE DEF B
    <2> QED
      BY <1>6, <2>1 DEF B
  <1> QED
    BY <1>3, <1>4, <1>5, <1>6 DEF Notifies

LEMMA NotifyShape ==
  ASSUME Shape, NEW m, Notifies(m)
  PROVE  Shape'
  <1>1. Types /\ IsInjective(listeners) /\ \A u \in Turns : HandlerFits(u)
    BY DEF Shape
  <1>2. m \in Notices /\ Notify(m)
    BY DEF Notifies
  <1>3. /\ turn' = [t \in Turns |-> IF Listening(t) THEN Heard(t, m) ELSE turn[t]]
        /\ turn' \in [Turns -> Handlers]
        /\ room' \in MaybeRun /\ told' \in [Turns -> Seq(Endings)] /\ failed' \subseteq Turns
        /\ listeners' \in Seq(Turns) /\ IsInjective(listeners')
        /\ \A t \in Turns : t \in Range(listeners') <=>
              Listening(t) /\ ~(turn[t].timedOut /\ m.kind # "activity" /\ Matches(turn[t], m))
        /\ approver' \in Turns \cup {None}
        /\ unheard' \subseteq Turns /\ UNCHANGED <<links, queue, wire>>
    BY <1>1, <1>2, NotifyFacts
  <1>4. backend' \in [Runs -> [is : {"none", "running", "failing", "ended"}, thread : MaybeRun]]
        /\ faults' \in 0 .. MaxFaults
    <2>2. backend' \in [Runs -> [is : {"none", "running", "failing", "ended"}, thread : MaybeRun]]
      BY <1>1, NotifyBackend
    <2>3. faults' = faults \/ (faults < MaxFaults /\ faults' = faults + 1)
      BY DEF Notifies, Fault
    <2> QED
      BY <1>1, <2>2, <2>3, BridgeAssumption DEF Types
  <1>5. Types'
    BY <1>1, <1>3, <1>4, TypesParts DEF Types, links, ToldTypes
  <1>6. ASSUME NEW t \in Turns
        PROVE  HandlerFits(t)'
    <2> DEFINE w == turn[t]
               h == Heard(t, m)
    <2>1. conns' = conns /\ conns \in Nat /\ turn[t].conn \in Nat
      BY <1>1, <1>3, TypesOf DEF links
    <2>2. CASE ~Listening(t)
      <3>1. turn'[t] = turn[t] /\ (Running(t) => Running(t)') /\ t \notin Range(listeners')
        BY <1>3, <2>2 DEF Running
      <3> QED
        BY <1>1, <2>1, <3>1, SameFits
    <2>3. CASE Listening(t)
      <3>1. turn'[t] = h
        BY <1>3, <2>3
      <3>2. /\ h.at = w.at /\ h.conn = w.conn /\ h.timedOut = w.timedOut
            /\ w.timedOut /\ w.at # "ended" => h.settled = w.settled
        BY <1>1, <1>2, HeardFacts
      <3>3. w.at \in Live \/ (w.at = "ended" /\ w.timedOut)
        BY <1>1, <2>3 DEF HandlerFits
      <3> HIDE DEF h
      <3>4. Running(t) => Running(t)'
        BY <1>3, <3>1, <3>2 DEF Running
      <3> QED
        BY <1>1, <2>1, <3>1, <3>2, <3>3, <3>4 DEF HandlerFits, Live, Busy, Listening
    <2> QED
      BY <2>2, <2>3
  <1> QED
    BY <1>3, <1>5, <1>6 DEF Shape

LEMMA GoneFacts ==
  ASSUME NEW w \in Handlers, NEW at \in Phases
  PROVE  /\ Gone(w, at) \in Handlers /\ Gone(w, at).at = at /\ Gone(w, at).conn = w.conn
         /\ Gone(w, at).attempt = w.attempt /\ Gone(w, at).timedOut = w.timedOut
         /\ Gone(w, at).run = None
  BY Named DEF Gone, NewTurn, Handlers

LEMMA LeftFacts ==
  ASSUME NEW w \in Handlers
  PROVE  /\ Left(w) \in Handlers /\ Left(w).at = w.at /\ Left(w).conn = w.conn
         /\ Left(w).attempt = w.attempt /\ Left(w).timedOut = w.timedOut
         /\ w.at # "ended" => /\ Left(w).settled = w.settled /\ Left(w).run = w.run
                              /\ Left(w).saved = w.saved
         /\ w.at = "ended" => Left(w).run = None
  <1>1. CASE w.at = "ended"
    <2>1. Left(w) = Gone(w, "ended") /\ "ended" \in Phases
      BY <1>1 DEF Left, Phases
    <2> QED
      BY <1>1, <2>1, GoneFacts
  <1>2. CASE w.at # "ended"
    BY <1>2 DEF Left, Handlers
  <1> QED
    BY <1>1, <1>2

LEMMA DieShape == Shape /\ Die => Shape'
  <1> SUFFICES ASSUME Shape, Die
               PROVE  Shape'
    OBVIOUS
  <1>1. Types /\ \A u \in Turns : HandlerFits(u)
    BY DEF Shape
  <1>2. /\ open' = 0 /\ queue' = [c \in Conns |-> <<>>]
        /\ turn' = [t \in Turns |-> IF turn[t].at \in {"new", "ended"}
                                    THEN Left(turn[t]) ELSE Gone(turn[t], "dead")]
        /\ listeners' = <<>> /\ approver' = None /\ unheard' = {}
        /\ wire' = [t \in Turns |-> NoRequest]
        /\ backend' = [r \in Runs |-> IF backend[r].is = "none" THEN backend[r] ELSE Over]
        /\ UNCHANGED <<conns, outbox, faults>>
    BY DEF Die
  <1>3. ASSUME NEW t \in Turns
        PROVE  /\ turn'[t] \in Handlers /\ turn'[t].conn = turn[t].conn
               /\ turn'[t].timedOut = turn[t].timedOut
               /\ turn'[t].at = IF turn[t].at \in {"new", "ended"} THEN turn[t].at ELSE "dead"
               /\ turn[t].at = "new" => turn'[t].settled = turn[t].settled /\ turn'[t].run = turn[t].run
    <2>1. turn[t] \in Handlers
      BY <1>1, TypesOf
    <2>2. turn'[t] = IF turn[t].at \in {"new", "ended"} THEN Left(turn[t]) ELSE Gone(turn[t], "dead")
      BY <1>2
    <2>3. CASE turn[t].at \in {"new", "ended"}
      <3>1. turn'[t] = Left(turn[t])
        BY <2>2, <2>3
      <3> QED
        BY <2>1, <2>3, <3>1, LeftFacts
    <2>4. CASE turn[t].at \notin {"new", "ended"}
      <3>1. turn'[t] = Gone(turn[t], "dead") /\ "dead" \in Phases
        BY <2>2, <2>4 DEF Phases
      <3> QED
        BY <2>1, <2>4, <3>1, GoneFacts
    <2> QED
      BY <2>3, <2>4
  <1>4. turn' \in [Turns -> Handlers]
    BY <1>2, <1>3
  <1>5. Types'
    <2>1. /\ queue' \in [Conns -> Seq(Turns)] /\ listeners' \in Seq(Turns)
          /\ wire' \in [Turns -> [asks : {"none", "thread", "turn"}, thread : MaybeRun]]
          /\ backend' \in [Runs -> [is : {"none", "running", "failing", "ended"}, thread : MaybeRun]]
      BY <1>1, <1>2, Named DEF Types, NoRequest, Over
    <2>2. ToldTypes
      BY <1>1, <1>2 DEF ToldTypes, Types, outbox
    <2> QED
      BY <1>1, <1>2, <1>4, <2>1, <2>2, TypesParts DEF Types
  <1>6. IsInjective(listeners') /\ \A t : t \notin Range(listeners')
    BY <1>2 DEF IsInjective, Range
  <1>7. ASSUME NEW t \in Turns
        PROVE  HandlerFits(t)'
    BY <1>1, <1>2, <1>3, <1>6 DEF HandlerFits, Busy, Live, Listening
  <1> QED
    BY <1>5, <1>6, <1>7 DEF Shape

\* The steps, sorted for the proofs.
LEMMA Steps ==
  ASSUME Step
  PROVE  \/ Connect \/ Disconnect \/ ChildExit \/ Die \/ Notification
         \/ \E t \in Turns :
              \/ Request(t) \/ Refuse(t) \/ Start(t) \/ MediaReady(t) \/ RequestTimeout(t) \/ Stall(t)
              \/ Finish(t) \/ LateCleanup(t) \/ ThreadReady(t) \/ BeginRun(t) \/ TurnReady(t)
              \/ RequestRefused(t)
  BY DEF Step, Handler, AppServer, Notification

LEMMA NextShape == Shape /\ [Step]_vars => Shape'
  <1> SUFFICES ASSUME Shape, [Step]_vars
               PROVE  Shape'
    OBVIOUS
  <1>1. CASE UNCHANGED vars
    <2>1. Types'
      BY <1>1 DEF Shape, Types, vars, links, server, outbox
    <2> QED
      BY <1>1, <2>1, StillShape DEF vars, links
  <1>2. CASE Notification
    BY <1>2, NotificationNotifies, NotifyShape DEF Shape
  <1>3. CASE Step
    BY <1>2, <1>3, Steps, ConnectShape, LinkShape, DieShape, RequestShape, HandlerShape,
       LateCleanupShape, AnswerShape
  <1> QED
    BY <1>1, <1>3

\* The state is well formed, a handler runs only at the head of its queue, and
\* nothing but a timeout leaves a listener behind its handler: connections,
\* turns and children of the app server may come and go in any order.
THEOREM TurnTypes == Spec => []TypeOK
  <1>1. Shape => TypeOK
    BY DEF Shape, Types, TypeOK, HandlerFits, Busy, Live, Listening
  <1> QED
    BY <1>1, InitShape, NextShape, PTL DEF Spec

--------------------------------------------------------------------------------
(* The turns of a connection run one after the other.                      *)

\* The handlers of other turns stay in their phases.
OthersStay(t) ==
    \A u \in Turns : u # t => turn'[u].at = turn[u].at /\ turn'[u].conn = turn[u].conn

AllStay ==
    queue' = queue /\ \A u \in Turns : turn'[u].at = turn[u].at /\ turn'[u].conn = turn[u].conn

Goes(t) ==
    /\ turn[t].at \in Waiting /\ Running(t) /\ turn[t].conn \in Conns
    /\ turn'[t].at \in Busy /\ turn'[t].conn = turn[t].conn
    /\ OthersStay(t) /\ queue' = queue

Ends(t) ==
    /\ turn[t].at \in Waiting /\ Running(t) /\ turn[t].conn \in Conns
    /\ turn'[t].at = "ended" /\ turn'[t].conn = turn[t].conn
    /\ OthersStay(t)
    /\ queue'[turn[t].conn] = Tail(queue[turn[t].conn])
    /\ \A c \in Conns : c # turn[t].conn => queue'[c] = queue[c]

LEMMA EndEnds ==
  ASSUME Shape, NEW t \in Turns, turn[t].at \in Waiting, Running(t), NEW w \in Handlers,
         w.conn = turn[t].conn, w.attempt = turn[t].attempt, End(t, w)
  PROVE  Ends(t)
  <1>1. Types /\ IsInjective(listeners) /\ HandlerFits(t)
    BY DEF Shape
  <1>2. turn[t].conn \in Conns
    BY <1>1 DEF HandlerFits, Waiting, Busy
  <1> QED
    BY <1>1, <1>2, EndFacts DEF Ends, OthersStay

LEMMA MoveGoes ==
  ASSUME Shape, NEW t \in Turns, turn[t].at \in Waiting, Running(t), NEW w,
         turn' = [turn EXCEPT ![t] = w], w.at \in Busy, w.conn = turn[t].conn, queue' = queue
  PROVE  Goes(t)
  <1>1. Types /\ HandlerFits(t)
    BY DEF Shape
  <1>2. turn[t].conn \in Conns
    BY <1>1 DEF HandlerFits, Waiting, Busy
  <1>3. turn'[t] = w /\ \A u \in Turns : u # t => turn'[u] = turn[u]
    BY <1>1 DEF Types
  <1> QED
    BY <1>2, <1>3 DEF Goes, OthersStay

LEMMA Phased ==
  ASSUME Shape, [Step]_vars
  PROVE  AllStay \/ Die \/ \E t \in Turns : Goes(t) \/ Ends(t) \/ Request(t)
  <1>1. Types /\ IsInjective(listeners) /\ \A u \in Turns : HandlerFits(u)
    BY DEF Shape
  <1>2. ASSUME NEW t \in Turns
        PROVE  /\ turn[t] \in Handlers /\ (turn[t].at \in Busy => Running(t))
               /\ Busy \subseteq Waiting
    BY <1>1, TypesOf DEF HandlerFits, Waiting
  <1>3. CASE UNCHANGED vars \/ Connect \/ Disconnect \/ ChildExit \/ \E t \in Turns : BeginRun(t)
    BY <1>3 DEF AllStay, vars, Connect, Disconnect, ChildExit, BeginRun
  <1>4. CASE Notification
    <2>1. PICK m : Notifies(m)
      BY <1>1, <1>4, NotificationNotifies
    <2>2. m \in Notices /\ Notify(m)
      BY <2>1 DEF Notifies
    <2>3. \A u \in Turns : Heard(u, m).at = turn[u].at /\ Heard(u, m).conn = turn[u].conn
      BY <1>1, <2>2, HeardFacts
    <2>4. queue' = queue /\ \A u \in Turns : turn'[u] = IF Listening(u) THEN Heard(u, m) ELSE turn[u]
      BY <2>2 DEF Notify
    <2> QED
      BY <2>3, <2>4 DEF AllStay
  <1>5. ASSUME NEW t \in Turns, Refuse(t)
        PROVE  Ends(t)
    BY <1>2, <1>5, EndEnds DEF Refuse, Waiting
  <1>6. ASSUME NEW t \in Turns, Start(t)
        PROVE  Goes(t)
    <2> DEFINE w == [turn[t] EXCEPT !.at = "thread", !.resumed = (turn[t].thread # None)]
    <2>1. w.at = "thread" /\ w.conn = turn[t].conn
      BY <1>2 DEF Handlers
    <2>2. turn' = [turn EXCEPT ![t] = w] /\ queue' = queue /\ Running(t) /\ turn[t].at = "queued"
      BY <1>6 DEF Start
    <2> HIDE DEF w
    <2> QED
      BY <2>1, <2>2, MoveGoes DEF Busy, Waiting
  <1>7. ASSUME NEW t \in Turns, MediaReady(t)
        PROVE  Goes(t)
    <2> DEFINE w == [turn[t] EXCEPT !.at = "starting"]
    <2>1. w.at = "starting" /\ w.conn = turn[t].conn
      BY <1>2 DEF Handlers
    <2>2. turn' = [turn EXCEPT ![t] = w] /\ queue' = queue /\ turn[t].at = "media"
      BY <1>7 DEF MediaReady
    <2> HIDE DEF w
    <2> QED
      BY <1>2, <2>1, <2>2, MoveGoes DEF Busy, Waiting
  <1>8. ASSUME NEW t \in Turns, RequestTimeout(t)
        PROVE  Ends(t)
    <2> DEFINE w == [turn[t] EXCEPT !.timedOut = TRUE]
    <2>1. w \in Handlers /\ w.conn = turn[t].conn /\ w.attempt = turn[t].attempt
      BY <1>2 DEF Handlers
    <2>2. End(t, w) /\ turn[t].at \in {"thread", "starting"}
      BY <1>8 DEF RequestTimeout
    <2> HIDE DEF w
    <2> QED
      BY <1>2, <2>1, <2>2, EndEnds DEF Busy, Waiting
  <1>9. ASSUME NEW t \in Turns, Stall(t)
        PROVE  Goes(t)
    <2> DEFINE w == [turn[t] EXCEPT !.timedOut = TRUE, !.settled = "resolved", !.armed = TRUE]
    <2>1. w.at = turn[t].at /\ w.conn = turn[t].conn
      BY <1>2 DEF Handlers
    <2>2. turn' = [turn EXCEPT ![t] = w] /\ queue' = queue /\ turn[t].at \in Busy
      BY <1>9 DEF Stall, Busy
    <2> HIDE DEF w
    <2> QED
      BY <1>2, <2>1, <2>2, MoveGoes DEF Busy, Waiting
  <1>10. ASSUME NEW t \in Turns, Finish(t)
         PROVE  Goes(t) \/ Ends(t)
    <2>1. turn[t].at = "awaiting"
      BY <1>10 DEF Finish
    <2>2. CASE End(t, turn[t])
      BY <1>2, <2>1, <2>2, EndEnds DEF Busy
    <2>3. CASE /\ turn' = [turn EXCEPT ![t] = [NewTurn EXCEPT !.at = "thread", !.conn = turn[t].conn,
                                                              !.attempt = 2]]
               /\ queue' = queue
      <3> DEFINE w == [NewTurn EXCEPT !.at = "thread", !.conn = turn[t].conn, !.attempt = 2]
      <3>1. w.at = "thread" /\ w.conn = turn[t].conn
        BY DEF NewTurn
      <3>2. turn' = [turn EXCEPT ![t] = w] /\ queue' = queue
        BY <2>3
      <3> HIDE DEF w
      <3> QED
        BY <1>2, <2>1, <3>1, <3>2, MoveGoes DEF Busy
    <2> QED
      BY <1>10, <2>2, <2>3 DEF Finish
  <1>11. ASSUME NEW t \in Turns, LateCleanup(t)
         PROVE  AllStay
    <2>1. turn' = [turn EXCEPT ![t] = Left(turn[t])] /\ queue' = queue
      BY <1>11 DEF LateCleanup
    <2>2. Left(turn[t]).at = turn[t].at /\ Left(turn[t]).conn = turn[t].conn
      BY <1>2, LeftFacts
    <2> QED
      BY <1>1, <2>1, <2>2 DEF AllStay, Types
  <1>12. ASSUME NEW t \in Turns, ThreadReady(t)
         PROVE  Goes(t)
    <2> DEFINE w == [turn[t] EXCEPT !.at = "media",
                         !.thread = IF turn[t].thread = None THEN RunOf(t) ELSE turn[t].thread,
                         !.saved = approver]
    <2>1. w.at = "media" /\ w.conn = turn[t].conn
      BY <1>2 DEF Handlers
    <2>2. turn' = [turn EXCEPT ![t] = w] /\ queue' = queue /\ turn[t].at = "thread"
      BY <1>12 DEF ThreadReady
    <2> HIDE DEF w
    <2> QED
      BY <1>2, <2>1, <2>2, MoveGoes DEF Busy, Waiting
  <1>13. ASSUME NEW t \in Turns, TurnReady(t)
         PROVE  Goes(t) \/ Ends(t)
    <2>1. turn[t].at = "starting"
      BY <1>13 DEF TurnReady
    <2>2. CASE End(t, turn[t])
      BY <1>2, <2>1, <2>2, EndEnds DEF Busy
    <2>3. CASE turn' = [turn EXCEPT ![t].at = "awaiting", ![t].run = RunOf(t)] /\ queue' = queue
      <3> DEFINE w == [turn[t] EXCEPT !.at = "awaiting", !.run = RunOf(t)]
      <3>1. w.at = "awaiting" /\ w.conn = turn[t].conn
        BY <1>2 DEF Handlers
      <3>2. turn' = [turn EXCEPT ![t] = w] /\ queue' = queue
        BY <2>3
      <3> HIDE DEF w
      <3> QED
        BY <1>2, <2>1, <3>1, <3>2, MoveGoes DEF Busy
    <2> QED
      BY <1>13, <2>2, <2>3 DEF TurnReady
  <1>14. ASSUME NEW t \in Turns, RequestRefused(t)
         PROVE  Ends(t)
    BY <1>2, <1>14, EndEnds DEF RequestRefused, Busy
  <1> QED
    BY <1>3, <1>4, <1>5, <1>6, <1>7, <1>8, <1>9, <1>10, <1>11, <1>12, <1>13, <1>14, Steps

\* A queue in parts.
LEMMA QueueParts ==
  ASSUME Types, NEW c \in Conns
  PROVE  /\ queue[c] \in Seq(Turns) /\ Len(queue[c]) \in Nat /\ DOMAIN queue[c] = 1 .. Len(queue[c])
         /\ \A i \in 1 .. Len(queue[c]) : queue[c][i] \in Turns
         /\ \A t : t \in Range(queue[c]) <=> \E i \in 1 .. Len(queue[c]) : queue[c][i] = t
         /\ queue[c] # <<>> => 1 \in 1 .. Len(queue[c]) /\ Head(queue[c]) = queue[c][1]
  <1>1. queue[c] \in Seq(Turns)
    BY DEF Types
  <1>2. queue[c] # <<>> => 1 \in 1 .. Len(queue[c]) /\ Head(queue[c]) = queue[c][1]
    BY <1>1
  <1> QED
    BY <1>1, <1>2, RangeOf

\* The turn at the head of a queue is the first one of its connection.
LEMMA HeadIsFirst ==
  ASSUME Types, QueueFits, NEW u \in Turns, turn[u].at # "new", turn[u].conn \in Conns, Running(u),
         NEW t \in Turns, t < u, turn[t].conn = turn[u].conn
  PROVE  turn[t].at \in {"ended", "dead"}
  <1> DEFINE q == queue[turn[u].conn]
  <1>1. turn[t].at \in Phases /\ turn[t].at # "new"
    BY TypesOf DEF QueueFits
  <1>2. turn[t].at \notin Waiting
    <2> SUFFICES ASSUME turn[t].at \in Waiting
                 PROVE  FALSE
      OBVIOUS
    <2>1. /\ Len(q) \in Nat /\ DOMAIN q = 1 .. Len(q) /\ \A i \in 1 .. Len(q) : q[i] \in Turns
          /\ \A x : x \in Range(q) <=> \E i \in 1 .. Len(q) : q[i] = x
          /\ q # <<>> => 1 \in 1 .. Len(q) /\ Head(q) = q[1]
      BY QueueParts
    <2>2. t \in Range(q)
      BY DEF QueueFits
    <2>3. PICK i \in 1 .. Len(q) : q[i] = t
      BY <2>1, <2>2
    <2>4. q[1] = u /\ 1 \in 1 .. Len(q)
      BY <2>1 DEF Running
    <2>5. i = 1 \/ q[1] < q[i]
      BY <2>1, <2>3, <2>4 DEF QueueFits
    <2>6. t \in Nat /\ u \in Nat
      BY ConnsFacts
    <2> QED
      BY <2>3, <2>4, <2>5, <2>6
  <1> QED
    BY <1>1, <1>2 DEF Phases, Waiting, Busy

LEMMA RequestFacts ==
  ASSUME Shape, NEW t \in Turns, Request(t)
  PROVE  /\ open \in Conns /\ turn[t].at = "new" /\ \A u \in Turns : u < t => turn[u].at # "new"
         /\ turn'[t].at = "queued" /\ turn'[t].conn = open /\ turn'[t].attempt = turn[t].attempt
         /\ turn'[t].timedOut = turn[t].timedOut /\ turn'[t].settled = turn[t].settled
         /\ turn'[t].run = turn[t].run /\ turn'[t].saved = turn[t].saved
         /\ \A u \in Turns : u # t => turn'[u] = turn[u]
         /\ queue'[open] = Append(queue[open], t)
         /\ \A c \in Conns : c # open => queue'[c] = queue[c]
         /\ UNCHANGED <<links, listeners, approver, unheard, server, outbox, faults>>
  <1>1. Types
    BY DEF Shape
  <1>2. open \in Conns
    BY <1>1, BridgeAssumption DEF Request, Types, Conns
  <1> DEFINE w == [turn[t] EXCEPT !.at = "queued", !.conn = open, !.thread = room]
  <1>3. /\ w.at = "queued" /\ w.conn = open /\ w.timedOut = turn[t].timedOut /\ w.saved = turn[t].saved
        /\ w.settled = turn[t].settled /\ w.run = turn[t].run /\ w.attempt = turn[t].attempt
    BY <1>1, TypesOf DEF Handlers
  <1>4. turn' = [turn EXCEPT ![t] = w]
    BY DEF Request
  <1> HIDE DEF w
  <1>5. turn'[t] = w /\ \A u \in Turns : u # t => turn'[u] = turn[u]
    BY <1>1, <1>4 DEF Types
  <1>6. /\ queue'[open] = Append(queue[open], t)
        /\ \A c \in Conns : c # open => queue'[c] = queue[c]
    BY <1>1, <1>2 DEF Request, Types
  <1>7. \A u \in Turns : u < t => turn[u].at # "new"
    <2>1. \A u \in Turns : u < t => u \in 1 .. t - 1
      BY ConnsFacts DEF Turns
    <2> QED
      BY <2>1 DEF Request
  <1> QED
    BY <1>2, <1>3, <1>5, <1>6, <1>7 DEF Request

LEMMA DieFacts ==
  ASSUME Types, Die
  PROVE  /\ queue' = [c \in Conns |-> <<>>] /\ (\A t : t \notin Range(listeners')) /\ listeners' = <<>>
         /\ approver' = None /\ \A t \in Turns : wire'[t] = NoRequest
         /\ \A r \in Runs : /\ backend'[r].is = "none" <=> backend[r].is = "none"
                            /\ backend'[r].is \in {"none", "ended"}
         /\ UNCHANGED <<conns, told, failed>>
         /\ \A t \in Turns :
              /\ turn'[t].conn = turn[t].conn /\ turn'[t].attempt = turn[t].attempt
              /\ turn'[t].timedOut = turn[t].timedOut
              /\ turn'[t].at = IF turn[t].at \in {"new", "ended"} THEN turn[t].at ELSE "dead"
              /\ turn'[t].run \in {None, turn[t].run}
  <1>1. /\ queue' = [c \in Conns |-> <<>>]
        /\ turn' = [t \in Turns |-> IF turn[t].at \in {"new", "ended"}
                                    THEN Left(turn[t]) ELSE Gone(turn[t], "dead")]
        /\ listeners' = <<>> /\ approver' = None
        /\ wire' = [t \in Turns |-> NoRequest]
        /\ backend' = [r \in Runs |-> IF backend[r].is = "none" THEN backend[r] ELSE Over]
        /\ UNCHANGED <<conns, outbox>>
    BY DEF Die
  <1>2. ASSUME NEW t \in Turns
        PROVE  /\ turn'[t].conn = turn[t].conn /\ turn'[t].attempt = turn[t].attempt
               /\ turn'[t].timedOut = turn[t].timedOut
               /\ turn'[t].at = IF turn[t].at \in {"new", "ended"} THEN turn[t].at ELSE "dead"
               /\ turn'[t].run \in {None, turn[t].run}
    <2>1. turn[t] \in Handlers
      BY TypesOf
    <2>2. turn'[t] = IF turn[t].at \in {"new", "ended"} THEN Left(turn[t]) ELSE Gone(turn[t], "dead")
      BY <1>1
    <2>3. CASE turn[t].at \in {"new", "ended"}
      <3>1. turn'[t] = Left(turn[t])
        BY <2>2, <2>3
      <3> QED
        BY <2>1, <2>3, <3>1, LeftFacts
    <2>4. CASE turn[t].at \notin {"new", "ended"}
      <3>1. turn'[t] = Gone(turn[t], "dead") /\ "dead" \in Phases
        BY <2>2, <2>4 DEF Phases
      <3> QED
        BY <2>1, <2>4, <3>1, GoneFacts
    <2> QED
      BY <2>3, <2>4
  <1>3. \A t : t \notin Range(listeners')
    BY <1>1 DEF Range
  <1>4. \A r \in Runs : /\ backend'[r].is = "none" <=> backend[r].is = "none"
                        /\ backend'[r].is \in {"none", "ended"}
    BY <1>1 DEF Over
  <1> QED
    BY <1>1, <1>2, <1>3, <1>4 DEF outbox

LEMMA InitQueue == Init => QueueFits /\ InTurn
  BY DEF Init, QueueFits, InTurn, NewTurn, Waiting, Busy, Turns

LEMMA StayQueue == Types /\ QueueFits /\ InTurn /\ AllStay => (QueueFits /\ InTurn)'
  <1> SUFFICES ASSUME Types, QueueFits, InTurn, AllStay
               PROVE  (QueueFits /\ InTurn)'
    OBVIOUS
  <1>1. queue' = queue /\ \A u \in Turns : turn'[u].at = turn[u].at /\ turn'[u].conn = turn[u].conn
    BY DEF AllStay
  <1>2. \A c \in Conns : \A i \in DOMAIN queue[c] : queue[c][i] \in Turns
    BY QueueParts
  <1>3. QueueFits'
    BY <1>1, <1>2 DEF QueueFits
  <1>4. InTurn'
    BY <1>1 DEF InTurn
  <1> QED
    BY <1>3, <1>4

LEMMA DieQueue == Shape /\ QueueFits /\ Die => (QueueFits /\ InTurn)'
  <1> SUFFICES ASSUME Shape, QueueFits, Die
               PROVE  (QueueFits /\ InTurn)'
    OBVIOUS
  <1>1. /\ \A c \in Conns : queue'[c] = <<>>
        /\ \A t \in Turns :
             /\ turn'[t].conn = turn[t].conn
             /\ turn'[t].at = IF turn[t].at \in {"new", "ended"} THEN turn[t].at ELSE "dead"
    BY DieFacts DEF Shape
  <1>2. QueueFits'
    BY <1>1 DEF QueueFits, Waiting, Busy
  <1>3. InTurn'
    BY <1>1 DEF QueueFits, InTurn
  <1> QED
    BY <1>2, <1>3

LEMMA GoesQueue ==
  ASSUME Types, QueueFits, InTurn, NEW t \in Turns, Goes(t)
  PROVE  (QueueFits /\ InTurn)'
  <1>1. /\ turn[t].at \in Waiting /\ Running(t) /\ turn[t].conn \in Conns
        /\ turn'[t].at \in Busy /\ turn'[t].conn = turn[t].conn /\ queue' = queue
        /\ \A u \in Turns : u # t => turn'[u].at = turn[u].at /\ turn'[u].conn = turn[u].conn
    BY DEF Goes, OthersStay
  <1>2. \A c \in Conns : \A i \in DOMAIN queue[c] : queue[c][i] \in Turns
    BY QueueParts
  <1>3. \A u \in Turns : turn'[u].conn = turn[u].conn /\ (turn'[u].at \in Waiting <=> turn[u].at \in Waiting)
                         /\ (turn'[u].at = "new" <=> turn[u].at = "new")
    BY <1>1 DEF Waiting, Busy
  <1>4. QueueFits'
    BY <1>1, <1>2, <1>3 DEF QueueFits
  <1>5. ASSUME NEW a \in Turns, NEW b \in Turns, a < b, turn'[b].conn = turn'[a].conn,
               turn'[b].at \notin {"new", "queued"}
        PROVE  turn'[a].at \in {"ended", "dead"}
    <2>1. a # b
      BY <1>5, ConnsFacts
    <2>2. CASE b = t
      <3>1. turn[a].at \in {"ended", "dead"}
        BY <1>1, <1>3, <1>5, <2>2, HeadIsFirst DEF Running
      <3> QED
        BY <1>1, <2>1, <2>2, <3>1
    <2>3. CASE b # t
      <3>1. turn[a].at \in {"ended", "dead"}
        BY <1>1, <1>3, <1>5, <2>3 DEF InTurn
      <3>2. a # t
        BY <1>1, <3>1 DEF Waiting, Busy
      <3> QED
        BY <1>1, <3>1, <3>2
    <2> QED
      BY <2>2, <2>3
  <1> QED
    BY <1>4, <1>5 DEF InTurn

LEMMA EndsQueue ==
  ASSUME Shape, QueueFits, InTurn, NEW t \in Turns, Ends(t)
  PROVE  (QueueFits /\ InTurn)'
  <1> DEFINE d == turn[t].conn
             q == queue[d]
  <1>1. /\ turn[t].at \in Waiting /\ Running(t) /\ d \in Conns
        /\ turn'[t].at = "ended" /\ turn'[t].conn = turn[t].conn
        /\ queue'[d] = Tail(q) /\ \A c \in Conns : c # d => queue'[c] = queue[c]
        /\ \A u \in Turns : u # t => turn'[u].at = turn[u].at /\ turn'[u].conn = turn[u].conn
    BY DEF Ends, OthersStay
  <1>2. /\ q \in Seq(Turns) /\ Len(q) \in Nat /\ DOMAIN q = 1 .. Len(q)
        /\ \A i \in 1 .. Len(q) : q[i] \in Turns
        /\ \A x : x \in Range(q) <=> \E i \in 1 .. Len(q) : q[i] = x
        /\ 1 \in 1 .. Len(q) /\ q[1] = t /\ q # <<>>
    BY <1>1, QueueParts DEF Running, Shape
  <1>3. /\ Tail(q) \in Seq(Turns) /\ Len(Tail(q)) = Len(q) - 1
        /\ \A i \in 1 .. Len(q) - 1 : Tail(q)[i] = q[i + 1]
        /\ DOMAIN Tail(q) = 1 .. Len(q) - 1
        /\ \A x : x \in Range(Tail(q)) <=> \E i \in 1 .. Len(Tail(q)) : Tail(q)[i] = x
    <2>1. /\ Tail(q) \in Seq(Turns) /\ Len(Tail(q)) = Len(q) - 1
          /\ \A i \in 1 .. Len(Tail(q)) : Tail(q)[i] = q[i + 1]
      BY <1>2, HeadTailProperties
    <2>2. \A s \in Seq(Turns) : DOMAIN s = 1 .. Len(s)
                               /\ \A x : x \in Range(s) <=> \E i \in 1 .. Len(s) : s[i] = x
      BY RangeOf
    <2>3. DOMAIN Tail(q) = 1 .. Len(Tail(q))
          /\ \A x : x \in Range(Tail(q)) <=> \E i \in 1 .. Len(Tail(q)) : Tail(q)[i] = x
      BY <2>1, <2>2
    <2> QED
      BY <2>1, <2>3
  <1>4. \A i, j \in 1 .. Len(q) : i < j => q[i] < q[j]
    BY <1>1, <1>2 DEF QueueFits
  <1>5. \A i \in 1 .. Len(q) - 1 : i + 1 \in 1 .. Len(q) /\ q[i + 1] # t
    <2>1. ASSUME NEW i \in 1 .. Len(q) - 1
          PROVE  i + 1 \in 1 .. Len(q) /\ q[i + 1] # t
      <3>1. i + 1 \in 1 .. Len(q) /\ 1 < i + 1
        BY <1>2
      <3>2. t < q[i + 1] /\ t \in Nat
        BY <1>2, <1>4, <3>1, ConnsFacts
      <3> QED
        BY <3>1, <3>2
    <2> QED
      BY <2>1
  <1>6. \A c \in Conns : \A i, j \in DOMAIN queue'[c] : i < j => queue'[c][i] < queue'[c][j]
    <2>1. \A i, j \in 1 .. Len(q) - 1 : i < j => Tail(q)[i] < Tail(q)[j]
      <3>1. \A i, j \in 1 .. Len(q) - 1 : i < j => i + 1 < j + 1
        BY <1>2
      <3> HIDE DEF q
      <3> QED
        BY <1>3, <1>4, <1>5, <3>1
    <2> HIDE DEF q, d
    <2> QED
      BY <1>1, <1>3, <2>1 DEF QueueFits, d, q
  <1>7. ASSUME NEW c \in Conns, NEW i \in DOMAIN queue'[c]
        PROVE  turn'[queue'[c][i]].conn = c /\ turn'[queue'[c][i]].at \in Waiting
    <2>1. CASE c = d
      <3>1. i \in 1 .. Len(q) - 1 /\ queue'[c][i] = q[i + 1] /\ i + 1 \in DOMAIN q
        BY <1>1, <1>2, <1>3, <1>5, <1>7, <2>1
      <3>2. turn[q[i + 1]].conn = d /\ turn[q[i + 1]].at \in Waiting
        BY <1>1, <3>1 DEF QueueFits
      <3>3. q[i + 1] \in Turns /\ q[i + 1] # t
        BY <1>2, <1>5, <3>1
      <3> QED
        BY <1>1, <2>1, <3>1, <3>2, <3>3
    <2>2. CASE c # d
      <3>1. queue'[c] = queue[c] /\ turn[queue[c][i]].conn = c /\ turn[queue[c][i]].at \in Waiting
            /\ queue[c][i] \in Turns
        BY <1>1, <1>7, <2>2, QueueParts DEF QueueFits, Shape
      <3>2. queue[c][i] # t
        BY <2>2, <3>1
      <3> QED
        BY <1>1, <3>1, <3>2
    <2> QED
      BY <2>1, <2>2
  <1>8. ASSUME NEW u \in Turns, turn'[u].at \in Waiting
        PROVE  u \in Range(queue'[turn'[u].conn])
    <2>1. u # t
      BY <1>1, <1>8 DEF Waiting, Busy
    <2>2. turn'[u].conn = turn[u].conn /\ u \in Range(queue[turn[u].conn])
      BY <1>1, <1>8, <2>1 DEF QueueFits
    <2>3. CASE turn[u].conn = d
      <3>1. PICK i \in 1 .. Len(q) : q[i] = u
        BY <1>2, <2>2, <2>3
      <3>2. i # 1 /\ i - 1 \in 1 .. Len(q) - 1 /\ (i - 1) + 1 = i
        BY <1>2, <2>1, <3>1
      <3>3. Tail(q)[i - 1] = u
        BY <1>3, <3>1, <3>2
      <3> HIDE DEF q
      <3> QED
        BY <1>1, <1>3, <2>2, <2>3, <3>2, <3>3
    <2>4. CASE turn[u].conn # d
      <3>1. turn[u].conn \in Conns
        BY <1>1, <1>8, <2>1 DEF Shape, HandlerFits, Waiting, Busy
      <3> QED
        BY <1>1, <2>2, <2>4, <3>1
    <2> QED
      BY <2>3, <2>4
  <1>9. QueueFits'
    <2>1. \A a, b \in Turns : a < b /\ turn'[b].at # "new" => turn'[a].at # "new"
      <3>1. \A a \in Turns : turn'[a].at = "new" <=> turn[a].at = "new"
        BY <1>1 DEF Waiting, Busy
      <3> QED
        BY <3>1 DEF QueueFits
    <2> QED
      BY <1>6, <1>7, <1>8, <2>1 DEF QueueFits
  <1>10. ASSUME NEW a \in Turns, NEW b \in Turns, a < b, turn'[b].conn = turn'[a].conn,
                turn'[b].at \notin {"new", "queued"}
         PROVE  turn'[a].at \in {"ended", "dead"}
    <2>1. a # b
      BY <1>10, ConnsFacts
    <2>2. turn'[a].conn = turn[a].conn /\ turn'[b].conn = turn[b].conn
      BY <1>1
    <2>3. CASE b = t
      <3>1. turn[a].at \in {"ended", "dead"}
        BY <1>1, <1>10, <2>2, <2>3, HeadIsFirst DEF Waiting, Busy, Shape
      <3> QED
        BY <1>1, <2>1, <2>3, <3>1
    <2>4. CASE b # t
      <3>1. turn[a].at \in {"ended", "dead"}
        BY <1>1, <1>10, <2>2, <2>4 DEF InTurn
      <3> QED
        BY <1>1, <3>1
    <2> QED
      BY <2>3, <2>4
  <1> QED
    BY <1>9, <1>10 DEF InTurn

LEMMA RequestQueue ==
  ASSUME Shape, QueueFits, InTurn, NEW t \in Turns, Request(t)
  PROVE  (QueueFits /\ InTurn)'
  <1> DEFINE q == queue[open]
  <1>1. /\ open \in Conns /\ turn[t].at = "new" /\ \A u \in Turns : u < t => turn[u].at # "new"
        /\ turn'[t].at = "queued" /\ turn'[t].conn = open
        /\ \A u \in Turns : u # t => turn'[u] = turn[u]
        /\ queue'[open] = Append(q, t)
        /\ \A c \in Conns : c # open => queue'[c] = queue[c]
    BY RequestFacts
  <1>2. /\ q \in Seq(Turns) /\ Len(q) \in Nat /\ DOMAIN q = 1 .. Len(q)
        /\ \A i \in 1 .. Len(q) : q[i] \in Turns
        /\ \A x : x \in Range(q) <=> \E i \in 1 .. Len(q) : q[i] = x
    BY <1>1, QueueParts DEF Shape
  <1> DEFINE p == Append(q, t)
  <1>3. /\ p \in Seq(Turns) /\ Len(p) = Len(q) + 1 /\ DOMAIN p = 1 .. Len(q) + 1
        /\ \A i \in 1 .. Len(q) : p[i] = q[i] /\ i \in 1 .. Len(q) + 1
        /\ p[Len(q) + 1] = t /\ Len(q) + 1 \in 1 .. Len(q) + 1
        /\ \A x : x \in Range(p) <=> \E i \in 1 .. Len(q) + 1 : p[i] = x
        /\ \A i \in 1 .. Len(q) + 1 : i \in 1 .. Len(q) \/ i = Len(q) + 1
    <2>1. /\ p \in Seq(Turns) /\ Len(p) = Len(q) + 1
          /\ \A i \in 1 .. Len(q) : p[i] = q[i]
          /\ p[Len(q) + 1] = t
      BY <1>2, AppendProperties
    <2>2. DOMAIN p = 1 .. Len(p) /\ \A x : x \in Range(p) <=> \E i \in 1 .. Len(p) : p[i] = x
      BY <2>1, RangeOf
    <2> HIDE DEF p
    <2> QED
      BY <1>2, <2>1, <2>2
  <1> HIDE DEF p
  <1>4. \A i \in 1 .. Len(q) : turn[q[i]].conn = open /\ turn[q[i]].at \in Waiting
    BY <1>1, <1>2 DEF QueueFits
  <1>5. \A u \in Turns : turn[u].at # "new" => u < t /\ u # t
    <2>1. \A u \in Turns : u < t \/ u = t \/ t < u
      BY ConnsFacts
    <2> QED
      BY <1>1, <2>1 DEF QueueFits
  <1>6. \A i \in 1 .. Len(q) : q[i] < t /\ q[i] # t /\ q[i] \in Turns
    BY <1>2, <1>4, <1>5 DEF Waiting, Busy
  <1>7. \A i, j \in 1 .. Len(q) : i < j => q[i] < q[j]
    BY <1>1, <1>2 DEF QueueFits
  <1>8. \A i, j \in 1 .. Len(q) + 1 : i < j => p[i] < p[j]
    <2> SUFFICES ASSUME NEW i \in 1 .. Len(q) + 1, NEW j \in 1 .. Len(q) + 1, i < j
                 PROVE  p[i] < p[j]
      OBVIOUS
    <2>1. i \in 1 .. Len(q)
      BY <1>2
    <2> HIDE DEF q
    <2> QED
      BY <1>3, <1>6, <1>7, <2>1
  <1>9. \A i \in 1 .. Len(q) + 1 : turn'[p[i]].conn = open /\ turn'[p[i]].at \in Waiting
    BY <1>1, <1>3, <1>4, <1>6 DEF Waiting
  <1>10. ASSUME NEW c \in Conns, c # open, NEW i \in DOMAIN queue[c]
         PROVE  turn'[queue[c][i]].conn = c /\ turn'[queue[c][i]].at \in Waiting
    <2>1. turn[queue[c][i]].conn = c /\ turn[queue[c][i]].at \in Waiting /\ queue[c][i] \in Turns
      BY <1>10, QueueParts DEF QueueFits, Shape
    <2>2. queue[c][i] # t
      BY <1>1, <2>1 DEF Waiting, Busy
    <2> QED
      BY <1>1, <2>1, <2>2
  <1>11. ASSUME NEW u \in Turns, turn'[u].at \in Waiting
         PROVE  u \in Range(queue'[turn'[u].conn])
    <2>1. CASE u = t
      BY <1>1, <1>3, <2>1 DEF p
    <2>2. CASE u # t
      <3>1. turn'[u] = turn[u] /\ u \in Range(queue[turn[u].conn])
        BY <1>1, <1>11, <2>2 DEF QueueFits
      <3>2. CASE turn[u].conn = open
        <4>1. PICK i \in 1 .. Len(q) : q[i] = u
          BY <1>2, <3>1, <3>2
        <4> QED
          BY <1>1, <1>3, <3>1, <3>2, <4>1 DEF p
      <3>3. CASE turn[u].conn # open
        <4>1. turn[u].conn \in Conns
          BY <1>11, <3>1 DEF Shape, HandlerFits, Waiting, Busy
        <4> QED
          BY <1>1, <3>1, <3>3, <4>1
      <3> QED
        BY <3>2, <3>3
    <2> QED
      BY <2>1, <2>2
  <1>12. QueueFits'
    <2>1. \A c \in Conns : queue'[c] = IF c = open THEN p ELSE queue[c]
      BY <1>1 DEF p
    <2>2. \A c \in Conns : \A i, j \in DOMAIN queue'[c] : i < j => queue'[c][i] < queue'[c][j]
      BY <1>3, <1>8, <2>1 DEF QueueFits
    <2>3. \A c \in Conns : \A i \in DOMAIN queue'[c] :
             turn'[queue'[c][i]].conn = c /\ turn'[queue'[c][i]].at \in Waiting
      BY <1>3, <1>9, <1>10, <2>1
    <2>4. \A a, b \in Turns : a < b /\ turn'[b].at # "new" => turn'[a].at # "new"
      BY <1>1, <1>5 DEF QueueFits
    <2> QED
      BY <1>11, <2>2, <2>3, <2>4 DEF QueueFits
  <1>13. ASSUME NEW a \in Turns, NEW b \in Turns, a < b, turn'[b].conn = turn'[a].conn,
                turn'[b].at \notin {"new", "queued"}
         PROVE  turn'[a].at \in {"ended", "dead"}
    <2>1. b # t /\ turn[b].at # "new"
      BY <1>1, <1>13
    <2>2. b < t /\ a # t
      <3>1. b < t /\ a \in Nat /\ b \in Nat /\ t \in Nat
        BY <1>5, <2>1, ConnsFacts
      <3> QED
        BY <1>13, <3>1
    <2> QED
      BY <1>1, <1>13, <2>1, <2>2 DEF InTurn
  <1> QED
    BY <1>12, <1>13 DEF InTurn

LEMMA NextQueue == Shape /\ QueueFits /\ InTurn /\ [Step]_vars => (QueueFits /\ InTurn)'
  BY Phased, StayQueue, DieQueue, GoesQueue, EndsQueue, RequestQueue DEF Shape

--------------------------------------------------------------------------------
(* What a step does to the one handler that it is about.                   *)

OthersSame(t) ==
    /\ \A u \in Turns : u # t =>
         /\ turn'[u] = turn[u] /\ wire'[u] = wire[u] /\ told'[u] = told[u]
         /\ u \in failed' <=> u \in failed
         /\ u \in Range(listeners') <=> Listening(u)
    /\ UNCHANGED <<conns, backend>>

Untold(t) == told'[t] = told[t] /\ (t \in failed' <=> t \in failed)
TellsFailure(t) == told'[t] = told[t] /\ t \in failed'
TellsTimeout(t) ==
    /\ told'[t] = Append(told[t], [says |-> "timeout", run |-> turn[t].run])
    /\ t \in failed' <=> t \in failed

SameListening(t) == t \in Range(listeners') <=> Listening(t)

SameLocals(t) ==
    LET w == turn[t]
        v == turn'[t]
    IN  /\ v.attempt = w.attempt /\ v.timedOut = w.timedOut /\ v.settled = w.settled
        /\ v.run = w.run /\ v.saved = w.saved
        /\ w.at # "new" => v.conn = w.conn

Requested(t) ==
    /\ turn[t].at = "new" /\ turn'[t].at = "queued"
    /\ SameLocals(t) /\ Untold(t) /\ SameListening(t) /\ wire'[t] = wire[t] /\ approver' = approver

Started(t) ==
    /\ turn[t].at = "queued" /\ turn'[t].at = "thread" /\ wire'[t].asks = "thread"
    /\ SameLocals(t) /\ Untold(t) /\ SameListening(t) /\ approver' = approver

Threaded(t) ==
    LET w == turn[t]
        v == turn'[t]
    IN  /\ w.at = "thread" /\ v.at = "media" /\ wire'[t].asks = "none"
        /\ v.conn = w.conn /\ v.attempt = w.attempt /\ v.timedOut = w.timedOut
        /\ v.settled = w.settled /\ v.run = w.run
        /\ Untold(t) /\ t \in Range(listeners') /\ approver' = t /\ v.saved = approver

Asked(t) ==
    /\ turn[t].at = "media" /\ turn'[t].at = "starting" /\ wire'[t].asks = "turn"
    /\ SameLocals(t) /\ Untold(t) /\ SameListening(t) /\ approver' = approver

Begun(t) ==
    LET w == turn[t]
        v == turn'[t]
    IN  /\ w.at = "starting" /\ v.at = "awaiting" /\ wire'[t].asks = "none"
        /\ v.conn = w.conn /\ v.attempt = w.attempt /\ v.timedOut = w.timedOut
        /\ v.settled = w.settled /\ v.saved = w.saved
        /\ w.run \in {None, RunOf(t)} /\ v.run = RunOf(t) /\ backend[RunOf(t)].is # "none"
        /\ Untold(t) /\ SameListening(t) /\ approver' = approver

Stalled(t) ==
    LET w == turn[t]
        v == turn'[t]
    IN  /\ w.at \in Live /\ w.settled = "no" /\ v.at = w.at /\ v.timedOut /\ v.settled = "resolved"
        /\ v.conn = w.conn /\ v.attempt = w.attempt /\ v.run = w.run
        /\ TellsTimeout(t) /\ SameListening(t) /\ wire'[t] = wire[t]

Restored(t) == approver' = IF Listening(t) THEN turn[t].saved ELSE approver

Retried(t) ==
    LET w == turn[t]
        v == turn'[t]
    IN  /\ w.at = "awaiting" /\ w.settled = "refused" /\ w.attempt = 1
        /\ v.at = "thread" /\ wire'[t].asks = "thread"
        /\ v.conn = w.conn /\ v.attempt = 2 /\ ~v.timedOut /\ v.settled = "no" /\ v.run = None
        /\ Untold(t) /\ t \notin Range(listeners') /\ Restored(t)

Cleaned(t) ==
    LET w == turn[t]
        v == turn'[t]
    IN  /\ v.at = w.at /\ v.conn = w.conn /\ v.attempt = w.attempt /\ v.timedOut = w.timedOut
        /\ w.at # "ended" => v.settled = w.settled /\ v.run = w.run
        /\ w.at = "ended" => v.run = None
        /\ Untold(t) /\ t \notin Range(listeners') /\ Restored(t) /\ wire'[t] = wire[t]

\* The handler ends because of a failure, a request that nobody answered, or
\* the end that it waited for.
EndedWith(t) ==
    LET w == turn[t]
        v == turn'[t]
    IN  \/ /\ w.at \in Waiting /\ v.timedOut = w.timedOut /\ TellsFailure(t)
           /\ wire'[t].asks = "none" \/ (w.at \in {"queued", "awaiting"} /\ wire'[t] = wire[t])
        \/ /\ w.at \in {"thread", "starting"} /\ v.timedOut
           /\ IF w.timedOut THEN Untold(t) ELSE TellsTimeout(t)
           /\ wire'[t].asks = "none" \/ (w.at = "starting" /\ wire'[t] = wire[t])
        \/ /\ w.at = "awaiting" /\ w.settled \in {"resolved", "rejected"} /\ v.timedOut = w.timedOut
           /\ Untold(t) /\ wire'[t] = wire[t]

Ended(t) ==
    LET w == turn[t]
        v == turn'[t]
    IN  /\ v.at = "ended" /\ v.conn = w.conn /\ v.attempt = w.attempt
        /\ t \in Range(listeners') <=> Listening(t) /\ v.timedOut
        /\ v.run = IF Listening(t) /\ v.timedOut THEN w.run ELSE None
        /\ ~v.timedOut => Restored(t)
        /\ EndedWith(t)

Moved(t) ==
    \/ Requested(t) \/ Started(t) \/ Threaded(t) \/ Asked(t) \/ Begun(t) \/ Stalled(t)
    \/ Retried(t) \/ Cleaned(t) \/ Ended(t)

Quiet ==
    /\ UNCHANGED <<turn, listeners, approver, wire, backend, told, failed>>
    /\ conns' = conns \/ conns' = conns + 1

LEMMA EndMoves ==
  ASSUME Shape, NEW t \in Turns, turn[t].at \in Waiting, Running(t), NEW w \in Handlers,
         w.conn = turn[t].conn, w.attempt = turn[t].attempt, w.run = turn[t].run, End(t, w)
  PROVE  /\ \A u \in Turns : u # t => turn'[u] = turn[u] /\ (u \in Range(listeners') <=> Listening(u))
         /\ turn'[t].at = "ended" /\ turn'[t].conn = turn[t].conn
         /\ turn'[t].attempt = turn[t].attempt /\ turn'[t].timedOut = w.timedOut
         /\ t \in Range(listeners') <=> Listening(t) /\ w.timedOut
         /\ turn'[t].run = IF Listening(t) /\ w.timedOut THEN turn[t].run ELSE None
         /\ ~w.timedOut => Restored(t)
  <1>1. Types /\ IsInjective(listeners) /\ HandlerFits(t)
    BY DEF Shape
  <1>2. turn[t].conn \in Conns
    BY <1>1 DEF HandlerFits, Waiting, Busy
  <1>3. /\ \A u \in Turns : u # t => turn'[u] = turn[u]
        /\ turn'[t].at = "ended" /\ turn'[t].conn = turn[t].conn
        /\ turn'[t].attempt = turn[t].attempt /\ turn'[t].timedOut = w.timedOut
        /\ w.timedOut /\ Listening(t) => turn'[t].run = w.run
        /\ ~(w.timedOut /\ Listening(t)) => turn'[t].run = None
        /\ \A u : u \in Range(listeners') <=> Listening(u) /\ (u # t \/ w.timedOut)
        /\ ~w.timedOut => approver' = IF Listening(t) THEN turn[t].saved ELSE approver
    BY <1>1, <1>2, EndFacts
  <1> QED
    BY <1>3 DEF Restored

\* One handler moves.
LEMMA MoveOthers ==
  ASSUME Types, NEW t \in Turns, NEW w, turn' = [turn EXCEPT ![t] = w]
  PROVE  turn'[t] = w /\ \A u \in Turns : u # t => turn'[u] = turn[u]
  BY DEF Types

LEMMA WireOthers ==
  ASSUME Types, NEW t \in Turns, NEW asks, NEW thread,
         wire' = [wire EXCEPT ![t] = [asks |-> asks, thread |-> thread]]
  PROVE  wire'[t].asks = asks /\ \A u \in Turns : u # t => wire'[u] = wire[u]
  BY DEF Types

\* One event without an ending.
LEMMA TellPlain ==
  ASSUME Types, NEW e \in Events, ~Final(e), Tell(<<e>>)
  PROVE  /\ \A u \in Turns : told'[u] = told[u]
         /\ \A u \in Turns : u \in failed' <=> u \in failed \/ (u = e.turn /\ e.says = "failed")
  BY TellOne

LEMMA TellTimeout ==
  ASSUME Types, NEW t \in Turns, Tell(<<Event(t, "timeout", turn[t].thread, turn[t].run, FALSE)>>)
  PROVE  /\ TellsTimeout(t)
         /\ \A u \in Turns : u # t => told'[u] = told[u] /\ (u \in failed' <=> u \in failed)
  <1> DEFINE e == Event(t, "timeout", turn[t].thread, turn[t].run, FALSE)
  <1>1. turn[t].thread \in MaybeRun /\ turn[t].run \in MaybeRun
    BY TypesOf
  <1>2. /\ e \in Events /\ e.turn = t /\ e.says = "timeout" /\ Final(e)
        /\ EndingOf(e) = [says |-> "timeout", run |-> turn[t].run]
    BY <1>1 DEF Event, Events, Says6, Final, EndingOf
  <1>3. Tell(<<e>>)
    OBVIOUS
  <1> HIDE DEF e
  <1> QED
    BY <1>2, <1>3, TellOne DEF TellsTimeout

LEMMA HandlerMoves ==
  ASSUME Shape, NEW t \in Turns,
         Refuse(t) \/ Start(t) \/ MediaReady(t) \/ RequestTimeout(t) \/ Stall(t) \/ Finish(t)
  PROVE  OthersSame(t) /\ Moved(t)
  <1> DEFINE w == turn[t]
  <1>1. Types /\ HandlerFits(t)
    BY DEF Shape
  <1>2. /\ w \in Handlers /\ w.thread \in MaybeRun /\ w.timedOut \in BOOLEAN
        /\ w.settled \in {"no", "resolved", "rejected", "refused"} /\ w.attempt \in {1, 2}
    BY <1>1, TypesOf DEF Handlers
  <1>3. w.at \in Busy => Running(t)
    BY <1>1 DEF HandlerFits
  <1>4. /\ Failed(t) \in Events /\ Failed(t).turn = t /\ Failed(t).says = "failed" /\ ~Final(Failed(t))
    BY FailedEvent
  <1>5. CASE Refuse(t)
    <2>1. /\ w.at = "queued" /\ Running(t) /\ End(t, w) /\ Tell(<<Failed(t)>>)
          /\ UNCHANGED <<links, server>>
      BY <1>5 DEF Refuse
    <2>2. TellsFailure(t) /\ \A u \in Turns : u # t => told'[u] = told[u] /\ (u \in failed' <=> u \in failed)
      BY <1>1, <1>4, <2>1, TellPlain DEF TellsFailure
    <2>3. wire' = wire /\ backend' = backend /\ conns' = conns
      BY <2>1 DEF server, links
    <2>4. Ended(t) /\ OthersSame(t)
      BY <1>2, <2>1, <2>2, <2>3, EndMoves DEF Ended, EndedWith, OthersSame, Waiting
    <2> QED
      BY <2>4 DEF Moved
  <1>6. CASE Start(t)
    <2> DEFINE v == [w EXCEPT !.at = "thread", !.resumed = (w.thread # None)]
    <2>1. /\ w.at = "queued" /\ turn' = [turn EXCEPT ![t] = v]
          /\ wire' = [wire EXCEPT ![t] = [asks |-> "thread", thread |-> w.thread]]
          /\ UNCHANGED <<links, listeners, approver, backend, outbox>>
      BY <1>6 DEF Start
    <2>2. /\ v.at = "thread" /\ v.conn = w.conn /\ v.timedOut = w.timedOut /\ v.attempt = w.attempt
          /\ v.settled = w.settled /\ v.run = w.run /\ v.saved = w.saved
      BY <1>2 DEF Handlers
    <2> HIDE DEF v
    <2>3. turn'[t] = v /\ \A u \in Turns : u # t => turn'[u] = turn[u]
      BY <1>1, <2>1, MoveOthers
    <2>4. wire'[t].asks = "thread" /\ \A u \in Turns : u # t => wire'[u] = wire[u]
      BY <1>1, <2>1, WireOthers
    <2>5. Started(t) /\ OthersSame(t)
      BY <2>1, <2>2, <2>3, <2>4
      DEF Started, OthersSame, SameLocals, Untold, SameListening, Listening, links, outbox
    <2> QED
      BY <2>5 DEF Moved
  <1>7. CASE MediaReady(t)
    <2> DEFINE v == [w EXCEPT !.at = "starting"]
    <2>1. /\ w.at = "media" /\ turn' = [turn EXCEPT ![t] = v]
          /\ wire' = [wire EXCEPT ![t] = [asks |-> "turn", thread |-> w.thread]]
          /\ UNCHANGED <<links, listeners, approver, backend, outbox>>
      BY <1>7 DEF MediaReady
    <2>2. /\ v.at = "starting" /\ v.conn = w.conn /\ v.timedOut = w.timedOut /\ v.attempt = w.attempt
          /\ v.settled = w.settled /\ v.run = w.run /\ v.saved = w.saved
      BY <1>2 DEF Handlers
    <2> HIDE DEF v
    <2>3. turn'[t] = v /\ \A u \in Turns : u # t => turn'[u] = turn[u]
      BY <1>1, <2>1, MoveOthers
    <2>4. wire'[t].asks = "turn" /\ \A u \in Turns : u # t => wire'[u] = wire[u]
      BY <1>1, <2>1, WireOthers
    <2>5. Asked(t) /\ OthersSame(t)
      BY <2>1, <2>2, <2>3, <2>4
      DEF Asked, OthersSame, SameLocals, Untold, SameListening, Listening, links, outbox
    <2> QED
      BY <2>5 DEF Moved
  <1>8. CASE RequestTimeout(t)
    <2> DEFINE v == [w EXCEPT !.timedOut = TRUE]
    <2>1. /\ w.at \in {"thread", "starting"} /\ End(t, v)
          /\ w.timedOut => Tell(<<>>)
          /\ ~w.timedOut => Tell(<<Event(t, "timeout", w.thread, w.run, FALSE)>>)
          /\ wire' = IF w.at = "thread" THEN [wire EXCEPT ![t] = NoRequest] ELSE wire
          /\ UNCHANGED <<links, backend>>
      BY <1>8 DEF RequestTimeout
    <2>2. v \in Handlers /\ v.conn = w.conn /\ v.attempt = w.attempt /\ v.run = w.run /\ v.timedOut
      BY <1>2 DEF Handlers
    <2> HIDE DEF v
    <2>3. /\ IF w.timedOut THEN Untold(t) ELSE TellsTimeout(t)
          /\ \A u \in Turns : u # t => told'[u] = told[u] /\ (u \in failed' <=> u \in failed)
      <3>1. CASE w.timedOut
        BY <1>1, <2>1, <3>1, TellNone DEF Untold
      <3>2. CASE ~w.timedOut
        BY <1>1, <2>1, <3>2, TellTimeout
      <3> QED
        BY <3>1, <3>2
    <2>4. /\ wire'[t].asks = "none" \/ (w.at = "starting" /\ wire'[t] = wire[t])
          /\ \A u \in Turns : u # t => wire'[u] = wire[u]
      <3>1. CASE w.at = "thread"
        BY <1>1, <2>1, <3>1, WireOthers DEF NoRequest
      <3>2. CASE w.at = "starting"
        BY <2>1, <3>2
      <3> QED
        BY <2>1, <3>1, <3>2
    <2>5. EndedWith(t) /\ Ended(t) /\ OthersSame(t)
      <3>1. /\ \A u \in Turns : u # t => turn'[u] = turn[u] /\ (u \in Range(listeners') <=> Listening(u))
            /\ turn'[t].at = "ended" /\ turn'[t].conn = w.conn
            /\ turn'[t].attempt = w.attempt /\ turn'[t].timedOut
            /\ t \in Range(listeners') <=> Listening(t)
            /\ turn'[t].run = IF Listening(t) THEN w.run ELSE None
        BY <1>3, <2>1, <2>2, EndMoves DEF Waiting, Busy
      <3>2. EndedWith(t)
        BY <2>1, <2>3, <2>4, <3>1 DEF EndedWith
      <3> QED
        BY <2>1, <2>3, <2>4, <3>1, <3>2 DEF Ended, OthersSame, links
    <2> QED
      BY <2>5 DEF Moved
  <1>9. CASE Stall(t)
    <2> DEFINE v == [w EXCEPT !.timedOut = TRUE, !.settled = "resolved", !.armed = TRUE]
    <2>1. /\ w.at \in Live /\ w.settled = "no" /\ turn' = [turn EXCEPT ![t] = v]
          /\ Tell(<<Event(t, "timeout", w.thread, w.run, FALSE)>>)
          /\ UNCHANGED <<links, listeners, approver, server>>
      BY <1>9 DEF Stall, Live
    <2>2. /\ v.at = w.at /\ v.conn = w.conn /\ v.timedOut /\ v.attempt = w.attempt
          /\ v.settled = "resolved" /\ v.run = w.run
      BY <1>2 DEF Handlers
    <2> HIDE DEF v
    <2>3. turn'[t] = v /\ \A u \in Turns : u # t => turn'[u] = turn[u]
      BY <1>1, <2>1, MoveOthers
    <2>4. /\ TellsTimeout(t)
          /\ \A u \in Turns : u # t => told'[u] = told[u] /\ (u \in failed' <=> u \in failed)
      BY <1>1, <2>1, TellTimeout
    <2>5. Stalled(t) /\ OthersSame(t)
      BY <2>1, <2>2, <2>3, <2>4
      DEF Stalled, OthersSame, SameListening, Listening, links, server
    <2> QED
      BY <2>5 DEF Moved
  <1>10. CASE Finish(t)
    <2>1. w.at = "awaiting" /\ w.settled # "no" /\ UNCHANGED <<links, backend>>
      BY <1>10 DEF Finish
    <2>2. CASE /\ w.settled = "refused" /\ w.attempt = 1
               /\ turn' = [turn EXCEPT ![t] = [NewTurn EXCEPT !.at = "thread", !.conn = w.conn,
                                                              !.attempt = 2]]
               /\ wire' = [wire EXCEPT ![t] = [asks |-> "thread", thread |-> None]]
               /\ Unsubscribe(t)
               /\ UNCHANGED outbox
      <3> DEFINE v == [NewTurn EXCEPT !.at = "thread", !.conn = w.conn, !.attempt = 2]
      <3>1. /\ v.at = "thread" /\ v.conn = w.conn /\ ~v.timedOut /\ v.attempt = 2
            /\ v.settled = "no" /\ v.run = None
        BY DEF NewTurn
      <3>2. turn' = [turn EXCEPT ![t] = v]
        BY <2>2
      <3> HIDE DEF v
      <3>3. turn'[t] = v /\ \A u \in Turns : u # t => turn'[u] = turn[u]
        BY <1>1, <3>2, MoveOthers
      <3>4. wire'[t].asks = "thread" /\ \A u \in Turns : u # t => wire'[u] = wire[u]
        BY <1>1, <2>2, WireOthers
      <3>5. (\A u : u \in Range(listeners') <=> Listening(u) /\ u # t) /\ Restored(t)
        BY <1>1, <2>2, UnsubscribeFacts DEF Restored, Shape
      <3>6. Retried(t) /\ OthersSame(t)
        BY <2>1, <2>2, <3>1, <3>3, <3>4, <3>5 DEF Retried, OthersSame, Untold, links, outbox
      <3> QED
        BY <3>6 DEF Moved
    <2>3. CASE /\ End(t, w)
               /\ \/ Tell(<<Failed(t)>>) \/ Tell(<<Event(t, "failed", None, None, TRUE)>>)
                  \/ Tell(<<>>) /\ w.settled # "refused"
               /\ UNCHANGED wire
      <3>1. \/ TellsFailure(t)
            \/ Untold(t) /\ w.settled # "refused"
        <4>1. CASE Tell(<<Failed(t)>>)
          BY <1>1, <1>4, <4>1, TellPlain DEF TellsFailure
        <4>2. CASE Tell(<<Event(t, "failed", None, None, TRUE)>>)
          BY <1>1, <4>2, ResetEvent, TellPlain DEF TellsFailure
        <4>3. CASE Tell(<<>>) /\ w.settled # "refused"
          BY <1>1, <4>3, TellNone DEF Untold
        <4> QED
          BY <2>3, <4>1, <4>2, <4>3
      <3>2. \A u \in Turns : u # t => told'[u] = told[u] /\ (u \in failed' <=> u \in failed)
        <4>1. CASE Tell(<<Failed(t)>>)
          BY <1>1, <1>4, <4>1, TellPlain
        <4>2. CASE Tell(<<Event(t, "failed", None, None, TRUE)>>)
          BY <1>1, <4>2, ResetEvent, TellPlain
        <4>3. CASE Tell(<<>>)
          BY <1>1, <4>3, TellNone
        <4> QED
          BY <2>3, <4>1, <4>2, <4>3
      <3>3. /\ \A u \in Turns : u # t => turn'[u] = turn[u] /\ (u \in Range(listeners') <=> Listening(u))
            /\ turn'[t].at = "ended" /\ turn'[t].conn = w.conn
            /\ turn'[t].attempt = w.attempt /\ turn'[t].timedOut = w.timedOut
            /\ t \in Range(listeners') <=> Listening(t) /\ w.timedOut
            /\ turn'[t].run = IF Listening(t) /\ w.timedOut THEN w.run ELSE None
            /\ ~w.timedOut => Restored(t)
        BY <1>2, <1>3, <2>1, <2>3, EndMoves DEF Waiting, Busy
      <3>4. EndedWith(t)
        BY <1>2, <2>1, <2>3, <3>1, <3>3 DEF EndedWith, Waiting, Busy
      <3>5. Ended(t)
        BY <3>3, <3>4 DEF Ended
      <3>6. OthersSame(t)
        BY <2>1, <2>3, <3>2, <3>3 DEF OthersSame, links
      <3> QED
        BY <3>5, <3>6 DEF Moved
    <2> QED
      BY <1>10, <2>2, <2>3 DEF Finish
  <1> QED
    BY <1>5, <1>6, <1>7, <1>8, <1>9, <1>10

LEMMA RequestMoves ==
  ASSUME Shape, NEW t \in Turns, Request(t)
  PROVE  OthersSame(t) /\ Moved(t)
  <1>1. /\ turn[t].at = "new" /\ turn'[t].at = "queued" /\ turn'[t].attempt = turn[t].attempt
        /\ turn'[t].timedOut = turn[t].timedOut /\ turn'[t].settled = turn[t].settled
        /\ turn'[t].run = turn[t].run /\ turn'[t].saved = turn[t].saved
        /\ \A u \in Turns : u # t => turn'[u] = turn[u]
        /\ UNCHANGED <<links, listeners, approver, server, outbox>>
    BY RequestFacts
  <1>2. Requested(t) /\ OthersSame(t)
    BY <1>1 DEF Requested, OthersSame, SameLocals, Untold, SameListening, Listening, links, server, outbox
  <1> QED
    BY <1>2 DEF Moved

LEMMA CleanupMoves ==
  ASSUME Shape, NEW t \in Turns, LateCleanup(t)
  PROVE  OthersSame(t) /\ Moved(t)
  <1>1. Types /\ IsInjective(listeners) /\ turn[t] \in Handlers
    BY TypesOf DEF Shape
  <1>2. /\ turn' = [turn EXCEPT ![t] = Left(turn[t])] /\ Unsubscribe(t)
        /\ UNCHANGED <<links, server, outbox>>
    BY DEF LateCleanup
  <1>3. turn'[t] = Left(turn[t]) /\ \A u \in Turns : u # t => turn'[u] = turn[u]
    BY <1>1, <1>2, MoveOthers
  <1>4. (\A u : u \in Range(listeners') <=> Listening(u) /\ u # t) /\ Restored(t)
    BY <1>1, <1>2, UnsubscribeFacts DEF Restored
  <1>5. /\ turn'[t].at = turn[t].at /\ turn'[t].conn = turn[t].conn
        /\ turn'[t].attempt = turn[t].attempt /\ turn'[t].timedOut = turn[t].timedOut
        /\ turn[t].at # "ended" => turn'[t].settled = turn[t].settled /\ turn'[t].run = turn[t].run
        /\ turn[t].at = "ended" => turn'[t].run = None
    BY <1>1, <1>3, LeftFacts
  <1>6. Cleaned(t) /\ OthersSame(t)
    BY <1>2, <1>3, <1>4, <1>5 DEF Cleaned, OthersSame, Untold, links, server, outbox
  <1> QED
    BY <1>6 DEF Moved

\* The range of a longer sequence.
LEMMA LongerRange ==
  ASSUME NEW U, NEW s \in Seq(U), NEW x \in U
  PROVE  \A y : y \in Range(Append(s, x)) <=> y \in Range(s) \/ y = x
  <1> DEFINE p == Append(s, x)
  <1>1. /\ p \in Seq(U) /\ Len(p) = Len(s) + 1 /\ p[Len(s) + 1] = x
        /\ \A i \in 1 .. Len(s) : p[i] = s[i]
    BY AppendProperties
  <1> HIDE DEF p
  <1>2. /\ Len(s) \in Nat /\ \A y : y \in Range(s) <=> \E i \in 1 .. Len(s) : s[i] = y
        /\ \A y : y \in Range(p) <=> \E i \in 1 .. Len(p) : p[i] = y
    BY <1>1, RangeOf
  <1>3. /\ \A i \in 1 .. Len(s) : i \in 1 .. Len(p)
        /\ Len(s) + 1 \in 1 .. Len(p)
        /\ \A i \in 1 .. Len(p) : i \in 1 .. Len(s) \/ i = Len(s) + 1
    BY <1>1, <1>2
  <1>4. \A y : y \in Range(p) <=> y \in Range(s) \/ y = x
    BY <1>1, <1>2, <1>3
  <1> QED
    BY <1>4 DEF p

LEMMA AnswerMoves ==
  ASSUME Shape, NEW t \in Turns, ThreadReady(t) \/ TurnReady(t) \/ RequestRefused(t)
  PROVE  OthersSame(t) /\ Moved(t)
  <1> DEFINE w == turn[t]
  <1>1. Types /\ HandlerFits(t)
    BY DEF Shape
  <1>2. w \in Handlers /\ w.thread \in MaybeRun /\ RunOf(t) \in MaybeRun
    BY <1>1, TypesOf, RunOfType, Named
  <1>3. w.at \in Busy => Running(t)
    BY <1>1 DEF HandlerFits
  <1>4. Failed(t) \in Events /\ Failed(t).turn = t /\ Failed(t).says = "failed" /\ ~Final(Failed(t))
    BY FailedEvent
  <1>5. wire' = [wire EXCEPT ![t] = NoRequest]
    BY DEF ThreadReady, TurnReady, RequestRefused
  <1>6. wire'[t].asks = "none" /\ \A u \in Turns : u # t => wire'[u] = wire[u]
    BY <1>1, <1>5, WireOthers DEF NoRequest
  <1>7. CASE ThreadReady(t)
    <2> DEFINE thread == IF w.thread = None THEN RunOf(t) ELSE w.thread
               v == [w EXCEPT !.at = "media", !.thread = thread, !.saved = approver]
    <2>1. thread \in MaybeRun
      BY <1>2
    <2>2. /\ w.at = "thread" /\ turn' = [turn EXCEPT ![t] = v]
          /\ listeners' = Append(listeners, t) /\ approver' = t /\ Tell(<<Status(t, thread)>>)
          /\ UNCHANGED <<links, backend>>
      BY <1>7 DEF ThreadReady
    <2> HIDE DEF thread
    <2>3. /\ v.at = "media" /\ v.conn = w.conn /\ v.timedOut = w.timedOut /\ v.attempt = w.attempt
          /\ v.settled = w.settled /\ v.run = w.run /\ v.saved = approver
      BY <1>2 DEF Handlers
    <2> HIDE DEF v
    <2>4. turn'[t] = v /\ \A u \in Turns : u # t => turn'[u] = turn[u]
      BY <1>1, <2>2, MoveOthers
    <2>5. \A u \in Turns : told'[u] = told[u] /\ (u \in failed' <=> u \in failed)
      BY <1>1, <2>1, <2>2, StatusEvent, TellPlain
    <2>6. \A u \in Turns : u \in Range(listeners') <=> Listening(u) \/ u = t
      <3>1. listeners \in Seq(Turns)
        BY <1>1 DEF Types
      <3>2. \A u : u \in Range(listeners') <=> u \in Range(listeners) \/ u = t
        BY <2>2, <3>1, LongerRange
      <3> QED
        BY <3>2 DEF Listening
    <2>7. Threaded(t) /\ OthersSame(t)
      BY <1>6, <2>2, <2>3, <2>4, <2>5, <2>6 DEF Threaded, OthersSame, Untold, links
    <2> QED
      BY <2>7 DEF Moved
  <1>8. ASSUME w.at \in {"thread", "starting"}, End(t, w), Tell(<<Failed(t)>>), UNCHANGED <<links, backend>>
        PROVE  Ended(t) /\ OthersSame(t)
    <2>1. TellsFailure(t) /\ \A u \in Turns : u # t => told'[u] = told[u] /\ (u \in failed' <=> u \in failed)
      BY <1>1, <1>4, <1>8, TellPlain DEF TellsFailure
    <2>2. /\ \A u \in Turns : u # t => turn'[u] = turn[u] /\ (u \in Range(listeners') <=> Listening(u))
          /\ turn'[t].at = "ended" /\ turn'[t].conn = w.conn
          /\ turn'[t].attempt = w.attempt /\ turn'[t].timedOut = w.timedOut
          /\ t \in Range(listeners') <=> Listening(t) /\ w.timedOut
          /\ turn'[t].run = IF Listening(t) /\ w.timedOut THEN w.run ELSE None
          /\ ~w.timedOut => Restored(t)
      BY <1>2, <1>3, <1>8, EndMoves DEF Waiting, Busy
    <2>3. EndedWith(t)
      BY <1>6, <1>8, <2>1, <2>2 DEF EndedWith, Waiting, Busy
    <2> QED
      BY <1>6, <1>8, <2>1, <2>2, <2>3 DEF Ended, OthersSame, links
  <1>9. CASE TurnReady(t)
    <2>1. w.at = "starting" /\ backend[RunOf(t)].is # "none" /\ UNCHANGED <<links, backend>>
      BY <1>9 DEF TurnReady
    <2>2. CASE /\ w.run \in {None, RunOf(t)}
               /\ turn' = [turn EXCEPT ![t].at = "awaiting", ![t].run = RunOf(t)]
               /\ Tell(<<Status(t, w.thread)>>)
               /\ UNCHANGED <<listeners, approver>>
      <3> DEFINE v == [w EXCEPT !.at = "awaiting", !.run = RunOf(t)]
      <3>1. /\ v.at = "awaiting" /\ v.conn = w.conn /\ v.timedOut = w.timedOut /\ v.attempt = w.attempt
            /\ v.settled = w.settled /\ v.run = RunOf(t) /\ v.saved = w.saved
        BY <1>2 DEF Handlers
      <3>2. turn' = [turn EXCEPT ![t] = v]
        BY <2>2
      <3> HIDE DEF v
      <3>3. turn'[t] = v /\ \A u \in Turns : u # t => turn'[u] = turn[u]
        BY <1>1, <3>2, MoveOthers
      <3>4. \A u \in Turns : told'[u] = told[u] /\ (u \in failed' <=> u \in failed)
        BY <1>1, <1>2, <2>2, StatusEvent, TellPlain
      <3>5. Begun(t) /\ OthersSame(t)
        BY <1>6, <2>1, <2>2, <3>1, <3>3, <3>4
        DEF Begun, OthersSame, Untold, SameListening, Listening, links
      <3> QED
        BY <3>5 DEF Moved
    <2>3. CASE End(t, w) /\ Tell(<<Failed(t)>>)
      BY <1>8, <2>1, <2>3 DEF Moved
    <2> QED
      BY <1>9, <2>2, <2>3 DEF TurnReady
  <1>10. CASE RequestRefused(t)
    BY <1>8, <1>10 DEF RequestRefused, Moved
  <1> QED
    BY <1>7, <1>9, <1>10

\* Every step is one of six kinds.
LEMMA Sorted ==
  ASSUME Shape, [Step]_vars
  PROVE  \/ Quiet \/ ChildExit \/ Die \/ \E m : Notifies(m)
         \/ \E t \in Turns : BeginRun(t) \/ (OthersSame(t) /\ Moved(t))
  <1>1. CASE UNCHANGED vars \/ Connect \/ Disconnect
    <2>1. Quiet
      BY <1>1 DEF Quiet, vars, Connect, Disconnect, links, server, outbox
    <2> QED
      BY <2>1
  <1>2. CASE Notification
    BY <1>2, NotificationNotifies DEF Shape
  <1>3. CASE Step
    BY <1>1, <1>2, <1>3, Steps, HandlerMoves, RequestMoves, CleanupMoves, AnswerMoves
  <1> QED
    BY <1>1, <1>3

\* What turn t makes of the notification m: nothing, if it does not listen or
\* the ids do not match.
Deaf(t) == turn'[t] = turn[t] /\ Untold(t) /\ SameListening(t)

Hears(t, m) ==
    LET w == turn[t]
        v == turn'[t]
        ending == m.kind # "activity"
    IN  /\ Listening(t) /\ (w.run = m.run \/ None \in {w.run, m.run})
        /\ v.at = w.at /\ v.conn = w.conn /\ v.attempt = w.attempt /\ v.timedOut = w.timedOut
        /\ t \in Range(listeners') <=> ~(w.timedOut /\ ending)
        /\ v.run \in {None, IF w.run = None THEN m.run ELSE w.run}
        /\ w.at \in Live \/ t \in Range(listeners') =>
             v.run = (IF w.run = None THEN m.run ELSE w.run) /\ v.saved = w.saved
        /\ w.at \in Live =>
             v.settled = IF ~ending \/ w.timedOut \/ w.settled # "no" THEN w.settled
                         ELSE IF m.kind = "completed" THEN "resolved"
                         ELSE IF Refuses(t, m) THEN "refused" ELSE "rejected"
        /\ told'[t] = IF m.kind = "completed"
                      THEN Append(told[t], [says |-> IF w.timedOut THEN "late" ELSE "reply", run |-> m.run])
                      ELSE told[t]
        /\ t \in failed' <=> t \in failed \/ (ending /\ m.kind # "completed" /\ ~Refuses(t, m))

LEMMA Hearing ==
  ASSUME Shape, NEW m, Notifies(m), NEW t \in Turns
  PROVE  Deaf(t) \/ Hears(t, m)
  <1> DEFINE w == turn[t]
             v == turn'[t]
             ending == m.kind # "activity"
  <1>1. Types /\ IsInjective(listeners) /\ HandlerFits(t) /\ m \in Notices /\ Notify(m)
    BY DEF Shape, Notifies
  <1>2. /\ v = IF Listening(t) THEN Heard(t, m) ELSE turn[t]
        /\ ~(Listening(t) /\ Final(Says(t, m))) => told'[t] = told[t]
        /\ Listening(t) /\ Final(Says(t, m)) => told'[t] = Append(told[t], EndingOf(Says(t, m)))
        /\ t \in failed' <=> t \in failed \/ (Listening(t) /\ Says(t, m).says = "failed")
        /\ t \in Range(listeners') <=> Listening(t) /\ ~(w.timedOut /\ ending /\ Matches(w, m))
    BY <1>1, NotifyFacts
  <1>3. LET h == Heard(t, m)
            e == Matches(w, m) /\ ending
        IN  /\ h \in Handlers /\ h.at = w.at /\ h.conn = w.conn /\ h.attempt = w.attempt
            /\ h.timedOut = w.timedOut
            /\ ~Matches(w, m) => h = w
            /\ Matches(w, m) /\ ~(e /\ w.timedOut /\ w.at = "ended") =>
                 /\ h.run = IF w.run = None THEN m.run ELSE w.run
                 /\ h.saved = w.saved
            /\ ~(e /\ ~w.timedOut /\ w.settled = "no") /\ ~(e /\ w.timedOut) => h.settled = w.settled
            /\ e /\ w.timedOut /\ w.at # "ended" => h.settled = w.settled
            /\ e /\ ~w.timedOut /\ w.settled = "no" =>
                 h.settled = IF m.kind = "completed" THEN "resolved"
                             ELSE IF Refuses(t, m) THEN "refused" ELSE "rejected"
            /\ e /\ w.timedOut /\ w.at = "ended" => h.run = None
    BY <1>1, HeardFacts
  <1>4. LET e == Says(t, m)
        IN  /\ Final(e) <=> Matches(w, m) /\ m.kind = "completed"
            /\ Final(e) => EndingOf(e) = [says |-> IF w.timedOut THEN "late" ELSE "reply", run |-> m.run]
            /\ e.says = "failed" <=> /\ Matches(w, m) /\ ~Refuses(t, m)
                                     /\ m.kind \notin {"activity", "completed"}
    BY <1>1, SaysFacts
  <1>5. Matches(w, m) => w.run = m.run \/ None \in {w.run, m.run}
    BY DEF Matches
  <1>6. CASE ~Listening(t) \/ ~Matches(w, m)
    <2>1. v = w
      BY <1>2, <1>3, <1>6
    <2>2. told'[t] = told[t] /\ (t \in failed' <=> t \in failed)
      BY <1>2, <1>4, <1>6
    <2>3. t \in Range(listeners') <=> Listening(t)
      BY <1>2, <1>6
    <2> QED
      BY <2>1, <2>2, <2>3 DEF Deaf, Untold, SameListening
  <1>7. CASE Listening(t) /\ Matches(w, m)
    <2> DEFINE h == Heard(t, m)
               adopted == IF w.run = None THEN m.run ELSE w.run
    <2>1. v = h
      BY <1>2, <1>7
    <2>2. /\ h.at = w.at /\ h.conn = w.conn /\ h.attempt = w.attempt /\ h.timedOut = w.timedOut
          /\ ~(ending /\ w.timedOut /\ w.at = "ended") => h.run = adopted /\ h.saved = w.saved
          /\ ~(ending /\ ~w.timedOut /\ w.settled = "no") /\ ~(ending /\ w.timedOut) => h.settled = w.settled
          /\ ending /\ w.timedOut /\ w.at # "ended" => h.settled = w.settled
          /\ ending /\ ~w.timedOut /\ w.settled = "no" =>
               h.settled = IF m.kind = "completed" THEN "resolved"
                           ELSE IF Refuses(t, m) THEN "refused" ELSE "rejected"
          /\ ending /\ w.timedOut /\ w.at = "ended" => h.run = None
      BY <1>3, <1>7
    <2> HIDE DEF h, adopted
    <2>3. t \in Range(listeners') <=> ~(w.timedOut /\ ending)
      BY <1>2, <1>7
    <2>4. /\ told'[t] = IF m.kind = "completed"
                        THEN Append(told[t], [says |-> IF w.timedOut THEN "late" ELSE "reply", run |-> m.run])
                        ELSE told[t]
          /\ t \in failed' <=> t \in failed \/ (ending /\ m.kind # "completed" /\ ~Refuses(t, m))
      BY <1>2, <1>4, <1>7
    <2>5. w.at \in Live => w.at # "ended"
      BY DEF Live
    <2>6. /\ v.run \in {None, adopted}
          /\ w.at \in Live \/ t \in Range(listeners') => v.run = adopted /\ v.saved = w.saved
      BY <2>1, <2>2, <2>3, <2>5
    <2>7. w.at \in Live =>
             v.settled = IF ~ending \/ w.timedOut \/ w.settled # "no" THEN w.settled
                         ELSE IF m.kind = "completed" THEN "resolved"
                         ELSE IF Refuses(t, m) THEN "refused" ELSE "rejected"
      BY <2>1, <2>2, <2>5
    <2> QED
      BY <1>5, <1>7, <2>1, <2>2, <2>3, <2>4, <2>6, <2>7 DEF Hears, adopted
  <1> QED
    BY <1>6, <1>7

--------------------------------------------------------------------------------
(* The requests and the backend turns.                                     *)

\* A backend turn only goes on.
BackendGrows ==
    \A r \in Runs : /\ backend[r].is # "none" => backend'[r].is # "none"
                    /\ backend[r].is \in {"failing", "ended"} => backend'[r].is \in {"failing", "ended"}
                    /\ backend[r].is = "ended" => backend'[r].is = "ended"

LEMMA StillAnswers ==
  ASSUME Types, NEW t \in Turns, AnswersFit(t), BackendGrows, turn'[t] = turn[t],
         wire'[t] \in {wire[t], NoRequest}
  PROVE  AnswersFit(t)'
  <1>1. RunOf(t) \in Runs /\ turn[t].run \in Runs \cup {None} /\ RunOf(t)' = RunOf(t)
    BY RunOfType, TypesOf DEF MaybeRun, RunOf
  <1>2. [turn |-> t, attempt |-> 1] \in Runs
    BY DEF Runs
  <1>3. wire'[t].asks \in {wire[t].asks, "none"}
    BY DEF NoRequest
  <1> QED
    BY <1>1, <1>2, <1>3 DEF AnswersFit, BackendGrows

LEMMA RunParts ==
  ASSUME NEW r \in Runs
  PROVE  r.turn \in Turns /\ r.attempt \in {1, 2} /\ r.attempt \in Nat
         /\ r = [turn |-> r.turn, attempt |-> r.attempt]
  BY DEF Runs

LEMMA InitRuns == Init => RunsFit
  <1> SUFFICES ASSUME Init
               PROVE  RunsFit
    OBVIOUS
  <1>1. ASSUME NEW t \in Turns
        PROVE  AnswersFit(t)
    BY <1>1 DEF Init, AnswersFit, NoRequest, NewTurn, Live
  <1>2. ASSUME NEW r \in Runs
        PROVE  BackendFits(r)
    BY <1>2 DEF Init, BackendFits
  <1> QED
    BY <1>1, <1>2 DEF RunsFit

LEMMA QuietRuns == RunsFit /\ Quiet => RunsFit'
  BY DEF Quiet, RunsFit, AnswersFit, BackendFits, RunOf

LEMMA ExitRuns == Shape /\ RunsFit /\ ChildExit => RunsFit'
  <1> SUFFICES ASSUME Shape, RunsFit, ChildExit
               PROVE  RunsFit'
    OBVIOUS
  <1>1. /\ wire' = [t \in Turns |-> NoRequest] /\ turn' = turn
        /\ backend' = [r \in Runs |-> IF backend[r].is = "none" THEN backend[r] ELSE Over]
    BY DEF ChildExit
  <1>2. BackendGrows /\ \A r \in Runs : backend'[r].is \in {"none", "ended"}
                                        /\ (backend'[r].is = "none" <=> backend[r].is = "none")
    BY <1>1 DEF BackendGrows, Over
  <1>3. ASSUME NEW t \in Turns
        PROVE  AnswersFit(t)'
    BY <1>1, <1>2, StillAnswers DEF RunsFit, Shape
  <1>4. ASSUME NEW r \in Runs
        PROVE  BackendFits(r)'
    BY <1>1, <1>2 DEF RunsFit, BackendFits
  <1> QED
    BY <1>3, <1>4 DEF RunsFit

LEMMA DieRuns == Shape /\ RunsFit /\ Die => RunsFit'
  <1> SUFFICES ASSUME Shape, RunsFit, Die
               PROVE  RunsFit'
    OBVIOUS
  <1>1. Types
    BY DEF Shape
  <1>2. /\ \A t \in Turns : wire'[t] = NoRequest
        /\ \A r \in Runs : /\ backend'[r].is = "none" <=> backend[r].is = "none"
                           /\ backend'[r].is \in {"none", "ended"}
        /\ \A t \in Turns :
              /\ turn'[t].attempt = turn[t].attempt /\ turn'[t].timedOut = turn[t].timedOut
              /\ turn'[t].at = IF turn[t].at \in {"new", "ended"} THEN turn[t].at ELSE "dead"
              /\ turn'[t].run \in {None, turn[t].run}
    BY <1>1, DieFacts
  <1>3. ASSUME NEW t \in Turns
        PROVE  AnswersFit(t)'
    <2>1. [turn |-> t, attempt |-> 1] \in Runs /\ turn[t].run \in Runs \cup {None}
      BY <1>1, TypesOf DEF MaybeRun, Runs
    <2>2. AnswersFit(t) /\ wire'[t].asks = "none" /\ turn'[t].at \in {"new", "ended", "dead"}
      BY <1>2 DEF RunsFit, NoRequest
    <2> QED
      BY <1>2, <2>1, <2>2 DEF AnswersFit, Live
  <1>4. ASSUME NEW r \in Runs
        PROVE  BackendFits(r)'
    <2>1. r.turn \in Turns /\ BackendFits(r)
      BY RunParts DEF RunsFit
    <2> QED
      BY <1>2, <2>1 DEF BackendFits
  <1> QED
    BY <1>3, <1>4 DEF RunsFit

LEMMA BeginFacts ==
  ASSUME Types, NEW t \in Turns, BeginRun(t)
  PROVE  /\ wire[t].asks = "turn" /\ backend[RunOf(t)].is = "none" /\ backend'[RunOf(t)].is = "running"
         /\ \A r \in Runs : r # RunOf(t) => backend'[r] = backend[r]
         /\ UNCHANGED <<conns, turn, listeners, approver, wire, told, failed>>
  <1>1. RunOf(t) \in Runs
    BY RunOfType
  <1> QED
    BY <1>1 DEF BeginRun, Types, links, outbox

LEMMA BeginRuns ==
  ASSUME Shape, RunsFit, NEW t \in Turns, BeginRun(t)
  PROVE  RunsFit'
  <1>1. Types /\ RunOf(t) \in Runs /\ RunOf(t).turn = t /\ RunOf(t).attempt = turn[t].attempt
    BY RunOfType DEF Shape
  <1>2. /\ wire[t].asks = "turn" /\ backend[RunOf(t)].is = "none" /\ backend'[RunOf(t)].is = "running"
        /\ \A r \in Runs : r # RunOf(t) => backend'[r] = backend[r]
        /\ UNCHANGED <<turn, wire>>
    BY <1>1, BeginFacts
  <1>3. BackendGrows
    BY <1>2 DEF BackendGrows
  <1>4. \A u \in Turns : AnswersFit(u)'
    BY <1>1, <1>2, <1>3, StillAnswers DEF RunsFit
  <1>5. ASSUME NEW r \in Runs
        PROVE  BackendFits(r)'
    <2>1. CASE r = RunOf(t)
      <3>1. turn[t].at = "starting" \/ turn[t].at = "ended"
        BY <1>2 DEF RunsFit, AnswersFit
      <3>2. turn[t].attempt <= turn[t].attempt
        BY <1>1, RunParts
      <3> QED
        BY <1>1, <1>2, <2>1, <3>1, <3>2 DEF BackendFits
    <2>2. CASE r # RunOf(t)
      BY <1>2, <2>2 DEF RunsFit, BackendFits
    <2> QED
      BY <2>1, <2>2
  <1> QED
    BY <1>4, <1>5 DEF RunsFit

LEMMA NotifyRuns ==
  ASSUME Shape, RunsFit, NEW m, Notifies(m)
  PROVE  RunsFit'
  <1>1. Types /\ None \notin Runs /\ m.run \in Runs \cup {None}
    BY BridgeAssumption DEF Shape, Notifies, Notices, MaybeRun
  <1>2. /\ \A r \in Runs :
              /\ backend'[r].is = "none" <=> backend[r].is = "none"
              /\ backend'[r].is = "running" => backend[r].is = "running"
              /\ backend[r].is \in {"failing", "ended"} => backend'[r].is \in {"failing", "ended"}
              /\ backend[r].is = "ended" => backend'[r].is = "ended"
        /\ m.run \in Runs => backend[m.run].is \in {"running", "failing"}
        /\ m.kind = "unsupported" =>
              m.run \in Runs /\ backend[m.run].is = "running" /\ backend'[m.run].is = "failing"
    BY <1>1, NotifyBackend
  <1>3. BackendGrows
    BY <1>2 DEF BackendGrows
  <1>4. wire' = wire
    BY DEF Notifies, Notify
  <1>5. ASSUME NEW t \in Turns
        PROVE  /\ AnswersFit(t)' /\ turn'[t].at = turn[t].at /\ turn'[t].attempt = turn[t].attempt
    <2>1. Deaf(t) \/ Hears(t, m)
      BY Hearing
    <2>2. CASE Deaf(t)
      BY <1>1, <1>3, <1>4, <2>2, StillAnswers DEF Deaf, RunsFit
    <2>3. CASE Hears(t, m)
      <3> DEFINE w == turn[t]
                 v == turn'[t]
      <3>1. /\ v.at = w.at /\ v.attempt = w.attempt /\ v.timedOut = w.timedOut
            /\ w.run = m.run \/ None \in {w.run, m.run}
            /\ v.run \in {None, IF w.run = None THEN m.run ELSE w.run}
            /\ w.at \in Live => v.run = (IF w.run = None THEN m.run ELSE w.run)
            /\ w.at \in Live => v.settled = w.settled \/ v.settled # "refused" \/ Refuses(t, m)
        BY <2>3 DEF Hears
      <3>2. AnswersFit(t) /\ RunOf(t)' = RunOf(t) /\ RunOf(t) \in Runs /\ w.run \in Runs \cup {None}
            /\ [turn |-> t, attempt |-> 1] \in Runs
        BY <1>1, <3>1, RunOfType, TypesOf DEF RunsFit, RunOf, MaybeRun, Runs
      <3>3. Refuses(t, m) => m.kind = "unsupported"
        BY DEF Refuses
      <3>4. v.run # None => backend'[v.run].is # "none"
        <4>1. CASE w.run = None
          BY <1>1, <1>2, <3>1, <4>1
        <4>2. CASE w.run # None
          BY <1>2, <3>1, <3>2, <4>2 DEF AnswersFit
        <4> QED
          BY <4>1, <4>2
      <3>5. v.at \in Live /\ v.settled = "refused" =>
              v.run # None /\ backend'[v.run].is \in {"failing", "ended"}
        <4> SUFFICES ASSUME v.at \in Live, v.settled = "refused"
                     PROVE  v.run # None /\ backend'[v.run].is \in {"failing", "ended"}
          OBVIOUS
        <4>1. CASE w.settled = "refused"
          <5>1. w.run # None /\ backend[w.run].is \in {"failing", "ended"}
            BY <3>1, <3>2, <4>1 DEF AnswersFit
          <5> QED
            BY <1>2, <3>1, <3>2, <5>1
        <4>2. CASE w.settled # "refused"
          <5>1. m.run \in Runs /\ backend'[m.run].is = "failing"
            BY <1>2, <3>1, <3>3, <4>2
          <5>2. v.run = m.run
            BY <1>1, <3>1, <5>1
          <5> QED
            BY <1>1, <5>1, <5>2
        <4> QED
          BY <4>1, <4>2
      <3>6. v.at = "awaiting" => v.run = RunOf(t) /\ backend'[RunOf(t)].is # "none"
        BY <1>1, <1>2, <3>1, <3>2 DEF AnswersFit, Live
      <3>7. v.attempt = 2 => backend'[[turn |-> t, attempt |-> 1]].is \in {"failing", "ended"}
        BY <1>2, <3>1, <3>2 DEF AnswersFit
      <3>8. /\ wire'[t].asks = "thread" => v.at = "thread"
            /\ wire'[t].asks = "turn" => v.at = "starting" \/ (v.at = "ended" /\ v.timedOut)
        BY <1>4, <3>1, <3>2 DEF AnswersFit
      <3>9. AnswersFit(t)'
        BY <3>2, <3>4, <3>5, <3>6, <3>7, <3>8 DEF AnswersFit
      <3> QED
        BY <3>1, <3>9
    <2> QED
      BY <2>1, <2>2, <2>3 DEF Deaf
  <1>6. ASSUME NEW r \in Runs
        PROVE  BackendFits(r)'
    <2>1. r.turn \in Turns /\ BackendFits(r)
      BY RunParts DEF RunsFit
    <2>2. turn'[r.turn].at = turn[r.turn].at /\ turn'[r.turn].attempt = turn[r.turn].attempt
      BY <1>5, <2>1
    <2> QED
      BY <1>2, <2>1, <2>2 DEF BackendFits
  <1> QED
    BY <1>5, <1>6 DEF RunsFit

LEMMA MovedRuns ==
  ASSUME Shape, RunsFit, NEW t \in Turns, OthersSame(t), Moved(t)
  PROVE  RunsFit'
  <1> DEFINE w == turn[t]
             v == turn'[t]
  <1>1. /\ Types /\ HandlerFits(t) /\ AnswersFit(t) /\ RunOf(t) \in Runs
        /\ w.run \in Runs \cup {None} /\ None \notin Runs /\ w.attempt \in {1, 2}
        /\ [turn |-> t, attempt |-> 1] \in Runs
    BY RunOfType, TypesOf, BridgeAssumption DEF Shape, RunsFit, MaybeRun, Runs, Handlers
  <1>2. /\ \A u \in Turns : u # t => turn'[u] = turn[u] /\ wire'[u] = wire[u]
        /\ backend' = backend
    BY DEF OthersSame
  <1>3. BackendGrows
    BY <1>2 DEF BackendGrows
  <1>4. \A u \in Turns : u # t => AnswersFit(u)'
    BY <1>1, <1>2, <1>3, StillAnswers DEF RunsFit
  <1>5. RunOf(t) = [turn |-> t, attempt |-> w.attempt] /\ RunOf(t)' = [turn |-> t, attempt |-> v.attempt]
    BY DEF RunOf
  <1>6. AnswersFit(t)'
    <2>1. CASE Requested(t) \/ Started(t) \/ Threaded(t) \/ Asked(t)
      BY <1>1, <1>2, <1>5, <2>1
      DEF Requested, Started, Threaded, Asked, SameLocals, AnswersFit, HandlerFits, Live
    <2>2. CASE Begun(t)
      BY <1>1, <1>2, <1>5, <2>2 DEF Begun, AnswersFit, Live
    <2>3. CASE Stalled(t)
      BY <1>1, <1>2, <1>5, <2>3 DEF Stalled, AnswersFit, Live
    <2>4. CASE Retried(t)
      BY <1>1, <1>2, <1>5, <2>4 DEF Retried, AnswersFit, Live
    <2>5. CASE Cleaned(t)
      BY <1>1, <1>2, <1>5, <2>5 DEF Cleaned, AnswersFit, Live
    <2>6. CASE Ended(t)
      <3>1. /\ v.at = "ended" /\ v.attempt = w.attempt /\ v.run \in {None, w.run} /\ EndedWith(t)
        BY <2>6 DEF Ended
      <3>2. wire'[t].asks # "thread" /\ (wire'[t].asks = "turn" => v.timedOut)
        BY <1>1, <3>1 DEF EndedWith, AnswersFit
      <3> QED
        BY <1>1, <1>2, <1>5, <3>1, <3>2 DEF AnswersFit, Live
    <2> QED
      BY <2>1, <2>2, <2>3, <2>4, <2>5, <2>6 DEF Moved
  <1>7. ASSUME NEW r \in Runs
        PROVE  BackendFits(r)'
    <2>1. r.turn \in Turns /\ BackendFits(r) /\ r.attempt \in {1, 2}
      BY RunParts DEF RunsFit
    <2>2. CASE r.turn # t
      BY <1>2, <2>1, <2>2 DEF BackendFits
    <2>3. CASE r.turn = t /\ backend[r].is # "none"
      <3>1. w.at \notin {"new", "queued"} /\ r.attempt <= w.attempt
            /\ (r.attempt = w.attempt => w.at \in {"starting", "awaiting", "ended", "dead"})
            /\ (w.at = "dead" => backend[r].is = "ended")
        BY <2>1, <2>3 DEF BackendFits
      <3>2. /\ v.at \notin {"new", "queued"} /\ r.attempt <= v.attempt
            /\ r.attempt = v.attempt => v.at \in {"starting", "awaiting", "ended", "dead"}
            /\ v.at = "dead" => backend[r].is = "ended"
        <4>1. CASE Requested(t) \/ Started(t) \/ Threaded(t) \/ Asked(t)
          BY <1>1, <2>1, <3>1, <4>1 DEF Requested, Started, Threaded, Asked, SameLocals
        <4>2. CASE Begun(t) \/ Stalled(t)
          BY <3>1, <4>2 DEF Begun, Stalled
        <4>3. CASE Retried(t)
          BY <2>1, <3>1, <4>3 DEF Retried
        <4>4. CASE Cleaned(t)
          BY <3>1, <4>4 DEF Cleaned
        <4>5. CASE Ended(t)
          BY <3>1, <4>5 DEF Ended
        <4> QED
          BY <4>1, <4>2, <4>3, <4>4, <4>5 DEF Moved
      <3> QED
        BY <1>2, <2>3, <3>2 DEF BackendFits
    <2>4. CASE backend[r].is = "none"
      BY <1>2, <2>4 DEF BackendFits
    <2> QED
      BY <2>2, <2>3, <2>4
  <1> QED
    BY <1>4, <1>6, <1>7 DEF RunsFit

LEMMA NextRuns == Shape /\ RunsFit /\ [Step]_vars => RunsFit'
  BY Sorted, QuietRuns, ExitRuns, DieRuns, BeginRuns, NotifyRuns, MovedRuns

--------------------------------------------------------------------------------
(* What is told of a turn.                                                 *)

LEMMA ToldParts ==
  ASSUME Types, NEW t \in Turns
  PROVE  /\ told[t] \in Seq(Endings) /\ Len(told[t]) \in Nat /\ DOMAIN told[t] = 1 .. Len(told[t])
         /\ \A e : e \in Range(told[t]) <=> \E i \in 1 .. Len(told[t]) : told[t][i] = e
         /\ \A e \in Range(told[t]) : e \in Endings
         /\ told[t] = <<>> <=> \A e : e \notin Range(told[t])
  <1>1. told[t] \in Seq(Endings)
    BY DEF Types
  <1>2. /\ Len(told[t]) \in Nat /\ DOMAIN told[t] = 1 .. Len(told[t])
        /\ \A e : e \in Range(told[t]) <=> \E i \in 1 .. Len(told[t]) : told[t][i] = e
        /\ Range(told[t]) \subseteq Endings
        /\ told[t] = <<>> <=> Len(told[t]) = 0
    BY <1>1, RangeOf
  <1>3. Len(told[t]) # 0 <=> \E i : i \in 1 .. Len(told[t])
    <2>1. Len(told[t]) # 0 => 1 \in 1 .. Len(told[t])
      BY <1>2
    <2>2. Len(told[t]) = 0 => 1 .. Len(told[t]) = {}
      BY <1>2
    <2> QED
      BY <2>1, <2>2
  <1> QED
    BY <1>1, <1>2, <1>3

\* One more ending of turn t, when it is the first of its kind.
LEMMA OnceMore ==
  ASSUME Types, NEW t \in Turns, Once(t), NEW x \in Endings, told'[t] = Append(told[t], x),
         Reply(x) => \A e \in Range(told[t]) : ~Reply(e),
         x.says = "timeout" \/ x.says = "reply" => \A e \in Range(told[t]) : e.says # "timeout"
  PROVE  Once(t)'
  <1> DEFINE s == told[t]
             p == Append(s, x)
  <1>1. s \in Seq(Endings) /\ Len(s) \in Nat /\ DOMAIN s = 1 .. Len(s)
        /\ \A i \in 1 .. Len(s) : s[i] \in Range(s)
    BY ToldParts
  <1>2. /\ p \in Seq(Endings) /\ Len(p) = Len(s) + 1 /\ p[Len(s) + 1] = x
        /\ \A i \in 1 .. Len(s) : p[i] = s[i]
    BY <1>1, AppendProperties
  <1>3. told'[t] = p
    OBVIOUS
  <1> HIDE DEF p
  <1>4. DOMAIN p = 1 .. Len(s) + 1
    BY <1>2, LenProperties
  <1>5. \A i \in 1 .. Len(s) + 1 : (i \in 1 .. Len(s) /\ p[i] = s[i] /\ p[i] \in Range(s)) \/ (i = Len(s) + 1 /\ p[i] = x)
    BY <1>1, <1>2
  <1>6. /\ \A i, j \in 1 .. Len(s) : Reply(s[i]) /\ Reply(s[j]) => i = j
        /\ \A i, j \in 1 .. Len(s) : s[i].says = "timeout" /\ s[j].says = "timeout" => i = j
        /\ \A i, j \in 1 .. Len(s) : i < j => ~(s[i].says = "timeout" /\ s[j].says = "reply")
    BY <1>1 DEF Once
  <1>7. \A i, j \in DOMAIN p : Reply(p[i]) /\ Reply(p[j]) => i = j
    BY <1>4, <1>5, <1>6
  <1>8. \A i, j \in DOMAIN p : p[i].says = "timeout" /\ p[j].says = "timeout" => i = j
    BY <1>4, <1>5, <1>6
  <1>9. \A i, j \in DOMAIN p : i < j => ~(p[i].says = "timeout" /\ p[j].says = "reply")
    <2> SUFFICES ASSUME NEW i \in 1 .. Len(s) + 1, NEW j \in 1 .. Len(s) + 1, i < j
                 PROVE  ~(p[i].says = "timeout" /\ p[j].says = "reply")
      BY <1>4
    <2>1. i \in 1 .. Len(s)
      BY <1>1
    <2> HIDE DEF s
    <2> QED
      BY <1>2, <1>5, <1>6, <2>1 DEF s
  <1> QED
    BY <1>3, <1>7, <1>8, <1>9 DEF Once, Reply

LEMMA InitTold == Init => \A t \in Turns : ToldFits(t) /\ Once(t)
  BY DEF Init, ToldFits, Once, NewTurn, Live, Range

\* Nothing is told of turn t, and its handler stays as it is.
LEMMA StillTold ==
  ASSUME Types, NEW t \in Turns, ToldFits(t), Once(t), turn'[t] = turn[t], told'[t] = told[t],
         t \in failed => t \in failed', t \in Range(listeners') => Listening(t),
         \A r \in Runs : backend[r].is = "ended" => backend'[r].is = "ended"
  PROVE  (ToldFits(t) /\ Once(t))'
  BY DEF ToldFits, Once, Listening, Reply

LEMMA DieTold ==
  ASSUME Shape, TellsFit, \A t \in Turns : Once(t), Die, NEW t \in Turns
  PROVE  (ToldFits(t) /\ Once(t))'
  <1>1. Types /\ ToldFits(t) /\ Once(t)
    BY DEF Shape, TellsFit
  <1>2. /\ t \notin Range(listeners')
        /\ \A r \in Runs : /\ backend'[r].is = "none" <=> backend[r].is = "none"
                           /\ backend'[r].is \in {"none", "ended"}
        /\ told' = told /\ failed' = failed /\ turn'[t].timedOut = turn[t].timedOut
        /\ turn'[t].at = IF turn[t].at \in {"new", "ended"} THEN turn[t].at ELSE "dead"
    BY <1>1, DieFacts
  <1>3. turn[t].at = "new" => \A e \in Range(told[t]) : ~Reply(e)
    BY <1>1 DEF ToldFits, Live
  <1>4. ToldFits(t)'
    BY <1>1, <1>2, <1>3 DEF ToldFits, Reply, Live, Listening
  <1> QED
    BY <1>1, <1>2, <1>4 DEF Once, Reply

LEMMA NotifyTold ==
  ASSUME Shape, RunsFit, TellsFit, NEW m, Notifies(m), NEW t \in Turns, Once(t)
  PROVE  (ToldFits(t) /\ Once(t))'
  <1> DEFINE w == turn[t]
             v == turn'[t]
  <1>1. /\ Types /\ HandlerFits(t) /\ ToldFits(t) /\ AnswersFit(t) /\ None \notin Runs
        /\ m.run \in Runs \cup {None}
    BY BridgeAssumption DEF Shape, RunsFit, TellsFit, Notifies, Notices, MaybeRun
  <1>2. /\ \A r \in Runs : backend[r].is = "ended" => backend'[r].is = "ended"
        /\ m.kind = "completed" =>
              m.run \in Runs /\ backend[m.run].is = "running" /\ backend'[m.run].is = "ended"
        /\ m.kind = "unsupported" => m.run \in Runs /\ backend[m.run].is = "running"
    BY <1>1, NotifyBackend
  <1>3. CASE Deaf(t)
    BY <1>1, <1>2, <1>3, StillTold DEF Deaf, Untold, SameListening
  <1>4. CASE Hears(t, m)
    <2>1. /\ Listening(t) /\ (w.run = m.run \/ None \in {w.run, m.run})
          /\ v.at = w.at /\ v.timedOut = w.timedOut
          /\ w.at \in Live \/ t \in Range(listeners') => v.run = (IF w.run = None THEN m.run ELSE w.run)
          /\ w.at \in Live =>
               v.settled = IF m.kind = "activity" \/ w.timedOut \/ w.settled # "no" THEN w.settled
                           ELSE IF m.kind = "completed" THEN "resolved"
                           ELSE IF Refuses(t, m) THEN "refused" ELSE "rejected"
          /\ m.kind = "completed" =>
               told'[t] = Append(told[t], [says |-> IF w.timedOut THEN "late" ELSE "reply", run |-> m.run])
          /\ m.kind # "completed" => told'[t] = told[t]
          /\ t \in failed' <=> t \in failed \/ (m.kind # "activity" /\ m.kind # "completed" /\ ~Refuses(t, m))
      BY <1>4 DEF Hears
    <2>2. Refuses(t, m) => m.kind = "unsupported"
      BY DEF Refuses
    <2>3. m.kind \in {"completed", "unsupported"} => \A e \in Range(told[t]) : ~Reply(e)
      <3> SUFFICES ASSUME m.kind \in {"completed", "unsupported"}, NEW e \in Range(told[t]), Reply(e)
                   PROVE  FALSE
        OBVIOUS
      <3>1. e.run \in Runs /\ backend[e.run].is = "ended" /\ w.run = e.run
        BY <1>1, <2>1 DEF ToldFits
      <3>2. m.run \in Runs /\ backend[m.run].is = "running"
        BY <1>2
      <3> QED
        BY <1>1, <2>1, <3>1, <3>2
    <2>4. w.at \in Live \/ w.at = "ended"
      BY <1>1, <2>1 DEF HandlerFits
    <2>5. CASE m.kind = "completed"
      <3> DEFINE x == [says |-> IF w.timedOut THEN "late" ELSE "reply", run |-> m.run]
      <3>1. /\ x \in Endings /\ x.run = m.run /\ x.says \in {"late", "reply"}
            /\ x.says = "reply" => ~w.timedOut
        BY <1>1, <1>2, <2>5, TypesOf DEF Endings
      <3>2. told'[t] = Append(told[t], x)
        BY <2>1, <2>5
      <3> HIDE DEF x
      <3>3. \A e : e \in Range(told'[t]) <=> e \in Range(told[t]) \/ e = x
        <4>1. told[t] \in Seq(Endings)
          BY <1>1, ToldParts
        <4> QED
          BY <3>1, <3>2, <4>1, LongerRange
      <3>4. ~w.timedOut => \A e \in Range(told[t]) : e.says # "timeout"
        BY <1>1 DEF ToldFits
      <3>5. Once(t)'
        BY <1>1, <2>3, <2>5, <3>1, <3>2, <3>4, OnceMore
      <3>6. w.run \in {None, m.run} /\ m.run # None
        BY <1>1, <1>2, <2>1, <2>5
      <3>7. w.at \in Live \/ t \in Range(listeners') => v.run = m.run
        BY <2>1, <3>6
      <3>8. v.at \in Live => v.settled # "refused" /\ (v.settled = "rejected" => t \in failed)
        <4>1. w.at \in Live => w.settled # "refused"
          BY <1>1, <1>2, <2>5, <3>6 DEF AnswersFit
        <4> QED
          BY <1>1, <2>1, <2>5, <4>1 DEF ToldFits
      <3>9. /\ \E e \in Range(told'[t]) : Reply(e)
            /\ \A e \in Range(told'[t]) : Reply(e) => e = x
            /\ told'[t] # <<>>
        <4>1. Append(told[t], x) # <<>>
          <5>1. told[t] \in Seq(Endings)
            BY <1>1, ToldParts
          <5> QED
            BY <3>1, <5>1, AppendProperties
        <4> QED
          BY <2>3, <2>5, <3>1, <3>2, <3>3, <4>1 DEF Reply
      <3>10. v.timedOut <=> \E e \in Range(told'[t]) : e.says = "timeout"
        BY <1>1, <2>1, <3>1, <3>3 DEF ToldFits
      <3>11. ToldFits(t)'
        BY <1>2, <2>1, <2>4, <2>5, <3>1, <3>7, <3>8, <3>9, <3>10 DEF ToldFits, Reply, Listening
      <3> QED
        BY <3>5, <3>11
    <2>6. CASE m.kind # "completed"
      <3>1. told'[t] = told[t] /\ (t \in failed => t \in failed')
        BY <2>1, <2>6
      <3>2. \A e \in Range(told[t]) : Reply(e) =>
              /\ e.run \in Runs /\ backend'[e.run].is = "ended" /\ w.run = e.run
              /\ w.at \in Live \/ t \in Range(listeners') => v.run = e.run
        BY <1>1, <1>2, <2>1 DEF ToldFits
      <3>3. v.at \in Live /\ v.settled = "refused" => \A e \in Range(told[t]) : ~Reply(e)
        BY <1>1, <2>1, <2>2, <2>3, <2>6 DEF ToldFits
      <3>4. v.at \in Live /\ v.settled = "rejected" => t \in failed'
        BY <1>1, <2>1, <2>6 DEF ToldFits
      <3>5. v.at \in Live /\ v.settled = "resolved" /\ ~v.timedOut => \E e \in Range(told[t]) : Reply(e)
        BY <1>1, <2>1, <2>6 DEF ToldFits
      <3>6. ToldFits(t)'
        BY <1>1, <2>1, <2>4, <3>1, <3>2, <3>3, <3>4, <3>5 DEF ToldFits, Reply, Listening
      <3> QED
        BY <3>1, <3>6 DEF Once, Reply
    <2> QED
      BY <2>5, <2>6
  <1> QED
    BY <1>3, <1>4, Hearing

\* The timeout of turn t, told once.
LEMMA TimeoutTold ==
  ASSUME Types, NEW t \in Turns, ToldFits(t), Once(t), ~turn[t].timedOut, TellsTimeout(t)
  PROVE  /\ Once(t)' /\ told'[t] # <<>> /\ \E e \in Range(told'[t]) : e.says = "timeout" /\ e.run = turn[t].run
         /\ \A e : Reply(e) => (e \in Range(told'[t]) <=> e \in Range(told[t]))
         /\ \A e \in Range(told[t]) : e \in Range(told'[t])
  <1> DEFINE x == [says |-> "timeout", run |-> turn[t].run]
  <1>1. x \in Endings /\ x.says = "timeout" /\ x.run = turn[t].run
    BY TypesOf DEF Endings, MaybeRun
  <1>2. told'[t] = Append(told[t], x)
    BY DEF TellsTimeout
  <1> HIDE DEF x
  <1>3. told[t] \in Seq(Endings)
    BY ToldParts
  <1>4. \A e : e \in Range(told'[t]) <=> e \in Range(told[t]) \/ e = x
    BY <1>1, <1>2, <1>3, LongerRange
  <1>5. \A e \in Range(told[t]) : e.says # "timeout"
    BY DEF ToldFits
  <1>6. Once(t)'
    BY <1>1, <1>2, <1>5, OnceMore DEF Reply
  <1>7. told'[t] # <<>>
    BY <1>1, <1>2, <1>3, AppendProperties
  <1> QED
    BY <1>1, <1>4, <1>6, <1>7 DEF Reply

LEMMA MovedTold ==
  ASSUME Shape, RunsFit, TellsFit, NEW t \in Turns, Once(t), OthersSame(t), Moved(t)
  PROVE  (ToldFits(t) /\ Once(t))'
  <1> DEFINE w == turn[t]
             v == turn'[t]
  <1>1. /\ Types /\ HandlerFits(t) /\ ToldFits(t) /\ AnswersFit(t) /\ None \notin Runs
        /\ w.settled \in {"no", "resolved", "rejected", "refused"} /\ w.timedOut \in BOOLEAN
        /\ backend' = backend
    BY BridgeAssumption, TypesOf DEF Shape, RunsFit, TellsFit, OthersSame, Handlers
  <1>2. ASSUME told'[t] = told[t]
        PROVE  Once(t)'
    BY <1>2 DEF Once, Reply
  <1>3. \A e \in Range(told[t]) : Reply(e) =>
          /\ e.run \in Runs /\ backend[e.run].is = "ended"
          /\ w.at \in Live \cup {"ended", "dead"}
          /\ w.at \in Live \/ Listening(t) => w.run = e.run
    BY <1>1 DEF ToldFits
  <1>4. CASE Requested(t) \/ Started(t) \/ Threaded(t)
    <2>1. /\ Untold(t) /\ w.at \in {"new", "queued", "thread"} /\ v.at \in {"queued", "thread", "media"}
          /\ v.timedOut = w.timedOut /\ v.settled = w.settled
      BY <1>4 DEF Requested, Started, Threaded, SameLocals
    <2>2. \A e \in Range(told[t]) : ~Reply(e)
      BY <1>3, <2>1 DEF Live
    <2>3. w.settled = "no"
      BY <1>1, <2>1 DEF HandlerFits
    <2>4. ToldFits(t)'
      BY <1>1, <2>1, <2>2, <2>3 DEF ToldFits, Reply, Untold
    <2> QED
      BY <1>2, <2>1, <2>4 DEF Untold
  <1>5. CASE Asked(t) \/ Begun(t)
    <2>1. /\ Untold(t) /\ SameListening(t) /\ w.at \in Live /\ v.at \in Live
          /\ v.timedOut = w.timedOut /\ v.settled = w.settled
          /\ v.run = w.run \/ (w.run \in {None, v.run})
      BY <1>5 DEF Asked, Begun, SameLocals, Live
    <2>2. \A e \in Range(told[t]) : Reply(e) => v.run = e.run
      BY <1>1, <1>3, <2>1
    <2>3. v.at # "ended"
      BY <2>1 DEF Live
    <2>4. ToldFits(t)'
      BY <1>1, <1>3, <2>1, <2>2, <2>3 DEF ToldFits, Reply, Untold, SameListening, Listening
    <2> QED
      BY <1>2, <2>1, <2>4 DEF Untold
  <1>6. CASE Stalled(t)
    <2>1. /\ TellsTimeout(t) /\ SameListening(t) /\ w.at \in Live /\ v.at = w.at /\ w.settled = "no"
          /\ v.timedOut /\ v.settled = "resolved" /\ v.run = w.run
      BY <1>6 DEF Stalled
    <2>2. ~w.timedOut
      BY <1>1, <2>1 DEF HandlerFits
    <2>3. /\ Once(t)' /\ told'[t] # <<>> /\ \E e \in Range(told'[t]) : e.says = "timeout"
          /\ \A e : Reply(e) => (e \in Range(told'[t]) <=> e \in Range(told[t]))
      BY <1>1, <2>1, <2>2, TimeoutTold
    <2>4. ToldFits(t)'
      BY <1>1, <1>3, <2>1, <2>3 DEF ToldFits, Reply, SameListening, Listening
    <2> QED
      BY <2>3, <2>4
  <1>7. CASE Retried(t)
    <2>1. /\ Untold(t) /\ w.at = "awaiting" /\ w.settled = "refused" /\ v.at = "thread"
          /\ ~v.timedOut /\ v.settled = "no"
      BY <1>7 DEF Retried
    <2>2. /\ ~w.timedOut /\ \A e \in Range(told[t]) : ~Reply(e)
      BY <1>1, <2>1 DEF HandlerFits, ToldFits, Live
    <2>3. ToldFits(t)'
      BY <1>1, <2>1, <2>2 DEF ToldFits, Reply, Untold
    <2> QED
      BY <1>2, <2>1, <2>3 DEF Untold
  <1>8. CASE Cleaned(t)
    <2>1. /\ Untold(t) /\ v.at = w.at /\ v.timedOut = w.timedOut /\ t \notin Range(listeners')
          /\ w.at # "ended" => v.settled = w.settled /\ v.run = w.run
      BY <1>8 DEF Cleaned
    <2>2. w.at \in Live => w.at # "ended"
      BY DEF Live
    <2>3. ToldFits(t)'
      BY <1>1, <1>3, <2>1, <2>2 DEF ToldFits, Reply, Untold, Listening
    <2> QED
      BY <1>2, <2>1, <2>3 DEF Untold
  <1>9. CASE Ended(t)
    <2>1. /\ v.at = "ended" /\ (t \in Range(listeners') <=> Listening(t) /\ v.timedOut)
          /\ v.run = IF Listening(t) /\ v.timedOut THEN w.run ELSE None
          /\ EndedWith(t)
      BY <1>9 DEF Ended
    <2>2. /\ v.timedOut <=> \E e \in Range(told'[t]) : e.says = "timeout"
          /\ \A e : Reply(e) => (e \in Range(told'[t]) <=> e \in Range(told[t]))
          /\ told'[t] # <<>> \/ t \in failed'
          /\ Once(t)'
      <3>1. CASE v.timedOut = w.timedOut /\ TellsFailure(t)
        BY <1>1, <1>2, <3>1 DEF TellsFailure, ToldFits
      <3>2. CASE /\ w.at \in {"thread", "starting"} /\ v.timedOut
                 /\ IF w.timedOut THEN Untold(t) ELSE TellsTimeout(t)
        <4>1. CASE w.timedOut
          <5>1. told'[t] = told[t] /\ \E e \in Range(told[t]) : e.says = "timeout"
            BY <1>1, <3>2, <4>1 DEF Untold, ToldFits
          <5>2. told[t] # <<>>
            BY <1>1, <5>1, ToldParts
          <5> QED
            BY <1>2, <3>2, <5>1, <5>2
        <4>2. CASE ~w.timedOut
          BY <1>1, <3>2, <4>2, TimeoutTold
        <4> QED
          BY <4>1, <4>2
      <3>3. CASE w.at = "awaiting" /\ w.settled \in {"resolved", "rejected"} /\ v.timedOut = w.timedOut /\ Untold(t)
        <4>1. told'[t] = told[t] /\ (t \in failed' <=> t \in failed) /\ w.at \in Live
          BY <3>3 DEF Untold, Live
        <4>2. (\E e : e \in Range(told[t])) \/ t \in failed
          BY <1>1, <3>3, <4>1 DEF ToldFits
        <4>3. told[t] # <<>> \/ t \in failed
          BY <1>1, <4>2, ToldParts
        <4> QED
          BY <1>1, <1>2, <3>3, <4>1, <4>3 DEF ToldFits
      <3> QED
        BY <2>1, <3>1, <3>2, <3>3 DEF EndedWith
    <2>3. ToldFits(t)'
      BY <1>1, <1>3, <2>1, <2>2 DEF ToldFits, Reply, Listening, Live
    <2> QED
      BY <2>2, <2>3
  <1> QED
    BY <1>4, <1>5, <1>6, <1>7, <1>8, <1>9 DEF Moved

AllOnce == \A t \in Turns : Once(t)

LEMMA NextTold == Shape /\ RunsFit /\ TellsFit /\ AllOnce /\ [Step]_vars => (TellsFit /\ AllOnce)'
  <1> SUFFICES ASSUME Shape, RunsFit, TellsFit, AllOnce, [Step]_vars, NEW t \in Turns
               PROVE  (ToldFits(t) /\ Once(t))'
    BY DEF TellsFit, AllOnce
  <1>1. Types /\ ToldFits(t) /\ Once(t)
    BY DEF Shape, TellsFit, AllOnce
  <1>2. CASE Quiet
    BY <1>1, <1>2, StillTold DEF Quiet, Listening
  <1>3. CASE ChildExit
    <2>1. /\ \A r \in Runs : backend[r].is = "ended" => backend'[r].is = "ended"
          /\ UNCHANGED <<turn, told, failed, listeners>>
      BY <1>3 DEF ChildExit, outbox, Over
    <2> QED
      BY <1>1, <2>1, StillTold DEF Listening
  <1>4. CASE Die
    BY <1>4, DieTold DEF AllOnce
  <1>5. ASSUME NEW m, Notifies(m)
        PROVE  (ToldFits(t) /\ Once(t))'
    BY <1>1, <1>5, NotifyTold
  <1>6. ASSUME NEW u \in Turns, BeginRun(u)
        PROVE  (ToldFits(t) /\ Once(t))'
    <2>1. /\ \A r \in Runs : backend[r].is = "ended" => backend'[r].is = "ended"
          /\ UNCHANGED <<turn, told, failed, listeners>>
      BY <1>1, <1>6, BeginFacts
    <2> QED
      BY <1>1, <2>1, StillTold DEF Listening
  <1>7. ASSUME NEW u \in Turns, OthersSame(u), Moved(u)
        PROVE  (ToldFits(t) /\ Once(t))'
    <2>1. CASE t = u
      BY <1>1, <1>7, <2>1, MovedTold
    <2>2. CASE t # u
      BY <1>1, <1>7, <2>2, StillTold DEF OthersSame
    <2> QED
      BY <2>1, <2>2
  <1> QED
    BY <1>2, <1>3, <1>4, <1>5, <1>6, <1>7, Sorted

--------------------------------------------------------------------------------
(* The approval handler.                                                   *)

LEMMA InitApprover == Init => ApproverFits
  BY DEF Init, ApproverFits, Listening, Range

\* While no turn timed out and there was one connection, one handler listens
\* at most: it runs at the head of the only queue.
LEMMA OneListener ==
  ASSUME Shape, Alone, NEW t \in Turns, turn[t].at \in Busy, NEW u \in Turns, Listening(u)
  PROVE  u = t
  <1>1. HandlerFits(t) /\ HandlerFits(u) /\ ~turn[u].timedOut /\ conns <= 1 /\ conns \in Nat
    BY TypesOf DEF Shape, Alone
  <1>2. turn[u].at \in Live
    BY <1>1 DEF HandlerFits
  <1>3. turn[u].at \in Busy /\ turn[u].at # "new" /\ turn[t].at # "new"
    BY <1>2 DEF Live, Busy
  <1>4. /\ turn[t].conn \in Conns /\ turn[t].conn <= conns /\ Running(t)
        /\ turn[u].conn \in Conns /\ turn[u].conn <= conns /\ Running(u)
    BY <1>1, <1>3 DEF HandlerFits
  <1>5. turn[t].conn = 1 /\ turn[u].conn = 1
    BY <1>1, <1>4, ConnsFacts
  <1> QED
    BY <1>4, <1>5 DEF Running

LEMMA MovedApprover ==
  ASSUME Shape, ApproverFits, NEW t \in Turns, OthersSame(t), Moved(t)
  PROVE  ApproverFits'
  <1> SUFFICES ASSUME Alone'
               PROVE  /\ (\A u \in Turns : u \notin Range(listeners')) => approver' = None
                      /\ \A u \in Turns : u \in Range(listeners') =>
                           /\ approver' = u /\ turn'[u].saved = None
                           /\ \A s \in Turns : s \in Range(listeners') => s = u
    BY DEF ApproverFits, Listening
  <1> DEFINE w == turn[t]
             v == turn'[t]
  <1>1. HandlerFits(t) /\ w.timedOut \in BOOLEAN
    BY TypesOf DEF Shape
  <1>2. /\ \A u \in Turns : u # t => turn'[u] = turn[u] /\ (u \in Range(listeners') <=> Listening(u))
        /\ conns' = conns /\ conns' <= 1 /\ \A u \in Turns : ~turn'[u].timedOut
    BY DEF OthersSame, Alone
  <1>3. ~v.timedOut /\ ~Stalled(t)
    BY <1>2 DEF Stalled
  <1>4. ~w.timedOut
    <2>1. CASE Requested(t) \/ Started(t) \/ Threaded(t) \/ Asked(t) \/ Begun(t) \/ Cleaned(t)
      BY <1>3, <2>1 DEF Requested, Started, Threaded, Asked, Begun, Cleaned, SameLocals
    <2>2. CASE Retried(t)
      BY <1>1, <2>2 DEF Retried, HandlerFits, Live
    <2>3. CASE Ended(t)
      BY <1>3, <2>3 DEF Ended, EndedWith
    <2> QED
      BY <1>3, <2>1, <2>2, <2>3 DEF Moved
  <1>5. Alone
    BY <1>2, <1>4 DEF Alone
  <1>6. /\ (\A u \in Turns : ~Listening(u)) => approver = None
        /\ \A u \in Turns : Listening(u) =>
             approver = u /\ turn[u].saved = None /\ \A s \in Turns : Listening(s) => s = u
    BY <1>5 DEF ApproverFits
  <1>7. CASE Requested(t) \/ Started(t) \/ Asked(t) \/ Begun(t)
    <2>1. SameListening(t) /\ approver' = approver /\ v.saved = w.saved
      BY <1>7 DEF Requested, Started, Asked, Begun, SameLocals
    <2>2. \A u \in Turns : (u \in Range(listeners') <=> Listening(u)) /\ turn'[u].saved = turn[u].saved
      BY <1>2, <2>1 DEF SameListening
    <2> QED
      BY <1>6, <2>1, <2>2
  <1>8. CASE Threaded(t)
    <2>1. w.at = "thread" /\ t \in Range(listeners') /\ approver' = t /\ v.saved = approver
      BY <1>8 DEF Threaded
    <2>2. ~Listening(t)
      BY <1>1, <2>1 DEF HandlerFits, Live
    <2>3. \A u \in Turns : ~Listening(u)
      BY <1>5, <2>1, <2>2, OneListener DEF Busy
    <2> QED
      BY <1>2, <1>6, <2>1, <2>3
  <1>9. CASE Retried(t) \/ Cleaned(t) \/ Ended(t)
    <2>1. t \notin Range(listeners') /\ Restored(t)
      BY <1>3, <1>9 DEF Retried, Cleaned, Ended
    <2>2. CASE Listening(t)
      <3>1. approver' = None /\ \A u \in Turns : u \notin Range(listeners')
        BY <1>2, <1>6, <2>1, <2>2 DEF Restored
      <3> QED
        BY <3>1
    <2>3. CASE ~Listening(t)
      <3>1. approver' = approver /\ \A u \in Turns : u \in Range(listeners') <=> Listening(u)
        BY <1>2, <2>1, <2>3 DEF Restored
      <3>2. \A u \in Turns : Listening(u) => turn'[u] = turn[u]
        BY <1>2, <2>3
      <3> QED
        BY <1>6, <3>1, <3>2
    <2> QED
      BY <2>2, <2>3
  <1> QED
    BY <1>3, <1>7, <1>8, <1>9 DEF Moved

LEMMA NotifyApprover ==
  ASSUME Shape, ApproverFits, NEW m, Notifies(m)
  PROVE  ApproverFits'
  <1> SUFFICES ASSUME Alone'
               PROVE  ApproverFits'
    BY DEF ApproverFits
  <1>1. Types /\ IsInjective(listeners) /\ m \in Notices /\ Notify(m)
    BY DEF Shape, Notifies
  <1>2. /\ (\A t \in Turns : ~turn[t].timedOut) => approver' = approver
        /\ \A t \in Turns : t \in Range(listeners') <=>
              Listening(t) /\ ~(turn[t].timedOut /\ m.kind # "activity" /\ Matches(turn[t], m))
        /\ UNCHANGED links
    BY <1>1, NotifyFacts
  <1>3. \A t \in Turns : Deaf(t) \/ Hears(t, m)
    BY Hearing
  <1>4. \A t \in Turns : /\ turn'[t].timedOut = turn[t].timedOut
                         /\ t \in Range(listeners') => turn'[t].saved = turn[t].saved
    BY <1>3 DEF Deaf, Hears
  <1>5. Alone
    BY <1>2, <1>4 DEF Alone, links
  <1>6. approver' = approver /\ \A t \in Turns : t \in Range(listeners') <=> Listening(t)
    BY <1>2, <1>5 DEF Alone
  <1> QED
    BY <1>4, <1>5, <1>6 DEF ApproverFits, Listening

LEMMA NextApprover == Shape /\ ApproverFits /\ [Step]_vars => ApproverFits'
  <1> SUFFICES ASSUME Shape, ApproverFits, [Step]_vars
               PROVE  ApproverFits'
    OBVIOUS
  <1>1. Types /\ conns \in Nat
    BY BridgeAssumption DEF Shape, Types
  <1>2. CASE Quiet
    <2>1. conns' <= 1 => conns <= 1
      BY <1>1, <1>2 DEF Quiet
    <2> QED
      BY <1>2, <2>1 DEF Quiet, ApproverFits, Alone, Listening
  <1>3. CASE ChildExit
    BY <1>3 DEF ChildExit, ApproverFits, Alone, Listening, links
  <1>4. CASE Die
    BY <1>1, <1>4, DieFacts DEF ApproverFits, Listening
  <1>5. CASE \E t \in Turns : BeginRun(t)
    <2>1. UNCHANGED <<conns, turn, listeners, approver>>
      BY <1>1, <1>5, BeginFacts
    <2> QED
      BY <2>1 DEF ApproverFits, Alone, Listening
  <1> QED
    BY <1>2, <1>3, <1>4, <1>5, Sorted, NotifyApprover, MovedApprover

--------------------------------------------------------------------------------
(* Whose backend turn a turn reports.                                      *)

\* What was told stays told, and a turn keeps its connection.
Grows ==
    \A t \in Turns : /\ turn[t].at # "new" => turn'[t].conn = turn[t].conn
                     /\ \A e \in Range(told[t]) : e \in Range(told'[t])
                     /\ t \in failed => t \in failed'

LEMMA StepGrows ==
  ASSUME Shape, [Step]_vars
  PROVE  Grows
  <1>1. Types
    BY DEF Shape
  <1>2. CASE Quiet
    BY <1>2 DEF Quiet, Grows
  <1>3. CASE ChildExit
    BY <1>3 DEF ChildExit, outbox, Grows
  <1>4. CASE Die
    BY <1>1, <1>4, DieFacts DEF Grows
  <1>5. ASSUME NEW m, Notifies(m), NEW t \in Turns
        PROVE  /\ turn'[t].conn = turn[t].conn
               /\ \A e \in Range(told[t]) : e \in Range(told'[t])
               /\ t \in failed => t \in failed'
    <2>1. CASE Deaf(t)
      BY <2>1 DEF Deaf, Untold
    <2>2. CASE Hears(t, m)
      <3>1. /\ turn'[t].conn = turn[t].conn /\ (t \in failed => t \in failed')
            /\ told'[t] = IF m.kind = "completed"
                          THEN Append(told[t], [says |-> IF turn[t].timedOut THEN "late" ELSE "reply",
                                                run |-> m.run])
                          ELSE told[t]
        BY <2>2 DEF Hears
      <3>2. told[t] \in Seq(Endings) /\ m.run \in MaybeRun
        BY <1>1, <1>5, ToldParts DEF Notifies, Notices
      <3> DEFINE x == [says |-> IF turn[t].timedOut THEN "late" ELSE "reply", run |-> m.run]
      <3>3. x \in Endings
        BY <3>2 DEF Endings, MaybeRun
      <3>4. told'[t] = IF m.kind = "completed" THEN Append(told[t], x) ELSE told[t]
        BY <3>1
      <3> HIDE DEF x
      <3>5. \A e : e \in Range(Append(told[t], x)) <=> e \in Range(told[t]) \/ e = x
        BY <3>2, <3>3, LongerRange
      <3> QED
        BY <3>1, <3>4, <3>5
    <2> QED
      BY <1>5, <2>1, <2>2, Hearing
  <1>6. ASSUME NEW t \in Turns, BeginRun(t)
        PROVE  Grows
    BY <1>1, <1>6, BeginFacts DEF Grows
  <1>7. ASSUME NEW t \in Turns, OthersSame(t), Moved(t)
        PROVE  Grows
    <2>1. turn[t].at # "new" => turn'[t].conn = turn[t].conn
      BY <1>7 DEF Moved, Requested, Started, Threaded, Asked, Begun, Stalled, Retried, Cleaned, Ended,
                  SameLocals
    <2>2. Untold(t) \/ TellsFailure(t) \/ TellsTimeout(t)
      BY <1>7 DEF Moved, Requested, Started, Threaded, Asked, Begun, Stalled, Retried, Cleaned, Ended,
                  EndedWith
    <2>3. (\A e \in Range(told[t]) : e \in Range(told'[t])) /\ (t \in failed => t \in failed')
      <3>1. CASE Untold(t) \/ TellsFailure(t)
        BY <3>1 DEF Untold, TellsFailure
      <3>2. CASE TellsTimeout(t)
        <4> DEFINE x == [says |-> "timeout", run |-> turn[t].run]
        <4>1. told[t] \in Seq(Endings) /\ x \in Endings
          BY <1>1, ToldParts, TypesOf DEF Endings, MaybeRun
        <4>2. told'[t] = Append(told[t], x) /\ (t \in failed' <=> t \in failed)
          BY <3>2 DEF TellsTimeout
        <4> HIDE DEF x
        <4>3. \A e : e \in Range(told'[t]) <=> e \in Range(told[t]) \/ e = x
          BY <4>1, <4>2, LongerRange
        <4> QED
          BY <4>2, <4>3
      <3> QED
        BY <2>2, <3>1, <3>2
    <2> QED
      BY <1>7, <2>1, <2>3 DEF OthersSame, Grows
  <1> QED
    BY <1>2, <1>3, <1>4, <1>5, <1>6, <1>7, Sorted DEF Grows

LEMMA ExcusedStays ==
  ASSUME Grows, NEW t \in Turns, NEW u \in Turns, turn[t].at # "new", turn[u].at # "new", Excused(t, u)
  PROVE  Excused(t, u)'
  BY DEF Grows, Excused

\* A listener without a turn id that hears another turn's run is excused.
LEMMA AdoptsExcused ==
  ASSUME Shape, InTurn, RunsFit, OwnRuns,
         NEW t \in Turns, Listening(t), turn[t].run = None,
         NEW r \in Runs, r.turn # t, backend[r].is = "running"
  PROVE  Excused(t, r.turn) /\ turn[t].at # "new" /\ turn[r.turn].at # "new"
  <1> DEFINE u == r.turn
  <1>1. u \in Turns /\ BackendFits(r) /\ HandlerFits(t)
    BY RunParts DEF RunsFit, Shape
  <1>2. turn[u].at \notin {"new", "queued", "dead"}
    BY <1>1 DEF BackendFits
  <1>3. turn[t].at \in Live \/ (turn[t].at = "ended" /\ turn[t].timedOut)
    BY <1>1 DEF HandlerFits
  <1>4. turn[t].at \notin {"new", "queued", "dead"}
    BY <1>3 DEF Live
  <1>5. t < u \/ u < t
    BY <1>1, ConnsFacts
  <1>6. ASSUME turn[u].conn # turn[t].conn
        PROVE  Excused(t, u)
    BY <1>6 DEF Excused
  <1>7. ASSUME turn[u].conn = turn[t].conn, t < u
        PROVE  Excused(t, u)
    <2>1. turn[t].at = "ended"
      BY <1>1, <1>2, <1>4, <1>7 DEF InTurn
    <2>2. turn[t].timedOut
      BY <1>3, <2>1 DEF Live
    <2>3. \E f \in Range(told[t]) : f.says = "timeout" /\ f.run = None
      BY <2>2 DEF OwnRuns
    <2> QED
      BY <1>7, <2>3 DEF Excused
  <1>8. ASSUME turn[u].conn = turn[t].conn, u < t
        PROVE  Excused(t, u)
    <2>1. turn[u].at = "ended"
      BY <1>1, <1>2, <1>4, <1>8 DEF InTurn
    <2>2. u \in failed \/ \E f \in Range(told[u]) : f.says = "timeout"
      BY <2>1 DEF OwnRuns
    <2> QED
      BY <1>8, <2>2 DEF Excused
  <1>9. Excused(t, u)
    BY <1>5, <1>6, <1>7, <1>8
  <1> QED
    BY <1>2, <1>4, <1>9

LEMMA InitOwn == Init => OwnRuns
  BY DEF Init, OwnRuns, NewTurn, Range

\* A late listener without a turn id said so when it timed out.
LEMMA NextLate ==
  ASSUME Shape, RunsFit, TellsFit, AllOnce, OwnRuns, [Step]_vars, NEW t \in Turns,
         turn'[t].timedOut, t \in Range(listeners'), turn'[t].run = None
  PROVE  \E f \in Range(told'[t]) : f.says = "timeout" /\ f.run = None
  <1> DEFINE w == turn[t]
             v == turn'[t]
  <1>1. Types /\ HandlerFits(t) /\ ToldFits(t) /\ Once(t) /\ None \notin Runs /\ RunOf(t) \in Runs
    BY BridgeAssumption, RunOfType DEF Shape, TellsFit, AllOnce
  <1>2. ASSUME Listening(t), w.timedOut, w.run = None
        PROVE  \E f \in Range(told'[t]) : f.says = "timeout" /\ f.run = None
    <2>1. \E f \in Range(told[t]) : f.says = "timeout" /\ f.run = None
      BY <1>2 DEF OwnRuns
    <2>2. \A f \in Range(told[t]) : f \in Range(told'[t])
      BY StepGrows DEF Grows
    <2> QED
      BY <2>1, <2>2
  <1>3. CASE Quiet
    BY <1>2, <1>3 DEF Quiet, Listening
  <1>4. CASE ChildExit
    BY <1>2, <1>4 DEF ChildExit, Listening
  <1>5. CASE Die
    BY <1>1, <1>5, DieFacts
  <1>6. ASSUME NEW m, Notifies(m)
        PROVE  \E f \in Range(told'[t]) : f.says = "timeout" /\ f.run = None
    <2>1. CASE Deaf(t)
      BY <1>2, <2>1 DEF Deaf, SameListening
    <2>2. CASE Hears(t, m)
      BY <1>2, <2>2 DEF Hears
    <2> QED
      BY <1>6, <2>1, <2>2, Hearing
  <1>7. ASSUME NEW u \in Turns, BeginRun(u)
        PROVE  \E f \in Range(told'[t]) : f.says = "timeout" /\ f.run = None
    <2>1. UNCHANGED <<turn, listeners>>
      BY <1>1, <1>7, BeginFacts
    <2> QED
      BY <1>2, <2>1 DEF Listening
  <1>8. ASSUME NEW u \in Turns, u # t, OthersSame(u), Moved(u)
        PROVE  \E f \in Range(told'[t]) : f.says = "timeout" /\ f.run = None
    BY <1>2, <1>8 DEF OthersSame
  <1>9. ASSUME Moved(t)
        PROVE  \E f \in Range(told'[t]) : f.says = "timeout" /\ f.run = None
    <2>1. CASE Requested(t) \/ Started(t) \/ Asked(t)
      BY <1>2, <2>1 DEF Requested, Started, Asked, SameLocals, SameListening
    <2>2. CASE Threaded(t)
      BY <1>1, <2>2 DEF Threaded, HandlerFits
    <2>3. CASE Begun(t)
      BY <1>1, <2>3 DEF Begun
    <2>4. CASE Stalled(t)
      <3>1. ~w.timedOut /\ TellsTimeout(t) /\ v.run = w.run
        BY <1>1, <2>4 DEF Stalled, HandlerFits
      <3> QED
        BY <1>1, <3>1, TimeoutTold
    <2>5. CASE Retried(t) \/ Cleaned(t)
      BY <2>5 DEF Retried, Cleaned
    <2>6. CASE Ended(t)
      <3>1. Listening(t) /\ w.run = None /\ EndedWith(t)
        BY <2>6 DEF Ended
      <3>2. CASE w.timedOut
        BY <1>2, <3>1, <3>2
      <3>3. CASE ~w.timedOut
        <4>1. TellsTimeout(t)
          BY <3>1, <3>3 DEF EndedWith
        <4> QED
          BY <1>1, <3>1, <3>3, <4>1, TimeoutTold
      <3> QED
        BY <3>2, <3>3
    <2> QED
      BY <1>9, <2>1, <2>2, <2>3, <2>4, <2>5, <2>6 DEF Moved
  <1> QED
    BY <1>3, <1>4, <1>5, <1>6, <1>7, <1>8, <1>9, Sorted

\* Where the backend turns that run come from.
LEMMA StillRuns ==
  ASSUME Shape, [Step]_vars, NEW r \in Runs, backend'[r].is = "running"
  PROVE  /\ ~Die /\ ~ChildExit
         /\ \/ backend[r].is = "running"
            \/ backend[r].is = "none" /\ \E t \in Turns : BeginRun(t) /\ r = RunOf(t)
  <1>1. Types
    BY DEF Shape
  <1>2. ~Die
    BY <1>1, DieFacts
  <1>3. ~ChildExit
    BY DEF ChildExit, Over
  <1>4. CASE Quiet
    BY <1>2, <1>3, <1>4 DEF Quiet
  <1>5. ASSUME NEW m, Notifies(m)
        PROVE  backend[r].is = "running"
    BY <1>1, <1>5, NotifyBackend
  <1>6. ASSUME NEW t \in Turns, BeginRun(t)
        PROVE  backend[r].is = "running" \/ (backend[r].is = "none" /\ r = RunOf(t))
    BY <1>1, <1>6, BeginFacts
  <1>7. ASSUME NEW t \in Turns, OthersSame(t)
        PROVE  backend[r].is = "running"
    BY <1>7 DEF OthersSame
  <1> QED
    BY <1>2, <1>3, <1>4, <1>5, <1>6, <1>7, Sorted

\* A run that goes on after its turn has ended was given up.
LEMMA NextGivenUp ==
  ASSUME Shape, RunsFit, TellsFit, AllOnce, OwnRuns, [Step]_vars, NEW r \in Runs,
         backend'[r].is = "running", turn'[r.turn].at = "ended"
  PROVE  r.turn \in failed' \/ \E f \in Range(told'[r.turn]) : f.says = "timeout"
  <1> DEFINE t == r.turn
             w == turn[t]
             v == turn'[t]
  <1>1. /\ t \in Turns /\ r = [turn |-> t, attempt |-> r.attempt] /\ r.attempt \in {1, 2}
        /\ None \notin Runs
    BY RunParts, BridgeAssumption
  <1>2. /\ Types /\ HandlerFits(t) /\ ToldFits(t) /\ Once(t) /\ AnswersFit(t) /\ BackendFits(r)
        /\ w.attempt \in {1, 2}
    BY <1>1, TypesOf DEF Shape, TellsFit, AllOnce, RunsFit, Handlers
  <1>3. (\A f \in Range(told[t]) : f \in Range(told'[t])) /\ (t \in failed => t \in failed')
    BY <1>1, StepGrows DEF Grows
  <1>4. /\ ~Die /\ ~ChildExit
        /\ \/ backend[r].is = "running"
           \/ backend[r].is = "none" /\ \E u \in Turns : BeginRun(u) /\ r = RunOf(u)
    BY StillRuns
  <1>5. CASE backend[r].is = "running" /\ w.at = "ended"
    BY <1>3, <1>5 DEF OwnRuns
  <1>6. CASE backend[r].is = "none" /\ \E u \in Turns : BeginRun(u) /\ r = RunOf(u)
    <2>1. PICK u \in Turns : BeginRun(u) /\ r = RunOf(u)
      BY <1>6
    <2>2. u = t
      BY <2>1 DEF RunOf
    <2>3. wire[t].asks = "turn" /\ turn' = turn
      BY <1>2, <2>1, <2>2, BeginFacts
    <2>4. w.timedOut
      BY <1>2, <2>3 DEF AnswersFit
    <2> QED
      BY <1>2, <1>3, <2>4 DEF ToldFits
  <1>7. CASE backend[r].is = "running" /\ w.at # "ended"
    <2>1. Moved(t)
      <3>1. CASE Quiet
        BY <1>7, <3>1 DEF Quiet
      <3>2. ASSUME NEW m, Notifies(m)
            PROVE  FALSE
        <4>1. Deaf(t) \/ Hears(t, m)
          BY <1>1, <3>2, Hearing
        <4> QED
          BY <1>7, <4>1 DEF Deaf, Hears
      <3>3. ASSUME NEW u \in Turns, BeginRun(u)
            PROVE  FALSE
        BY <1>2, <1>7, <3>3, BeginFacts
      <3>4. ASSUME NEW u \in Turns, u # t, OthersSame(u)
            PROVE  FALSE
        BY <1>1, <1>7, <3>4 DEF OthersSame
      <3> QED
        BY <1>4, <3>1, <3>2, <3>3, <3>4, Sorted
    <2>2. Ended(t)
      <3>1. v.at = "ended"
        OBVIOUS
      <3> HIDE DEF t
      <3> QED
        BY <1>7, <2>1, <3>1 DEF Moved, Requested, Started, Threaded, Asked, Begun, Stalled, Retried, Cleaned
    <2>3. w.at = "awaiting" => w.run = r
      <3>1. r.attempt = w.attempt
        BY <1>1, <1>2, <1>7 DEF BackendFits, AnswersFit
      <3>2. RunOf(t) = r
        BY <1>1, <3>1 DEF RunOf
      <3> QED
        BY <1>2, <3>2 DEF AnswersFit
    <2>4. EndedWith(t)
      BY <2>2 DEF Ended
    <2>5. CASE TellsFailure(t)
      BY <2>5 DEF TellsFailure
    <2>6. CASE w.timedOut
      BY <1>2, <1>3, <2>6 DEF ToldFits
    <2>7. CASE ~w.timedOut /\ TellsTimeout(t)
      BY <1>1, <1>2, <2>7, TimeoutTold
    <2>8. CASE ~w.timedOut /\ w.at = "awaiting" /\ w.settled \in {"resolved", "rejected"}
      <3>1. w.at \in Live
        BY <2>8 DEF Live
      <3>2. w.settled # "resolved"
        <4>1. ASSUME w.settled = "resolved"
              PROVE  FALSE
          <5>1. PICK e \in Range(told[t]) : Reply(e)
            BY <1>2, <2>8, <3>1, <4>1 DEF ToldFits
          <5>2. backend[e.run].is = "ended" /\ e.run = w.run
            BY <1>2, <3>1, <5>1 DEF ToldFits
          <5> QED
            BY <1>7, <2>3, <2>8, <5>2
        <4> QED
          BY <4>1
      <3> QED
        BY <1>2, <1>3, <2>8, <3>1, <3>2 DEF ToldFits
    <2> QED
      BY <2>4, <2>5, <2>6, <2>7, <2>8 DEF EndedWith
  <1> QED
    BY <1>4, <1>5, <1>6, <1>7

\* The turn id that a turn knows is its own, or it is excused.
LEMMA NextKnown ==
  ASSUME Shape, InTurn, RunsFit, OwnRuns, [Step]_vars,
         NEW t \in Turns, NEW r \in Runs, turn'[t].run = r, r.turn # t, backend'[r].is = "running"
  PROVE  Excused(t, r.turn)'
  <1> DEFINE w == turn[t]
             v == turn'[t]
  <1>1. /\ r.turn \in Turns /\ None \notin Runs /\ Types /\ HandlerFits(t) /\ AnswersFit(t)
        /\ BackendFits(r) /\ RunOf(t).turn = t /\ Grows
    BY RunParts, BridgeAssumption, RunOfType, StepGrows DEF Shape, RunsFit
  <1>2. /\ ~Die /\ ~ChildExit
        /\ \/ backend[r].is = "running"
           \/ backend[r].is = "none" /\ \E u \in Turns : BeginRun(u) /\ r = RunOf(u)
    BY StillRuns
  <1>3. ASSUME backend[r].is = "running", w.run = r
        PROVE  Excused(t, r.turn)'
    <2>1. Excused(t, r.turn)
      BY <1>3 DEF OwnRuns
    <2>2. w.at # "new" /\ turn[r.turn].at # "new"
      BY <1>1, <1>3 DEF HandlerFits, BackendFits
    <2> QED
      BY <1>1, <2>1, <2>2, ExcusedStays
  <1>4. CASE \E u \in Turns : BeginRun(u)
    <2>1. PICK u \in Turns : BeginRun(u)
      BY <1>4
    <2>2. turn' = turn
      BY <1>1, <2>1, BeginFacts
    <2>3. backend[r].is # "none"
      BY <1>1, <2>2 DEF AnswersFit
    <2> QED
      BY <1>2, <1>3, <2>2, <2>3
  <1>5. CASE ~ \E u \in Turns : BeginRun(u)
    <2>1. backend[r].is = "running"
      BY <1>2, <1>5
    <2>2. CASE Quiet
      BY <1>3, <2>1, <2>2 DEF Quiet
    <2>3. ASSUME NEW m, Notifies(m)
          PROVE  Excused(t, r.turn)'
      <3>1. CASE Deaf(t)
        BY <1>3, <2>1, <3>1 DEF Deaf
      <3>2. CASE Hears(t, m)
        <4>1. Listening(t) /\ (v.run = None \/ v.run = w.run \/ w.run = None)
          BY <3>2 DEF Hears
        <4>2. CASE w.run = None
          <5>1. Excused(t, r.turn) /\ w.at # "new" /\ turn[r.turn].at # "new"
            BY <2>1, <4>1, <4>2, AdoptsExcused
          <5> QED
            BY <1>1, <5>1, ExcusedStays
        <4>3. CASE w.run = r
          BY <1>3, <2>1, <4>3
        <4> QED
          BY <1>1, <4>1, <4>2, <4>3
      <3> QED
        BY <2>3, <3>1, <3>2, Hearing
    <2>4. ASSUME NEW u \in Turns, u # t, OthersSame(u)
          PROVE  Excused(t, r.turn)'
      BY <1>3, <2>1, <2>4 DEF OthersSame
    <2>5. ASSUME Moved(t)
          PROVE  Excused(t, r.turn)'
      <3>1. v.run \in {None, w.run, RunOf(t)}
        <4>1. CASE Requested(t) \/ Started(t) \/ Threaded(t) \/ Asked(t) \/ Begun(t) \/ Stalled(t)
          BY <4>1 DEF Requested, Started, Threaded, Asked, Begun, Stalled, SameLocals
        <4>2. CASE Retried(t) \/ Ended(t)
          BY <4>2 DEF Retried, Ended
        <4>3. CASE Cleaned(t)
          BY <4>3 DEF Cleaned
        <4> QED
          BY <2>5, <4>1, <4>2, <4>3 DEF Moved
      <3>2. w.run = r
        BY <1>1, <3>1
      <3> QED
        BY <1>3, <2>1, <3>2
    <2> QED
      BY <1>2, <1>5, <2>2, <2>3, <2>4, <2>5, Sorted
  <1> QED
    BY <1>4, <1>5

\* The backend turn that a turn reports is its own, or it is excused.
LEMMA NextReported ==
  ASSUME Shape, InTurn, RunsFit, TellsFit, AllOnce, OwnRuns, [Step]_vars,
         NEW t \in Turns, NEW e \in Range(told'[t]), Reply(e), e.run.turn # t
  PROVE  Excused(t, e.run.turn)'
  <1> DEFINE w == turn[t]
  <1>1. None \notin Runs /\ Types /\ HandlerFits(t) /\ ToldFits(t) /\ Once(t) /\ Grows
    BY BridgeAssumption, StepGrows DEF Shape, TellsFit, AllOnce
  <1>2. ASSUME e \in Range(told[t])
        PROVE  Excused(t, e.run.turn)'
    <2>1. Excused(t, e.run.turn)
      BY <1>2 DEF OwnRuns
    <2>2. e.run \in Runs /\ backend[e.run].is = "ended" /\ w.at # "new"
      BY <1>1, <1>2 DEF ToldFits, Live
    <2>3. turn[e.run.turn].at # "new" /\ e.run.turn \in Turns
      BY <2>2, RunParts DEF RunsFit, BackendFits
    <2> QED
      BY <1>1, <2>1, <2>2, <2>3, ExcusedStays
  <1>3. CASE UNCHANGED told
    BY <1>2, <1>3
  <1>4. ASSUME NEW m, Notifies(m)
        PROVE  Excused(t, e.run.turn)'
    <2>1. CASE Deaf(t)
      BY <1>2, <2>1 DEF Deaf, Untold
    <2>2. CASE Hears(t, m)
      <3> DEFINE x == [says |-> IF w.timedOut THEN "late" ELSE "reply", run |-> m.run]
      <3>1. /\ Listening(t) /\ (w.run = m.run \/ None \in {w.run, m.run})
            /\ told'[t] = IF m.kind = "completed" THEN Append(told[t], x) ELSE told[t]
        BY <2>2 DEF Hears
      <3>2. told[t] \in Seq(Endings) /\ m.run \in MaybeRun
        BY <1>1, <1>4, ToldParts DEF Notifies, Notices
      <3>3. x \in Endings /\ x.run = m.run
        BY <3>2 DEF Endings, MaybeRun
      <3> HIDE DEF x
      <3>4. \A y : y \in Range(Append(told[t], x)) <=> y \in Range(told[t]) \/ y = x
        BY <3>2, <3>3, LongerRange
      <3>5. CASE m.kind = "completed" /\ e = x
        <4>1. m.run \in Runs /\ backend[m.run].is = "running" /\ e.run = m.run
          BY <1>1, <1>4, <3>3, <3>5, NotifyBackend
        <4>2. /\ Excused(t, m.run.turn) /\ w.at # "new" /\ turn[m.run.turn].at # "new"
              /\ m.run.turn \in Turns
          <5>1. CASE w.run = None
            BY <3>1, <4>1, <5>1, AdoptsExcused, RunParts
          <5>2. CASE w.run = m.run
            <6>1. Excused(t, m.run.turn)
              BY <4>1, <5>2 DEF OwnRuns
            <6>2. w.at # "new"
              BY <1>1, <4>1, <5>2 DEF HandlerFits
            <6>3. m.run.turn \in Turns /\ BackendFits(m.run)
              BY <4>1, RunParts DEF RunsFit
            <6>4. turn[m.run.turn].at # "new"
              BY <4>1, <6>3 DEF BackendFits
            <6> QED
              BY <6>1, <6>2, <6>3, <6>4
          <5> QED
            BY <1>1, <3>1, <4>1, <5>1, <5>2
        <4> QED
          BY <1>1, <4>1, <4>2, ExcusedStays
      <3>6. CASE e \in Range(told[t])
        BY <1>2, <3>6
      <3> QED
        BY <3>1, <3>4, <3>5, <3>6
    <2> QED
      BY <1>4, <2>1, <2>2, Hearing
  <1>5. ASSUME NEW u \in Turns, u # t, OthersSame(u)
        PROVE  Excused(t, e.run.turn)'
    BY <1>2, <1>5 DEF OthersSame
  <1>6. ASSUME Moved(t)
        PROVE  Excused(t, e.run.turn)'
    <2>1. CASE told'[t] = told[t]
      BY <1>2, <2>1
    <2>2. CASE ~w.timedOut /\ TellsTimeout(t)
      <3>1. e \in Range(told[t])
        BY <1>1, <2>2, TimeoutTold
      <3> QED
        BY <1>2, <3>1
    <2>3. told'[t] = told[t] \/ (~w.timedOut /\ TellsTimeout(t))
      <3>1. CASE Stalled(t)
        BY <1>1, <3>1 DEF Stalled, HandlerFits
      <3>2. CASE Ended(t)
        BY <3>2 DEF Ended, EndedWith, Untold, TellsFailure
      <3> QED
        BY <1>6, <3>1, <3>2 DEF Moved, Requested, Started, Threaded, Asked, Begun, Retried, Cleaned, Untold
    <2> QED
      BY <2>1, <2>2, <2>3
  <1>7. Quiet \/ ChildExit \/ Die \/ (\E u \in Turns : BeginRun(u)) => UNCHANGED told
    BY <1>1, DieFacts, BeginFacts DEF Quiet, ChildExit, outbox
  <1> QED
    BY <1>3, <1>4, <1>5, <1>6, <1>7, Sorted

LEMMA NextOwn ==
  ASSUME Shape, InTurn, RunsFit, TellsFit, AllOnce, OwnRuns, [Step]_vars
  PROVE  OwnRuns'
  <1>1. \A t \in Turns : turn'[t].timedOut /\ t \in Range(listeners') /\ turn'[t].run = None =>
          \E f \in Range(told'[t]) : f.says = "timeout" /\ f.run = None
    BY NextLate
  <1>2. \A r \in Runs : backend'[r].is = "running" /\ turn'[r.turn].at = "ended" =>
          r.turn \in failed' \/ \E f \in Range(told'[r.turn]) : f.says = "timeout"
    BY NextGivenUp
  <1>3. \A t \in Turns, r \in Runs :
          turn'[t].run = r /\ r.turn # t /\ backend'[r].is = "running" => Excused(t, r.turn)'
    BY NextKnown
  <1>4. \A t \in Turns : \A e \in Range(told'[t]) : Reply(e) /\ e.run.turn # t => Excused(t, e.run.turn)'
    BY NextReported
  <1> QED
    BY <1>1, <1>2, <1>3, <1>4 DEF OwnRuns, Listening, Reply

--------------------------------------------------------------------------------
(* The invariant, and what follows from it.                                *)

BridgeInv == Shape /\ QueueFits /\ InTurn /\ RunsFit /\ TellsFit /\ AllOnce /\ OwnRuns /\ ApproverFits

LEMMA BridgeInvariant == Spec => []BridgeInv
  <1>1. Init => BridgeInv
    BY InitShape, InitQueue, InitRuns, InitTold, InitOwn, InitApprover DEF BridgeInv, TellsFit, AllOnce
  <1>2. ASSUME BridgeInv, [Step]_vars
        PROVE  BridgeInv'
    <2>1. Shape /\ QueueFits /\ InTurn /\ RunsFit /\ TellsFit /\ AllOnce /\ OwnRuns /\ ApproverFits
      BY <1>2 DEF BridgeInv
    <2>2. Shape'
      BY <1>2, <2>1, NextShape
    <2>3. (QueueFits /\ InTurn)'
      BY <1>2, <2>1, NextQueue
    <2>4. RunsFit'
      BY <1>2, <2>1, NextRuns
    <2>5. (TellsFit /\ AllOnce)'
      BY <1>2, <2>1, NextTold
    <2>6. OwnRuns'
      BY <1>2, <2>1, NextOwn
    <2>7. ApproverFits'
      BY <1>2, <2>1, NextApprover
    <2> QED
      BY <2>2, <2>3, <2>4, <2>5, <2>6, <2>7 DEF BridgeInv
  <1> QED
    BY <1>1, <1>2, PTL DEF Spec

\* What is told of a turn, by its places and by its members.
LEMMA ToldPlaces ==
  ASSUME Types, NEW t \in Turns, NEW says
  PROVE  Told(t, says) # {} <=> \E f \in Range(told[t]) : f.says \in says
  BY ToldParts DEF Told

LEMMA AtMostOne ==
  ASSUME NEW S, \A i, j \in S : i = j
  PROVE  Cardinality(S) <= 1
  <1>1. CASE S = {}
    BY <1>1, FS_EmptySet
  <1>2. CASE S # {}
    <2>1. PICK i \in S : TRUE
      BY <1>2
    <2>2. S = {i}
      BY <2>1
    <2>3. Cardinality(S) = 1
      BY <2>2, FS_Singleton
    <2> QED
      BY <2>3
  <1> QED
    BY <1>1, <1>2

\* No way out of a handler is silent: a turn that the bridge has ended was
\* answered, was told to have timed out or was reported as failed, whatever the
\* app server, the sockets and the timers did.
THEOREM TurnEndsReported == Spec => []EndsReported
  <1>1. BridgeInv => EndsReported
    BY DEF BridgeInv, TellsFit, ToldFits, EndsReported
  <1> QED
    BY <1>1, BridgeInvariant, PTL

\* A turn gives one reply and one timeout at most, over both attempts and with
\* whatever notices, stray errors and adopted turn ids come, and no reply in
\* time after its timeout.
THEOREM TurnRepliesOnce == Spec => []OneReply
  <1>1. ASSUME BridgeInv, NEW t \in Turns
        PROVE  /\ Cardinality(Told(t, {"reply", "late"})) <= 1
               /\ Cardinality(Told(t, {"timeout"})) <= 1
               /\ \A i, j \in DOMAIN told[t] :
                    i < j => ~(told[t][i].says = "timeout" /\ told[t][j].says = "reply")
    <2>1. Once(t)
      BY <1>1 DEF BridgeInv, AllOnce
    <2>2. \A i, j \in Told(t, {"reply", "late"}) : i = j
      BY <2>1 DEF Once, Told, Reply
    <2>3. \A i, j \in Told(t, {"timeout"}) : i = j
      BY <2>1 DEF Once, Told
    <2>4. Cardinality(Told(t, {"reply", "late"})) <= 1
      BY <2>2, AtMostOne
    <2>5. Cardinality(Told(t, {"timeout"})) <= 1
      BY <2>3, AtMostOne
    <2> QED
      BY <2>1, <2>4, <2>5 DEF Once
  <1>2. BridgeInv => OneReply
    BY <1>1 DEF OneReply
  <1> QED
    BY <1>2, BridgeInvariant, PTL

\* The reply that a turn reports is that of its own backend turn, but for the
\* three overlaps that the turn ids cannot tell apart.
THEOREM TurnReplyIsOwn == Spec => []ReplyIsOwn
  <1>1. ASSUME BridgeInv, NEW t \in Turns, NEW e \in Range(told[t]),
               e.says \in {"reply", "late"}, e.run.turn # t
        PROVE  LET u == e.run.turn IN
               \/ turn[u].conn # turn[t].conn
               \/ t < u /\ \E f \in Range(told[t]) : f.says = "timeout" /\ f.run = None
               \/ u < t /\ (u \in failed \/ Told(u, {"timeout"}) # {})
    <2> DEFINE u == e.run.turn
    <2>1. Types /\ ToldFits(t) /\ OwnRuns
      BY <1>1 DEF BridgeInv, Shape, TellsFit
    <2>2. Reply(e)
      BY <1>1 DEF Reply
    <2>3. e.run \in Runs
      BY <1>1, <2>1, <2>2 DEF ToldFits
    <2>4. u \in Turns
      BY <2>3 DEF Runs
    <2>5. Excused(t, u)
      BY <1>1, <2>1, <2>2 DEF OwnRuns
    <2>6. Told(u, {"timeout"}) # {} <=> \E f \in Range(told[u]) : f.says = "timeout"
      BY <2>1, <2>4, ToldPlaces
    <2> QED
      BY <2>5, <2>6 DEF Excused
  <1>2. BridgeInv => ReplyIsOwn
    BY <1>1 DEF ReplyIsOwn
  <1> QED
    BY <1>2, BridgeInvariant, PTL

\* While nothing timed out and there was one connection, the approval requests
\* go to the turn that runs, and to nobody when none does: every way out of a
\* handler, the retry without the pinned model included, puts the former
\* approval handler back.
THEOREM TurnApprovals == Spec => []ApprovalsFollowTheTurn
  <1>1. ASSUME Types, ApproverFits, conns <= 1, \A t \in Turns : ~turn[t].timedOut
        PROVE  approver = IF listeners = <<>> THEN None ELSE Last(listeners)
    <2>1. /\ Len(listeners) \in Nat
          /\ \A x : x \in Range(listeners) <=> \E i \in 1 .. Len(listeners) : listeners[i] = x
          /\ Range(listeners) \subseteq Turns
          /\ listeners = <<>> <=> Len(listeners) = 0
      BY <1>1, RangeOf DEF Types
    <2>2. CASE listeners = <<>>
      <3>1. \A t \in Turns : ~Listening(t)
        BY <2>1, <2>2 DEF Listening
      <3> QED
        BY <1>1, <2>2, <3>1 DEF ApproverFits, Alone
    <2>3. CASE listeners # <<>>
      <3>1. Len(listeners) \in 1 .. Len(listeners)
        BY <2>1, <2>3
      <3>2. Last(listeners) \in Range(listeners)
        BY <2>1, <3>1 DEF Last
      <3>3. Last(listeners) \in Turns /\ Listening(Last(listeners))
        BY <2>1, <3>2 DEF Listening
      <3> QED
        BY <1>1, <2>3, <3>3 DEF ApproverFits, Alone
    <2> QED
      BY <2>2, <2>3
  <1>2. BridgeInv => ApprovalsFollowTheTurn
    BY <1>1 DEF BridgeInv, Shape, ApprovalsFollowTheTurn
  <1> QED
    BY <1>2, BridgeInvariant, PTL
================================================================================
