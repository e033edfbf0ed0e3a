-------------------------- MODULE AgentSessionProofs --------------------------
(***************************************************************************)
(* The queues AgentSession shows to the user are the agent's own, for any       *)
(* number of texts and calls.  A text enters both at once, at the end; the loop  *)
(* takes it from the front of the agent's queue and announces it, and the       *)
(* session, whenever it comes to that event, finds the text in what it shows.   *)
(* What is shown and no longer queued is therefore what is announced and not    *)
(* yet processed.  That needs the texts to be told apart: each is in one queue   *)
(* only, once, and a text that prompt() sends is in none.                       *)
(*                                                                         *)
(* With the types proved too, what a failing provider can still be asked is      *)
(* bounded: everything that can ask again (a run, its end, a timer, a retry that *)
(* sleeps, a compaction) is weighed against the counters as they will stand when *)
(* the session has processed what it was told, and no step outweighs them.       *)
(*                                                                         *)
(* At the end: what a call of prompt() waits for is there, and what it was promised *)
(* of a retry comes.                                                            *)
(***************************************************************************)
EXTENDS AgentSession, ListProofs, FiniteSetTheorems, SequenceTheorems, TLAPS

Holds(q, t) == \E i \in 1..Len(q) : q[i] = t
Distinct(q) == \A i, j \in 1..Len(q) : q[i] = q[j] => i = j

\* A queue is the end of what is shown.
Behind(shown, queue) ==
  /\ Len(queue) <= Len(shown)
  /\ \A i \in 1..Len(queue) : queue[i] = shown[Len(shown) - Len(queue) + i]

\* The texts whose event waits for the session.
HeardIn(events) == {t \in Texts : \E i \in 1..Len(events) : events[i] = User(t)}
Heard == HeardIn(agentEventQueue)

\* The texts that may be shown though they are queued no more: any, once an event was lost.
Leaving == IF missed THEN Texts ELSE Heard

\* One queue of the agent and its mirror; what is shown beyond the queue is leaving.
Mirrors(shown, queue, leaving) ==
  /\ shown \in Seq(Texts) /\ queue \in Seq(Texts)
  /\ Distinct(shown) /\ Behind(shown, queue)
  /\ \A i \in 1..(Len(shown) - Len(queue)) : shown[i] \in leaving

-----------------------------------------------------------------------------
(* What the operations do to such a pair.                                    *)

LEMMA NothingMirrored == ASSUME NEW leaving PROVE Mirrors(<<>>, <<>>, leaving)
<1>1. <<>> \in Seq(Texts) /\ Len(<<>>) = 0
  OBVIOUS
<1> QED BY <1>1 DEF Mirrors, Distinct, Behind

LEMMA MoreLeaving ==
  ASSUME NEW shown, NEW queue, NEW leaving, NEW more,
         Mirrors(shown, queue, leaving), leaving \subseteq more
  PROVE  Mirrors(shown, queue, more)
BY DEF Mirrors

\* A new text joins both at the end.
LEMMA TextJoins ==
  ASSUME NEW shown, NEW queue, NEW leaving, NEW t \in Texts,
         Mirrors(shown, queue, leaving), ~Holds(shown, t)
  PROVE  Mirrors(Append(shown, t), Append(queue, t), leaving)
<1> DEFINE s == Append(shown, t)
           q == Append(queue, t)
<1>1. /\ shown \in Seq(Texts) /\ queue \in Seq(Texts)
      /\ Len(shown) \in Nat /\ Len(queue) \in Nat /\ Len(queue) <= Len(shown)
  BY LenProperties DEF Mirrors, Behind
<1>2. /\ s \in Seq(Texts) /\ Len(s) = Len(shown) + 1
      /\ s[Len(shown) + 1] = t /\ \A i \in 1..Len(shown) : s[i] = shown[i]
  BY <1>1, AppendProperties
<1>3. /\ q \in Seq(Texts) /\ Len(q) = Len(queue) + 1
      /\ q[Len(queue) + 1] = t /\ \A i \in 1..Len(queue) : q[i] = queue[i]
  BY <1>1, AppendProperties
<1> HIDE DEF s, q
<1>4. Distinct(s)
  <2> SUFFICES ASSUME NEW i \in 1..Len(s), NEW j \in 1..Len(s), s[i] = s[j] PROVE i = j
    BY DEF Distinct
  <2>1. i \in 1..Len(shown) \/ i = Len(shown) + 1
    BY <1>1, <1>2
  <2>2. j \in 1..Len(shown) \/ j = Len(shown) + 1
    BY <1>1, <1>2
  <2> QED BY <1>2, <2>1, <2>2 DEF Mirrors, Distinct, Holds
<1>5. Behind(s, q)
  <2>1. ASSUME NEW i \in 1..Len(q) PROVE q[i] = s[Len(s) - Len(q) + i]
    <3>1. Len(s) - Len(q) + i = Len(shown) - Len(queue) + i
      BY <1>1, <1>2, <1>3
    <3>2. CASE i = Len(queue) + 1
      <4>1. Len(shown) - Len(queue) + i = Len(shown) + 1
        BY <1>1, <3>2
      <4> QED BY <1>2, <1>3, <3>1, <3>2, <4>1
    <3>3. CASE i # Len(queue) + 1
      <4>1. i \in 1..Len(queue) /\ Len(shown) - Len(queue) + i \in 1..Len(shown)
        BY <1>1, <1>3, <3>3
      <4>2. queue[i] = shown[Len(shown) - Len(queue) + i]
        BY <4>1 DEF Mirrors, Behind
      <4> QED BY <1>2, <1>3, <3>1, <4>1, <4>2
    <3> QED BY <3>2, <3>3
  <2> QED BY <1>1, <1>2, <1>3, <2>1 DEF Behind
<1>6. ASSUME NEW i \in 1..(Len(s) - Len(q)) PROVE s[i] \in leaving
  <2>1. i \in 1..(Len(shown) - Len(queue)) /\ i \in 1..Len(shown)
    BY <1>1, <1>2, <1>3
  <2> QED BY <1>2, <1>6, <2>1 DEF Mirrors
<1>7. Mirrors(s, q, leaving)
  BY <1>2, <1>3, <1>4, <1>5, <1>6 DEF Mirrors
<1> QED BY <1>7 DEF s, q

\* The loop takes the first text of the queue.
LEMMA TextTaken ==
  ASSUME NEW shown, NEW queue, NEW leaving,
         Mirrors(shown, queue, leaving), queue # <<>>,
         Head(queue) \in leaving
  PROVE  /\ Mirrors(shown, Tail(queue), leaving)
         /\ Head(queue) \in Texts /\ Holds(shown, Head(queue))
         /\ ~Holds(Tail(queue), Head(queue))
         /\ \A t : Holds(Tail(queue), t) => Holds(queue, t)
<1> DEFINE q == Tail(queue)
           n == Len(shown) - Len(queue)
<1>1. /\ shown \in Seq(Texts) /\ queue \in Seq(Texts)
      /\ Len(shown) \in Nat /\ Len(queue) \in Nat /\ Len(queue) <= Len(shown)
      /\ Distinct(shown) /\ \A i \in 1..Len(queue) : queue[i] = shown[n + i]
  BY LenProperties DEF Mirrors, Behind
<1>2. Len(queue) # 0
  BY <1>1, EmptySeq
<1>3. /\ q \in Seq(Texts) /\ Len(q) = Len(queue) - 1
      /\ \A i \in 1..Len(q) : q[i] = queue[i + 1]
      /\ Head(queue) = queue[1] /\ Head(queue) \in Texts
  BY <1>1, HeadTailProperties
<1> HIDE DEF q
<1>4. n \in Nat /\ n + 1 \in 1..Len(shown) /\ Head(queue) = shown[n + 1] /\ Len(shown) - Len(q) = n + 1
  BY <1>1, <1>2, <1>3
<1> HIDE DEF n
<1>5. ASSUME NEW i \in 1..Len(q)
      PROVE  /\ q[i] = shown[n + 1 + i] /\ n + 1 + i \in 1..Len(shown)
             /\ i + 1 \in 1..Len(queue) /\ q[i] = queue[i + 1]
  <2>1. i + 1 \in 1..Len(queue) /\ n + (i + 1) = n + 1 + i
    BY <1>1, <1>3, <1>4
  <2>2. n + 1 + i \in 1..Len(shown)
    BY <1>1, <1>3, <1>4
  <2> QED BY <1>1, <1>3, <2>1, <2>2
<1>6. Behind(shown, q)
  <2>1. Len(q) <= Len(shown)
    BY <1>1, <1>3
  <2>2. ASSUME NEW i \in 1..Len(q) PROVE q[i] = shown[Len(shown) - Len(q) + i]
    <3>1. Len(shown) - Len(q) + i = n + 1 + i
      BY <1>4
    <3> QED BY <1>5, <3>1
  <2> QED BY <2>1, <2>2 DEF Behind
<1>7. ASSUME NEW i \in 1..(n + 1) PROVE shown[i] \in leaving
  <2>1. CASE i = n + 1
    BY <1>4, <1>7, <2>1
  <2>2. CASE i # n + 1
    <3>1. i \in 1..n
      BY <1>4, <2>2
    <3> QED BY <1>7, <3>1 DEF Mirrors, n
  <2> QED BY <2>1, <2>2
<1>8. ~Holds(q, Head(queue))
  <2> SUFFICES ASSUME NEW i \in 1..Len(q), q[i] = Head(queue) PROVE FALSE
    BY DEF Holds
  <2>1. shown[n + 1 + i] = shown[n + 1] /\ n + 1 + i \in 1..Len(shown) /\ n + 1 \in 1..Len(shown)
    BY <1>4, <1>5
  <2>2. n + 1 + i = n + 1
    BY <1>1, <2>1 DEF Distinct
  <2> QED BY <1>4, <2>2
<1>9. \A t : Holds(q, t) => Holds(queue, t)
  BY <1>5 DEF Holds
<1>10. Mirrors(shown, q, leaving)
  BY <1>1, <1>3, <1>4, <1>6, <1>7 DEF Mirrors
<1>11. Holds(shown, Head(queue))
  BY <1>4 DEF Holds
<1> QED BY <1>3, <1>8, <1>9, <1>10, <1>11 DEF q

\* What RemoveFirst leaves of a sequence without repetitions.
LEMMA Removed ==
  ASSUME NEW s \in Seq(Texts), NEW t \in Texts, NEW k \in 1..Len(s),
         Distinct(s), s[k] = t
  PROVE  /\ RemoveFirst(s, t) \in Seq(Texts)
         /\ Len(RemoveFirst(s, t)) = Len(s) - 1
         /\ \A i \in 1..(Len(s) - 1) :
              RemoveFirst(s, t)[i] = IF i < k THEN s[i] ELSE s[i + 1]
<1>1. {i \in 1..Len(s) : s[i] = t} = {k}
  BY DEF Distinct
<1>2. Min({k}) = k
  BY DEF Min
<1>3. SelectInSeq(s, LAMBDA v : v = t) = k
  BY <1>1, <1>2 DEF SelectInSeq
<1>4. RemoveFirst(s, t) = SubSeq(s, 1, k - 1) \o SubSeq(s, k + 1, Len(s))
  BY <1>3 DEF RemoveFirst, RemoveAt
<1> DEFINE a == SubSeq(s, 1, k - 1)
           b == SubSeq(s, k + 1, Len(s))
<1>5. Len(s) \in Nat
  BY LenProperties
<1>6. /\ a \in Seq(Texts) /\ Len(a) = k - 1
      /\ \A i \in 1..(k - 1) : a[i] = s[i]
  <2>1. /\ a \in Seq(Texts)
        /\ Len(a) = IF 1 <= k - 1 THEN (k - 1) - 1 + 1 ELSE 0
        /\ \A i \in 1..(k - 1 - 1 + 1) : a[i] = s[1 + i - 1]
    BY <1>5, SubSeqProperties
  <2> QED BY <1>5, <2>1
<1>7. /\ b \in Seq(Texts) /\ Len(b) = Len(s) - k
      /\ \A i \in 1..(Len(s) - k) : b[i] = s[k + i]
  <2>1. /\ b \in Seq(Texts)
        /\ Len(b) = IF k + 1 <= Len(s) THEN Len(s) - (k + 1) + 1 ELSE 0
        /\ \A i \in 1..(Len(s) - (k + 1) + 1) : b[i] = s[k + 1 + i - 1]
    BY <1>5, SubSeqProperties
  <2> QED BY <1>5, <2>1
<1> HIDE DEF a, b
<1>8. /\ a \o b \in Seq(Texts) /\ Len(a \o b) = Len(a) + Len(b)
      /\ \A i \in 1..(Len(a) + Len(b)) :
           (a \o b)[i] = IF i <= Len(a) THEN a[i] ELSE b[i - Len(a)]
  BY <1>6, <1>7, ConcatProperties
<1>9. ASSUME NEW i \in 1..(Len(s) - 1)
      PROVE  (a \o b)[i] = IF i < k THEN s[i] ELSE s[i + 1]
  <2>1. i \in 1..(Len(a) + Len(b))
    BY <1>5, <1>6, <1>7
  <2>2. CASE i < k
    <3>1. i <= Len(a) /\ i \in 1..(k - 1)
      BY <1>5, <1>6, <2>2
    <3> QED BY <1>6, <1>8, <2>1, <2>2, <3>1
  <2>3. CASE ~(i < k)
    <3>1. ~(i <= Len(a)) /\ i - Len(a) \in 1..(Len(s) - k) /\ k + (i - Len(a)) = i + 1
      BY <1>5, <1>6, <2>3
    <3> QED BY <1>7, <1>8, <2>1, <2>3, <3>1
  <2> QED BY <2>2, <2>3
<1>10. Len(a \o b) = Len(s) - 1
  BY <1>5, <1>6, <1>7, <1>8
<1> QED BY <1>4, <1>8, <1>9, <1>10 DEF a, b

\* The session comes to the event of a text: it leaves what is shown.
LEMMA TextShownNoMore ==
  ASSUME NEW shown, NEW queue, NEW leaving, NEW more, NEW t \in Texts,
         Mirrors(shown, queue, leaving), ~Holds(queue, t), leaving \subseteq more \cup {t}
  PROVE  /\ Mirrors(RemoveFirst(shown, t), queue, more)
         /\ \A u : Holds(RemoveFirst(shown, t), u) => Holds(shown, u) /\ u # t
         /\ RemoveFirst(shown, t) = shown <=> ~Holds(shown, t)
<1> DEFINE r == RemoveFirst(shown, t)
<1>1. /\ shown \in Seq(Texts) /\ queue \in Seq(Texts)
      /\ Len(shown) \in Nat /\ Len(queue) \in Nat /\ Len(queue) <= Len(shown)
      /\ Distinct(shown) /\ \A i \in 1..Len(queue) : queue[i] = shown[Len(shown) - Len(queue) + i]
      /\ \A i \in 1..(Len(shown) - Len(queue)) : shown[i] \in leaving
  BY LenProperties DEF Mirrors, Behind
<1>2. CASE ~Holds(shown, t)
  <2>1. r = shown
    BY <1>2 DEF RemoveFirst, Holds
  <2>2. ASSUME NEW i \in 1..(Len(shown) - Len(queue)) PROVE shown[i] \in more
    <3>1. i \in 1..Len(shown) /\ shown[i] \in leaving
      BY <1>1, <2>2
    <3> QED BY <1>2, <3>1 DEF Holds
  <2>3. Mirrors(shown, queue, more)
    BY <2>2 DEF Mirrors
  <2> QED BY <1>2, <2>1, <2>3
<1>3. CASE Holds(shown, t)
  <2>1. PICK k \in 1..Len(shown) : shown[k] = t
    BY <1>3 DEF Holds
  <2>2. /\ r \in Seq(Texts) /\ Len(r) = Len(shown) - 1
        /\ \A i \in 1..(Len(shown) - 1) : r[i] = IF i < k THEN shown[i] ELSE shown[i + 1]
    BY <1>1, <2>1, Removed
  <2> HIDE DEF r
  <2>3. k <= Len(shown) - Len(queue)
    <3> SUFFICES ASSUME ~(k <= Len(shown) - Len(queue)) PROVE FALSE
      OBVIOUS
    <3>1. /\ k - (Len(shown) - Len(queue)) \in 1..Len(queue)
          /\ Len(shown) - Len(queue) + (k - (Len(shown) - Len(queue))) = k
      BY <1>1
    <3>2. queue[k - (Len(shown) - Len(queue))] = t
      BY <1>1, <2>1, <3>1
    <3> QED BY <3>1, <3>2 DEF Holds
  <2>4. ASSUME NEW i \in 1..Len(r)
        PROVE  \E j \in 1..Len(shown) : r[i] = shown[j] /\ j # k /\ j <= i + 1
    <3>1. CASE i < k
      <4>1. i \in 1..Len(shown) /\ i # k /\ i <= i + 1 /\ r[i] = shown[i]
        BY <1>1, <2>2, <3>1
      <4> QED BY <4>1
    <3>2. CASE ~(i < k)
      <4>1. i + 1 \in 1..Len(shown) /\ i + 1 # k /\ i + 1 <= i + 1 /\ r[i] = shown[i + 1]
        BY <1>1, <2>2, <3>2
      <4> QED BY <4>1
    <3> QED BY <3>1, <3>2
  <2>5. Distinct(r)
    <3> SUFFICES ASSUME NEW i \in 1..Len(r), NEW j \in 1..Len(r), r[i] = r[j] PROVE i = j
      BY DEF Distinct
    <3>1. i \in 1..(Len(shown) - 1) /\ j \in 1..(Len(shown) - 1)
      BY <2>2
    <3>2. /\ i \in 1..Len(shown) /\ i + 1 \in 1..Len(shown)
          /\ j \in 1..Len(shown) /\ j + 1 \in 1..Len(shown)
      BY <1>1, <3>1
    <3>3. /\ r[i] = IF i < k THEN shown[i] ELSE shown[i + 1]
          /\ r[j] = IF j < k THEN shown[j] ELSE shown[j + 1]
      BY <2>2, <3>1
    <3>4. \A x, y \in 1..Len(shown) : shown[x] = shown[y] => x = y
      BY <1>1 DEF Distinct
    <3>5. CASE i < k /\ j < k
      BY <3>2, <3>3, <3>4, <3>5
    <3>6. CASE ~(i < k) /\ ~(j < k)
      <4>1. i + 1 = j + 1
        BY <3>2, <3>3, <3>4, <3>6
      <4> QED BY <3>1, <4>1
    <3>7. CASE i < k /\ ~(j < k)
      <4>1. i = j + 1
        BY <3>2, <3>3, <3>4, <3>7
      <4> QED BY <3>1, <3>7, <4>1
    <3>8. CASE ~(i < k) /\ j < k
      <4>1. j = i + 1
        BY <3>2, <3>3, <3>4, <3>8
      <4> QED BY <3>1, <3>8, <4>1
    <3> QED BY <3>5, <3>6, <3>7, <3>8
  <2>6. Behind(r, queue)
    <3>1. Len(queue) <= Len(r)
      BY <1>1, <2>2, <2>3
    <3>2. ASSUME NEW i \in 1..Len(queue) PROVE queue[i] = r[Len(r) - Len(queue) + i]
      <4>1. /\ Len(r) - Len(queue) + i \in 1..(Len(shown) - 1)
            /\ ~(Len(r) - Len(queue) + i < k)
            /\ Len(r) - Len(queue) + i + 1 = Len(shown) - Len(queue) + i
        BY <1>1, <2>2, <2>3
      <4> QED BY <1>1, <2>2, <4>1
    <3> QED BY <3>1, <3>2 DEF Behind
  <2>7. ASSUME NEW i \in 1..(Len(r) - Len(queue)) PROVE r[i] \in more
    <3>1. i \in 1..Len(r)
      BY <1>1, <2>2
    <3>2. PICK j \in 1..Len(shown) : r[i] = shown[j] /\ j # k /\ j <= i + 1
      BY <2>4, <3>1
    <3>3. j \in 1..(Len(shown) - Len(queue))
      BY <1>1, <2>2, <3>2
    <3>4. shown[j] \in leaving /\ shown[j] # t
      BY <1>1, <2>1, <2>7, <3>2, <3>3 DEF Distinct
    <3> QED BY <3>2, <3>4
  <2>8. Mirrors(r, queue, more)
    BY <1>1, <2>2, <2>5, <2>6, <2>7 DEF Mirrors
  <2>9. \A u : Holds(r, u) => Holds(shown, u) /\ u # t
    <3> SUFFICES ASSUME NEW i \in 1..Len(r) PROVE Holds(shown, r[i]) /\ r[i] # t
      BY DEF Holds
    <3>1. PICK j \in 1..Len(shown) : r[i] = shown[j] /\ j # k
      BY <2>4
    <3> QED BY <1>1, <2>1, <3>1 DEF Holds, Distinct
  <2>10. r # shown
    BY <1>1, <2>2
  <2> QED BY <1>3, <2>8, <2>9, <2>10 DEF r
<1> QED BY <1>2, <1>3
-----------------------------------------------------------------------------
(* The invariant.                                                            *)

Event == Message \cup {AgentEnd}
Status == {"unsent", "queued", "returned"} \cup Waiting

MirrorTyped ==
  /\ agentEventQueue \in Seq(Event) /\ answers \in Nat
  /\ connected \in BOOLEAN /\ missed \in BOOLEAN
  /\ prompts \in [Texts -> Status] /\ DOMAIN jobs = Owners

\* A text is shown once at most, and sent by no prompt(); what is heard of is queued no more.
TextsApart ==
  /\ \A t \in Texts : ~(Holds(steeringMessages, t) /\ Holds(followUpMessages, t))
  /\ \A t \in Texts : Holds(steeringMessages, t) \/ Holds(followUpMessages, t)
                      => prompts[t] = "queued"
  /\ \A t \in Heard : /\ prompts[t] # "unsent"
                      /\ ~Holds(steeringQueue, t) /\ ~Holds(followUpQueue, t)

\* A compaction before a prompt belongs to a prompt() that waits for it.
JobsOfPrompts == \A t \in Texts : jobs[t] # None => prompts[t] = "compacting"

MirrorInv ==
  /\ MirrorTyped
  /\ Mirrors(steeringMessages, steeringQueue, Leaving)
  /\ Mirrors(followUpMessages, followUpQueue, Leaving)
  /\ TextsApart /\ JobsOfPrompts

LEMMA InvShows == MirrorInv => MirrorShowsQueue
<1>1. ASSUME NEW shown, NEW queue, Mirrors(shown, queue, Leaving)
      PROVE  /\ Len(shown) - Len(queue) >= 0
             /\ SubSeq(shown, Len(shown) - Len(queue) + 1, Len(shown)) = queue
             /\ missed \/ \A i \in 1..(Len(shown) - Len(queue)) :
                            Contains(agentEventQueue, User(shown[i]))
  <2> DEFINE n == Len(shown) - Len(queue)
             rest == SubSeq(shown, n + 1, Len(shown))
  <2>1. /\ shown \in Seq(Texts) /\ queue \in Seq(Texts)
        /\ Len(shown) \in Nat /\ Len(queue) \in Nat /\ Len(queue) <= Len(shown)
        /\ \A i \in 1..Len(queue) : queue[i] = shown[n + i]
        /\ missed \/ \A i \in 1..n : shown[i] \in Heard
    BY <1>1, LenProperties DEF Mirrors, Behind, Leaving
  <2>2. n \in Nat /\ n + Len(queue) = Len(shown)
    BY <2>1
  <2> HIDE DEF n
  <2>3. /\ rest \in Seq(Texts) /\ Len(rest) = Len(queue)
        /\ \A i \in 1..Len(queue) : rest[i] = shown[n + i]
    <3>1. \A i \in (n + 1)..Len(shown) : shown[i] \in Texts
      BY <2>1, <2>2, ElementOfSeq
    <3>2. /\ rest \in Seq(Texts)
          /\ Len(rest) = IF n + 1 <= Len(shown) THEN Len(shown) - (n + 1) + 1 ELSE 0
          /\ \A i \in 1..(Len(shown) - (n + 1) + 1) : rest[i] = shown[n + 1 + i - 1]
      BY <2>1, <2>2, <3>1, SubSeqProperties
    <3>3. Len(rest) = Len(queue) /\ Len(shown) - (n + 1) + 1 = Len(queue)
      BY <2>1, <2>2, <3>2
    <3>4. \A i \in 1..Len(queue) : n + 1 + i - 1 = n + i
      BY <2>1, <2>2
    <3> QED BY <3>2, <3>3, <3>4
  <2> HIDE DEF rest
  <2>4. rest = queue
    BY <2>1, <2>3, SeqEqual
  <2>5. missed \/ \A i \in 1..n : Contains(agentEventQueue, User(shown[i]))
    BY <2>1 DEF Heard, HeardIn, Contains
  <2> QED BY <2>2, <2>4, <2>5 DEF n, rest
<1>2. MirrorInv => Mirrors(steeringMessages, steeringQueue, Leaving)
                   /\ Mirrors(followUpMessages, followUpQueue, Leaving)
  BY DEF MirrorInv
<1>3. ASSUME MirrorInv,
             NEW p \in {<<steeringMessages, steeringQueue>>, <<followUpMessages, followUpQueue>>}
      PROVE  Mirrors(p[1], p[2], Leaving)
  BY <1>2, <1>3
<1> QED BY <1>1, <1>3 DEF MirrorShowsQueue

LEMMA Who ==
  Texts \subseteq Owners /\ {Handler, Manual} \subseteq Owners \ Texts /\ Handler # Manual
BY SessionAssumption DEF Texts, Owners, Handler, Manual

LEMMA InvInit == Init => MirrorInv
<1> SUFFICES ASSUME Init PROVE MirrorInv
  OBVIOUS
<1>1. agentEventQueue = <<>> /\ Len(agentEventQueue) = 0 /\ agentEventQueue \in Seq(Event)
  BY DEF Init
<1>2. Heard = {}
  BY <1>1 DEF Heard, HeardIn
<1>3. MirrorTyped
  <2>1. prompts \in [Texts -> Status] /\ DOMAIN jobs = Owners
    BY DEF Init, Status
  <2> QED BY <1>1, <2>1 DEF Init, MirrorTyped
<1>4. JobsOfPrompts
  BY Who DEF Init, JobsOfPrompts
<1>5. TextsApart
  BY <1>2 DEF Init, TextsApart, Holds
<1> QED BY <1>3, <1>4, <1>5, NothingMirrored DEF Init, MirrorInv

-----------------------------------------------------------------------------
(* Events.                                                                   *)

LEMMA UsersAreUsers ==
  ASSUME NEW e \in Event
  PROVE  /\ e.kind = "user" => e.text \in Texts /\ e = User(e.text)
         /\ \A t \in Texts : e = User(t) => e.kind = "user" /\ e.text = t
<1>1. \A t \in Texts : User(t).kind = "user" /\ User(t).text = t
  BY DEF User
<1>2. ASSUME e.kind = "user" PROVE e.text \in Texts /\ e = User(e.text)
  <2>1. e \in [kind : {"user"}, text : Texts]
    BY <1>2 DEF Event, Message, Answer, AgentEnd, Summary
  <2> QED BY <2>1 DEF User
<1> QED BY <1>1, <1>2

LEMMA HeardNothing == HeardIn(<<>>) = {}
BY DEF HeardIn

LEMMA HeardOne ==
  ASSUME NEW e \in Event
  PROVE  <<e>> \in Seq(Event) /\ HeardIn(<<e>>) = {t \in Texts : e = User(t)}
<1>1. Len(<<e>>) = 1 /\ <<e>>[1] = e /\ <<e>> \in Seq(Event)
  OBVIOUS
<1>2. 1..1 = {1}
  OBVIOUS
<1> QED BY <1>1, <1>2 DEF HeardIn

LEMMA HeardBoth ==
  ASSUME NEW a \in Seq(Event), NEW b \in Seq(Event)
  PROVE  a \o b \in Seq(Event) /\ HeardIn(a \o b) = HeardIn(a) \cup HeardIn(b)
<1> DEFINE c == a \o b
<1>1. /\ c \in Seq(Event) /\ Len(c) = Len(a) + Len(b)
      /\ \A i \in 1..(Len(a) + Len(b)) : c[i] = IF i <= Len(a) THEN a[i] ELSE b[i - Len(a)]
  BY ConcatProperties
<1>2. Len(a) \in Nat /\ Len(b) \in Nat
  BY LenProperties
<1> HIDE DEF c
<1>3. ASSUME NEW i \in 1..Len(c)
      PROVE  (\E j \in 1..Len(a) : c[i] = a[j]) \/ (\E j \in 1..Len(b) : c[i] = b[j])
  <2>1. CASE i <= Len(a)
    <3>1. i \in 1..Len(a) /\ c[i] = a[i]
      BY <1>1, <1>2, <2>1
    <3> QED BY <3>1
  <2>2. CASE ~(i <= Len(a))
    <3>1. i - Len(a) \in 1..Len(b) /\ c[i] = b[i - Len(a)]
      BY <1>1, <1>2, <2>2
    <3> QED BY <3>1
  <2> QED BY <2>1, <2>2
<1>4. ASSUME NEW j \in 1..Len(a) PROVE j \in 1..Len(c) /\ c[j] = a[j]
  BY <1>1, <1>2
<1>5. ASSUME NEW j \in 1..Len(b) PROVE Len(a) + j \in 1..Len(c) /\ c[Len(a) + j] = b[j]
  <2>1. Len(a) + j \in 1..(Len(a) + Len(b)) /\ ~(Len(a) + j <= Len(a)) /\ Len(a) + j - Len(a) = j
    BY <1>2
  <2> QED BY <1>1, <2>1
<1>6. HeardIn(c) = HeardIn(a) \cup HeardIn(b)
  <2>1. HeardIn(c) \subseteq HeardIn(a) \cup HeardIn(b)
    BY <1>3 DEF HeardIn
  <2>2. HeardIn(a) \subseteq HeardIn(c)
    BY <1>4 DEF HeardIn
  <2>3. HeardIn(b) \subseteq HeardIn(c)
    BY <1>5 DEF HeardIn
  <2> QED BY <2>1, <2>2, <2>3
<1> QED BY <1>1, <1>6 DEF c

\* The session takes the first event.
LEMMA HeardLess ==
  ASSUME NEW a \in Seq(Event), a # <<>>
  PROVE  /\ Head(a) \in Event /\ Tail(a) \in Seq(Event)
         /\ HeardIn(Tail(a)) \subseteq HeardIn(a)
         /\ \A t \in HeardIn(a) : Head(a) = User(t) \/ t \in HeardIn(Tail(a))
<1> DEFINE b == Tail(a)
<1>1. /\ Len(a) \in Nat /\ Len(a) # 0
  BY LenProperties, EmptySeq
<1>2. /\ b \in Seq(Event) /\ Len(b) = Len(a) - 1
      /\ \A i \in 1..Len(b) : b[i] = a[i + 1]
      /\ Head(a) = a[1] /\ Head(a) \in Event
  BY HeadTailProperties
<1> HIDE DEF b
<1>3. HeardIn(b) \subseteq HeardIn(a)
  <2>1. ASSUME NEW i \in 1..Len(b) PROVE i + 1 \in 1..Len(a) /\ b[i] = a[i + 1]
    BY <1>1, <1>2
  <2> QED BY <2>1 DEF HeardIn
<1>4. ASSUME NEW t \in HeardIn(a), Head(a) # User(t) PROVE t \in HeardIn(b)
  <2>1. PICK i \in 1..Len(a) : a[i] = User(t)
    BY DEF HeardIn
  <2>2. i # 1
    BY <1>2, <1>4, <2>1
  <2>3. i - 1 \in 1..Len(b) /\ i - 1 + 1 = i
    BY <1>1, <1>2, <2>2
  <2>4. b[i - 1] = User(t)
    BY <1>2, <2>1, <2>3
  <2> QED BY <2>3, <2>4 DEF HeardIn
<1> QED BY <1>2, <1>3, <1>4 DEF b

\* What the agent tells is heard, or lost.
LEMMA Emitted ==
  ASSUME MirrorTyped, NEW es \in Seq(Event), Emit(es)
  PROVE  /\ agentEventQueue' \in Seq(Event) /\ missed' \in BOOLEAN
         /\ Heard' \subseteq Heard \cup HeardIn(es)
         /\ Leaving \cup HeardIn(es) \subseteq Leaving'
<1>1. Heard \subseteq Texts /\ HeardIn(es) \subseteq Texts
  BY DEF Heard, HeardIn
<1>2. Heard' = HeardIn(agentEventQueue') /\ Texts' = Texts
  BY DEF Heard, HeardIn, Texts
<1>3. CASE connected
  <2>1. agentEventQueue' = agentEventQueue \o es /\ missed' = missed
    BY <1>3 DEF Emit, MirrorTyped
  <2>2. agentEventQueue \o es \in Seq(Event)
        /\ HeardIn(agentEventQueue \o es) = HeardIn(agentEventQueue) \cup HeardIn(es)
    BY HeardBoth DEF MirrorTyped
  <2>3. Heard' = Heard \cup HeardIn(es)
    BY <1>2, <2>1, <2>2 DEF Heard
  <2> QED BY <1>1, <1>2, <2>1, <2>2, <2>3 DEF MirrorTyped, Leaving
<1>4. CASE ~connected
  <2>1. agentEventQueue' = agentEventQueue /\ missed' = (missed \/ es # <<>>)
    BY <1>4 DEF Emit, MirrorTyped
  <2>2. Heard' = Heard
    BY <1>2, <2>1 DEF Heard
  <2>3. es = <<>> => HeardIn(es) = {}
    BY HeardNothing
  <2>4. missed' \in BOOLEAN
    BY <2>1
  <2>5. CASE es = <<>>
    <3>1. missed' = missed
      BY <2>1, <2>5 DEF MirrorTyped
    <3> QED BY <1>1, <1>2, <2>1, <2>2, <2>3, <2>5, <3>1 DEF MirrorTyped, Leaving
  <2>6. CASE es # <<>>
    <3>1. missed' = TRUE
      BY <2>1, <2>6
    <3> QED BY <1>1, <1>2, <2>1, <2>2, <3>1 DEF MirrorTyped, Leaving
  <2> QED BY <2>5, <2>6
<1> QED BY <1>3, <1>4

-----------------------------------------------------------------------------
(* Steps.                                                                    *)

\* A queue of the agent after the loop may have taken its first text, and what it took.
TakenFrom(queue, rest, took) ==
  \/ rest = queue /\ took = {}
  \/ queue # <<>> /\ rest = Tail(queue) /\ took = {Head(queue)}

\* prompt() calls go on; neither queued texts nor calls that wait for a compaction do.
PromptsGoOn ==
  /\ prompts' \in [Texts -> Status]
  /\ \A t \in Texts : /\ prompts[t] \in {"queued", "compacting"} => prompts'[t] = prompts[t]
                      /\ prompts'[t] = "unsent" => prompts[t] = "unsent"

LEMMA QueueIsShown ==
  ASSUME NEW shown, NEW queue, NEW leaving, Mirrors(shown, queue, leaving),
         NEW t, Holds(queue, t)
  PROVE  Holds(shown, t)
<1>1. PICK i \in 1..Len(queue) : queue[i] = t
  BY DEF Holds
<1>2. Len(shown) \in Nat /\ Len(queue) \in Nat /\ Len(queue) <= Len(shown)
  BY LenProperties DEF Mirrors, Behind
<1>3. Len(shown) - Len(queue) + i \in 1..Len(shown)
  BY <1>2
<1> QED BY <1>1, <1>3 DEF Mirrors, Behind, Holds

LEMMA MirrorTakes ==
  ASSUME NEW shown, NEW queue, NEW rest, NEW took, NEW leaving, NEW more,
         Mirrors(shown, queue, leaving), TakenFrom(queue, rest, took),
         leaving \subseteq more, took \cap Texts \subseteq more
  PROVE  /\ Mirrors(shown, rest, more)
         /\ \A t \in took : t \in Texts /\ Holds(shown, t) /\ ~Holds(rest, t)
         /\ \A t : Holds(rest, t) => Holds(queue, t)
<1>1. Mirrors(shown, queue, more)
  BY MoreLeaving
<1>2. CASE rest = queue /\ took = {}
  BY <1>1, <1>2
<1>3. CASE queue # <<>> /\ rest = Tail(queue) /\ took = {Head(queue)}
  <2>1. Head(queue) \in more
    <3>1. queue \in Seq(Texts)
      BY DEF Mirrors
    <3>2. Head(queue) \in Texts
      BY <1>3, <3>1, HeadTailProperties
    <3> QED BY <1>3, <3>2
  <2>2. /\ Mirrors(shown, Tail(queue), more)
        /\ Head(queue) \in Texts /\ Holds(shown, Head(queue))
        /\ ~Holds(Tail(queue), Head(queue))
        /\ \A t : Holds(Tail(queue), t) => Holds(queue, t)
    BY <1>1, <1>3, <2>1, TextTaken
  <2> QED BY <1>3, <2>2
<1> QED BY <1>2, <1>3 DEF TakenFrom

\* The agent announces what it has taken from its queues, and what prompt() has sent.
LEMMA LoopTakes ==
  ASSUME MirrorInv, NEW es \in Seq(Event), Emit(es),
         NEW S, NEW F, NEW X, HeardIn(es) = S \cup F \cup X,
         TakenFrom(steeringQueue, steeringQueue', S),
         TakenFrom(followUpQueue, followUpQueue', F),
         \A t \in X : t \in Texts /\ prompts[t] = "ready",
         UNCHANGED <<steeringMessages, followUpMessages, jobs, connected>>,
         answers' \in Nat, PromptsGoOn
  PROVE  MirrorInv'
<1>1. /\ agentEventQueue' \in Seq(Event) /\ missed' \in BOOLEAN
      /\ Heard' \subseteq Heard \cup (S \cup F \cup X)
      /\ Leaving \cup (S \cup F \cup X) \subseteq Leaving'
  BY Emitted DEF MirrorInv
<1>2. /\ Leaving \subseteq Leaving'
      /\ S \cap Texts \subseteq Leaving' /\ F \cap Texts \subseteq Leaving'
  BY <1>1
<1>3. /\ Mirrors(steeringMessages, steeringQueue', Leaving')
      /\ \A t \in S : t \in Texts /\ Holds(steeringMessages, t) /\ ~Holds(steeringQueue', t)
      /\ \A t : Holds(steeringQueue', t) => Holds(steeringQueue, t)
  <2>1. Mirrors(steeringMessages, steeringQueue, Leaving)
    BY DEF MirrorInv
  <2> QED BY <1>1, <1>2, <2>1, MirrorTakes
<1>4. /\ Mirrors(followUpMessages, followUpQueue', Leaving')
      /\ \A t \in F : t \in Texts /\ Holds(followUpMessages, t) /\ ~Holds(followUpQueue', t)
      /\ \A t : Holds(followUpQueue', t) => Holds(followUpQueue, t)
  <2>1. Mirrors(followUpMessages, followUpQueue, Leaving)
    BY DEF MirrorInv
  <2> QED BY <1>1, <1>2, <2>1, MirrorTakes
<1>5. /\ \A t : Holds(steeringQueue, t) => Holds(steeringMessages, t)
      /\ \A t : Holds(followUpQueue, t) => Holds(followUpMessages, t)
  BY QueueIsShown DEF MirrorInv
<1>6. ASSUME NEW t \in Heard'
      PROVE  prompts'[t] # "unsent" /\ ~Holds(steeringQueue', t) /\ ~Holds(followUpQueue', t)
  <2>1. t \in Texts
    BY <1>6 DEF Heard, HeardIn, Texts
  <2>2. CASE t \in Heard
    BY <1>3, <1>4, <2>1, <2>2 DEF MirrorInv, TextsApart, PromptsGoOn
  <2>3. CASE t \in S \cup F
    BY <1>3, <1>4, <1>5, <2>1, <2>3 DEF MirrorInv, TextsApart, PromptsGoOn
  <2>4. CASE t \in X
    BY <1>3, <1>4, <1>5, <2>1, <2>4 DEF MirrorInv, TextsApart, PromptsGoOn
  <2> QED BY <1>1, <2>2, <2>3, <2>4
<1>7. TextsApart'
  <2>1. \A t \in Texts : ~(Holds(steeringMessages', t) /\ Holds(followUpMessages', t))
    BY DEF MirrorInv, TextsApart
  <2>2. \A t \in Texts : Holds(steeringMessages', t) \/ Holds(followUpMessages', t)
                         => prompts'[t] = "queued"
    BY DEF MirrorInv, TextsApart, PromptsGoOn
  <2> QED BY <1>6, <2>1, <2>2 DEF TextsApart, Texts
<1>8. MirrorTyped' /\ JobsOfPrompts'
  BY <1>1 DEF MirrorInv, MirrorTyped, JobsOfPrompts, PromptsGoOn, Texts, Status, Event,
         Message, Owners
<1>9. /\ Mirrors(steeringMessages, steeringQueue, Leaving)'
      /\ Mirrors(followUpMessages, followUpQueue, Leaving)'
  BY <1>3, <1>4 DEF Mirrors, Texts
<1> QED BY <1>7, <1>8, <1>9 DEF MirrorInv

LEMMA LoopTakesOnly ==
  ASSUME MirrorInv, NEW es \in Seq(Event), Emit(es),
         NEW S, NEW F, HeardIn(es) = S \cup F,
         TakenFrom(steeringQueue, steeringQueue', S),
         TakenFrom(followUpQueue, followUpQueue', F),
         UNCHANGED <<steeringMessages, followUpMessages, jobs, connected>>,
         answers' \in Nat, PromptsGoOn
  PROVE  MirrorInv'
<1> DEFINE X == {}
<1>1. HeardIn(es) = S \cup F \cup X /\ \A t \in X : t \in Texts /\ prompts[t] = "ready"
  OBVIOUS
<1> HIDE DEF X
<1> QED BY <1>1, LoopTakes

\* A step that touches neither the queues nor what is shown or heard.
LEMMA QuietStep ==
  ASSUME MirrorInv,
         UNCHANGED <<steeringQueue, followUpQueue, steeringMessages, followUpMessages, missed,
                     answers>>,
         agentEventQueue' \in Seq(Event), Heard' = Heard, connected' \in BOOLEAN,
         prompts' \in [Texts -> Status], DOMAIN jobs' = Owners,
         \A t \in Texts : /\ prompts[t] = "queued" => prompts'[t] = "queued"
                          /\ prompts'[t] = "unsent" => prompts[t] = "unsent"
                          /\ jobs'[t] # None => prompts'[t] = "compacting"
  PROVE  MirrorInv'
<1>1. Texts' = Texts /\ Event' = Event /\ Status' = Status /\ Owners' = Owners
  BY DEF Texts, Event, Message, Status, Owners
<1>2. MirrorTyped'
  BY <1>1 DEF MirrorInv, MirrorTyped
<1>3. JobsOfPrompts'
  BY <1>1 DEF JobsOfPrompts
<1>4. \A t \in Heard : t \in Texts
  BY DEF Heard, HeardIn
<1>5. TextsApart'
  <2>1. \A t \in Texts : /\ ~(Holds(steeringMessages', t) /\ Holds(followUpMessages', t))
                         /\ Holds(steeringMessages', t) \/ Holds(followUpMessages', t)
                             => prompts'[t] = "queued"
    BY DEF MirrorInv, TextsApart
  <2>2. \A t \in Heard' : /\ prompts'[t] # "unsent"
                          /\ ~Holds(steeringQueue', t) /\ ~Holds(followUpQueue', t)
    BY <1>4 DEF MirrorInv, TextsApart
  <2> QED BY <1>1, <2>1, <2>2 DEF TextsApart
<1>6. Leaving' = Leaving
  BY <1>1 DEF Leaving
<1>7. /\ Mirrors(steeringMessages, steeringQueue, Leaving)'
      /\ Mirrors(followUpMessages, followUpQueue, Leaving)'
  BY <1>1, <1>6 DEF MirrorInv, Mirrors
<1> QED BY <1>2, <1>3, <1>5, <1>7 DEF MirrorInv
-----------------------------------------------------------------------------
(* What the steps announce.                                                  *)

LEMMA SaysNothing ==
  ASSUME NEW e \in Event, e.kind # "user"
  PROVE  <<e>> \in Seq(Event) /\ HeardIn(<<e>>) = {}
BY HeardOne, UsersAreUsers

LEMMA AnswersAreEvents ==
  ASSUME NEW n \in Nat
  PROVE  /\ \A stop \in AllStops \cup {"aborted"} :
              Assistant(n, stop) \in Event /\ Assistant(n, stop).kind # "user"
         /\ ToolResult(n) \in Event /\ ToolResult(n).kind # "user"
         /\ AgentEnd \in Event /\ AgentEnd.kind # "user"
BY DEF Assistant, ToolResult, AgentEnd, Event, Message, Answer

LEMMA TextsAreEvents ==
  ASSUME NEW t \in Texts
  PROVE  <<User(t)>> \in Seq(Event) /\ HeardIn(<<User(t)>>) = {t}
<1>1. User(t) \in Event /\ User(t).text = t
  BY DEF User, Event, Message
<1>2. HeardIn(<<User(t)>>) = {u \in Texts : User(t) = User(u)}
  BY <1>1, HeardOne
<1>3. \A u \in Texts : User(t) = User(u) <=> t = u
  BY DEF User
<1> QED BY <1>1, <1>2, <1>3, HeardOne

\* A poll of a queue.
LEMMA Polled ==
  ASSUME NEW q \in Seq(Texts)
  PROVE  /\ Drained(q) \in Seq(Event)
         /\ TakenFrom(q, Rest(q), HeardIn(Drained(q)))
         /\ q = <<>> => Drained(q) = <<>> /\ HeardIn(Drained(q)) = {}
         /\ q # <<>> => Drained(q) # <<>> /\ Rest(q) = Tail(q)
<1>1. CASE q = <<>>
  <2>1. Drained(q) = <<>> /\ Rest(q) = <<>> /\ <<>> \in Seq(Event)
    BY <1>1 DEF Drained, Rest
  <2> QED BY <1>1, <2>1, HeardNothing DEF TakenFrom
<1>2. CASE q # <<>>
  <2>1. Drained(q) = <<User(Head(q))>> /\ Rest(q) = Tail(q) /\ Head(q) \in Texts
    BY <1>2, HeadTailProperties DEF Drained, Rest
  <2>2. Drained(q) \in Seq(Event) /\ HeardIn(Drained(q)) = {Head(q)}
    BY <2>1, TextsAreEvents
  <2>3. Drained(q) # <<>>
    BY <2>2, HeardNothing
  <2> QED BY <1>2, <2>1, <2>2, <2>3 DEF TakenFrom
<1> QED BY <1>1, <1>2

LEMMA QueuesTyped ==
  ASSUME MirrorInv PROVE steeringQueue \in Seq(Texts) /\ followUpQueue \in Seq(Texts)
BY DEF MirrorInv, Mirrors

LEMMA RetryResolves == ASSUME MirrorInv, ResolveRetry PROVE PromptsGoOn
<1>1. prompts' = [t \in Texts |->
                   IF prompts[t] # "waitRetry" THEN prompts[t]
                   ELSE IF run = "none" THEN "returned" ELSE "waitIdle"]
  BY DEF ResolveRetry
<1>2. \A t \in Texts : \/ prompts'[t] = prompts[t]
                       \/ prompts[t] = "waitRetry" /\ prompts'[t] \in {"returned", "waitIdle"}
  BY <1>1
<1>3. prompts' \in [Texts -> Status]
  <2>1. \A t \in Texts : prompts'[t] \in Status
    BY <1>2 DEF MirrorInv, MirrorTyped, Status, Waiting
  <2> QED BY <1>1, <2>1
<1> QED BY <1>2, <1>3 DEF PromptsGoOn

LEMMA RunEnds ==
  ASSUME MirrorInv, NEW es, NEW retryable, EndRun(es, retryable)
  PROVE  PromptsGoOn
<1> DEFINE promise == retryPromise \/ (connected /\ retryable)
<1>1. prompts' = [t \in Texts |->
                   CASE prompts[t] = "running" -> IF promise THEN "waitRetry" ELSE "returned"
                     [] prompts[t] = "waitIdle" -> "returned"
                     [] OTHER -> prompts[t]]
  BY DEF EndRun
<1> HIDE DEF promise
<1>2. \A t \in Texts : /\ prompts[t] = "running" => prompts'[t] \in {"waitRetry", "returned"}
                       /\ prompts[t] = "waitIdle" => prompts'[t] = "returned"
                       /\ prompts[t] \notin {"running", "waitIdle"} => prompts'[t] = prompts[t]
  BY <1>1
<1>3. prompts' \in [Texts -> Status]
  <2>1. \A t \in Texts : prompts'[t] \in Status
    BY <1>2 DEF MirrorInv, MirrorTyped, Status, Waiting
  <2> QED BY <1>1, <2>1
<1> QED BY <1>2, <1>3 DEF PromptsGoOn

LEMMA NothingChanges == ASSUME MirrorInv, UNCHANGED prompts PROVE PromptsGoOn
BY DEF MirrorInv, MirrorTyped, PromptsGoOn

-----------------------------------------------------------------------------
(* The agent's run.                                                          *)

LEMMA AnswersMirror ==
  ASSUME MirrorInv, NEW stop \in AllStops \cup {"aborted"}, Answers(stop)
  PROVE  MirrorInv'
<1> DEFINE msg == Assistant(answers + 1, stop)
           poll == IF stop \notin Ended THEN <<>>
                   ELSE IF steeringQueue # <<>> THEN steeringQueue ELSE followUpQueue
           polled == Drained(poll)
<1>1. /\ UNCHANGED <<steeringMessages, followUpMessages, jobs, connected>>
      /\ answers' = answers + 1
  BY DEF Answers
<1>2. answers + 1 \in Nat
  BY DEF MirrorInv, MirrorTyped
<1>3. msg \in Event /\ <<msg>> \in Seq(Event) /\ HeardIn(<<msg>>) = {}
  BY <1>2, AnswersAreEvents, SaysNothing
<1>4. poll \in Seq(Texts)
  BY QueuesTyped
<1>5. Drained(<<>>) = <<>>
  BY DEF Drained
<1>6. /\ IF stop \in Ended /\ steeringQueue # <<>>
         THEN steeringQueue' = Tail(steeringQueue) /\ UNCHANGED followUpQueue
         ELSE UNCHANGED steeringQueue /\ followUpQueue' = IF polled = <<>> THEN followUpQueue
                                                         ELSE Tail(followUpQueue)
      /\ \/ Emit(<<msg>> \o polled) /\ UNCHANGED prompts
         \/ polled = <<>> /\ EndRun(<<msg>>, stop = "retryable")
  BY <1>5 DEF Answers
<1> HIDE DEF msg
<1>7. \E S, F : /\ HeardIn(polled) = S \cup F
                /\ TakenFrom(steeringQueue, steeringQueue', S)
                /\ TakenFrom(followUpQueue, followUpQueue', F)
  <2>1. CASE stop \in Ended /\ steeringQueue # <<>>
    <3>1. poll = steeringQueue /\ steeringQueue' = Rest(steeringQueue) /\ followUpQueue' = followUpQueue
      BY <1>6, <2>1 DEF Rest
    <3> QED BY <1>4, <3>1, Polled DEF TakenFrom
  <2>2. CASE stop \in Ended /\ steeringQueue = <<>>
    <3>1. poll = followUpQueue /\ steeringQueue' = steeringQueue
      BY <1>6, <2>2
    <3>2. followUpQueue' = Rest(followUpQueue)
      BY <1>4, <1>6, <2>2, <3>1, Polled DEF Rest
    <3>3. TakenFrom(steeringQueue, steeringQueue', {})
      BY <3>1 DEF TakenFrom
    <3>4. TakenFrom(followUpQueue, followUpQueue', HeardIn(polled))
      BY <1>4, <3>1, <3>2, Polled
    <3>5. HeardIn(polled) = {} \cup HeardIn(polled)
      OBVIOUS
    <3> HIDE DEF polled
    <3> QED BY <3>3, <3>4, <3>5
  <2>3. CASE stop \notin Ended
    <3>1. polled = <<>> /\ steeringQueue' = steeringQueue /\ followUpQueue' = followUpQueue
      BY <1>5, <1>6, <2>3
    <3> QED BY <3>1, HeardNothing DEF TakenFrom
  <2> QED BY <2>1, <2>2, <2>3
<1>8. PICK S, F : /\ HeardIn(polled) = S \cup F
                  /\ TakenFrom(steeringQueue, steeringQueue', S)
                  /\ TakenFrom(followUpQueue, followUpQueue', F)
  BY <1>7
<1>9. polled \in Seq(Event)
  BY <1>4, Polled
<1> HIDE DEF polled, poll
<1>10. PromptsGoOn
  BY <1>6, RunEnds, NothingChanges
<1>11. \E es \in Seq(Event) : Emit(es) /\ HeardIn(es) = S \cup F
  <2>1. CASE Emit(<<msg>> \o polled)
    <3>1. <<msg>> \o polled \in Seq(Event)
          /\ HeardIn(<<msg>> \o polled) = HeardIn(<<msg>>) \cup HeardIn(polled)
      BY <1>3, <1>9, HeardBoth
    <3> QED BY <1>3, <1>8, <2>1, <3>1
  <2>2. CASE polled = <<>> /\ EndRun(<<msg>>, stop = "retryable")
    <3>1. <<AgentEnd>> \in Seq(Event) /\ HeardIn(<<AgentEnd>>) = {}
      BY <1>2, AnswersAreEvents, SaysNothing
    <3>2. <<msg>> \o <<AgentEnd>> \in Seq(Event)
          /\ HeardIn(<<msg>> \o <<AgentEnd>>) = HeardIn(<<msg>>) \cup HeardIn(<<AgentEnd>>)
      BY <1>3, <3>1, HeardBoth
    <3>3. S \cup F = {}
      BY <1>8, <2>2, HeardNothing
    <3>4. Emit(<<msg>> \o <<AgentEnd>>)
      BY <2>2 DEF EndRun
    <3> QED BY <1>3, <3>1, <3>2, <3>3, <3>4
  <2> QED BY <1>6, <2>1, <2>2
<1>12. PICK es \in Seq(Event) : Emit(es) /\ HeardIn(es) = S \cup F
  BY <1>11
<1> QED BY <1>1, <1>2, <1>8, <1>10, <1>12, LoopTakesOnly

LEMMA ToolsEndMirror == ASSUME MirrorInv, ToolsEnd PROVE MirrorInv'
<1> DEFINE one == <<ToolResult(answers)>>
           polled == Drained(steeringQueue)
<1>1. /\ UNCHANGED <<steeringMessages, followUpMessages, jobs, connected, answers, prompts>>
      /\ steeringQueue' = Rest(steeringQueue) /\ followUpQueue' = followUpQueue
      /\ Emit(one \o polled)
  BY DEF ToolsEnd
<1>2. answers \in Nat
  BY DEF MirrorInv, MirrorTyped
<1>3. one \in Seq(Event) /\ HeardIn(one) = {}
  BY <1>2, AnswersAreEvents, SaysNothing
<1>4. polled \in Seq(Event) /\ TakenFrom(steeringQueue, steeringQueue', HeardIn(polled))
  BY <1>1, QueuesTyped, Polled
<1> HIDE DEF one, polled
<1>5. one \o polled \in Seq(Event) /\ HeardIn(one \o polled) = HeardIn(one) \cup HeardIn(polled)
  BY <1>3, <1>4, HeardBoth
<1>6. TakenFrom(followUpQueue, followUpQueue', {})
  BY <1>1 DEF TakenFrom
<1>7. PromptsGoOn /\ answers' \in Nat
  BY <1>1, <1>2, NothingChanges
<1> DEFINE es == one \o polled
           S == HeardIn(polled)
           F == {}
<1>8. /\ es \in Seq(Event) /\ Emit(es) /\ HeardIn(es) = S \cup F
      /\ TakenFrom(steeringQueue, steeringQueue', S) /\ TakenFrom(followUpQueue, followUpQueue', F)
  BY <1>1, <1>3, <1>4, <1>5, <1>6
<1> HIDE DEF es, S, F
<1> QED BY <1>1, <1>7, <1>8, LoopTakesOnly

LEMMA StreamThrowsMirror ==
  ASSUME MirrorInv, NEW retryable \in BOOLEAN, StreamThrows(retryable)
  PROVE  MirrorInv'
<1>1. /\ UNCHANGED <<steeringMessages, followUpMessages, jobs, connected, answers,
                     steeringQueue, followUpQueue>>
      /\ EndRun(<<>>, retryable /\ ~aborted)
  BY DEF StreamThrows
<1>2. answers \in Nat
  BY DEF MirrorInv, MirrorTyped
<1>3. PromptsGoOn
  BY <1>1, RunEnds
<1> DEFINE es == <<>> \o <<AgentEnd>>
           S == {}
           F == {}
<1>4. Emit(es)
  BY <1>1 DEF EndRun
<1>5. es \in Seq(Event) /\ HeardIn(es) = S \cup F
  <2> DEFINE a == <<>>
             b == <<AgentEnd>>
  <2>1. a \in Seq(Event) /\ HeardIn(a) = {} /\ b \in Seq(Event) /\ HeardIn(b) = {}
    BY <1>2, AnswersAreEvents, SaysNothing, HeardNothing
  <2> HIDE DEF a, b
  <2>2. a \o b \in Seq(Event) /\ HeardIn(a \o b) = {}
    BY <2>1, HeardBoth
  <2> QED BY <2>2 DEF a, b
<1>6. TakenFrom(steeringQueue, steeringQueue', S) /\ TakenFrom(followUpQueue, followUpQueue', F)
  BY <1>1 DEF TakenFrom
<1> HIDE DEF es, S, F
<1> QED BY <1>1, <1>2, <1>3, <1>4, <1>5, <1>6, LoopTakesOnly

LEMMA StartAnnounces ==
  ASSUME NEW ms, NEW skip \in BOOLEAN, NEW sq, NEW fq, StartRun(ms, skip, sq, fq)
  PROVE  /\ followUpQueue' = fq
         /\ skip => Emit(ms \o <<>>) /\ steeringQueue' = sq
         /\ ~skip => Emit(ms \o Drained(sq)) /\ steeringQueue' = Rest(sq)
BY DEF StartRun

\* A run that begins with a poll, and with what its caller has taken or prompt() sends.
LEMMA RunBegins ==
  ASSUME MirrorInv, NEW ms \in Seq(Event), NEW F, NEW X, HeardIn(ms) = F \cup X,
         StartRun(ms, FALSE, steeringQueue, followUpQueue'),
         TakenFrom(followUpQueue, followUpQueue', F),
         \A t \in X : t \in Texts /\ prompts[t] = "ready",
         UNCHANGED <<steeringMessages, followUpMessages, jobs, connected, answers>>,
         PromptsGoOn
  PROVE  MirrorInv'
<1> DEFINE polled == Drained(steeringQueue)
           S == HeardIn(polled)
           es == ms \o polled
<1>1. Emit(es) /\ steeringQueue' = Rest(steeringQueue)
  BY StartAnnounces
<1>2. polled \in Seq(Event) /\ TakenFrom(steeringQueue, steeringQueue', S)
  BY <1>1, QueuesTyped, Polled
<1> HIDE DEF polled
<1>3. es \in Seq(Event) /\ HeardIn(es) = S \cup F \cup X
  BY <1>2, HeardBoth
<1>4. answers' \in Nat
  BY DEF MirrorInv, MirrorTyped
<1> HIDE DEF es, S
<1> QED BY <1>1, <1>2, <1>3, <1>4, LoopTakes

LEMMA TimerMirror == ASSUME MirrorInv, TimerFires PROVE MirrorInv'
<1>1. UNCHANGED <<steeringMessages, followUpMessages, jobs, connected, answers, prompts>>
  BY DEF TimerFires
<1>2. PromptsGoOn /\ answers' \in Nat
  BY <1>1, NothingChanges DEF MirrorInv, MirrorTyped
<1>3. CASE StartRun(<<>>, FALSE, steeringQueue, followUpQueue)
  <2> DEFINE ms == <<>>
             F == {}
             X == {}
  <2>1. ms \in Seq(Event) /\ HeardIn(ms) = F \cup X
    BY HeardNothing
  <2>2. followUpQueue' = followUpQueue /\ TakenFrom(followUpQueue, followUpQueue', F)
    BY <1>3, StartAnnounces DEF TakenFrom
  <2>3. StartRun(ms, FALSE, steeringQueue, followUpQueue')
    BY <1>3, <2>2
  <2>4. \A t \in X : t \in Texts /\ prompts[t] = "ready"
    OBVIOUS
  <2> HIDE DEF ms, F, X
  <2> QED BY <1>1, <1>2, <2>1, <2>2, <2>3, <2>4, RunBegins
<1>4. CASE steeringQueue # <<>>
           /\ StartRun(Drained(steeringQueue), TRUE, Tail(steeringQueue), followUpQueue)
  <2> DEFINE polled == Drained(steeringQueue)
             none == <<>>
             es == polled \o none
             S == HeardIn(polled)
             F == {}
  <2>1. Emit(es) /\ steeringQueue' = Tail(steeringQueue) /\ followUpQueue' = followUpQueue
    BY <1>4, StartAnnounces
  <2>2. polled \in Seq(Event) /\ TakenFrom(steeringQueue, steeringQueue', S)
    BY <1>4, <2>1, QueuesTyped, Polled
  <2>3. none \in Seq(Event) /\ HeardIn(none) = {}
    BY HeardNothing
  <2> HIDE DEF polled, none
  <2>4. es \in Seq(Event) /\ HeardIn(es) = S \cup F
    BY <2>2, <2>3, HeardBoth
  <2>5. TakenFrom(followUpQueue, followUpQueue', F)
    BY <2>1 DEF TakenFrom
  <2> HIDE DEF es, S, F
  <2> QED BY <1>1, <1>2, <2>1, <2>2, <2>4, <2>5, LoopTakesOnly
<1>5. CASE followUpQueue # <<>>
           /\ StartRun(Drained(followUpQueue), FALSE, steeringQueue, Tail(followUpQueue))
  <2> DEFINE ms == Drained(followUpQueue)
             F == HeardIn(ms)
             X == {}
  <2>1. followUpQueue' = Tail(followUpQueue)
    BY <1>5, StartAnnounces
  <2>2. ms \in Seq(Event) /\ TakenFrom(followUpQueue, followUpQueue', F)
    BY <1>5, <2>1, QueuesTyped, Polled
  <2>3. StartRun(ms, FALSE, steeringQueue, followUpQueue')
    BY <1>5, <2>1
  <2>4. HeardIn(ms) = F \cup X /\ \A t \in X : t \in Texts /\ prompts[t] = "ready"
    OBVIOUS
  <2> HIDE DEF ms, F, X
  <2> QED BY <1>1, <1>2, <2>2, <2>3, <2>4, RunBegins
<1>6. CASE UNCHANGED <<agentVars, agentEventQueue, missed, budget, outOfStep>>
  <2>1. Heard' = Heard
    BY <1>6 DEF Heard, HeardIn, Texts
  <2>2. \A t \in Texts : /\ prompts[t] = "queued" => prompts'[t] = "queued"
                         /\ prompts'[t] = "unsent" => prompts[t] = "unsent"
                         /\ jobs'[t] # None => prompts'[t] = "compacting"
    BY <1>1 DEF MirrorInv, JobsOfPrompts
  <2>3. /\ agentEventQueue' \in Seq(Event) /\ connected' \in BOOLEAN
        /\ prompts' \in [Texts -> Status] /\ DOMAIN jobs' = Owners
    BY <1>1, <1>6 DEF MirrorInv, MirrorTyped
  <2>4. UNCHANGED <<steeringQueue, followUpQueue, missed>>
    BY <1>6 DEF agentVars
  <2> QED BY <1>1, <2>1, <2>2, <2>3, <2>4, QuietStep
<1> QED BY <1>3, <1>4, <1>5, <1>6 DEF TimerFires

LEMMA SendPromptMirror ==
  ASSUME MirrorInv, NEW t \in Texts, SendPrompt(t) PROVE MirrorInv'
<1>1. /\ prompts[t] = "ready"
      /\ UNCHANGED <<steeringMessages, followUpMessages, jobs, connected, answers>>
      /\ \/ prompts' = [prompts EXCEPT ![t] = "running"]
         \/ prompts' = [prompts EXCEPT ![t] = "returned"]
  BY DEF SendPrompt
<1>2. /\ prompts' \in [Texts -> Status] /\ prompts'[t] \in {"running", "returned"}
      /\ \A u \in Texts \ {t} : prompts'[u] = prompts[u]
  BY <1>1 DEF MirrorInv, MirrorTyped, Status, Waiting
<1>3. PromptsGoOn
  BY <1>1, <1>2 DEF PromptsGoOn
<1>4. CASE run = "none"
  <2> DEFINE ms == <<User(t)>>
             F == {}
             X == {t}
  <2>1. ms \in Seq(Event) /\ HeardIn(ms) = F \cup X
    BY TextsAreEvents
  <2>2. StartRun(ms, FALSE, steeringQueue, followUpQueue)
    BY <1>4 DEF SendPrompt
  <2>3. followUpQueue' = followUpQueue /\ TakenFrom(followUpQueue, followUpQueue', F)
    BY <2>2, StartAnnounces DEF TakenFrom
  <2>4. StartRun(ms, FALSE, steeringQueue, followUpQueue')
    BY <2>2, <2>3
  <2>5. \A u \in X : u \in Texts /\ prompts[u] = "ready"
    BY <1>1
  <2> HIDE DEF ms, F, X
  <2> QED BY <1>1, <1>3, <2>1, <2>3, <2>4, <2>5, RunBegins
<1>5. CASE run # "none"
  <2>1. UNCHANGED <<steeringQueue, followUpQueue, agentEventQueue, missed>>
    BY <1>5 DEF SendPrompt, agentVars
  <2>2. Heard' = Heard
    BY <2>1 DEF Heard, HeardIn, Texts
  <2>3. \A u \in Texts : /\ prompts[u] = "queued" => prompts'[u] = "queued"
                         /\ prompts'[u] = "unsent" => prompts[u] = "unsent"
                         /\ jobs'[u] # None => prompts'[u] = "compacting"
    BY <1>1, <1>2 DEF MirrorInv, JobsOfPrompts
  <2>4. /\ agentEventQueue' \in Seq(Event) /\ connected' \in BOOLEAN /\ DOMAIN jobs' = Owners
    BY <1>1, <2>1 DEF MirrorInv, MirrorTyped
  <2> QED BY <1>1, <1>2, <2>1, <2>2, <2>3, <2>4, QuietStep
<1> QED BY <1>4, <1>5
-----------------------------------------------------------------------------
(* The session's own steps.                                                  *)

\* A quiet step whose calls of prompt() go on, and wait for the compactions they waited for.
LEMMA QuietPrompts ==
  ASSUME MirrorInv, PromptsGoOn,
         UNCHANGED <<steeringQueue, followUpQueue, steeringMessages, followUpMessages, missed,
                     answers>>,
         agentEventQueue' \in Seq(Event), Heard' = Heard, connected' \in BOOLEAN,
         DOMAIN jobs' = Owners, \A t \in Texts : jobs'[t] = jobs[t]
  PROVE  MirrorInv'
<1>1. \A t \in Texts : /\ prompts[t] = "queued" => prompts'[t] = "queued"
                       /\ prompts'[t] = "unsent" => prompts[t] = "unsent"
                       /\ jobs'[t] # None => prompts'[t] = "compacting"
  BY DEF PromptsGoOn, MirrorInv, JobsOfPrompts
<1>2. prompts' \in [Texts -> Status]
  BY DEF PromptsGoOn
<1> QED BY <1>1, <1>2, QuietStep

\* The checks for a compaction start one for their owner or none.
LEMMA CheckStarts ==
  ASSUME MirrorInv, NEW o \in Owners, NEW m, NEW ms, NEW es, NEW gone,
         CheckCompaction(o, m, ms, es, gone)
  PROVE  DOMAIN jobs' = Owners /\ \A u \in Owners \ {o} : jobs'[u] = jobs[u]
<1>1. DOMAIN jobs = Owners
  BY DEF MirrorInv, MirrorTyped
<1>2. CASE jobs' = jobs
  BY <1>1, <1>2
<1>3. CASE \E keep \in CutPoints(es) :
           \E reason : jobs' = [jobs EXCEPT ![o] = [kind |-> reason, keep |-> keep]]
  BY <1>1, <1>3
<1> QED BY <1>2, <1>3 DEF CheckCompaction

\* An event that is no text is taken off the queue.
LEMMA OtherTaken ==
  ASSUME MirrorInv, agentEventQueue # <<>>, Head(agentEventQueue).kind # "user",
         agentEventQueue' = Tail(agentEventQueue)
  PROVE  agentEventQueue' \in Seq(Event) /\ Heard' = Heard
<1>1. agentEventQueue \in Seq(Event)
  BY DEF MirrorInv, MirrorTyped
<1>2. /\ Head(agentEventQueue) \in Event /\ Tail(agentEventQueue) \in Seq(Event)
      /\ HeardIn(Tail(agentEventQueue)) \subseteq HeardIn(agentEventQueue)
      /\ \A t \in HeardIn(agentEventQueue) :
           Head(agentEventQueue) = User(t) \/ t \in HeardIn(Tail(agentEventQueue))
  BY <1>1, HeardLess
<1>3. \A t \in HeardIn(agentEventQueue) : t \in Texts
  BY DEF HeardIn
<1>4. HeardIn(Tail(agentEventQueue)) = HeardIn(agentEventQueue)
  BY <1>2, <1>3, UsersAreUsers
<1>5. Heard' = HeardIn(agentEventQueue')
  BY DEF Heard, HeardIn, Texts
<1> QED BY <1>2, <1>4, <1>5 DEF Heard

LEMMA EndIsNoText == AgentEnd.kind # "user"
BY DEF AgentEnd

LEMMA RetryMirror == ASSUME MirrorInv, ProcessRetry PROVE MirrorInv'
<1>1. /\ UNCHANGED <<steeringQueue, followUpQueue, steeringMessages, followUpMessages, missed,
                     answers, connected, jobs, prompts>>
      /\ agentEventQueue # <<>> /\ Head(agentEventQueue) = AgentEnd
      /\ agentEventQueue' = Tail(agentEventQueue)
  BY DEF ProcessRetry
<1>2. agentEventQueue' \in Seq(Event) /\ Heard' = Heard
  BY <1>1, EndIsNoText, OtherTaken
<1>3. connected' \in BOOLEAN /\ DOMAIN jobs' = Owners
  BY <1>1 DEF MirrorInv, MirrorTyped
<1> QED BY <1>1, <1>2, <1>3, NothingChanges, QuietPrompts

LEMMA EndMirror == ASSUME MirrorInv, ProcessEnd PROVE MirrorInv'
<1>1. /\ UNCHANGED <<steeringQueue, followUpQueue, steeringMessages, followUpMessages, missed,
                     answers, connected>>
      /\ agentEventQueue # <<>> /\ Head(agentEventQueue) = AgentEnd
      /\ agentEventQueue' = Tail(agentEventQueue)
      /\ \/ UNCHANGED <<jobs, prompts>>
         \/ /\ ResolveRetry
            /\ CheckCompaction(Handler, lastAssistantMessage, messages, entries, removed)
  BY DEF ProcessEnd
<1>2. agentEventQueue' \in Seq(Event) /\ Heard' = Heard
  BY <1>1, EndIsNoText, OtherTaken
<1>3. connected' \in BOOLEAN
  BY <1>1 DEF MirrorInv, MirrorTyped
<1>4. PromptsGoOn
  BY <1>1, NothingChanges, RetryResolves
<1>5. DOMAIN jobs' = Owners /\ \A t \in Texts : jobs'[t] = jobs[t]
  <2>1. CASE UNCHANGED jobs
    BY <2>1 DEF MirrorInv, MirrorTyped
  <2>2. CASE CheckCompaction(Handler, lastAssistantMessage, messages, entries, removed)
    BY <2>2, Who, CheckStarts
  <2> QED BY <1>1, <2>1, <2>2
<1> QED BY <1>1, <1>2, <1>3, <1>4, <1>5, QuietPrompts

LEMMA HeardStays == ASSUME UNCHANGED agentEventQueue PROVE Heard' = Heard
BY DEF Heard, HeardIn, Texts

LEMMA BackoffMirror == ASSUME MirrorInv, BackoffEnds PROVE MirrorInv'
<1>1. UNCHANGED <<steeringQueue, followUpQueue, steeringMessages, followUpMessages, missed,
                  answers, connected, jobs, prompts, agentEventQueue>>
  BY DEF BackoffEnds, agentVars, ghostVars
<1>2. agentEventQueue' \in Seq(Event) /\ connected' \in BOOLEAN /\ DOMAIN jobs' = Owners
  BY <1>1 DEF MirrorInv, MirrorTyped
<1> QED BY <1>1, <1>2, HeardStays, NothingChanges, QuietPrompts

\* abortRetry() and agent.abort() touch no queue.
LEMMA AbortMirror ==
  ASSUME MirrorInv, AbortEffects, connected' \in BOOLEAN PROVE MirrorInv'
<1>1. /\ UNCHANGED <<steeringQueue, followUpQueue, steeringMessages, followUpMessages, missed,
                     answers, agentEventQueue>>
      /\ ResolveRetry
      /\ \/ UNCHANGED jobs
         \/ CheckCompaction(Handler, backoff, messages, entries, removed)
  BY DEF AbortEffects
<1>2. agentEventQueue' \in Seq(Event)
  BY <1>1 DEF MirrorInv, MirrorTyped
<1>3. DOMAIN jobs' = Owners /\ \A t \in Texts : jobs'[t] = jobs[t]
  <2>1. CASE UNCHANGED jobs
    BY <2>1 DEF MirrorInv, MirrorTyped
  <2>2. CASE CheckCompaction(Handler, backoff, messages, entries, removed)
    BY <2>2, Who, CheckStarts
  <2> QED BY <1>1, <2>1, <2>2
<1> QED BY <1>1, <1>2, <1>3, RetryResolves, HeardStays, QuietPrompts

LEMMA CompactBeginsMirror == ASSUME MirrorInv, CompactBegins PROVE MirrorInv'
<1>1. /\ UNCHANGED <<steeringQueue, followUpQueue, steeringMessages, followUpMessages, missed,
                     answers, agentEventQueue, prompts>>
      /\ \/ connected' = TRUE /\ UNCHANGED jobs
         \/ /\ \E keep \in CutPoints(entries) :
                 jobs' = [jobs EXCEPT ![Manual] = [kind |-> "manual", keep |-> keep]]
            /\ UNCHANGED connected
  BY DEF CompactBegins, agentVars, ghostVars
<1>2. /\ agentEventQueue' \in Seq(Event) /\ connected' \in BOOLEAN
      /\ DOMAIN jobs' = Owners /\ \A t \in Texts : jobs'[t] = jobs[t]
  <2>1. CASE connected' = TRUE /\ UNCHANGED jobs
    BY <1>1, <2>1 DEF MirrorInv, MirrorTyped
  <2>2. CASE /\ \E keep \in CutPoints(entries) :
                  jobs' = [jobs EXCEPT ![Manual] = [kind |-> "manual", keep |-> keep]]
             /\ UNCHANGED connected
    BY <1>1, <2>2, Who DEF MirrorInv, MirrorTyped
  <2> QED BY <1>1, <2>1, <2>2
<1> QED BY <1>1, <1>2, HeardStays, NothingChanges, QuietPrompts

LEMMA ReleasedMirror ==
  ASSUME MirrorInv, NEW o \in Owners, jobs[o] # None, Released(o),
         UNCHANGED <<steeringQueue, followUpQueue, steeringMessages, followUpMessages, missed,
                     answers, agentEventQueue>>
  PROVE  MirrorInv'
<1>1. /\ jobs' = [jobs EXCEPT ![o] = None]
      /\ prompts' = IF o \in Texts THEN [prompts EXCEPT ![o] = "ready"] ELSE prompts
      /\ connected' = (connected \/ o = Manual)
  BY DEF Released
<1>2. /\ DOMAIN jobs = Owners /\ prompts \in [Texts -> Status]
      /\ \A t \in Texts : jobs[t] # None => prompts[t] = "compacting"
  BY DEF MirrorInv, MirrorTyped, JobsOfPrompts
<1>3. /\ DOMAIN jobs' = Owners /\ jobs'[o] = None
      /\ \A u \in Owners \ {o} : jobs'[u] = jobs[u]
  BY <1>1, <1>2
<1>4. /\ prompts' \in [Texts -> Status]
      /\ \A t \in Texts : IF t = o THEN prompts'[t] = "ready" /\ prompts[t] = "compacting"
                                   ELSE prompts'[t] = prompts[t]
  BY <1>1, <1>2 DEF Status, Waiting
<1>5. \A t \in Texts : /\ prompts[t] = "queued" => prompts'[t] = "queued"
                       /\ prompts'[t] = "unsent" => prompts[t] = "unsent"
                       /\ jobs'[t] # None => prompts'[t] = "compacting"
  BY <1>2, <1>3, <1>4, Who
<1>6. agentEventQueue' \in Seq(Event) /\ connected' \in BOOLEAN
  BY <1>1 DEF MirrorInv, MirrorTyped
<1> QED BY <1>3, <1>4, <1>5, <1>6, HeardStays, QuietStep

LEMMA BashMirror == ASSUME MirrorInv, RecordBash PROVE MirrorInv'
<1>1. UNCHANGED <<steeringQueue, followUpQueue, steeringMessages, followUpMessages, missed,
                  answers, connected, jobs, prompts, agentEventQueue>>
  BY DEF RecordBash
<1>2. agentEventQueue' \in Seq(Event) /\ connected' \in BOOLEAN /\ DOMAIN jobs' = Owners
  BY <1>1 DEF MirrorInv, MirrorTyped
<1> QED BY <1>1, <1>2, HeardStays, NothingChanges, QuietPrompts

LEMMA PromptMirror == ASSUME MirrorInv, NEW t \in Texts, Prompt(t) PROVE MirrorInv'
<1>1. /\ UNCHANGED <<steeringQueue, followUpQueue, steeringMessages, followUpMessages, missed,
                     answers, connected, agentEventQueue>>
      /\ prompts[t] = "unsent"
      /\ prompts' = [prompts EXCEPT ![t] = IF jobs'[t] = None THEN "ready" ELSE "compacting"]
  BY DEF Prompt, IsNew
<1>2. DOMAIN jobs' = Owners /\ \A u \in Owners \ {t} : jobs'[u] = jobs[u]
  <2> DEFINE ms == messages \o pendingBashMessages
             es == entries \o pendingBashMessages
             lasts == {i \in DOMAIN ms : IsAssistant(ms[i])}
             lastAssistant == IF lasts = {} THEN None ELSE ms[Max(lasts)]
  <2>1. CheckCompaction(t, lastAssistant, ms, es, removed)
    BY DEF Prompt
  <2> HIDE DEF ms, es, lastAssistant
  <2> QED BY <2>1, Who, CheckStarts
<1>3. /\ prompts \in [Texts -> Status]
      /\ \A u \in Texts : jobs[u] # None => prompts[u] = "compacting"
  BY DEF MirrorInv, MirrorTyped, JobsOfPrompts
<1>4. /\ prompts' \in [Texts -> Status]
      /\ prompts'[t] = IF jobs'[t] = None THEN "ready" ELSE "compacting"
      /\ \A u \in Texts \ {t} : prompts'[u] = prompts[u]
  BY <1>1, <1>3 DEF Status, Waiting
<1>5. \A u \in Texts : /\ prompts[u] = "queued" => prompts'[u] = "queued"
                       /\ prompts'[u] = "unsent" => prompts[u] = "unsent"
                       /\ jobs'[u] # None => prompts'[u] = "compacting"
  BY <1>1, <1>2, <1>3, <1>4, Who
<1>6. agentEventQueue' \in Seq(Event) /\ connected' \in BOOLEAN
  BY <1>1 DEF MirrorInv, MirrorTyped
<1> QED BY <1>1, <1>2, <1>4, <1>5, <1>6, HeardStays, QuietStep

\* What holds a text after one has been appended.
LEMMA HeldByAppend ==
  ASSUME NEW s \in Seq(Texts), NEW t \in Texts, NEW u, Holds(Append(s, t), u)
  PROVE  Holds(s, u) \/ u = t
<1> DEFINE a == Append(s, t)
<1>1. /\ Len(a) = Len(s) + 1 /\ Len(s) \in Nat
      /\ a[Len(s) + 1] = t /\ \A i \in 1..Len(s) : a[i] = s[i]
  BY AppendProperties, LenProperties
<1> HIDE DEF a
<1>2. PICK i \in 1..Len(a) : a[i] = u
  BY DEF Holds, a
<1>3. i = Len(s) + 1 \/ i \in 1..Len(s)
  BY <1>1
<1> QED BY <1>1, <1>2, <1>3 DEF Holds

\* What a call of steer() or followUp() finds: a text shown nowhere, announced by nobody.
LEMMA NewText ==
  ASSUME MirrorInv, NEW t \in Texts, prompts[t] = "unsent"
  PROVE  /\ ~Holds(steeringMessages, t) /\ ~Holds(followUpMessages, t)
         /\ ~Holds(steeringQueue, t) /\ ~Holds(followUpQueue, t)
         /\ t \notin Heard /\ jobs[t] = None
<1>1. ~Holds(steeringMessages, t) /\ ~Holds(followUpMessages, t)
  BY DEF MirrorInv, TextsApart
<1>2. ~Holds(steeringQueue, t) /\ ~Holds(followUpQueue, t)
  BY <1>1, QueueIsShown DEF MirrorInv
<1> QED BY <1>1, <1>2 DEF MirrorInv, TextsApart, JobsOfPrompts

\* Both kinds of queueing: the steps of MirrorInv that do not depend on which queue it is.
LEMMA QueuedText ==
  ASSUME MirrorInv, NEW t \in Texts, prompts[t] = "unsent",
         prompts' = [prompts EXCEPT ![t] = "queued"],
         UNCHANGED <<answers, connected, jobs, agentEventQueue, missed>>
  PROVE  /\ MirrorTyped' /\ JobsOfPrompts' /\ Texts' = Texts
         /\ Heard' = Heard /\ Leaving' = Leaving
         /\ prompts'[t] = "queued" /\ \A u \in Texts \ {t} : prompts'[u] = prompts[u]
<1>1. Texts' = Texts /\ Event' = Event /\ Status' = Status /\ Owners' = Owners
  BY DEF Texts, Event, Message, Status, Owners
<1>2. Heard' = Heard
  BY HeardStays
<1>3. Leaving' = Leaving
  BY <1>1, <1>2 DEF Leaving
<1>4. prompts \in [Texts -> Status]
  BY DEF MirrorInv, MirrorTyped
<1>5. /\ prompts' \in [Texts -> Status] /\ prompts'[t] = "queued"
      /\ \A u \in Texts \ {t} : prompts'[u] = prompts[u]
  BY <1>4 DEF Status, Waiting
<1>6. MirrorTyped'
  BY <1>1, <1>5 DEF MirrorInv, MirrorTyped
<1>7. \A u \in Texts : jobs[u] # None => prompts[u] = "compacting"
  BY DEF MirrorInv, JobsOfPrompts
<1>8. \A u \in Texts : jobs'[u] # None => prompts'[u] = "compacting"
  BY <1>5, <1>7
<1>9. JobsOfPrompts'
  BY <1>1, <1>8 DEF JobsOfPrompts
<1> QED BY <1>1, <1>2, <1>3, <1>5, <1>6, <1>9

LEMMA SteerMirror == ASSUME MirrorInv, NEW t \in Texts, Steer(t) PROVE MirrorInv'
<1> DEFINE shown == Append(steeringMessages, t)
           queue == Append(steeringQueue, t)
<1>1. /\ prompts[t] = "unsent" /\ prompts' = [prompts EXCEPT ![t] = "queued"]
      /\ steeringMessages' = shown /\ steeringQueue' = queue
      /\ UNCHANGED <<followUpQueue, followUpMessages, answers, connected, jobs,
                     agentEventQueue, missed>>
  BY DEF Steer, IsNew
<1>2. /\ MirrorTyped' /\ JobsOfPrompts' /\ Texts' = Texts
      /\ Heard' = Heard /\ Leaving' = Leaving
      /\ prompts'[t] = "queued" /\ \A u \in Texts \ {t} : prompts'[u] = prompts[u]
  BY <1>1, QueuedText
<1>3. /\ ~Holds(steeringMessages, t) /\ ~Holds(followUpMessages, t)
      /\ ~Holds(steeringQueue, t) /\ ~Holds(followUpQueue, t) /\ t \notin Heard
  BY <1>1, NewText
<1>4. Mirrors(shown, queue, Leaving)
  BY <1>3, TextJoins DEF MirrorInv
<1>5. steeringMessages \in Seq(Texts) /\ steeringQueue \in Seq(Texts)
  BY DEF MirrorInv, Mirrors
<1>6. \A u : /\ Holds(shown, u) => Holds(steeringMessages, u) \/ u = t
             /\ Holds(queue, u) => Holds(steeringQueue, u) \/ u = t
  BY <1>5, HeldByAppend
<1> HIDE DEF shown, queue
<1>7. TextsApart'
  <2>1. \A u \in Texts : ~(Holds(steeringMessages', u) /\ Holds(followUpMessages', u))
    BY <1>1, <1>3, <1>6 DEF MirrorInv, TextsApart
  <2>2. \A u \in Texts : Holds(steeringMessages', u) \/ Holds(followUpMessages', u)
                         => prompts'[u] = "queued"
    BY <1>1, <1>2, <1>6 DEF MirrorInv, TextsApart
  <2>3. \A u \in Heard : /\ prompts'[u] # "unsent"
                         /\ ~Holds(steeringQueue', u) /\ ~Holds(followUpQueue', u)
    BY <1>1, <1>2, <1>3, <1>6 DEF MirrorInv, TextsApart, Heard, HeardIn
  <2> QED BY <1>2, <2>1, <2>2, <2>3 DEF TextsApart
<1>8. /\ Mirrors(steeringMessages, steeringQueue, Leaving)'
      /\ Mirrors(followUpMessages, followUpQueue, Leaving)'
  BY <1>1, <1>2, <1>4 DEF MirrorInv, Mirrors
<1> QED BY <1>2, <1>7, <1>8 DEF MirrorInv

LEMMA FollowUpMirror == ASSUME MirrorInv, NEW t \in Texts, FollowUp(t) PROVE MirrorInv'
<1> DEFINE shown == Append(followUpMessages, t)
           queue == Append(followUpQueue, t)
<1>1. /\ prompts[t] = "unsent" /\ prompts' = [prompts EXCEPT ![t] = "queued"]
      /\ followUpMessages' = shown /\ followUpQueue' = queue
      /\ UNCHANGED <<steeringQueue, steeringMessages, answers, connected, jobs,
                     agentEventQueue, missed>>
  BY DEF FollowUp, IsNew
<1>2. /\ MirrorTyped' /\ JobsOfPrompts' /\ Texts' = Texts
      /\ Heard' = Heard /\ Leaving' = Leaving
      /\ prompts'[t] = "queued" /\ \A u \in Texts \ {t} : prompts'[u] = prompts[u]
  BY <1>1, QueuedText
<1>3. /\ ~Holds(steeringMessages, t) /\ ~Holds(followUpMessages, t)
      /\ ~Holds(steeringQueue, t) /\ ~Holds(followUpQueue, t) /\ t \notin Heard
  BY <1>1, NewText
<1>4. Mirrors(shown, queue, Leaving)
  BY <1>3, TextJoins DEF MirrorInv
<1>5. followUpMessages \in Seq(Texts) /\ followUpQueue \in Seq(Texts)
  BY DEF MirrorInv, Mirrors
<1>6. \A u : /\ Holds(shown, u) => Holds(followUpMessages, u) \/ u = t
             /\ Holds(queue, u) => Holds(followUpQueue, u) \/ u = t
  BY <1>5, HeldByAppend
<1> HIDE DEF shown, queue
<1>7. TextsApart'
  <2>1. \A u \in Texts : ~(Holds(steeringMessages', u) /\ Holds(followUpMessages', u))
    BY <1>1, <1>3, <1>6 DEF MirrorInv, TextsApart
  <2>2. \A u \in Texts : Holds(steeringMessages', u) \/ Holds(followUpMessages', u)
                         => prompts'[u] = "queued"
    BY <1>1, <1>2, <1>6 DEF MirrorInv, TextsApart
  <2>3. \A u \in Heard : /\ prompts'[u] # "unsent"
                         /\ ~Holds(steeringQueue', u) /\ ~Holds(followUpQueue', u)
    BY <1>1, <1>2, <1>3, <1>6 DEF MirrorInv, TextsApart, Heard, HeardIn
  <2> QED BY <1>2, <2>1, <2>2, <2>3 DEF TextsApart
<1>8. /\ Mirrors(steeringMessages, steeringQueue, Leaving)'
      /\ Mirrors(followUpMessages, followUpQueue, Leaving)'
  BY <1>1, <1>2, <1>4 DEF MirrorInv, Mirrors
<1> QED BY <1>2, <1>7, <1>8 DEF MirrorInv

\* clearQueue() empties the agent's queues with what is shown of them.
LEMMA ClearMirror == ASSUME MirrorInv, ClearQueue PROVE MirrorInv'
<1>1. /\ steeringMessages' = <<>> /\ followUpMessages' = <<>>
      /\ steeringQueue' = <<>> /\ followUpQueue' = <<>>
      /\ UNCHANGED <<answers, connected, jobs, agentEventQueue, missed, prompts>>
  BY DEF ClearQueue
<1>2. Texts' = Texts /\ Event' = Event /\ Status' = Status /\ Owners' = Owners
  BY DEF Texts, Event, Message, Status, Owners
<1>3. MirrorTyped' /\ JobsOfPrompts'
  BY <1>1, <1>2 DEF MirrorInv, MirrorTyped, JobsOfPrompts
<1>4. Heard' = Heard
  BY <1>1, HeardStays
<1>5. TextsApart'
  <2>1. \A u : ~Holds(<<>>, u)
    BY DEF Holds
  <2>2. \A u \in Heard : u \in Texts
    BY DEF Heard, HeardIn
  <2> QED BY <1>1, <1>4, <2>1, <2>2 DEF MirrorInv, TextsApart
<1>6. Mirrors(<<>>, <<>>, Leaving')
  BY NothingMirrored
<1>7. /\ Mirrors(steeringMessages, steeringQueue, Leaving)'
      /\ Mirrors(followUpMessages, followUpQueue, Leaving)'
  BY <1>1, <1>2, <1>6 DEF Mirrors
<1> QED BY <1>3, <1>5, <1>7 DEF MirrorInv

\* The session comes to a message: a text leaves what is shown of the queue it came from.
LEMMA EventTaken ==
  ASSUME MirrorInv, agentEventQueue # <<>>, agentEventQueue' = Tail(agentEventQueue),
         UNCHANGED <<steeringQueue, followUpQueue, missed, answers, connected, jobs, prompts>>,
         Mirrored(Head(agentEventQueue))
  PROVE  MirrorInv'
<1> DEFINE e == Head(agentEventQueue)
<1>1. /\ agentEventQueue # <<>> /\ agentEventQueue' = Tail(agentEventQueue)
      /\ UNCHANGED <<steeringQueue, followUpQueue, missed, answers, connected, jobs, prompts>>
      /\ steeringMessages' = Shown(steeringMessages, e)
      /\ followUpMessages' = IF steeringMessages' # steeringMessages THEN followUpMessages
                             ELSE Shown(followUpMessages, e)
  BY DEF Mirrored
<1>2. agentEventQueue \in Seq(Event)
  BY DEF MirrorInv, MirrorTyped
<1>3. /\ e \in Event /\ agentEventQueue' \in Seq(Event)
      /\ HeardIn(agentEventQueue') \subseteq Heard
      /\ \A u \in Heard : e = User(u) \/ u \in HeardIn(agentEventQueue')
  BY <1>1, <1>2, HeardLess DEF Heard
<1>4. CASE e.kind # "user"
  <2>1. UNCHANGED <<steeringMessages, followUpMessages>>
    BY <1>1, <1>4 DEF Shown
  <2>2. agentEventQueue' \in Seq(Event) /\ Heard' = Heard
    BY <1>1, <1>4, OtherTaken
  <2>3. connected' \in BOOLEAN /\ DOMAIN jobs' = Owners
    BY <1>1 DEF MirrorInv, MirrorTyped
  <2> HIDE DEF e
  <2> QED BY <1>1, <2>1, <2>2, <2>3, NothingChanges, QuietPrompts
<1>5. CASE e.kind = "user"
  <2> DEFINE t == e.text
  <2>1. t \in Texts /\ e = User(t)
    BY <1>3, <1>5, UsersAreUsers
  <2>2. t \in Heard
    <3>1. Len(agentEventQueue) \in Nat /\ Len(agentEventQueue) # 0
      BY <1>1, <1>2, LenProperties, EmptySeq
    <3>2. 1 \in 1..Len(agentEventQueue) /\ agentEventQueue[1] = e
      BY <1>1, <1>2, <3>1, HeadTailProperties
    <3> QED BY <2>1, <3>2 DEF Heard, HeardIn
  <2>3. ~Holds(steeringQueue, t) /\ ~Holds(followUpQueue, t)
    BY <2>2 DEF MirrorInv, TextsApart
  <2>4. Texts' = Texts /\ Event' = Event /\ Status' = Status /\ Owners' = Owners
    BY DEF Texts, Event, Message, Status, Owners
  <2>5. Heard' = HeardIn(agentEventQueue')
    BY <2>4 DEF Heard, HeardIn
  <2>6. /\ steeringMessages' = RemoveFirst(steeringMessages, t)
        /\ followUpMessages' = IF steeringMessages' # steeringMessages THEN followUpMessages
                               ELSE RemoveFirst(followUpMessages, t)
    BY <1>1, <1>5 DEF Shown
  <2> HIDE DEF e, t
  <2>7. Leaving \subseteq Leaving' \cup {t}
    <3>1. \A u \in Heard : u = t \/ u \in Heard'
      BY <1>3, <2>1, <2>5 DEF User, Heard, HeardIn
    <3>2. missed' = missed
      BY <1>1
    <3> QED BY <2>4, <3>1, <3>2 DEF Leaving
  <2>8. /\ Mirrors(RemoveFirst(steeringMessages, t), steeringQueue, Leaving')
        /\ \A u : Holds(RemoveFirst(steeringMessages, t), u) => Holds(steeringMessages, u) /\ u # t
        /\ RemoveFirst(steeringMessages, t) = steeringMessages <=> ~Holds(steeringMessages, t)
    <3>1. Mirrors(steeringMessages, steeringQueue, Leaving)
      BY DEF MirrorInv
    <3> QED BY <2>1, <2>3, <2>7, <3>1, TextShownNoMore
  <2>9. /\ Mirrors(RemoveFirst(followUpMessages, t), followUpQueue, Leaving')
        /\ \A u : Holds(RemoveFirst(followUpMessages, t), u) => Holds(followUpMessages, u) /\ u # t
        /\ RemoveFirst(followUpMessages, t) = followUpMessages <=> ~Holds(followUpMessages, t)
    <3>1. Mirrors(followUpMessages, followUpQueue, Leaving)
      BY DEF MirrorInv
    <3> QED BY <2>1, <2>3, <2>7, <3>1, TextShownNoMore
  \* Found among the steering messages, the text is not among the follow-ups.
  <2>10. followUpMessages' = RemoveFirst(followUpMessages, t)
    <3>1. ~(Holds(steeringMessages, t) /\ Holds(followUpMessages, t))
      BY <2>1 DEF MirrorInv, TextsApart
    <3> QED BY <2>6, <2>8, <2>9, <3>1
  <2>11. /\ Mirrors(steeringMessages, steeringQueue, Leaving)'
         /\ Mirrors(followUpMessages, followUpQueue, Leaving)'
    BY <1>1, <2>4, <2>6, <2>8, <2>9, <2>10 DEF Mirrors
  <2>12. MirrorTyped' /\ JobsOfPrompts'
    BY <1>1, <1>3, <2>4 DEF MirrorInv, MirrorTyped, JobsOfPrompts
  <2>13. TextsApart'
    <3>1. \A u : /\ Holds(steeringMessages', u) => Holds(steeringMessages, u)
                 /\ Holds(followUpMessages', u) => Holds(followUpMessages, u)
      BY <2>6, <2>8, <2>9, <2>10
    <3>2. \A u \in Heard' : u \in Heard
      BY <1>3, <2>5
    <3> QED BY <1>1, <2>4, <3>1, <3>2 DEF MirrorInv, TextsApart
  <2> QED BY <2>11, <2>12, <2>13 DEF MirrorInv
<1> QED BY <1>4, <1>5

LEMMA MessageMirror == ASSUME MirrorInv, ProcessMessage PROVE MirrorInv'
BY EventTaken DEF ProcessMessage, agentVars, ghostVars

LEMMA ListenerMirror == ASSUME MirrorInv, ListenerThrows PROVE MirrorInv'
BY EventTaken DEF ListenerThrows, agentVars

LEMMA InvStep == MirrorInv /\ [Next]_vars => MirrorInv'
<1> SUFFICES ASSUME MirrorInv, [Next]_vars PROVE MirrorInv'
  OBVIOUS
<1>1. CASE SystemStep
  <2>1. ASSUME NEW o \in Owners, CompactionEnds(o) \/ CompactionFails(o) PROVE MirrorInv'
    <3>1. /\ jobs[o] # None /\ Released(o)
          /\ UNCHANGED <<steeringQueue, followUpQueue, steeringMessages, followUpMessages, missed,
                         answers, agentEventQueue>>
      BY <2>1 DEF CompactionEnds, CompactionFails, agentVars, ghostVars
    <3> QED BY <3>1, ReleasedMirror
  <2> QED BY <1>1, <2>1, AnswersMirror, ToolsEndMirror, MessageMirror, RetryMirror, EndMirror,
             BackoffMirror, TimerMirror, CompactBeginsMirror, SendPromptMirror DEF SystemStep
<1>2. CASE \E retryable \in BOOLEAN : StreamThrows(retryable)
  BY <1>2, StreamThrowsMirror
<1>5. CASE ListenerThrows
  BY <1>5, ListenerMirror
<1>3. CASE UserStep
  <2>1. CASE Abort
    <3>1. AbortEffects /\ connected' \in BOOLEAN
      BY <2>1 DEF Abort, MirrorInv, MirrorTyped
    <3> QED BY <3>1, AbortMirror
  <2>2. CASE Compact
    <3>1. AbortEffects /\ connected' \in BOOLEAN
      BY <2>2 DEF Compact
    <3> QED BY <3>1, AbortMirror
  <2> QED BY <1>3, <2>1, <2>2, PromptMirror, SteerMirror, FollowUpMirror, ClearMirror,
             BashMirror DEF UserStep
<1>4. CASE UNCHANGED vars
  <2>1. UNCHANGED <<steeringQueue, followUpQueue, steeringMessages, followUpMessages, missed,
                    answers, connected, jobs, prompts, agentEventQueue>>
    BY <1>4 DEF vars, agentVars, sessionVars, ghostVars
  <2>2. agentEventQueue' \in Seq(Event) /\ connected' \in BOOLEAN /\ DOMAIN jobs' = Owners
    BY <2>1 DEF MirrorInv, MirrorTyped
  <2> QED BY <2>1, <2>2, HeardStays, NothingChanges, QuietPrompts
<1> QED BY <1>1, <1>2, <1>3, <1>4, <1>5 DEF Next

\* The steering and follow-up texts the session displays are the agent's queues, behind texts
\* the loop has taken and whose event the session has not processed: for any number of
\* texts, retries, compactions and calls, however late the session is.
THEOREM MirrorAlwaysShowsQueue == Spec => []MirrorShowsQueue
<1>1. Spec => []MirrorInv
  BY InvInit, InvStep, PTL DEF Spec
<1> QED BY <1>1, InvShows, PTL

-----------------------------------------------------------------------------
(* Types.  What MirrorInv says nothing of.                                   *)

Reasons == {"overflow", "threshold", "manual"}
Job == [kind : Reasons, keep : Nat \ {0}]

SessionTyped ==
  /\ run \in {"none", "turn", "tools"} /\ aborted \in BOOLEAN
  /\ messages \in Seq(Message) /\ entries \in Seq(Entry)
  /\ pendingBashMessages \in Seq(Message)
  /\ lastAssistantMessage \in Answer \cup {None} /\ backoff \in Answer \cup {None}
  /\ retryAttempt \in 0..MaxRetries /\ retryPromise \in BOOLEAN
  /\ overflowRecoveryAttempted \in BOOLEAN /\ timers \in Nat
  /\ jobs \in [Owners -> {None} \cup Job]
  /\ compacting \in {"no", "aborting", "summarising"}
  /\ removed \subseteq Nat /\ script \in Scripts
  /\ calls \in Nat /\ throws \in Nat /\ budget \in Int /\ outOfStep \in BOOLEAN

LEMMA Rigid ==
  /\ Message' = Message /\ Entry' = Entry /\ Answer' = Answer /\ Job' = Job
  /\ Owners' = Owners /\ Texts' = Texts /\ None' = None
BY DEF Message, Entry, Answer, Job, Reasons, Owners, Texts, None, CompactionEntries, Summary,
       AllStops

LEMMA Kinds ==
  /\ \A m \in Message : m.kind # "compaction" /\ m # None
  /\ \A m \in Message : m.kind = "assistant" => m \in Answer
  /\ \A m \in Answer : m \in Message /\ m.kind = "assistant" /\ m.id \in Nat
                       /\ m.stop \in AllStops \cup {"aborted"}
  /\ \A e \in Entry : e \notin CompactionEntries => e \in Message
  /\ \A e \in Entry : e.kind = "compaction" => e.keep \in Nat \ {0} /\ e.at \in Nat
  /\ \A e \in Entry : e.kind = "compaction" <=> e \in CompactionEntries
  /\ Summary \in Message /\ None.kind = "none"
BY DEF Message, Answer, None, Entry, CompactionEntries, Summary

\* Parts of lists, and lists put together.
LEMMA PartOf ==
  ASSUME NEW S, NEW s \in Seq(S), NEW a \in Nat, NEW b \in Int, a > 0, b <= Len(s)
  PROVE  SubSeq(s, a, b) \in Seq(S)
<1>1. \A i \in a..b : s[i] \in S
  BY LenProperties, ElementOfSeq
<1>2. a \in Int
  OBVIOUS
<1> QED BY <1>1, <1>2, SubSeqProperties

LEMMA FrontOf ==
  ASSUME NEW S, NEW s \in Seq(S)
  PROVE  /\ Front(s) \in Seq(S)
         /\ s # <<>> => Last(s) \in S /\ Len(s) \in 1..Len(s)
<1>1. Len(s) \in Nat /\ 1 \in Nat /\ Len(s) - 1 \in Int /\ 1 > 0 /\ Len(s) - 1 <= Len(s)
  BY LenProperties
<1>2. Front(s) \in Seq(S)
  BY <1>1, PartOf DEF Front
<1>3. s # <<>> => Len(s) # 0
  BY EmptySeq
<1> QED BY <1>1, <1>2, <1>3, ElementOfSeq DEF Last

LEMMA MessagesJoin ==
  ASSUME NEW a \in Seq(Message), NEW b \in Seq(Message) PROVE a \o b \in Seq(Message)
BY ConcatProperties

LEMMA MessageAlone == ASSUME NEW e \in Message PROVE <<e>> \in Seq(Message)
OBVIOUS

LEMMA EntriesJoin ==
  ASSUME NEW a \in Seq(Entry), NEW b \in Seq(Message) PROVE a \o b \in Seq(Entry)
<1>1. Message \subseteq Entry
  BY DEF Entry
<1>2. b \in Seq(Entry)
  BY <1>1, SeqMonotonic
<1> QED BY <1>2, ConcatProperties

\* Where a compaction may cut is an entry.
LEMMA CutsAreEntries ==
  ASSUME NEW es \in Seq(Entry) PROVE CutPoints(es) \subseteq Nat \ {0}
<1> DEFINE c == Compactions(es)
<1>1. Len(es) \in Nat /\ c \subseteq 1..Len(es)
  BY LenProperties DEF Compactions
<1>2. ASSUME c # {} PROVE es[Max(c)].keep \in Nat \ {0}
  <2>1. Max(c) \in c
    BY <1>1, <1>2, GreatestExists
  <2>2. es[Max(c)] \in Entry /\ es[Max(c)].kind = "compaction"
    BY <1>1, <2>1, ElementOfSeq DEF Compactions
  <2> QED BY <2>2, Kinds
<1> QED BY <1>1, <1>2 DEF CutPoints

\* The messages of a session whose last entry is a compaction: never empty.
LEMMA ContextAfter ==
  ASSUME NEW es \in Seq(Entry), NEW e \in CompactionEntries
  PROVE  LET n == Len(es) + 1
             context == Context(Append(es, e))
         IN /\ Append(es, e) \in Seq(Entry) /\ Compactions(Append(es, e)) # {}
            /\ Max(Compactions(Append(es, e))) = n
            /\ Append(es, e)[n] = e
            /\ context = <<Summary>> \o Without(SubSeq(Append(es, e), e.keep, n - 1), CompactionEntries)
                           \o SubSeq(Append(es, e), n + 1, n)
            /\ context \in Seq(Message) /\ context # <<>>
<1> DEFINE n == Len(es) + 1
           all == Append(es, e)
           kept == SubSeq(all, e.keep, n - 1)
           left == Without(kept, CompactionEntries)
           rest == SubSeq(all, n + 1, n)
           first == <<Summary>>
<1>1. e \in Entry /\ e.keep \in Nat /\ e.keep > 0 /\ e.kind = "compaction"
  BY DEF Entry, CompactionEntries
<1>2. /\ all \in Seq(Entry) /\ Len(all) = n /\ n \in Nat /\ Len(es) \in Nat
      /\ all[n] = e /\ DOMAIN all = 1..n
  BY <1>1, AppendProperties, LenProperties
<1> HIDE DEF all
<1>3. n \in Compactions(all) /\ Compactions(all) \subseteq 1..n
  BY <1>1, <1>2 DEF Compactions
<1>4. Max(Compactions(all)) = n
  <2>1. \A x \in Compactions(all) : n >= x /\ x \in Int
    BY <1>2, <1>3
  <2>2. \A y \in Compactions(all) : (\A x \in Compactions(all) : y >= x) => y = n
    BY <1>2, <1>3, <2>1
  <2> HIDE DEF n
  <2> QED BY <1>3, <2>1, <2>2 DEF Max
<1>5. Context(all) = first \o left \o rest
  <2>1. Compactions(all) # {} /\ Len(all) = n /\ all[n].keep = e.keep
    BY <1>2, <1>3
  <2> QED BY <1>4, <2>1 DEF Context
<1>6. kept \in Seq(Entry) /\ rest \in Seq(Entry) /\ rest = <<>>
  <2>1. kept \in Seq(Entry)
    BY <1>1, <1>2, PartOf
  <2>2. rest \in Seq(Entry)
    BY <1>2, PartOf
  <2>3. \A i \in (n + 1)..n : all[i] \in Entry
    BY <1>2
  <2>4. Len(rest) = IF n + 1 <= n THEN n - (n + 1) + 1 ELSE 0
    BY <1>2, <2>3, SubSeqProperties
  <2> QED BY <1>2, <2>1, <2>2, <2>4, EmptySeq
<1>7. left \in Seq(Entry \ CompactionEntries)
  BY <1>6, WithoutType
<1> HIDE DEF kept, left
<1>8. left \in Seq(Message)
  <2>1. Entry \ CompactionEntries \subseteq Message
    BY Kinds
  <2> QED BY <1>7, <2>1, SeqMonotonic
<1>9. first \in Seq(Message) /\ Len(first) = 1
  BY Kinds
<1>10. rest \in Seq(Message) /\ Len(rest) = 0
  BY <1>6, EmptySeq
<1> HIDE DEF rest, first
<1>11. first \o left \in Seq(Message) /\ Len(first \o left) = 1 + Len(left) /\ Len(left) \in Nat
  BY <1>8, <1>9, ConcatProperties, LenProperties
<1>12. first \o left \o rest \in Seq(Message) /\ Len(first \o left \o rest) = Len(first \o left) + Len(rest)
  BY <1>10, <1>11, ConcatProperties
<1>13. first \o left \o rest # <<>>
  BY <1>10, <1>11, <1>12, EmptySeq
<1> QED BY <1>2, <1>3, <1>4, <1>5, <1>12, <1>13 DEF all, first, left, kept, rest, n

LEMMA ReasonsAre ==
  ASSUME NEW o, NEW m, NEW ms, NEW reason \in CompactionReasons(o, m, ms)
  PROVE  /\ reason \in {"no", "overflow", "threshold"}
         /\ reason = "overflow"
              => /\ m # None /\ m.kind = "assistant" /\ m.stop \in {"overflow", "silent"}
                 /\ ~overflowRecoveryAttempted
BY DEF CompactionReasons

\* What the checks for a compaction do to the types.
LEMMA CheckTyped ==
  ASSUME SessionTyped, NEW o \in Owners, NEW m \in Message \cup {None},
         NEW ms \in Seq(Message), NEW es \in Seq(Entry),
         CheckCompaction(o, m, ms, es, removed)
  PROVE  /\ messages' \in Seq(Message) /\ removed' \subseteq Nat
         /\ overflowRecoveryAttempted' \in BOOLEAN /\ jobs' \in [Owners -> {None} \cup Job]
<1> PICK reason \in CompactionReasons(o, m, ms) :
       /\ overflowRecoveryAttempted' = (overflowRecoveryAttempted \/ reason = "overflow")
       /\ messages' = IF reason = "overflow" THEN WithoutLastAnswer(ms) ELSE ms
       /\ removed' = IF reason = "overflow" /\ ms # <<>> /\ Last(ms) = m
                     THEN removed \cup {m.id} ELSE removed
       /\ IF reason = "no" \/ CutPoints(es) = {}
          THEN UNCHANGED jobs
          ELSE \E keep \in CutPoints(es) : jobs' = [jobs EXCEPT ![o] = [kind |-> reason, keep |-> keep]]
  BY DEF CheckCompaction
<1>1. /\ reason \in {"no", "overflow", "threshold"}
      /\ reason = "overflow" => m # None /\ m.kind = "assistant"
  BY ReasonsAre
<1>2. WithoutLastAnswer(ms) \in Seq(Message)
  BY FrontOf DEF WithoutLastAnswer
<1>3. reason = "overflow" => m.id \in Nat
  BY <1>1, Kinds
<1>4. CutPoints(es) \subseteq Nat \ {0}
  BY CutsAreEntries
<1>5. /\ overflowRecoveryAttempted' = (overflowRecoveryAttempted \/ reason = "overflow")
      /\ messages' = IF reason = "overflow" THEN WithoutLastAnswer(ms) ELSE ms
      /\ removed' = removed \/ (reason = "overflow" /\ removed' = removed \cup {m.id})
      /\ \/ UNCHANGED jobs
         \/ /\ reason # "no"
            /\ \E keep \in CutPoints(es) : jobs' = [jobs EXCEPT ![o] = [kind |-> reason, keep |-> keep]]
  OBVIOUS
<1>6. jobs' \in [Owners -> {None} \cup Job]
  <2>1. jobs \in [Owners -> {None} \cup Job]
    BY DEF SessionTyped
  <2>2. CASE UNCHANGED jobs
    BY <2>1, <2>2
  <2>3. ASSUME NEW keep \in CutPoints(es), reason # "no",
               jobs' = [jobs EXCEPT ![o] = [kind |-> reason, keep |-> keep]]
        PROVE  jobs' \in [Owners -> {None} \cup Job]
    <3>1. [kind |-> reason, keep |-> keep] \in Job
      BY <1>1, <1>4, <2>3 DEF Job, Reasons
    <3> QED BY <2>1, <2>3, <3>1
  <2> QED BY <1>5, <2>2, <2>3
<1>7. overflowRecoveryAttempted' \in BOOLEAN
  BY <1>5
<1>8. removed' \subseteq Nat
  BY <1>3, <1>5 DEF SessionTyped
<1> QED BY <1>2, <1>5, <1>6, <1>7, <1>8

-----------------------------------------------------------------------------
(* The failures still to expect.                                             *)

Continuing == {o \in Owners : Continues(o)}

LEMMA ContinuingFinite == IsFiniteSet(Continuing) /\ Cardinality(Continuing) \in Nat
<1>1. IsFiniteSet(Owners)
  BY SessionAssumption, FS_Interval DEF Owners
<1>2. Continuing \subseteq Owners
  BY DEF Continuing
<1> QED BY <1>1, <1>2, FS_Subset, FS_CardinalityType

LEMMA BudgetTyped ==
  ASSUME timers \in Nat, NEW ms
  PROVE  Continuations(ms) \in Nat /\ Budget(ms) \in Int
<1> DEFINE n == Cardinality(Continuing)
           c == Continuations(ms)
<1>1. n \in Nat
  BY ContinuingFinite
<1>2. c = 1 + timers + n + (IF backoff = None THEN 0 ELSE 1) + (IF Due(ms) THEN 1 ELSE 0)
  BY DEF Continuations, Continuing
<1> HIDE DEF n, c
<1>3. c \in Nat
  BY <1>1, <1>2
<1>4. (MaxRetries + 1) * c + 1 \in Int
  BY <1>3, SessionAssumption
<1> QED BY <1>3, <1>4 DEF Budget, c

-----------------------------------------------------------------------------
(* Every operation keeps the types.                                          *)

\* A step that does not touch messages, entries and what else has a structure.
LEMMA DrainedTyped ==
  ASSUME NEW q \in Seq(Texts)
  PROVE  Drained(q) \in Seq(Message)
<1>1. CASE q = <<>>
  BY <1>1, EmptySeq DEF Drained
<1>2. CASE q # <<>>
  <2>1. User(Head(q)) \in Message
    BY <1>2, HeadTailProperties DEF User, Message
  <2> QED BY <1>2, <2>1 DEF Drained
<1> QED BY <1>1, <1>2

LEMMA StartTyped ==
  ASSUME SessionTyped, NEW ms \in Seq(Message), NEW skip \in BOOLEAN, NEW sq \in Seq(Texts), NEW fq,
         StartRun(ms, skip, sq, fq)
  PROVE  /\ run' = "turn" /\ aborted' = FALSE /\ messages' \in Seq(Message)
         /\ budget' \in Int /\ outOfStep' \in BOOLEAN
<1> DEFINE polled == IF skip THEN <<>> ELSE Drained(sq)
           announced == ms \o polled
<1>1. polled \in Seq(Message)
  BY DrainedTyped, EmptySeq
<1>2. /\ run' = "turn" /\ aborted' = FALSE /\ messages' = messages \o announced
      /\ budget' = IF announced = <<>> THEN budget ELSE Budget(messages)
      /\ outOfStep' = (outOfStep \/ agentEventQueue # <<>>)
  BY DEF StartRun
<1> HIDE DEF polled
<1>3. announced \in Seq(Message)
  BY <1>1, MessagesJoin
<1> HIDE DEF announced
<1>4. messages \o announced \in Seq(Message)
  BY <1>3, MessagesJoin DEF SessionTyped
<1>5. Budget(messages) \in Int
  BY BudgetTyped DEF SessionTyped
<1>6. outOfStep' \in BOOLEAN
  BY <1>2
<1> QED BY <1>2, <1>4, <1>5, <1>6 DEF SessionTyped

LEMMA TimerTyped == ASSUME SessionTyped, MirrorInv, TimerFires PROVE SessionTyped'
<1>1. /\ timers > 0 /\ timers' = timers - 1
      /\ UNCHANGED <<script, lastAssistantMessage, retryAttempt, retryPromise, backoff,
                     overflowRecoveryAttempted, jobs, compacting, pendingBashMessages, entries,
                     calls, throws, removed>>
  BY DEF TimerFires
<1>2. steeringQueue \in Seq(Texts) /\ followUpQueue \in Seq(Texts)
  BY QueuesTyped
<1>3. \/ UNCHANGED <<run, aborted, messages, budget, outOfStep>>
      \/ /\ run' = "turn" /\ aborted' = FALSE /\ messages' \in Seq(Message)
         /\ budget' \in Int /\ outOfStep' \in BOOLEAN
  <2>1. CASE StartRun(<<>>, FALSE, steeringQueue, followUpQueue)
    <3> DEFINE none == <<>>
    <3>1. none \in Seq(Message) /\ StartRun(none, FALSE, steeringQueue, followUpQueue)
      BY <2>1, EmptySeq
    <3> HIDE DEF none
    <3> QED BY <1>2, <3>1, StartTyped
  <2>2. CASE /\ steeringQueue # <<>>
             /\ StartRun(Drained(steeringQueue), TRUE, Tail(steeringQueue), followUpQueue)
    <3> DEFINE ms == Drained(steeringQueue)
               rest == Tail(steeringQueue)
    <3>1. ms \in Seq(Message) /\ rest \in Seq(Texts) /\ StartRun(ms, TRUE, rest, followUpQueue)
      BY <1>2, <2>2, DrainedTyped, HeadTailProperties
    <3> HIDE DEF ms, rest
    <3> QED BY <3>1, StartTyped
  <2>3. CASE StartRun(Drained(followUpQueue), FALSE, steeringQueue, Tail(followUpQueue))
    <3> DEFINE ms == Drained(followUpQueue)
               rest == Tail(followUpQueue)
    <3>1. ms \in Seq(Message) /\ StartRun(ms, FALSE, steeringQueue, rest)
      BY <1>2, <2>3, DrainedTyped
    <3> HIDE DEF ms, rest
    <3> QED BY <1>2, <3>1, StartTyped
  <2>4. CASE UNCHANGED <<agentVars, agentEventQueue, missed, budget, outOfStep>>
    BY <2>4 DEF agentVars
  <2> QED BY <2>1, <2>2, <2>3, <2>4 DEF TimerFires
<1>4. timers' \in Nat
  BY <1>1 DEF SessionTyped
<1> QED BY <1>1, <1>3, <1>4, Rigid DEF SessionTyped

LEMMA SendPromptTyped ==
  ASSUME SessionTyped, MirrorInv, NEW t \in Texts, SendPrompt(t)
  PROVE  SessionTyped'
<1>1. UNCHANGED <<script, lastAssistantMessage, retryAttempt, retryPromise, backoff,
                  overflowRecoveryAttempted, jobs, compacting, pendingBashMessages, entries,
                  calls, throws, removed, timers>>
  BY DEF SendPrompt
<1>2. steeringQueue \in Seq(Texts) /\ followUpQueue \in Seq(Texts)
  BY QueuesTyped
<1>3. \/ UNCHANGED <<run, aborted, messages, budget, outOfStep>>
      \/ /\ run' = "turn" /\ aborted' = FALSE /\ messages' \in Seq(Message)
         /\ budget' \in Int /\ outOfStep' \in BOOLEAN
  <2>1. CASE run = "none"
    <3> DEFINE ms == <<User(t)>>
    <3>1. ms \in Seq(Message) /\ StartRun(ms, FALSE, steeringQueue, followUpQueue)
      <4>1. User(t) \in Message
        BY DEF User, Message
      <4> QED BY <2>1, <4>1, MessageAlone DEF SendPrompt
    <3> HIDE DEF ms
    <3> QED BY <1>2, <3>1, StartTyped
  <2>2. CASE run # "none"
    BY <2>2 DEF SendPrompt, agentVars
  <2> QED BY <2>1, <2>2
<1> QED BY <1>1, <1>3, Rigid DEF SessionTyped

LEMMA AnswersTyped ==
  ASSUME SessionTyped, MirrorInv, NEW stop \in AllStops \cup {"aborted"}, Answers(stop)
  PROVE  SessionTyped'
<1> DEFINE msg == Assistant(answers + 1, stop)
           one == <<msg>>
           poll == IF steeringQueue # <<>> THEN steeringQueue ELSE followUpQueue
           polled == IF stop \notin Ended THEN <<>> ELSE Drained(poll)
<1>1. /\ UNCHANGED <<script, lastAssistantMessage, retryAttempt, backoff, overflowRecoveryAttempted,
                     timers, jobs, compacting, pendingBashMessages, entries, calls, throws,
                     removed, outOfStep>>
      /\ messages' = messages \o one \o polled
      /\ budget' = IF IsError(msg) THEN budget - 1 ELSE Budget(messages')
      /\ \/ /\ run' = IF stop = "toolUse" THEN "tools" ELSE "turn"
            /\ UNCHANGED <<aborted, retryPromise>>
         \/ EndRun(one, stop = "retryable")
  BY DEF Answers
<1>2. msg \in Message
  BY DEF Assistant, Message, Answer, MirrorInv, MirrorTyped
<1>3. polled \in Seq(Message)
  BY QueuesTyped, DrainedTyped, EmptySeq
<1>4. one \in Seq(Message)
  BY <1>2, MessageAlone
<1> HIDE DEF polled, msg, one
<1>5. messages' \in Seq(Message)
  BY <1>1, <1>3, <1>4, MessagesJoin DEF SessionTyped
<1>6. budget' \in Int
  <2>1. Budget(messages') \in Int
    BY BudgetTyped DEF SessionTyped
  <2> QED BY <1>1, <2>1 DEF SessionTyped
<1>7. run' \in {"none", "turn", "tools"} /\ aborted' \in BOOLEAN /\ retryPromise' \in BOOLEAN
  <2>1. CASE EndRun(one, stop = "retryable")
    <3>1. run' = "none" /\ aborted' = FALSE
          /\ retryPromise' = (retryPromise \/ (connected /\ stop = "retryable"))
      BY <2>1 DEF EndRun
    <3> QED BY <3>1
  <2>2. CASE ~EndRun(one, stop = "retryable")
    BY <1>1, <2>2 DEF SessionTyped
  <2> QED BY <2>1, <2>2
<1> QED BY <1>1, <1>5, <1>6, <1>7, Rigid DEF SessionTyped

LEMMA ToolsEndTyped == ASSUME SessionTyped, MirrorInv, ToolsEnd PROVE SessionTyped'
<1> DEFINE one == <<ToolResult(answers)>>
           polled == Drained(steeringQueue)
           announced == one \o polled
<1>1. /\ run' = "turn" /\ messages' = messages \o announced /\ budget' = Budget(messages)
      /\ UNCHANGED <<script, aborted, retryPromise, lastAssistantMessage, retryAttempt, backoff,
                     overflowRecoveryAttempted, timers, jobs, compacting, pendingBashMessages,
                     entries, calls, throws, removed, outOfStep>>
  BY DEF ToolsEnd
<1>2. one \in Seq(Message) /\ polled \in Seq(Message)
  <2>1. ToolResult(answers) \in Message
    BY DEF ToolResult, Message, MirrorInv, MirrorTyped
  <2> QED BY <2>1, MessageAlone, QueuesTyped, DrainedTyped
<1> HIDE DEF one, polled
<1>3. announced \in Seq(Message)
  BY <1>2, MessagesJoin
<1> HIDE DEF announced
<1>4. messages' \in Seq(Message)
  BY <1>1, <1>3, MessagesJoin DEF SessionTyped
<1>5. budget' \in Int
  BY <1>1, BudgetTyped DEF SessionTyped
<1> QED BY <1>1, <1>4, <1>5, Rigid DEF SessionTyped

LEMMA StreamThrowsTyped ==
  ASSUME SessionTyped, MirrorInv, NEW retryable \in BOOLEAN, StreamThrows(retryable)
  PROVE  SessionTyped'
<1>1. /\ throws' = throws + 1 /\ messages' = Append(messages, Failure(throws'))
      /\ EndRun(<<>>, retryable /\ ~aborted)
      /\ UNCHANGED <<script, lastAssistantMessage, retryAttempt, backoff, overflowRecoveryAttempted,
                     timers, jobs, compacting, pendingBashMessages, entries, calls, removed,
                     budget, outOfStep>>
  BY DEF StreamThrows
<1>2. throws' \in Nat /\ Failure(throws') \in Message
  BY <1>1 DEF SessionTyped, Failure, Message
<1>3. messages' \in Seq(Message)
  BY <1>1, <1>2, AppendProperties DEF SessionTyped
<1>4. run' = "none" /\ aborted' = FALSE /\ retryPromise' \in BOOLEAN
  BY <1>1 DEF EndRun
<1> QED BY <1>1, <1>2, <1>3, <1>4, Rigid DEF SessionTyped

LEMMA ReleasedTyped ==
  ASSUME SessionTyped, NEW o \in Owners, Released(o)
  PROVE  jobs' \in [Owners -> {None} \cup Job] /\ compacting' \in {"no", "aborting", "summarising"}
<1>1. jobs' = [jobs EXCEPT ![o] = None] /\ compacting' = IF o = Manual THEN "no" ELSE compacting
  BY DEF Released
<1> QED BY <1>1 DEF SessionTyped

LEMMA CompactionEndsTyped ==
  ASSUME SessionTyped, MirrorInv, NEW o \in Owners, CompactionEnds(o) PROVE SessionTyped'
<1> DEFINE e == CompactionEntry(jobs[o].keep, answers + IF run = "turn" THEN 1 ELSE 0)
           context == Context(entries')
           retried == jobs[o].kind = "overflow" /\ IsError(Last(context))
<1>1. /\ jobs[o] # None /\ Released(o) /\ entries' = Append(entries, e)
      /\ messages' = IF retried THEN Front(context) ELSE context
      /\ removed' = IF retried THEN {Last(context).id} ELSE {}
      /\ timers' = timers \/ timers' = timers + 1
      /\ outOfStep' = (outOfStep \/ agentEventQueue # <<>>)
      /\ UNCHANGED <<script, run, aborted, lastAssistantMessage, retryAttempt, retryPromise,
                     backoff, overflowRecoveryAttempted, pendingBashMessages, calls, throws, budget>>
  BY DEF CompactionEnds
<1>2. jobs[o] \in Job
  BY <1>1 DEF SessionTyped
<1>3. e \in CompactionEntries
  BY <1>2 DEF CompactionEntry, CompactionEntries, Job, MirrorInv, MirrorTyped
<1> HIDE DEF e
<1>4. entries' \in Seq(Entry) /\ context \in Seq(Message) /\ context # <<>>
  BY <1>1, <1>3, ContextAfter DEF SessionTyped
<1> HIDE DEF context
<1>5. Front(context) \in Seq(Message) /\ Last(context) \in Message
  BY <1>4, FrontOf
<1>6. retried => Last(context).id \in Nat
  BY <1>5, Kinds DEF IsError
<1> HIDE DEF retried
<1>7. messages' \in Seq(Message)
  BY <1>1, <1>4, <1>5
<1>8. removed' \subseteq Nat
  BY <1>1, <1>6
<1>9. timers' \in Nat
  BY <1>1 DEF SessionTyped
<1>10. outOfStep' \in BOOLEAN
  BY <1>1
<1> QED BY <1>1, <1>4, <1>7, <1>8, <1>9, <1>10, ReleasedTyped, Rigid DEF SessionTyped

LEMMA CompactionFailsTyped ==
  ASSUME SessionTyped, NEW o \in Owners, CompactionFails(o) PROVE SessionTyped'
<1>1. /\ Released(o)
      /\ UNCHANGED <<run, aborted, messages, lastAssistantMessage, retryAttempt, retryPromise,
                     backoff, overflowRecoveryAttempted, timers, pendingBashMessages, entries,
                     script, calls, throws, removed, budget, outOfStep>>
  BY DEF CompactionFails, agentVars, ghostVars
<1> QED BY <1>1, ReleasedTyped, Rigid DEF SessionTyped

LEMMA MessageTyped == ASSUME SessionTyped, MirrorInv, ProcessMessage PROVE SessionTyped'
<1> DEFINE e == Head(agentEventQueue)
           success == e.kind = "assistant" /\ ~IsError(e)
<1>1. /\ agentEventQueue # <<>> /\ e # AgentEnd /\ entries' = Append(entries, e)
      /\ lastAssistantMessage' = IF e.kind = "assistant" THEN e ELSE lastAssistantMessage
      /\ overflowRecoveryAttempted' = (overflowRecoveryAttempted /\ e.kind # "user" /\ ~success)
      /\ retryAttempt' = IF success THEN 0 ELSE retryAttempt
      /\ UNCHANGED <<run, aborted, messages, retryPromise, backoff, timers, jobs, compacting,
                     pendingBashMessages, script, calls, throws, removed, budget, outOfStep>>
  BY DEF ProcessMessage, agentVars, ghostVars
<1>2. e \in Message
  <2>1. agentEventQueue \in Seq(Event)
    BY DEF MirrorInv, MirrorTyped
  <2>2. e \in Event
    BY <1>1, <2>1, HeardLess
  <2> QED BY <1>1, <2>2 DEF Event
<1> HIDE DEF e, success
<1>3. entries' \in Seq(Entry)
  BY <1>1, <1>2, AppendProperties DEF SessionTyped, Entry
<1>4. lastAssistantMessage' \in Answer \cup {None}
  BY <1>1, <1>2, Kinds DEF SessionTyped
<1>5. overflowRecoveryAttempted' \in BOOLEAN
  BY <1>1
<1>6. retryAttempt' \in 0..MaxRetries
  BY <1>1, SessionAssumption DEF SessionTyped
<1> QED BY <1>1, <1>3, <1>4, <1>5, <1>6, Rigid DEF SessionTyped

LEMMA ListenerTyped == ASSUME SessionTyped, ListenerThrows PROVE SessionTyped'
<1>1. /\ throws' = throws + 1 /\ outOfStep' = TRUE
      /\ overflowRecoveryAttempted' \in BOOLEAN
      /\ UNCHANGED <<run, aborted, messages, lastAssistantMessage, retryAttempt, retryPromise,
                     backoff, timers, jobs, compacting, pendingBashMessages, entries, script,
                     calls, removed, budget>>
  BY DEF ListenerThrows, agentVars
<1>2. throws' \in Nat
  BY <1>1 DEF SessionTyped
<1> QED BY <1>1, <1>2, Rigid DEF SessionTyped

LEMMA ProcessRetryTyped == ASSUME SessionTyped, ProcessRetry PROVE SessionTyped'
<1>1. /\ lastAssistantMessage # None /\ retryAttempt < MaxRetries
      /\ lastAssistantMessage' = None /\ retryPromise' = TRUE /\ retryAttempt' = retryAttempt + 1
      /\ messages' = WithoutLastAnswer(messages)
      /\ removed' = removed \cup {lastAssistantMessage.id} /\ backoff' = lastAssistantMessage
      /\ UNCHANGED <<run, aborted, overflowRecoveryAttempted, timers, jobs, compacting,
                     pendingBashMessages, entries, script, calls, throws, budget, outOfStep>>
  BY DEF ProcessRetry, MayRetry
<1>2. lastAssistantMessage \in Answer /\ lastAssistantMessage.id \in Nat
  BY <1>1, Kinds DEF SessionTyped
<1>3. messages' \in Seq(Message)
  BY <1>1, FrontOf DEF WithoutLastAnswer, SessionTyped
<1>4. retryAttempt' \in 0..MaxRetries
  BY <1>1, SessionAssumption DEF SessionTyped
<1>5. removed' \subseteq Nat
  BY <1>1, <1>2 DEF SessionTyped
<1> QED BY <1>1, <1>2, <1>3, <1>4, <1>5, Rigid DEF SessionTyped

LEMMA ProcessEndTyped == ASSUME SessionTyped, ProcessEnd PROVE SessionTyped'
<1>1. /\ lastAssistantMessage' = None
      /\ UNCHANGED <<run, aborted, backoff, timers, compacting, pendingBashMessages, entries,
                     script, calls, throws, budget, outOfStep>>
      /\ \/ UNCHANGED <<messages, retryAttempt, retryPromise, overflowRecoveryAttempted, jobs,
                        removed>>
         \/ /\ retryAttempt' \in {0, retryAttempt} /\ retryPromise' = FALSE
            /\ CheckCompaction(Handler, lastAssistantMessage, messages, entries, removed)
  BY DEF ProcessEnd, ResolveRetry
<1>2. lastAssistantMessage \in Message \cup {None}
  BY Kinds DEF SessionTyped
<1>3. CASE UNCHANGED <<messages, retryAttempt, retryPromise, overflowRecoveryAttempted, jobs,
                       removed>>
  BY <1>1, <1>3, Rigid DEF SessionTyped
<1>4. CASE /\ retryAttempt' \in {0, retryAttempt} /\ retryPromise' = FALSE
           /\ CheckCompaction(Handler, lastAssistantMessage, messages, entries, removed)
  <2>1. messages \in Seq(Message) /\ entries \in Seq(Entry)
    BY DEF SessionTyped
  <2>2. /\ messages' \in Seq(Message) /\ removed' \subseteq Nat
        /\ overflowRecoveryAttempted' \in BOOLEAN /\ jobs' \in [Owners -> {None} \cup Job]
    BY <1>2, <1>4, <2>1, Who, CheckTyped
  <2>3. retryAttempt' \in 0..MaxRetries
    BY <1>4, SessionAssumption DEF SessionTyped
  <2> QED BY <1>1, <1>4, <2>2, <2>3, Rigid DEF SessionTyped
<1> QED BY <1>1, <1>3, <1>4

LEMMA BackoffTyped == ASSUME SessionTyped, BackoffEnds PROVE SessionTyped'
<1>1. /\ backoff' = None /\ timers' = timers + 1
      /\ UNCHANGED <<run, aborted, messages, lastAssistantMessage, retryAttempt, retryPromise,
                     overflowRecoveryAttempted, jobs, compacting, pendingBashMessages, entries,
                     script, calls, throws, removed, budget, outOfStep>>
  BY DEF BackoffEnds, agentVars, ghostVars
<1>2. timers' \in Nat
  BY <1>1 DEF SessionTyped
<1> QED BY <1>1, <1>2, Rigid DEF SessionTyped

LEMMA AbortTyped ==
  ASSUME SessionTyped, AbortEffects, compacting' \in {"no", "aborting", "summarising"}
  PROVE  SessionTyped'
<1>1. /\ aborted' = (run # "none") /\ retryPromise' = FALSE /\ backoff' = None
      /\ calls' = calls + 1
      /\ UNCHANGED <<script, run, lastAssistantMessage, timers, pendingBashMessages, entries,
                     throws, budget, outOfStep>>
      /\ \/ UNCHANGED <<messages, retryAttempt, overflowRecoveryAttempted, jobs, removed>>
         \/ retryAttempt' = 0 /\ CheckCompaction(Handler, backoff, messages, entries, removed)
  BY DEF AbortEffects, ResolveRetry
<1>2. /\ messages' \in Seq(Message) /\ removed' \subseteq Nat
      /\ overflowRecoveryAttempted' \in BOOLEAN /\ jobs' \in [Owners -> {None} \cup Job]
      /\ retryAttempt' \in 0..MaxRetries
  <2>1. CASE UNCHANGED <<messages, retryAttempt, overflowRecoveryAttempted, jobs, removed>>
    BY <2>1 DEF SessionTyped
  <2>2. CASE retryAttempt' = 0 /\ CheckCompaction(Handler, backoff, messages, entries, removed)
    <3>1. /\ messages \in Seq(Message) /\ entries \in Seq(Entry)
          /\ backoff \in Message \cup {None}
      BY Kinds DEF SessionTyped
    <3>2. retryAttempt' \in 0..MaxRetries
      BY <2>2, SessionAssumption
    <3> QED BY <2>2, <3>1, <3>2, Who, CheckTyped
  <2> QED BY <1>1, <2>1, <2>2
<1>3. aborted' \in BOOLEAN /\ calls' \in Nat
  BY <1>1 DEF SessionTyped
<1> QED BY <1>1, <1>2, <1>3, Rigid DEF SessionTyped

LEMMA CompactBeginsTyped == ASSUME SessionTyped, CompactBegins PROVE SessionTyped'
<1>1. UNCHANGED <<run, aborted, messages, lastAssistantMessage, retryAttempt, retryPromise, backoff,
                  overflowRecoveryAttempted, timers, pendingBashMessages, entries,
                  script, calls, throws, removed, budget, outOfStep>>
  BY DEF CompactBegins, agentVars, ghostVars
<1>2. jobs' \in [Owners -> {None} \cup Job] /\ compacting' \in {"no", "aborting", "summarising"}
  <2>1. CASE UNCHANGED jobs /\ compacting' = "no"
    BY <2>1 DEF SessionTyped
  <2>2. ASSUME NEW keep \in CutPoints(entries),
               jobs' = [jobs EXCEPT ![Manual] = [kind |-> "manual", keep |-> keep]]
        PROVE  jobs' \in [Owners -> {None} \cup Job]
    <3>1. keep \in Nat \ {0}
      BY CutsAreEntries DEF SessionTyped
    <3>2. [kind |-> "manual", keep |-> keep] \in Job
      BY <3>1 DEF Job, Reasons
    <3> QED BY <2>2, <3>2 DEF SessionTyped
  <2> QED BY <2>1, <2>2 DEF CompactBegins
<1> QED BY <1>1, <1>2, Rigid DEF SessionTyped

LEMMA BashTyped == ASSUME SessionTyped, RecordBash PROVE SessionTyped'
<1> DEFINE b == <<Bash(calls + 1)>>
<1>1. /\ calls' = calls + 1 /\ budget' = Budget(messages)
      /\ UNCHANGED <<script, run, aborted, lastAssistantMessage, retryAttempt, retryPromise,
                     backoff,
                     overflowRecoveryAttempted, timers, jobs, compacting, throws, removed>>
      /\ \/ pendingBashMessages' = pendingBashMessages \o b /\ UNCHANGED <<messages, entries, outOfStep>>
         \/ /\ messages' = messages \o b /\ entries' = entries \o b
            /\ outOfStep' = (outOfStep \/ agentEventQueue # <<>>)
            /\ UNCHANGED pendingBashMessages
  BY DEF RecordBash
<1>2. b \in Seq(Message) /\ calls' \in Nat
  <2>1. Bash(calls + 1) \in Message
    BY DEF Bash, Message, SessionTyped
  <2> QED BY <1>1, <2>1, MessageAlone DEF SessionTyped
<1>3. budget' \in Int
  BY <1>1, BudgetTyped DEF SessionTyped
<1> HIDE DEF b
<1>4. /\ messages \o b \in Seq(Message) /\ pendingBashMessages \o b \in Seq(Message)
      /\ entries \o b \in Seq(Entry)
  BY <1>2, MessagesJoin, EntriesJoin DEF SessionTyped
<1>5. outOfStep' \in BOOLEAN
  BY <1>1 DEF SessionTyped
<1>6. messages' \in Seq(Message) /\ pendingBashMessages' \in Seq(Message) /\ entries' \in Seq(Entry)
  BY <1>1, <1>4 DEF SessionTyped
<1> QED BY <1>1, <1>2, <1>3, <1>5, <1>6, Rigid DEF SessionTyped

LEMMA PromptTyped == ASSUME SessionTyped, NEW t \in Texts, Prompt(t) PROVE SessionTyped'
<1> DEFINE ms == messages \o pendingBashMessages
           es == entries \o pendingBashMessages
           lasts == {i \in DOMAIN ms : IsAssistant(ms[i])}
           lastAssistant == IF lasts = {} THEN None ELSE ms[Max(lasts)]
<1>1. /\ pendingBashMessages' = <<>> /\ entries' = es
      /\ CheckCompaction(t, lastAssistant, ms, es, removed)
      /\ budget' = Budget(ms) + IF jobs'[t] = None THEN 0 ELSE MaxRetries + 1
      /\ outOfStep' = (outOfStep \/ (pendingBashMessages # <<>> /\ agentEventQueue # <<>>))
      /\ UNCHANGED <<script, run, aborted, lastAssistantMessage, retryAttempt, retryPromise,
                     backoff,
                     timers, compacting, calls, throws>>
  BY DEF Prompt
<1>2. ms \in Seq(Message) /\ es \in Seq(Entry)
  BY MessagesJoin, EntriesJoin DEF SessionTyped
<1> HIDE DEF ms, es
<1>3. lastAssistant \in Message \cup {None}
  <2>1. CASE lasts # {}
    <3>1. Len(ms) \in Nat /\ lasts \subseteq 1..Len(ms)
      BY <1>2, LenProperties
    <3>2. Max(lasts) \in 1..Len(ms)
      BY <2>1, <3>1, GreatestExists
    <3> QED BY <1>2, <3>2, ElementOfSeq
  <2> QED BY <2>1
<1> HIDE DEF lastAssistant
<1>4. /\ messages' \in Seq(Message) /\ removed' \subseteq Nat
      /\ overflowRecoveryAttempted' \in BOOLEAN /\ jobs' \in [Owners -> {None} \cup Job]
  BY <1>1, <1>2, <1>3, Who, CheckTyped
<1>5. budget' \in Int
  <2> DEFINE n == Budget(ms)
  <2>1. n \in Int
    BY BudgetTyped DEF SessionTyped
  <2>2. budget' = n + IF jobs'[t] = None THEN 0 ELSE MaxRetries + 1
    BY <1>1
  <2> HIDE DEF n
  <2> QED BY <2>1, <2>2, SessionAssumption
<1>6. outOfStep' \in BOOLEAN
  BY <1>1
<1>7. pendingBashMessages' \in Seq(Message)
  BY <1>1, EmptySeq
<1> QED BY <1>1, <1>2, <1>4, <1>5, <1>6, <1>7, Rigid DEF SessionTyped

\* steer(), followUp() and clearQueue().
LEMMA QuietTyped ==
  ASSUME SessionTyped, calls' \in Nat,
         UNCHANGED <<run, aborted, messages, lastAssistantMessage, retryAttempt, retryPromise,
                     backoff,
                     overflowRecoveryAttempted, timers, jobs, compacting, pendingBashMessages,
                     entries, script, throws, removed, budget, outOfStep>>
  PROVE  SessionTyped'
BY Rigid DEF SessionTyped

LEMMA TypedStep == SessionTyped /\ MirrorInv /\ [Next]_vars => SessionTyped'
<1> SUFFICES ASSUME SessionTyped, MirrorInv, [Next]_vars PROVE SessionTyped'
  OBVIOUS
<1>1. CASE SystemStep
  BY <1>1, AnswersTyped, ToolsEndTyped, MessageTyped, ProcessRetryTyped, ProcessEndTyped,
     BackoffTyped, TimerTyped, CompactionEndsTyped, CompactionFailsTyped, CompactBeginsTyped,
     SendPromptTyped DEF SystemStep
<1>2. CASE \E retryable \in BOOLEAN : StreamThrows(retryable)
  BY <1>2, StreamThrowsTyped
<1>5. CASE ListenerThrows
  BY <1>5, ListenerTyped
<1>3. CASE UserStep
  <2>1. CASE Abort
    <3>1. AbortEffects /\ compacting' \in {"no", "aborting", "summarising"}
      BY <2>1 DEF Abort, SessionTyped
    <3> QED BY <3>1, AbortTyped
  <2>2. CASE Compact
    <3>1. AbortEffects /\ compacting' \in {"no", "aborting", "summarising"}
      BY <2>2 DEF Compact
    <3> QED BY <3>1, AbortTyped
  <2>3. ASSUME NEW t \in Texts, Steer(t) \/ FollowUp(t) PROVE SessionTyped'
    <3>1. UNCHANGED <<run, aborted, messages, lastAssistantMessage, retryAttempt, retryPromise,
                      backoff,
                      overflowRecoveryAttempted, timers, jobs, compacting, pendingBashMessages,
                      entries, script, throws, removed, budget, outOfStep, calls>>
      BY <2>3 DEF Steer, FollowUp
    <3>2. calls' \in Nat
      BY <3>1 DEF SessionTyped
    <3> QED BY <3>1, <3>2, QuietTyped
  <2>4. CASE ClearQueue
    <3>1. /\ calls' = calls + 1
          /\ UNCHANGED <<run, aborted, messages, lastAssistantMessage, retryAttempt,
                         retryPromise, backoff,
                         overflowRecoveryAttempted, timers, jobs, compacting, pendingBashMessages,
                         entries, script, throws, removed, budget, outOfStep>>
      BY <2>4 DEF ClearQueue
    <3>2. calls' \in Nat
      BY <3>1 DEF SessionTyped
    <3> QED BY <3>1, <3>2, QuietTyped
  <2> QED BY <1>3, <2>1, <2>2, <2>3, <2>4, PromptTyped, BashTyped DEF UserStep
<1>4. CASE UNCHANGED vars
  <2>1. UNCHANGED <<run, aborted, messages, lastAssistantMessage, retryAttempt, retryPromise,
                    backoff,
                    overflowRecoveryAttempted, timers, jobs, compacting, pendingBashMessages,
                    entries, script, throws, removed, budget, outOfStep, calls>>
    BY <1>4 DEF vars, agentVars, sessionVars, ghostVars
  <2>2. calls' \in Nat
    BY <2>1 DEF SessionTyped
  <2> QED BY <2>1, <2>2, QuietTyped
<1> QED BY <1>1, <1>2, <1>3, <1>4, <1>5 DEF Next

LEMMA TypedInit == Init => SessionTyped
<1> SUFFICES ASSUME Init PROVE SessionTyped
  OBVIOUS
<1>1. messages \in Seq(Message) /\ entries \in Seq(Entry) /\ pendingBashMessages \in Seq(Message)
  BY EmptySeq DEF Init
<1>2. jobs \in [Owners -> {None} \cup Job]
  BY DEF Init
<1>3. retryAttempt \in 0..MaxRetries /\ budget \in Int
  BY SessionAssumption DEF Init
<1> QED BY <1>1, <1>2, <1>3 DEF Init, SessionTyped

Marked == displaced \in BOOLEAN

LEMMA MarkStep == Marked /\ [Next]_vars => Marked'
<1> SUFFICES ASSUME displaced \in BOOLEAN, [Next]_vars PROVE displaced' \in BOOLEAN
  BY DEF Marked
<1>1. ASSUME NEW o \in Owners, CompactionEnds(o) PROVE displaced' \in BOOLEAN
  BY <1>1 DEF CompactionEnds
<1>2. CASE \A o \in Owners : ~CompactionEnds(o)
  <2>1. UNCHANGED displaced
    BY <1>2 DEF Next, SystemStep, UserStep, Answers, ToolsEnd, ProcessMessage, ProcessRetry, ProcessEnd,
                BackoffEnds, TimerFires, CompactionFails, CompactBegins, SendPrompt, StreamThrows,
                ListenerThrows, Prompt, Steer, FollowUp, ClearQueue, Abort, Compact, AbortEffects, RecordBash, vars, ghostVars
  <2> QED BY <2>1
<1> QED BY <1>1, <1>2

\* Every variable of the session has its type, and a compaction keeps from an entry that exists:
\* for any number of texts, retries, calls and any answers of the model.
THEOREM SessionTypes == Spec => []TypeOK
<1>1. SessionTyped /\ MirrorInv /\ Marked => TypeOK
  <2> SUFFICES ASSUME SessionTyped, MirrorInv, displaced \in BOOLEAN PROVE TypeOK
    BY DEF Marked
  <2>1. /\ steeringMessages \in Seq(Texts) /\ followUpMessages \in Seq(Texts)
        /\ steeringQueue \in Seq(Texts) /\ followUpQueue \in Seq(Texts)
    BY DEF MirrorInv, Mirrors
  <2>2. /\ agentEventQueue \in Seq(Message \cup {AgentEnd}) /\ answers \in Nat
        /\ connected \in BOOLEAN /\ missed \in BOOLEAN
        /\ prompts \in [Texts -> {"unsent", "queued", "returned"} \cup Waiting]
    BY DEF MirrorInv, MirrorTyped, Event, Status
  <2>3. jobs \in [Owners -> {None} \cup [kind : {"overflow", "threshold", "manual"}, keep : Nat \ {0}]]
    BY DEF SessionTyped, Job, Reasons
  <2>4. {answers, calls, throws} \subseteq Nat
    BY <2>2 DEF SessionTyped
  <2> QED BY <2>1, <2>2, <2>3, <2>4 DEF SessionTyped, TypeOK
<1>2. Spec => [](SessionTyped /\ MirrorInv)
  BY InvInit, InvStep, TypedInit, TypedStep, PTL DEF Spec
<1>3. Init => Marked
  BY DEF Init, Marked
<1>4. Spec => []Marked
  BY <1>3, MarkStep, PTL DEF Spec
<1> QED BY <1>1, <1>2, <1>4, PTL

-----------------------------------------------------------------------------
(* How many failures there can still be.                                     *)

Has(s, K) == \E i \in 1..Len(s) : s[i] \in K

Errors == {a \in Answer : a.stop \in ErrorStops}
Successes == Answer \ Errors
Users == {User(t) : t \in Texts}
Ends == {AgentEnd}

One(b) == IF b THEN 1 ELSE 0

\* What can ask the provider again: a run, its end, a timer, a retry that sleeps, a
\* compaction under way, and one that is due.
Running == One(run # "none")
Ending == One(Has(agentEventQueue, Ends))
Sleeping == One(backoff # None)
Underway == Cardinality(Continuing)
Likely == One(Due(messages) /\ jobs[Handler] = None)
Load == Running + Ending + timers + Sleeping + Underway + Likely

\* Where the counters will stand when the session has processed what it was told.
Attempts == IF Has(agentEventQueue, Successes) THEN 0 ELSE retryAttempt
Recovery == One(~overflowRecoveryAttempted \/ Has(agentEventQueue, Successes \cup Users))
Failed == One(Has(agentEventQueue, Errors) \/ lastAssistantMessage \in Errors)
Standing == Recovery - Attempts - Failed

Worst == (MaxRetries + 1) * Load + Standing

\* A run ends with agent_end, and an error just before it; the session is then done with
\* the run before.
Ordered(q) ==
  \A i \in 1..Len(q) : /\ q[i] \in Ends => i = Len(q)
                       /\ q[i] \in Errors => i = Len(q) - 1 /\ q[Len(q)] = AgentEnd
Plain(q) == ~Has(q, Ends) /\ ~Has(q, Errors)

InOrder ==
  /\ Ordered(agentEventQueue)
  /\ run # "none" => Plain(agentEventQueue) /\ lastAssistantMessage \notin Errors
  /\ lastAssistantMessage \in Errors => agentEventQueue = <<AgentEnd>>

\* A retry sleeps or a compaction of the handler is under way, not both.
OneWait ==
  /\ backoff # None => jobs[Handler] = None /\ backoff.stop = "retryable"
  /\ \A o \in Owners : jobs[o].kind = "manual" => o = Manual

\* What the session was told or keeps is no younger than the last answer.
Later == {a \in Answer : a.id > answers}
Known ==
  ~Has(entries, Later) /\ ~Has(agentEventQueue, Later) /\ ~Has(pendingBashMessages, Answer)

Bounded == ~outOfStep => InOrder /\ budget >= 0 /\ budget >= Worst

BoundInv == SessionTyped /\ MirrorInv /\ OneWait /\ Known /\ Bounded

-----------------------------------------------------------------------------
LEMMA HasNothing == ASSUME NEW K PROVE ~Has(<<>>, K)
BY DEF Has

LEMMA HasOne == ASSUME NEW e, NEW K PROVE Has(<<e>>, K) <=> e \in K
<1>1. Len(<<e>>) = 1 /\ <<e>>[1] = e /\ 1..1 = {1}
  OBVIOUS
<1> QED BY <1>1 DEF Has

LEMMA HasBoth ==
  ASSUME NEW S, NEW a \in Seq(S), NEW b \in Seq(S), NEW K
  PROVE  Has(a \o b, K) <=> Has(a, K) \/ Has(b, K)
<1> DEFINE c == a \o b
<1>1. /\ c \in Seq(S) /\ Len(c) = Len(a) + Len(b)
      /\ \A i \in 1..(Len(a) + Len(b)) : c[i] = IF i <= Len(a) THEN a[i] ELSE b[i - Len(a)]
  BY ConcatProperties
<1>2. Len(a) \in Nat /\ Len(b) \in Nat
  BY LenProperties
<1> HIDE DEF c
<1>3. ASSUME NEW i \in 1..Len(c)
      PROVE  (\E j \in 1..Len(a) : c[i] = a[j]) \/ (\E j \in 1..Len(b) : c[i] = b[j])
  <2>1. CASE i <= Len(a)
    <3>1. i \in 1..Len(a) /\ c[i] = a[i]
      BY <1>1, <1>2, <2>1
    <3> QED BY <3>1
  <2>2. CASE ~(i <= Len(a))
    <3>1. i - Len(a) \in 1..Len(b) /\ c[i] = b[i - Len(a)]
      BY <1>1, <1>2, <2>2
    <3> QED BY <3>1
  <2> QED BY <2>1, <2>2
<1>4. ASSUME NEW j \in 1..Len(a) PROVE j \in 1..Len(c) /\ c[j] = a[j]
  BY <1>1, <1>2
<1>5. ASSUME NEW j \in 1..Len(b) PROVE Len(a) + j \in 1..Len(c) /\ c[Len(a) + j] = b[j]
  <2>1. Len(a) + j \in 1..(Len(a) + Len(b)) /\ ~(Len(a) + j <= Len(a)) /\ Len(a) + j - Len(a) = j
    BY <1>2
  <2> QED BY <1>1, <2>1
<1>6. Has(c, K) => Has(a, K) \/ Has(b, K)
  BY <1>3 DEF Has
<1>7. Has(a, K) => Has(c, K)
  BY <1>4 DEF Has
<1>8. Has(b, K) => Has(c, K)
  BY <1>5 DEF Has
<1> QED BY <1>6, <1>7, <1>8 DEF c

LEMMA HasFirst ==
  ASSUME NEW S, NEW a \in Seq(S), a # <<>>, NEW K
  PROVE  Has(a, K) <=> Head(a) \in K \/ Has(Tail(a), K)
<1> DEFINE b == Tail(a)
<1>1. /\ Len(a) \in Nat /\ Len(a) # 0
  BY LenProperties, EmptySeq
<1>2. /\ Len(b) = Len(a) - 1
      /\ \A i \in 1..Len(b) : b[i] = a[i + 1]
      /\ Head(a) = a[1]
  BY HeadTailProperties
<1> HIDE DEF b
<1>3. Has(b, K) => Has(a, K)
  <2>1. ASSUME NEW i \in 1..Len(b) PROVE i + 1 \in 1..Len(a) /\ b[i] = a[i + 1]
    BY <1>1, <1>2
  <2> QED BY <2>1 DEF Has
<1>4. Head(a) \in K => Has(a, K)
  <2>1. 1 \in 1..Len(a)
    BY <1>1
  <2> QED BY <1>2, <2>1 DEF Has
<1>5. ASSUME Has(a, K), Head(a) \notin K PROVE Has(b, K)
  <2>1. PICK i \in 1..Len(a) : a[i] \in K
    BY <1>5 DEF Has
  <2>2. i # 1
    BY <1>2, <1>5, <2>1
  <2>3. i - 1 \in 1..Len(b) /\ i - 1 + 1 = i
    BY <1>1, <1>2, <2>2
  <2>4. b[i - 1] \in K
    BY <1>2, <2>1, <2>3
  <2> QED BY <2>3, <2>4 DEF Has
<1> QED BY <1>3, <1>4, <1>5 DEF b

LEMMA HasFront ==
  ASSUME NEW S, NEW a \in Seq(S), NEW K, Has(Front(a), K) PROVE Has(a, K)
<1> DEFINE b == Front(a)
<1>1. Len(a) \in Nat /\ \A i \in 1..(Len(a) - 1) : a[i] \in S
  BY LenProperties, ElementOfSeq
<1>2. /\ Len(b) = IF 1 <= Len(a) - 1 THEN Len(a) - 1 - 1 + 1 ELSE 0
      /\ \A i \in 1..(Len(a) - 1 - 1 + 1) : b[i] = a[1 + i - 1]
  BY <1>1, SubSeqProperties DEF Front
<1> HIDE DEF b
<1>3. PICK i \in 1..Len(b) : b[i] \in K
  BY DEF Has, b
<1>4. i \in 1..Len(a) /\ i \in 1..(Len(a) - 1 - 1 + 1) /\ 1 + i - 1 = i
  BY <1>1, <1>2
<1> QED BY <1>2, <1>3, <1>4 DEF Has

\* The order of what a run announces.
LEMMA PlainIsOrdered == ASSUME NEW q, Plain(q) PROVE Ordered(q)
BY DEF Plain, Ordered, Has

LEMMA OrderedJoin ==
  ASSUME NEW S, NEW a \in Seq(S), NEW b \in Seq(S), Plain(a), Ordered(b)
  PROVE  Ordered(a \o b)
<1> DEFINE c == a \o b
<1>1. /\ Len(c) = Len(a) + Len(b)
      /\ \A i \in 1..(Len(a) + Len(b)) : c[i] = IF i <= Len(a) THEN a[i] ELSE b[i - Len(a)]
  BY ConcatProperties
<1>2. Len(a) \in Nat /\ Len(b) \in Nat
  BY LenProperties
<1> HIDE DEF c
<1>3. ASSUME NEW i \in 1..Len(c), c[i] \in Ends \/ c[i] \in Errors
      PROVE  i - Len(a) \in 1..Len(b) /\ c[i] = b[i - Len(a)]
  <2>1. CASE i <= Len(a)
    <3>1. i \in 1..Len(a) /\ c[i] = a[i]
      BY <1>1, <1>2, <2>1
    <3> QED BY <1>3, <3>1 DEF Plain, Has
  <2>2. CASE ~(i <= Len(a))
    BY <1>1, <1>2, <2>2
  <2> QED BY <2>1, <2>2
<1>4. ASSUME NEW i \in 1..Len(c), c[i] \in Ends PROVE i = Len(c)
  <2>1. i - Len(a) \in 1..Len(b) /\ b[i - Len(a)] \in Ends
    BY <1>3, <1>4
  <2>2. i - Len(a) = Len(b)
    BY <2>1 DEF Ordered
  <2> QED BY <1>1, <1>2, <2>2
<1>5. ASSUME NEW i \in 1..Len(c), c[i] \in Errors PROVE i = Len(c) - 1 /\ c[Len(c)] = AgentEnd
  <2>1. i - Len(a) \in 1..Len(b) /\ b[i - Len(a)] \in Errors
    BY <1>3, <1>5
  <2>2. i - Len(a) = Len(b) - 1 /\ b[Len(b)] = AgentEnd
    BY <2>1 DEF Ordered
  <2>3. Len(c) \in 1..(Len(a) + Len(b)) /\ ~(Len(c) <= Len(a)) /\ Len(c) - Len(a) = Len(b)
    BY <1>1, <1>2, <2>1
  <2>4. c[Len(c)] = b[Len(b)]
    BY <1>1, <2>3
  <2> QED BY <1>1, <1>2, <2>2, <2>4
<1>6. Ordered(c)
  BY <1>4, <1>5 DEF Ordered
<1> QED BY <1>6 DEF c

LEMMA OrderedTail ==
  ASSUME NEW S, NEW a \in Seq(S), a # <<>>, Ordered(a)
  PROVE  /\ Ordered(Tail(a))
         /\ Head(a) \in Ends => Tail(a) = <<>>
         /\ Head(a) \in Errors => Tail(a) = <<AgentEnd>>
<1> DEFINE b == Tail(a)
<1>1. /\ Len(a) \in Nat /\ Len(a) # 0
  BY LenProperties, EmptySeq
<1>2. /\ b \in Seq(S) /\ Len(b) = Len(a) - 1
      /\ \A i \in 1..Len(b) : b[i] = a[i + 1]
      /\ Head(a) = a[1]
  BY HeadTailProperties
<1> HIDE DEF b
<1>3. \A i \in 1..Len(b) : i + 1 \in 1..Len(a) /\ b[i] = a[i + 1]
  BY <1>1, <1>2
<1>4. Ordered(b)
  <2>1. ASSUME NEW i \in 1..Len(b), b[i] \in Ends PROVE i = Len(b)
    <3>1. i + 1 = Len(a)
      BY <1>3, <2>1 DEF Ordered
    <3> QED BY <1>1, <1>2, <3>1
  <2>2. ASSUME NEW i \in 1..Len(b), b[i] \in Errors PROVE i = Len(b) - 1 /\ b[Len(b)] = AgentEnd
    <3>1. i + 1 = Len(a) - 1 /\ a[Len(a)] = AgentEnd
      BY <1>3, <2>2 DEF Ordered
    <3>2. Len(b) \in 1..Len(b) /\ Len(b) + 1 = Len(a)
      BY <1>1, <1>2
    <3> QED BY <1>1, <1>2, <3>1, <3>2
  <2> QED BY <2>1, <2>2 DEF Ordered
<1>5. 1 \in 1..Len(a)
  BY <1>1
<1>6. ASSUME Head(a) \in Ends PROVE b = <<>>
  <2>1. 1 = Len(a)
    BY <1>2, <1>5, <1>6 DEF Ordered
  <2> QED BY <1>2, <2>1, EmptySeq
<1>7. ASSUME Head(a) \in Errors PROVE b = <<AgentEnd>>
  <2>1. 1 = Len(a) - 1 /\ a[Len(a)] = AgentEnd
    BY <1>2, <1>5, <1>7 DEF Ordered
  <2>2. Len(a) = 2 /\ Len(b) = 1 /\ 1 \in 1..Len(b) /\ 1 + 1 = Len(a)
    <3>1. Len(a) = 2
      BY <1>1, <2>1
    <3> QED BY <1>2, <3>1
  <2>3. b[1] = AgentEnd
    BY <1>2, <2>1, <2>2
  <2> DEFINE d == <<AgentEnd>>
  <2>4. d \in Seq({AgentEnd}) /\ Len(d) = 1 /\ d[1] = AgentEnd
    OBVIOUS
  <2> HIDE DEF d
  <2>5. \A i \in 1..Len(b) : b[i] = d[i]
    BY <2>2, <2>3, <2>4
  <2>6. b = d
    BY <1>2, <2>2, <2>4, <2>5, SeqEqual
  <2> QED BY <2>6 DEF d
<1> QED BY <1>4, <1>6, <1>7 DEF b

-----------------------------------------------------------------------------
(* The sums.                                                                 *)

LEMMA RigidKinds ==
  Errors' = Errors /\ Successes' = Successes /\ Users' = Users /\ Ends' = Ends /\ Handler' = Handler
BY Rigid DEF Errors, Successes, Users, Ends, ErrorStops, AgentEnd, User, Handler

LEMMA Counted ==
  ASSUME SessionTyped
  PROVE  /\ Running \in 0..1 /\ Ending \in 0..1 /\ timers \in Nat /\ Sleeping \in 0..1
         /\ Underway \in Nat /\ Likely \in 0..1
         /\ Attempts \in 0..MaxRetries /\ Recovery \in 0..1 /\ Failed \in 0..1
<1>1. Underway \in Nat
  BY ContinuingFinite DEF Underway
<1>2. Attempts \in 0..MaxRetries
  BY SessionAssumption DEF Attempts, SessionTyped
<1>3. timers \in Nat
  BY DEF SessionTyped
<1> QED BY <1>1, <1>2, <1>3 DEF Running, Ending, Sleeping, Likely, Recovery, Failed, One

LEMMA CountedNext ==
  ASSUME SessionTyped'
  PROVE  /\ Running' \in 0..1 /\ Ending' \in 0..1 /\ timers' \in Nat /\ Sleeping' \in 0..1
         /\ Underway' \in Nat /\ Likely' \in 0..1
         /\ Attempts' \in 0..MaxRetries /\ Recovery' \in 0..1 /\ Failed' \in 0..1
<1>1. Underway' \in Nat
  <2>1. IsFiniteSet(Owners)
    BY SessionAssumption, FS_Interval DEF Owners
  <2>2. Continuing' \subseteq Owners
    BY Rigid DEF Continuing
  <2> QED BY <2>1, <2>2, FS_Subset, FS_CardinalityType DEF Underway
<1>2. Attempts' \in 0..MaxRetries
  <2>1. retryAttempt' \in 0..MaxRetries
    BY DEF SessionTyped
  <2> QED BY <2>1, SessionAssumption DEF Attempts
<1>3. timers' \in Nat
  BY DEF SessionTyped
<1> QED BY <1>1, <1>2, <1>3 DEF Running, Ending, Sleeping, Likely, Recovery, Failed, One

\* A step that costs a continuation may start its retries afresh.
LEMMA LessIsBetter ==
  ASSUME NEW w \in Nat, NEW a \in Int, NEW b \in Int, NEW s \in Int, NEW t \in Int,
         NEW k \in 0..1, b + k <= a, t <= s + w * k
  PROVE  w * b + t <= w * a + s
<1>1. PICK d \in Nat : a = b + k + d
  <2>1. a - b - k \in Nat
    OBVIOUS
  <2> QED BY <2>1
<1>2. w * d \in Nat /\ w * b \in Int /\ w * k \in Int
  OBVIOUS
<1>3. w * a = w * b + w * k + w * d
  BY <1>1
<1>4. w * a \in Int
  OBVIOUS
<1> QED BY <1>2, <1>3, <1>4

\* By how much each part of the load grows at most.
Moves(r, e, n, s, u, l) ==
  /\ Running' <= Running + r /\ Ending' <= Ending + e /\ timers' <= timers + n
  /\ Sleeping' <= Sleeping + s /\ Underway' <= Underway + u /\ Likely' <= Likely + l

LEMMA LoadFalls ==
  ASSUME SessionTyped, SessionTyped', NEW r \in Int, NEW e \in Int, NEW n \in Int, NEW s \in Int,
         NEW u \in Int, NEW l \in Int, Moves(r, e, n, s, u, l)
  PROVE  Load' <= Load + (r + e + n + s + u + l) /\ Load \in Int /\ Load' \in Int
<1> DEFINE r1 == Running'
           e1 == Ending'
           n1 == timers'
           s1 == Sleeping'
           u1 == Underway'
           l1 == Likely'
           r0 == Running
           e0 == Ending
           n0 == timers
           s0 == Sleeping
           u0 == Underway
           l0 == Likely
<1>1. /\ r1 \in Int /\ e1 \in Int /\ n1 \in Int /\ s1 \in Int /\ u1 \in Int /\ l1 \in Int
      /\ r0 \in Int /\ e0 \in Int /\ n0 \in Int /\ s0 \in Int /\ u0 \in Int /\ l0 \in Int
  BY Counted, CountedNext
<1>2. /\ r1 <= r0 + r /\ e1 <= e0 + e /\ n1 <= n0 + n /\ s1 <= s0 + s /\ u1 <= u0 + u /\ l1 <= l0 + l
  BY DEF Moves
<1>3. Load' = r1 + e1 + n1 + s1 + u1 + l1 /\ Load = r0 + e0 + n0 + s0 + u0 + l0
  BY DEF Load
<1> DEFINE a == Load
           b == Load'
<1>4. b = r1 + e1 + n1 + s1 + u1 + l1 /\ a = r0 + e0 + n0 + s0 + u0 + l0
  BY <1>3
<1> HIDE DEF r1, e1, n1, s1, u1, l1, r0, e0, n0, s0, u0, l0, a, b
<1>5. b <= a + (r + e + n + s + u + l) /\ a \in Int /\ b \in Int
  BY <1>1, <1>2, <1>4
<1> QED BY <1>5 DEF a, b

LEMMA NoWorse ==
  ASSUME SessionTyped, SessionTyped', NEW r \in Int, NEW e \in Int, NEW n \in Int, NEW s \in Int,
         NEW u \in Int, NEW l \in Int, Moves(r, e, n, s, u, l),
         NEW k \in 0..1, r + e + n + s + u + l + k <= 0, Standing' <= Standing + (MaxRetries + 1) * k
  PROVE  Worst' <= Worst /\ Worst \in Int /\ Worst' \in Int
<1> DEFINE w == MaxRetries + 1
           a == Load
           b == Load'
           x == Standing
           y == Standing'
<1>1. Standing \in Int /\ Standing' \in Int
  <2>1. /\ Attempts' \in Int /\ Recovery' \in Int /\ Failed' \in Int
        /\ Attempts \in Int /\ Recovery \in Int /\ Failed \in Int
    BY Counted, CountedNext
  <2>2. Standing' = Recovery' - Attempts' - Failed' /\ Standing = Recovery - Attempts - Failed
    BY DEF Standing
  <2> QED BY <2>1, <2>2
<1>2. b <= a + (r + e + n + s + u + l) /\ a \in Int /\ b \in Int
  BY LoadFalls
<1>3. w \in Nat /\ x \in Int /\ y \in Int /\ y <= x + w * k
  BY <1>1, SessionAssumption
<1>4. Worst = w * a + x /\ Worst' = w * b + y
  BY DEF Worst
<1> HIDE DEF w, a, b, x, y
<1>5. b + k <= a
  BY <1>2
<1>6. w * b + y <= w * a + x
  BY <1>2, <1>3, <1>5, LessIsBetter
<1>7. w * b + y \in Int /\ w * a + x \in Int
  BY <1>2, <1>3
<1> QED BY <1>4, <1>6, <1>7

LEMMA StillEnough ==
  ASSUME Bounded, ~outOfStep, budget \in Int, budget' = budget,
         Worst' <= Worst, Worst \in Int, Worst' \in Int
  PROVE  budget' >= 0 /\ budget' >= Worst'
<1> DEFINE a == Worst
           b == Worst'
<1>1. budget >= 0 /\ budget >= a /\ b <= a /\ a \in Int /\ b \in Int
  BY DEF Bounded
<1> HIDE DEF a, b
<1>2. budget >= b
  BY <1>1
<1> QED BY <1>1, <1>2 DEF b

\* Answers that are too large and younger than the last compaction.
Horizon(es) == IF Compactions(es) = {} THEN -1 ELSE es[Max(Compactions(es))].at
Bigs(es) == {a \in Answer : a.stop \in {"large", "silent"} /\ a.id > Horizon(es)}

LEMMA LargeOnes ==
  ASSUME NEW es \in Seq(Entry), NEW m \in Message
  PROVE  m \in Bigs(es) <=>
           /\ IsLarge(m)
           /\ ~(LET c == Compactions(es) IN
                c # {} /\ m.kind = "assistant" /\ m.id <= es[Max(c)].at)
<1> DEFINE c == Compactions(es)
           h == Horizon(es)
<1>1. Len(es) \in Nat /\ c \subseteq 1..Len(es)
  BY LenProperties DEF Compactions
<1>2. c # {} => es[Max(c)].at \in Nat
  <2>1. c # {} => Max(c) \in c
    BY <1>1, GreatestExists
  <2>2. c # {} => es[Max(c)] \in Entry /\ es[Max(c)].kind = "compaction"
    BY <1>1, <2>1, ElementOfSeq DEF Compactions
  <2> QED BY <2>2, Kinds
<1>3. h = (IF c = {} THEN -1 ELSE es[Max(c)].at) /\ h \in Int
  BY <1>2 DEF Horizon
<1>4. IsLarge(m) => m \in Answer /\ m.id \in Nat /\ m.kind = "assistant"
  BY Kinds DEF IsLarge
<1>5. m \in Answer => m.kind = "assistant"
  BY Kinds
<1>6. m \in Bigs(es) <=> m \in Answer /\ m.stop \in {"large", "silent"} /\ m.id > h
  BY DEF Bigs
<1> HIDE DEF h, c
<1> QED BY <1>2, <1>3, <1>4, <1>5, <1>6 DEF IsLarge, c

LEMMA DueNow ==
  ASSUME SessionTyped, NEW ms \in Seq(Message) PROVE Due(ms) <=> Has(ms, Bigs(entries))
<1>1. entries \in Seq(Entry) /\ Len(ms) \in Nat /\ DOMAIN ms = 1..Len(ms)
  BY LenProperties DEF SessionTyped
<1>2. \A i \in 1..Len(ms) : ms[i] \in Bigs(entries) <=> IsLarge(ms[i]) /\ ~Stale(ms[i])
  BY <1>1, LargeOnes, ElementOfSeq DEF Stale
<1> QED BY <1>1, <1>2 DEF Due, Has

LEMMA DueNext ==
  ASSUME SessionTyped' PROVE Due(messages)' <=> Has(messages', Bigs(entries'))
<1>1. /\ entries' \in Seq(Entry) /\ messages' \in Seq(Message)
      /\ Len(messages') \in Nat /\ DOMAIN messages' = 1..Len(messages')
  BY Rigid, LenProperties DEF SessionTyped
<1>2. \A i \in 1..Len(messages') :
        messages'[i] \in Bigs(entries') <=>
           /\ IsLarge(messages'[i])
           /\ ~(LET c == Compactions(entries') IN
                c # {} /\ messages'[i].kind = "assistant" /\ messages'[i].id <= entries'[Max(c)].at)
  BY <1>1, LargeOnes, ElementOfSeq
<1>3. Due(messages)' <=> \E i \in DOMAIN messages' :
           /\ IsLarge(messages'[i])
           /\ ~(LET c == Compactions(entries') IN
                c # {} /\ messages'[i].kind = "assistant" /\ messages'[i].id <= entries'[Max(c)].at)
  BY DEF Due, Stale
<1> QED BY <1>1, <1>2, <1>3 DEF Has

\* New messages leave the last compaction where it is.
LEMMA HorizonStays ==
  ASSUME NEW es \in Seq(Entry), NEW b \in Seq(Message)
  PROVE  /\ Bigs(es \o b) = Bigs(es) /\ Horizon(es \o b) = Horizon(es)
         /\ Compactions(es \o b) = Compactions(es)
<1> DEFINE all == es \o b
           c == Compactions(es)
<1>1. b \in Seq(Entry)
  BY SeqMonotonic DEF Entry
<1>2. /\ all \in Seq(Entry) /\ Len(all) = Len(es) + Len(b)
      /\ \A i \in 1..(Len(es) + Len(b)) : all[i] = IF i <= Len(es) THEN es[i] ELSE b[i - Len(es)]
  BY <1>1, ConcatProperties
<1>3. /\ Len(es) \in Nat /\ Len(b) \in Nat /\ DOMAIN es = 1..Len(es) /\ DOMAIN all = 1..Len(all)
  BY <1>2, LenProperties
<1> HIDE DEF all
<1>4. \A i \in 1..Len(all) : all[i].kind = "compaction" => i \in 1..Len(es)
  <2> SUFFICES ASSUME NEW i \in 1..Len(all), ~(i <= Len(es)) PROVE all[i].kind # "compaction"
    BY <1>3
  <2>1. i - Len(es) \in 1..Len(b) /\ all[i] = b[i - Len(es)]
    BY <1>2, <1>3
  <2> QED BY <2>1, ElementOfSeq, Kinds
<1>5. \A i \in 1..Len(es) : i \in 1..Len(all) /\ all[i] = es[i]
  BY <1>2, <1>3
<1>6. Compactions(all) = c
  BY <1>3, <1>4, <1>5 DEF Compactions
<1>7. c # {} => all[Max(c)] = es[Max(c)]
  <2>1. c \subseteq 1..Len(es)
    BY <1>3 DEF Compactions
  <2> QED BY <1>3, <1>5, <2>1, GreatestExists
<1>8. Horizon(all) = Horizon(es)
  BY <1>6, <1>7 DEF Horizon
<1>9. Bigs(all) = Bigs(es)
  BY <1>8 DEF Bigs
<1> QED BY <1>6, <1>8, <1>9 DEF all

\* What is due after a step that keeps the last compaction was due before it.
LEMMA StillLikely ==
  ASSUME SessionTyped, SessionTyped', NEW ms \in Seq(Message), Bigs(entries') = Bigs(entries),
         Has(messages', Bigs(entries)) => Has(ms, Bigs(entries))
  PROVE  Likely' = 1 => Due(ms) /\ jobs'[Handler] = None
<1>1. Likely' = 1 => Due(messages)' /\ jobs'[Handler] = None
  BY Rigid, RigidKinds DEF Likely, One
<1> QED BY <1>1, DueNow, DueNext

LEMMA NoMoreLikely ==
  ASSUME SessionTyped, SessionTyped', Bigs(entries') = Bigs(entries),
         Has(messages', Bigs(entries)) => Has(messages, Bigs(entries)),
         jobs'[Handler] = None => jobs[Handler] = None
  PROVE  Likely' <= Likely
<1>1. messages \in Seq(Message)
  BY DEF SessionTyped
<1>2. Likely' = 1 => Due(messages) /\ jobs[Handler] = None
  BY <1>1, StillLikely
<1>3. Likely' = 1 => Likely = 1
  BY <1>2 DEF Likely, One
<1> QED BY <1>3, Counted, CountedNext

\* The user acts again, or the model has answered: what there can be is counted anew.
LEMMA CountedAnew ==
  ASSUME SessionTyped, SessionTyped', InOrder', NEW ms, NEW j \in 0..1,
         budget' = Budget(ms) + (MaxRetries + 1) * j,
         timers' <= timers, backoff' = backoff, Underway' <= Underway + j, Likely' = 1 => Due(ms)
  PROVE  budget' >= 0 /\ budget' >= Worst'
<1> DEFINE w == MaxRetries + 1
           c == Continuations(ms)
           b == Load'
           t == Standing'
<1>1. w \in Nat
  BY SessionAssumption
<1>2. c \in Nat
  BY BudgetTyped DEF SessionTyped
<1>3. c = 1 + timers + Underway + Sleeping + One(Due(ms))
  <2>1. Underway = Cardinality({o \in Owners : Continues(o)})
    BY DEF Underway, Continuing
  <2>2. c = 1 + timers + Underway + (IF backoff = None THEN 0 ELSE 1) + (IF Due(ms) THEN 1 ELSE 0)
    BY <2>1 DEF Continuations
  <2> HIDE DEF c
  <2>3. (IF backoff = None THEN 0 ELSE 1) = Sleeping
    BY DEF Sleeping, One
  <2> QED BY <2>2, <2>3, Counted DEF One
<1>4. b = Running' + Ending' + timers' + Sleeping' + Underway' + Likely' /\ t = Recovery' - Attempts' - Failed'
  BY DEF Load, Standing
<1>5. Running' + Ending' <= 1
  <2>1. run' # "none" => ~Has(agentEventQueue', Ends)
    BY RigidKinds DEF InOrder, Plain
  <2> QED BY <2>1, RigidKinds DEF Running, Ending, One
<1>6. Sleeping' = Sleeping
  BY Rigid DEF Sleeping
<1>7. Likely' <= One(Due(ms))
  BY CountedNext DEF One
<1>8. budget' = w * c + 1 + w * j
  BY DEF Budget
<1>9. Worst' = w * b + t
  BY DEF Worst
<1> HIDE DEF w, c, b, t
<1>10. b + 0 <= c + j /\ b \in Int /\ t <= 1 + w * 0 /\ t \in Int
  <2>1. b \in Int /\ t \in Int
    BY <1>4, CountedNext, SessionAssumption
  <2>2. w * 0 = 0
    BY <1>1
  <2>3. b <= c + j
    <3>1. /\ Running' \in Int /\ Ending' \in Int /\ timers' \in Int /\ Sleeping' \in Int
          /\ Underway' \in Int /\ Likely' \in Int /\ timers \in Int /\ Sleeping \in Int
          /\ Underway \in Int
      BY Counted, CountedNext
    <3>2. One(Due(ms)) \in Int
      BY DEF One
    <3>3. timers' <= timers /\ Underway' <= Underway + j
      OBVIOUS
    <3> DEFINE due == One(Due(ms))
    <3> HIDE DEF due
    <3>4. /\ due \in Int /\ c = 1 + timers + Underway + Sleeping + due /\ Likely' <= due
      BY <1>3, <1>7, <3>2 DEF due
    <3>5. j \in Int
      OBVIOUS
    <3>6. Running' + Ending' + timers' + Sleeping' + Underway' + Likely'
            <= 1 + timers + Underway + Sleeping + due + j
      <4> DEFINE r1 == Running'
                 e1 == Ending'
                 n1 == timers'
                 s1 == Sleeping'
                 u1 == Underway'
                 l1 == Likely'
                 n == timers
                 s == Sleeping
                 u == Underway
      <4>1. /\ r1 \in Int /\ e1 \in Int /\ n1 \in Int /\ s1 \in Int /\ u1 \in Int /\ l1 \in Int
            /\ n \in Int /\ s \in Int /\ u \in Int
        BY <3>1
      <4>2. r1 + e1 <= 1 /\ s1 = s
        BY <1>5, <1>6
      <4>3. n1 <= n /\ u1 <= u + j
        BY <3>3
      <4>4. l1 <= due /\ due \in Int
        BY <3>4
      <4> HIDE DEF r1, e1, n1, s1, u1, l1, n, s, u
      <4>5. r1 + e1 + n1 + s1 + u1 + l1 <= 1 + n + u + s + due + j
        BY <3>5, <4>1, <4>2, <4>3, <4>4
      <4> QED BY <4>5 DEF r1, e1, n1, s1, u1, l1, n, s, u
    <3>7. b <= 1 + timers + Underway + Sleeping + due + j
      BY <1>4, <3>6
    <3>8. c + j = 1 + timers + Underway + Sleeping + due + j
      BY <3>4
    <3> QED BY <3>7, <3>8
  <2>4. t <= 1
    BY <1>4, CountedNext
  <2> QED BY <1>2, <2>1, <2>2, <2>3, <2>4
<1>11. w * b + t <= w * (c + j) + 1
  BY <1>1, <1>2, <1>10, LessIsBetter
<1>12. w * (c + j) = w * c + w * j /\ w * c \in Nat /\ w * j \in Nat
  BY <1>1, <1>2
<1> QED BY <1>8, <1>9, <1>11, <1>12

LEMMA StandsAsGood ==
  ASSUME SessionTyped, SessionTyped', Recovery' <= Recovery
  PROVE  /\ Standing' <= Standing + (MaxRetries + 1) * 1
         /\ Attempts' >= Attempts /\ Failed' >= Failed => Standing' <= Standing + (MaxRetries + 1) * 0
<1> DEFINE r1 == Recovery'
           a1 == Attempts'
           f1 == Failed'
           r == Recovery
           a == Attempts
           f == Failed
           x == Standing
           y == Standing'
<1>1. /\ r1 \in 0..1 /\ a1 \in 0..MaxRetries /\ f1 \in 0..1 /\ r \in 0..1 /\ a \in 0..MaxRetries /\ f \in 0..1
      /\ r1 <= r /\ x = r - a - f /\ y = r1 - a1 - f1
  BY Counted, CountedNext DEF Standing
<1> HIDE DEF r1, a1, f1, r, a, f, x, y
<1>2. MaxRetries \in Nat /\ (MaxRetries + 1) * 1 = MaxRetries + 1 /\ (MaxRetries + 1) * 0 = 0
  BY SessionAssumption
<1>3. y <= x + (MaxRetries + 1) * 1
  BY <1>1, <1>2
<1>4. a1 >= a /\ f1 >= f => y <= x + (MaxRetries + 1) * 0
  BY <1>1, <1>2
<1> QED BY <1>3, <1>4 DEF r1, a1, f1, r, a, f, x, y

\* A counter that moves into the load or out of the standing.
LEMMA StandsTheSame ==
  ASSUME SessionTyped, SessionTyped',
         \/ Recovery' = Recovery /\ Attempts' = Attempts /\ Failed' = Failed
         \/ Recovery' = Recovery /\ Attempts' = Attempts + 1 /\ Failed' = 0 /\ Failed = 1
         \/ Recovery' = 0 /\ Recovery = 1 /\ Attempts' = Attempts /\ Failed' = 0
  PROVE  Standing' <= Standing + (MaxRetries + 1) * 0
<1> DEFINE r1 == Recovery'
           a1 == Attempts'
           f1 == Failed'
           r == Recovery
           a == Attempts
           f == Failed
           x == Standing
           y == Standing'
<1>1. /\ r1 \in 0..1 /\ a1 \in 0..MaxRetries /\ f1 \in 0..1 /\ r \in 0..1 /\ a \in 0..MaxRetries /\ f \in 0..1
      /\ x = r - a - f /\ y = r1 - a1 - f1
      /\ \/ r1 = r /\ a1 = a /\ f1 = f
         \/ r1 = r /\ a1 = a + 1 /\ f1 = 0 /\ f = 1
         \/ r1 = 0 /\ r = 1 /\ a1 = a /\ f1 = 0
  BY Counted, CountedNext DEF Standing
<1> HIDE DEF r1, a1, f1, r, a, f, x, y
<1>2. MaxRetries \in Nat /\ (MaxRetries + 1) * 0 = 0
  BY SessionAssumption
<1>3. y <= x + (MaxRetries + 1) * 0
  BY <1>1, <1>2
<1> QED BY <1>3 DEF x, y

-----------------------------------------------------------------------------
(* Every operation keeps the bound.                                          *)

LEMMA OrderStays ==
  ASSUME InOrder, UNCHANGED <<run, agentEventQueue, lastAssistantMessage>> PROVE InOrder'
BY Rigid, RigidKinds DEF InOrder, Ordered, Plain, Has, Ends, AgentEnd, Errors, ErrorStops

LEMMA SameSaid ==
  ASSUME UNCHANGED <<agentEventQueue, lastAssistantMessage>>
  PROVE  /\ Ending' = Ending /\ Failed' = Failed
         /\ UNCHANGED retryAttempt => Attempts' = Attempts
         /\ UNCHANGED overflowRecoveryAttempted => Recovery' = Recovery
         /\ (overflowRecoveryAttempted => overflowRecoveryAttempted') => Recovery' <= Recovery
BY RigidKinds DEF Ending, Failed, Attempts, Recovery, One

LEMMA InStep == ASSUME ~outOfStep', UNCHANGED outOfStep PROVE ~outOfStep
OBVIOUS

\* Whatever is not announced, counted or waited for.
LEMMA QuietBounded ==
  ASSUME SessionTyped, SessionTyped', Bounded,
         UNCHANGED <<run, agentEventQueue, lastAssistantMessage, retryAttempt, timers, messages,
                     overflowRecoveryAttempted, backoff, jobs, entries, budget, outOfStep>>
  PROVE  Bounded'
<1> SUFFICES ASSUME ~outOfStep' PROVE InOrder' /\ budget' >= 0 /\ budget' >= Worst'
  BY DEF Bounded
<1>1. InOrder /\ budget >= 0 /\ budget >= Worst
  BY DEF Bounded
<1>2. InOrder'
  BY <1>1, OrderStays
<1>3. Moves(0, 0, 0, 0, 0, 0)
  <2>1. Likely' = Likely
    <3>1. Due(messages)' = Due(messages)
      BY DEF Due, Stale, Compactions, IsLarge
    <3> QED BY <3>1, Rigid, RigidKinds DEF Likely
  <2>2. Underway' = Underway
    BY Rigid DEF Underway, Continuing, Continues
  <2>3. Running' = Running /\ Ending' = Ending /\ timers' = timers /\ Sleeping' = Sleeping
    BY Rigid, RigidKinds DEF Running, Ending, Sleeping
  <2> QED BY <2>1, <2>2, <2>3, Counted DEF Moves
<1>4. Standing' <= Standing + (MaxRetries + 1) * 0
  BY SameSaid, StandsTheSame
<1>5. Worst' <= Worst /\ Worst \in Int /\ Worst' \in Int
  BY <1>3, <1>4, NoWorse
<1> QED BY <1>2, <1>5, StillEnough DEF SessionTyped

LEMMA NoMoreJobs == ASSUME Continuing' \subseteq Continuing PROVE Underway' <= Underway
BY ContinuingFinite, FS_Subset DEF Underway

LEMMA JobBegins ==
  ASSUME SessionTyped, NEW o \in Owners, NEW j, jobs' = [jobs EXCEPT ![o] = j]
  PROVE  Underway' <= Underway + 1 /\ jobs'[o] = j
<1> DEFINE more == Continuing \cup {o}
<1>1. jobs'[o] = j /\ \A p \in Owners : p # o => jobs'[p] = jobs[p]
  BY DEF SessionTyped
<1>2. Continuing' \subseteq more
  BY <1>1, Rigid DEF Continuing, Continues
<1>3. IsFiniteSet(Continuing) /\ Cardinality(Continuing) \in Nat
  BY ContinuingFinite
<1>4. IsFiniteSet(more) /\ Cardinality(more) <= Cardinality(Continuing) + 1
  <2>1. Cardinality(more) = IF o \in Continuing THEN Cardinality(Continuing) ELSE Cardinality(Continuing) + 1
    BY <1>3, FS_AddElement
  <2> QED BY <1>3, <2>1, FS_AddElement
<1> HIDE DEF more
<1>5. Cardinality(Continuing') <= Cardinality(more) /\ Cardinality(Continuing') \in Nat /\ Cardinality(more) \in Nat
  BY <1>2, <1>4, FS_Subset, FS_CardinalityType
<1> DEFINE x == Cardinality(Continuing')
           y == Cardinality(Continuing)
           z == Cardinality(more)
<1>6. x <= z /\ z <= y + 1 /\ x \in Nat /\ y \in Nat /\ z \in Nat
  BY <1>3, <1>4, <1>5
<1> HIDE DEF x, y, z
<1>7. x <= y + 1
  BY <1>6
<1> QED BY <1>1, <1>7 DEF Underway, x, y

LEMMA JobEnds ==
  ASSUME SessionTyped, NEW o \in Owners, jobs' = [jobs EXCEPT ![o] = None]
  PROVE  /\ Underway' <= Underway + 0
         /\ o \in Continuing => Underway' <= Underway + (-1)
         /\ \A p \in Owners : p # o => jobs'[p] = jobs[p]
<1> DEFINE less == Continuing \ {o}
<1>1. jobs'[o] = None /\ \A p \in Owners : p # o => jobs'[p] = jobs[p]
  BY DEF SessionTyped
<1>2. Continuing' \subseteq less
  BY <1>1, Rigid, Kinds DEF Continuing, Continues
<1>3. IsFiniteSet(Continuing) /\ Cardinality(Continuing) \in Nat
  BY ContinuingFinite
<1>4. /\ IsFiniteSet(less)
      /\ Cardinality(less) = IF o \in Continuing THEN Cardinality(Continuing) - 1 ELSE Cardinality(Continuing)
  BY <1>3, FS_RemoveElement
<1> HIDE DEF less
<1>5. Cardinality(Continuing') <= Cardinality(less) /\ Cardinality(Continuing') \in Nat /\ Cardinality(less) \in Nat
  BY <1>2, <1>4, FS_Subset, FS_CardinalityType
<1> DEFINE x == Cardinality(Continuing')
           y == Cardinality(Continuing)
           z == Cardinality(less)
<1>6. /\ x <= z /\ z = (IF o \in Continuing THEN y - 1 ELSE y) /\ x \in Nat /\ y \in Nat /\ z \in Nat
  BY <1>3, <1>4, <1>5
<1> HIDE DEF x, y, z
<1>7. x <= y + 0 /\ (o \in Continuing => x <= y + (-1))
  BY <1>6
<1> QED BY <1>1, <1>7 DEF Underway, x, y

LEMMA SameJobs == ASSUME UNCHANGED jobs PROVE Underway' = Underway
BY Rigid DEF Underway, Continuing, Continues

\* A retry whose error says nothing of its size is followed by a compaction only if one was due.
LEMMA WasDue ==
  ASSUME SessionTyped, NEW o, NEW m \in Errors, NEW ms \in Seq(Message),
         "threshold" \in CompactionReasons(o, m, ms)
  PROVE  Due(ms)
<1> DEFINE U == {i \in DOMAIN ms : ms[i].kind = "assistant" /\ ms[i].stop \notin
                                {"retryable", "overflow", "aborted"}}
<1>1. IsError(m) /\ m.stop # "aborted"
  BY Kinds DEF Errors, IsError, ErrorStops
<1>2. IsLarge(LastUsage(ms)) /\ ~Stale(LastUsage(ms))
  BY <1>1 DEF CompactionReasons
<1>3. U # {}
  BY <1>2, Kinds DEF LastUsage, IsLarge
<1>4. Len(ms) \in Nat /\ U \subseteq 1..Len(ms)
  BY LenProperties
<1>5. Max(U) \in U
  BY <1>3, <1>4, GreatestExists
<1>6. LastUsage(ms) = ms[Max(U)]
  BY <1>3 DEF LastUsage
<1> HIDE DEF U
<1>7. Max(U) \in DOMAIN ms
  BY <1>5 DEF U
<1> QED BY <1>2, <1>6, <1>7 DEF Due

\* What the checks for a compaction leave.
LEMMA Checked ==
  ASSUME SessionTyped, NEW o \in Owners, NEW m, NEW ms \in Seq(Message), NEW es, NEW gone,
         CheckCompaction(o, m, ms, es, gone)
  PROVE  \E reason \in CompactionReasons(o, m, ms) :
         /\ overflowRecoveryAttempted' = (overflowRecoveryAttempted \/ reason = "overflow")
         /\ \A K : Has(messages', K) => Has(ms, K)
         /\ \/ UNCHANGED jobs
            \/ /\ reason \in {"overflow", "threshold"}
               /\ Underway' <= Underway + 1
               /\ jobs'[o] # None /\ jobs'[o].kind # "manual"
               /\ \A p \in Owners : p # o => jobs'[p] = jobs[p]
<1>1. PICK reason \in CompactionReasons(o, m, ms) :
      /\ overflowRecoveryAttempted' = (overflowRecoveryAttempted \/ reason = "overflow")
      /\ messages' = IF reason = "overflow" THEN WithoutLastAnswer(ms) ELSE ms
      /\ \/ UNCHANGED jobs
         \/ /\ reason # "no"
            /\ \E keep \in CutPoints(es) : jobs' = [jobs EXCEPT ![o] = [kind |-> reason, keep |-> keep]]
  BY DEF CheckCompaction
<1>2. reason \in {"no", "overflow", "threshold"}
  BY ReasonsAre
<1>3. \A K : Has(messages', K) => Has(ms, K)
  BY <1>1, HasFront DEF WithoutLastAnswer
<1>4. ASSUME NEW keep, reason # "no", jobs' = [jobs EXCEPT ![o] = [kind |-> reason, keep |-> keep]]
      PROVE  /\ reason \in {"overflow", "threshold"} /\ Underway' <= Underway + 1
             /\ jobs'[o] # None /\ jobs'[o].kind # "manual"
             /\ \A p \in Owners : p # o => jobs'[p] = jobs[p]
  <2> DEFINE j == [kind |-> reason, keep |-> keep]
  <2>1. j.kind = reason
    OBVIOUS
  <2>2. jobs' = [jobs EXCEPT ![o] = j]
    BY <1>4
  <2> HIDE DEF j
  <2>3. Underway' <= Underway + 1 /\ jobs'[o] = j
    BY <2>2, JobBegins
  <2>4. \A p \in Owners : p # o => jobs'[p] = jobs[p]
    BY <2>2 DEF SessionTyped
  <2> QED BY <1>2, <1>4, <2>1, <2>3, <2>4, Kinds
<1> QED BY <1>1, <1>3, <1>4

LEMMA BackoffBounded ==
  ASSUME SessionTyped, SessionTyped', Bounded, BackoffEnds PROVE Bounded'
<1> SUFFICES ASSUME ~outOfStep' PROVE InOrder' /\ budget' >= 0 /\ budget' >= Worst'
  BY DEF Bounded
<1>1. /\ backoff # None /\ backoff' = None /\ timers' = timers + 1
      /\ UNCHANGED <<run, messages, agentEventQueue, lastAssistantMessage, retryAttempt,
                     overflowRecoveryAttempted, jobs, entries, budget, outOfStep>>
  BY DEF BackoffEnds, agentVars, ghostVars
<1>2. InOrder'
  BY <1>1, OrderStays DEF Bounded
<1>3. Moves(0, 0, 1, -1, 0, 0)
  <2>1. Likely' <= Likely
    BY <1>1, NoMoreLikely
  <2>2. Running' = Running /\ Ending' = Ending /\ Underway' = Underway
    BY <1>1, SameSaid, SameJobs DEF Running
  <2>3. Sleeping = 1 /\ Sleeping' = 0
    BY <1>1, Rigid DEF Sleeping, One
  <2> QED BY <1>1, <2>1, <2>2, <2>3, Counted, CountedNext DEF Moves
<1>4. Standing' <= Standing + (MaxRetries + 1) * 0
  BY <1>1, SameSaid, StandsTheSame
<1>5. Worst' <= Worst /\ Worst \in Int /\ Worst' \in Int
  BY <1>3, <1>4, NoWorse
<1> QED BY <1>1, <1>2, <1>5, StillEnough DEF SessionTyped

LEMMA CompactBeginsBounded ==
  ASSUME SessionTyped, SessionTyped', Bounded, CompactBegins PROVE Bounded'
<1> SUFFICES ASSUME ~outOfStep' PROVE InOrder' /\ budget' >= 0 /\ budget' >= Worst'
  BY DEF Bounded
<1>1. /\ UNCHANGED <<run, messages, agentEventQueue, lastAssistantMessage, retryAttempt, timers,
                     backoff, overflowRecoveryAttempted, entries, budget, outOfStep>>
      /\ \/ UNCHANGED jobs
         \/ \E keep : jobs' = [jobs EXCEPT ![Manual] = [kind |-> "manual", keep |-> keep]]
  BY DEF CompactBegins, agentVars, ghostVars
<1>2. InOrder'
  BY <1>1, OrderStays DEF Bounded
<1>3. Underway' <= Underway /\ jobs'[Handler] = jobs[Handler]
  <2>1. CASE UNCHANGED jobs
    BY <2>1, SameJobs, ContinuingFinite DEF Underway
  <2>2. ASSUME NEW keep, jobs' = [jobs EXCEPT ![Manual] = [kind |-> "manual", keep |-> keep]]
        PROVE  Underway' <= Underway /\ jobs'[Handler] = jobs[Handler]
    <3>1. /\ Manual # Handler /\ Handler \in Owners
          /\ jobs'[Manual].kind = "manual" /\ \A p \in Owners : p # Manual => jobs'[p] = jobs[p]
      BY <2>2, Who, SessionAssumption DEF SessionTyped, Manual, Handler
    <3>2. Continuing' \subseteq Continuing
      BY <3>1, Rigid DEF Continuing, Continues
    <3> QED BY <3>1, <3>2, NoMoreJobs
  <2> QED BY <1>1, <2>1, <2>2
<1>4. Moves(0, 0, 0, 0, 0, 0)
  <2>1. Likely' <= Likely
    BY <1>1, <1>3, NoMoreLikely
  <2>2. Running' = Running /\ Ending' = Ending /\ Sleeping' = Sleeping
    BY <1>1, Rigid, SameSaid DEF Running, Sleeping
  <2> QED BY <1>1, <1>3, <2>1, <2>2, Counted, CountedNext DEF Moves
<1>5. Standing' <= Standing + (MaxRetries + 1) * 0
  BY <1>1, SameSaid, StandsTheSame
<1>6. Worst' <= Worst /\ Worst \in Int /\ Worst' \in Int
  BY <1>4, <1>5, NoWorse
<1> QED BY <1>1, <1>2, <1>6, StillEnough DEF SessionTyped

LEMMA CompactionFailsBounded ==
  ASSUME SessionTyped, SessionTyped', OneWait, Bounded, NEW o \in Owners, CompactionFails(o) PROVE Bounded'
<1> SUFFICES ASSUME ~outOfStep' PROVE InOrder' /\ budget' >= 0 /\ budget' >= Worst'
  BY DEF Bounded
<1>1. /\ jobs[o] # None /\ jobs' = [jobs EXCEPT ![o] = None]
      /\ UNCHANGED <<run, messages, agentEventQueue, lastAssistantMessage, retryAttempt, timers,
                     backoff, overflowRecoveryAttempted, entries, budget, outOfStep>>
  BY DEF CompactionFails, Released, agentVars, ghostVars
<1>2. InOrder'
  BY <1>1, OrderStays DEF Bounded
<1>3. Running' = Running /\ Ending' = Ending /\ Sleeping' = Sleeping
  BY <1>1, Rigid, SameSaid DEF Running, Sleeping
<1>4. /\ Underway' <= Underway + 0
      /\ o \in Continuing => Underway' <= Underway + (-1)
      /\ \A p \in Owners : p # o => jobs'[p] = jobs[p]
  BY <1>1, JobEnds
<1>5. Moves(0, 0, 0, 0, 0, 0) \/ Moves(0, 0, 0, 0, -1, 1)
  <2>1. CASE o = Handler
    <3>1. o # Manual
      BY <2>1, SessionAssumption DEF Manual, Handler
    <3>2. jobs[o] \in Job /\ jobs[o].kind # "manual"
      BY <1>1, <3>1 DEF OneWait, SessionTyped
    <3>3. o \in Continuing
      BY <3>2 DEF Continuing, Continues, Job, Reasons
    <3>4. Underway' <= Underway + (-1)
      BY <1>4, <3>3
    <3>5. Likely' <= Likely + 1
      BY Counted, CountedNext
    <3> QED BY <1>1, <1>3, <3>4, <3>5, Counted, CountedNext DEF Moves
  <2>2. CASE o # Handler
    <3>1. jobs'[Handler] = jobs[Handler]
      BY <1>4, <2>2, Who
    <3>2. Likely' <= Likely
      BY <1>1, <3>1, NoMoreLikely
    <3>3. Underway' <= Underway + 0
      BY <1>4
    <3> QED BY <1>1, <1>3, <3>2, <3>3, Counted, CountedNext DEF Moves
  <2> QED BY <2>1, <2>2
<1>6. Standing' <= Standing + (MaxRetries + 1) * 0
  BY <1>1, SameSaid, StandsTheSame
<1>7. Worst' <= Worst /\ Worst \in Int /\ Worst' \in Int
  BY <1>5, <1>6, NoWorse
<1> QED BY <1>1, <1>2, <1>7, StillEnough DEF SessionTyped

\* abort(): a sleeping retry goes, or becomes a compaction that was due.
LEMMA AbortBounded ==
  ASSUME SessionTyped, SessionTyped', OneWait, Bounded, AbortEffects PROVE Bounded'
<1> SUFFICES ASSUME ~outOfStep' PROVE InOrder' /\ budget' >= 0 /\ budget' >= Worst'
  BY DEF Bounded
<1>1. /\ backoff' = None
      /\ UNCHANGED <<run, agentEventQueue, lastAssistantMessage, timers, entries, budget,
                     outOfStep>>
  BY DEF AbortEffects
<1>2. InOrder'
  BY <1>1, OrderStays DEF Bounded
<1>3. Running' = Running /\ Ending' = Ending
  BY <1>1, SameSaid DEF Running
<1>4. CASE backoff = None
  <2>1. UNCHANGED <<messages, retryAttempt, overflowRecoveryAttempted, jobs, backoff>>
    BY <1>4 DEF AbortEffects
  <2>2. Moves(0, 0, 0, 0, 0, 0)
    <3>1. Likely' <= Likely /\ Underway' = Underway /\ Sleeping' = Sleeping
      BY <1>1, <2>1, NoMoreLikely, SameJobs, Rigid DEF Sleeping
    <3> QED BY <1>1, <1>3, <3>1, Counted, CountedNext DEF Moves
  <2>3. Standing' <= Standing + (MaxRetries + 1) * 0
    BY <1>1, <2>1, SameSaid, StandsTheSame
  <2>4. Worst' <= Worst /\ Worst \in Int /\ Worst' \in Int
    BY <2>2, <2>3, NoWorse
  <2> QED BY <1>1, <1>2, <2>4, StillEnough DEF SessionTyped
<1>5. CASE backoff # None
  <2>1. retryAttempt' = 0 /\ CheckCompaction(Handler, backoff, messages, entries, removed)
    BY <1>5 DEF AbortEffects
  <2>2. backoff \in Errors /\ jobs[Handler] = None /\ backoff.stop = "retryable"
    BY <1>5 DEF OneWait, SessionTyped, Errors, ErrorStops
  <2>3. messages \in Seq(Message)
    BY DEF SessionTyped
  <2>5. PICK reason \in CompactionReasons(Handler, backoff, messages) :
        /\ overflowRecoveryAttempted' = (overflowRecoveryAttempted \/ reason = "overflow")
        /\ \A K : Has(messages', K) => Has(messages, K)
        /\ \/ UNCHANGED jobs
           \/ /\ reason \in {"overflow", "threshold"} /\ Underway' <= Underway + 1 /\ jobs'[Handler] # None
    BY <2>1, <2>3, Who, Checked
  <2>4. reason # "overflow"
    BY <2>2, ReasonsAre
  <2>6. Sleeping = 1 /\ Sleeping' = 0
    BY <1>1, <1>5, Rigid DEF Sleeping, One
  <2>7. Moves(0, 0, 0, -1, 0, 0) \/ Moves(0, 0, 0, -1, 1, -1)
    <3>1. CASE UNCHANGED jobs
      <4>1. Likely' <= Likely /\ Underway' = Underway
        BY <1>1, <2>5, <3>1, NoMoreLikely, SameJobs
      <4> QED BY <1>1, <1>3, <2>6, <4>1, Counted, CountedNext DEF Moves
    <3>2. CASE reason = "threshold" /\ Underway' <= Underway + 1 /\ jobs'[Handler] # None
      <4>1. Due(messages)
        BY <2>2, <2>3, <3>2, WasDue
      <4>2. Likely = 1 /\ Likely' = 0
        BY <2>2, <3>2, <4>1, Rigid, RigidKinds DEF Likely, One
      <4> QED BY <1>1, <1>3, <2>6, <3>2, <4>2, Counted, CountedNext DEF Moves
    <3> QED BY <2>4, <2>5, <3>1, <3>2
  <2>8. Recovery' <= Recovery
    BY <1>1, <2>5, SameSaid
  <2>9. Standing' <= Standing + (MaxRetries + 1) * 1
    BY <2>8, StandsAsGood
  <2>10. Worst' <= Worst /\ Worst \in Int /\ Worst' \in Int
    BY <2>7, <2>9, NoWorse
  <2> QED BY <1>1, <1>2, <2>10, StillEnough DEF SessionTyped
<1> QED BY <1>4, <1>5

\* A run has ended: its end is all there is to process.
LEMMA EndIsAll ==
  ASSUME SessionTyped, MirrorInv, InOrder, agentEventQueue # <<>>, Head(agentEventQueue) = AgentEnd,
         agentEventQueue' = Tail(agentEventQueue), lastAssistantMessage' = None,
         UNCHANGED run
  PROVE  /\ InOrder'
         /\ Ending = 1 /\ Ending' = 0 /\ Running = 0 /\ Running' = 0
         /\ Attempts = retryAttempt /\ Attempts' = retryAttempt'
         /\ Recovery = One(~overflowRecoveryAttempted) /\ Recovery' = One(~overflowRecoveryAttempted')
         /\ Failed = One(lastAssistantMessage \in Errors) /\ Failed' = 0
<1> DEFINE q == agentEventQueue
           q1 == agentEventQueue'
<1>1. q \in Seq(Event) /\ q # <<>> /\ Ordered(q) /\ Head(q) \in Ends
  BY DEF MirrorInv, MirrorTyped, InOrder, Ends
<1>2. q1 = Tail(q) /\ Tail(q) = <<>>
  BY <1>1, OrderedTail
<1>3. \A K : Has(q, K) <=> Head(q) \in K \/ Has(Tail(q), K)
  BY <1>1, HasFirst
<1>4. \A K : ~Has(q1, K) /\ (Has(q, K) <=> AgentEnd \in K)
  BY <1>2, <1>3, HasNothing
<1>5. /\ AgentEnd \in Ends /\ AgentEnd \notin Errors /\ AgentEnd \notin Successes
      /\ AgentEnd \notin Users /\ AgentEnd \notin Successes \cup Users /\ None \notin Errors
  BY Kinds DEF Ends, Errors, Successes, Users, AgentEnd, User, None
<1>6. run = "none"
  BY <1>4, <1>5 DEF InOrder, Plain
<1>7. InOrder'
  <2>1. Plain(q1) /\ Ordered(q1)
    BY <1>4, PlainIsOrdered DEF Plain
  <2>2. lastAssistantMessage' \notin Errors /\ run' = "none"
    BY <1>5, <1>6
  <2> QED BY <2>1, <2>2, Rigid, RigidKinds DEF InOrder, Ordered, Plain
<1> QED BY <1>4, <1>5, <1>6, <1>7, RigidKinds DEF Ending, Running, Attempts, Recovery, Failed, One

LEMMA RetryBounded ==
  ASSUME SessionTyped, SessionTyped', MirrorInv, Bounded, ProcessRetry PROVE Bounded'
<1> SUFFICES ASSUME ~outOfStep' PROVE InOrder' /\ budget' >= 0 /\ budget' >= Worst'
  BY DEF Bounded
<1>1. /\ agentEventQueue # <<>> /\ Head(agentEventQueue) = AgentEnd
      /\ agentEventQueue' = Tail(agentEventQueue) /\ lastAssistantMessage' = None
      /\ lastAssistantMessage # None /\ lastAssistantMessage.stop = "retryable"
      /\ retryAttempt' = retryAttempt + 1 /\ messages' = WithoutLastAnswer(messages)
      /\ backoff = None /\ backoff' = lastAssistantMessage
      /\ UNCHANGED <<run, timers, overflowRecoveryAttempted, jobs, entries, budget, outOfStep>>
  BY DEF ProcessRetry, MayRetry, Busy
<1>2. ~outOfStep /\ InOrder
  BY <1>1 DEF Bounded
<1>3. /\ InOrder'
      /\ Ending = 1 /\ Ending' = 0 /\ Running = 0 /\ Running' = 0
      /\ Attempts = retryAttempt /\ Attempts' = retryAttempt'
      /\ Recovery = One(~overflowRecoveryAttempted) /\ Recovery' = One(~overflowRecoveryAttempted')
      /\ Failed = One(lastAssistantMessage \in Errors) /\ Failed' = 0
  BY <1>1, <1>2, EndIsAll
<1>4. lastAssistantMessage \in Errors
  BY <1>1 DEF Errors, ErrorStops, SessionTyped
<1>5. Moves(0, -1, 0, 1, 0, 0)
  <2>1. Sleeping = 0 /\ Sleeping' = 1
    BY <1>1, Rigid DEF Sleeping, One
  <2>2. Likely' <= Likely /\ Underway' = Underway
    <3>1. messages \in Seq(Message)
      BY DEF SessionTyped
    <3>2. \A K : Has(messages', K) => Has(messages, K)
      BY <1>1, <3>1, HasFront DEF WithoutLastAnswer
    <3> QED BY <1>1, <3>2, NoMoreLikely, SameJobs
  <2> QED BY <1>1, <1>3, <2>1, <2>2, Counted, CountedNext DEF Moves
<1>6. Standing' <= Standing + (MaxRetries + 1) * 0
  <2>1. Recovery' = Recovery /\ Attempts' = Attempts + 1 /\ Failed' = 0 /\ Failed = 1
    BY <1>1, <1>3, <1>4 DEF One
  <2> QED BY <2>1, StandsTheSame
<1>7. Worst' <= Worst /\ Worst \in Int /\ Worst' \in Int
  BY <1>5, <1>6, NoWorse
<1> QED BY <1>1, <1>2, <1>3, <1>7, StillEnough DEF SessionTyped

LEMMA EndBounded ==
  ASSUME SessionTyped, SessionTyped', MirrorInv, Bounded, ProcessEnd PROVE Bounded'
<1> SUFFICES ASSUME ~outOfStep' PROVE InOrder' /\ budget' >= 0 /\ budget' >= Worst'
  BY DEF Bounded
<1> DEFINE m == lastAssistantMessage
<1>1. /\ agentEventQueue # <<>> /\ Head(agentEventQueue) = AgentEnd
      /\ agentEventQueue' = Tail(agentEventQueue) /\ lastAssistantMessage' = None
      /\ jobs[Handler] = None
      /\ UNCHANGED <<run, backoff, timers, entries, budget, outOfStep>>
  BY DEF ProcessEnd, Busy
<1>2. ~outOfStep /\ InOrder
  BY <1>1 DEF Bounded
<1>3. /\ InOrder'
      /\ Ending = 1 /\ Ending' = 0 /\ Running = 0 /\ Running' = 0
      /\ Attempts = retryAttempt /\ Attempts' = retryAttempt'
      /\ Recovery = One(~overflowRecoveryAttempted) /\ Recovery' = One(~overflowRecoveryAttempted')
      /\ Failed = One(lastAssistantMessage \in Errors) /\ Failed' = 0
  BY <1>1, <1>2, EndIsAll
<1>4. Sleeping' = Sleeping
  BY <1>1, Rigid DEF Sleeping
<1>5. ASSUME Moves(0, -1, 0, 0, 0, 0) \/ Moves(0, -1, 0, 0, 1, -1), Recovery' <= Recovery
      PROVE  budget' >= 0 /\ budget' >= Worst'
  <2>1. Standing' <= Standing + (MaxRetries + 1) * 1
    BY <1>5, StandsAsGood
  <2>2. Worst' <= Worst /\ Worst \in Int /\ Worst' \in Int
    BY <1>5, <2>1, NoWorse
  <2> QED BY <1>1, <1>2, <2>2, StillEnough DEF SessionTyped
<1>6. CASE m = None
  <2>1. UNCHANGED <<messages, overflowRecoveryAttempted, jobs>>
    BY <1>6 DEF ProcessEnd
  <2>2. Likely' <= Likely /\ Underway' = Underway
    BY <1>1, <2>1, NoMoreLikely, SameJobs
  <2>3. Moves(0, -1, 0, 0, 0, 0)
    BY <1>1, <1>3, <1>4, <2>2, Counted, CountedNext DEF Moves
  <2>4. Recovery' = Recovery /\ Recovery \in Int
    BY <1>3, <2>1, Counted
  <2>5. Recovery' <= Recovery
    BY <2>4
  <2> QED BY <1>3, <1>5, <2>3, <2>5
<1>7. CASE m # None
  <2>1. /\ retryAttempt' = IF m.stop = "retryable" THEN 0 ELSE retryAttempt
        /\ CheckCompaction(Handler, m, messages, entries, removed)
    BY <1>7 DEF ProcessEnd
  <2>2. messages \in Seq(Message) /\ m \in Answer
    BY <1>7 DEF SessionTyped
  <2>3. PICK reason \in CompactionReasons(Handler, m, messages) :
        /\ overflowRecoveryAttempted' = (overflowRecoveryAttempted \/ reason = "overflow")
        /\ \A K : Has(messages', K) => Has(messages, K)
        /\ \/ UNCHANGED jobs
           \/ /\ reason \in {"overflow", "threshold"} /\ Underway' <= Underway + 1 /\ jobs'[Handler] # None
    BY <2>1, <2>2, Who, Checked
  <2>4. Recovery' <= Recovery
    <3>1. ~overflowRecoveryAttempted' => ~overflowRecoveryAttempted
      BY <2>3
    <3> QED BY <1>3, <3>1 DEF One
  <2>5. CASE UNCHANGED jobs
    <3>1. Likely' <= Likely /\ Underway' = Underway
      BY <1>1, <2>3, <2>5, NoMoreLikely, SameJobs
    <3>2. Moves(0, -1, 0, 0, 0, 0)
      BY <1>1, <1>3, <1>4, <3>1, Counted, CountedNext DEF Moves
    <3> QED BY <1>3, <1>5, <2>4, <3>2
  <2>6. CASE Underway' <= Underway + 1 /\ jobs'[Handler] # None /\ reason = "overflow"
    <3>1. m.stop \in {"overflow", "silent"} /\ ~overflowRecoveryAttempted
      BY <2>6, ReasonsAre
    <3>2. retryAttempt' = retryAttempt /\ overflowRecoveryAttempted' = TRUE
      BY <2>1, <2>3, <2>6, <3>1
    <3>3. Recovery' = 0 /\ Recovery = 1 /\ Attempts' = Attempts /\ Failed' = 0 /\ Failed \in 0..1
      BY <1>3, <3>1, <3>2 DEF One
    <3>4. Likely' = 0
      BY <2>6, Rigid, RigidKinds DEF Likely, One
    <3>5. Moves(0, -1, 0, 0, 1, 0)
      BY <1>1, <1>3, <1>4, <2>6, <3>4, Counted, CountedNext DEF Moves
    <3>6. Standing' <= Standing + (MaxRetries + 1) * 0
      BY <3>3, StandsTheSame
    <3>7. Worst' <= Worst /\ Worst \in Int /\ Worst' \in Int
      BY <3>5, <3>6, NoWorse
    <3> QED BY <1>1, <1>2, <1>3, <3>7, StillEnough DEF SessionTyped
  <2>7. CASE Underway' <= Underway + 1 /\ jobs'[Handler] # None /\ reason = "threshold" /\ m \in Errors
    <3>1. Due(messages)
      BY <2>2, <2>7, WasDue
    <3>2. Likely = 1 /\ Likely' = 0
      BY <1>1, <2>7, <3>1, Rigid, RigidKinds DEF Likely, One
    <3>3. Moves(0, -1, 0, 0, 1, -1)
      BY <1>1, <1>3, <1>4, <2>7, <3>2, Counted, CountedNext DEF Moves
    <3> QED BY <1>3, <1>5, <2>4, <3>3
  <2>8. CASE Underway' <= Underway + 1 /\ jobs'[Handler] # None /\ reason = "threshold" /\ m \notin Errors
    <3>1. m.stop # "retryable"
      BY <2>2, <2>8 DEF Errors, ErrorStops
    <3>2. Recovery' = Recovery /\ Attempts' = Attempts /\ Failed' = Failed
      BY <1>3, <2>1, <2>3, <2>8, <3>1 DEF One
    <3>3. Likely' = 0
      BY <2>8, Rigid, RigidKinds DEF Likely, One
    <3>4. Moves(0, -1, 0, 0, 1, 0)
      BY <1>1, <1>3, <1>4, <2>8, <3>3, Counted, CountedNext DEF Moves
    <3>5. Standing' <= Standing + (MaxRetries + 1) * 0
      BY <3>2, StandsTheSame
    <3>6. Worst' <= Worst /\ Worst \in Int /\ Worst' \in Int
      BY <3>4, <3>5, NoWorse
    <3> QED BY <1>1, <1>2, <1>3, <3>6, StillEnough DEF SessionTyped
  <2> QED BY <2>3, <2>5, <2>6, <2>7, <2>8
<1> QED BY <1>6, <1>7

LEMMA WhichMessage ==
  ASSUME NEW e \in Message
  PROVE  /\ (e.kind = "assistant" /\ ~IsError(e)) <=> e \in Successes
         /\ e.kind = "assistant" => e \in Errors \/ e \in Successes
         /\ e.kind # "assistant" => e \notin Errors /\ e \notin Successes
         /\ e \in Errors => e.kind = "assistant" /\ e \notin Successes
         /\ e.kind = "user" <=> e \in Users
         /\ e \in Users => e \notin Errors
<1>1. e \in Answer <=> e.kind = "assistant"
  BY Kinds
<1>2. e.kind = "user" <=> e \in Users
  <2>1. e.kind = "user" => e \in [kind : {"user"}, text : Texts]
    BY DEF Message, Answer, Summary
  <2>2. e \in Users => e.kind = "user"
    BY DEF Users, User
  <2>3. ASSUME e \in [kind : {"user"}, text : Texts] PROVE e \in Users
    <3>1. e = [kind |-> "user", text |-> e.text] /\ e.text \in Texts
      BY <2>3
    <3> QED BY <3>1 DEF Users, User
  <2> QED BY <2>1, <2>2, <2>3
<1>3. e \in Errors <=> e \in Answer /\ e.stop \in ErrorStops
  BY DEF Errors
<1>4. e \in Successes <=> e \in Answer /\ e \notin Errors
  BY DEF Successes
<1> QED BY <1>1, <1>2, <1>3, <1>4 DEF IsError

LEMMA MessageBounded ==
  ASSUME SessionTyped, SessionTyped', MirrorInv, Bounded, ProcessMessage PROVE Bounded'
<1> SUFFICES ASSUME ~outOfStep' PROVE InOrder' /\ budget' >= 0 /\ budget' >= Worst'
  BY DEF Bounded
<1> DEFINE q == agentEventQueue
           q1 == agentEventQueue'
           e == Head(q)
           last == lastAssistantMessage
           last1 == lastAssistantMessage'
           success == e.kind = "assistant" /\ ~IsError(e)
<1>1. /\ q # <<>> /\ e # AgentEnd /\ q1 = Tail(q) /\ entries' = Append(entries, e)
      /\ last1 = IF e.kind = "assistant" THEN e ELSE last
      /\ overflowRecoveryAttempted' = (overflowRecoveryAttempted /\ e.kind # "user" /\ ~success)
      /\ retryAttempt' = IF success THEN 0 ELSE retryAttempt
      /\ UNCHANGED <<run, messages, backoff, timers, jobs, budget, outOfStep>>
  BY DEF ProcessMessage, agentVars, ghostVars
<1>2. ~outOfStep /\ InOrder
  BY <1>1 DEF Bounded
<1>3. q \in Seq(Event) /\ Ordered(q)
  BY <1>2 DEF MirrorInv, MirrorTyped, InOrder
<1>4. e \in Message
  <2>1. e \in Event
    BY <1>1, <1>3, HeardLess
  <2> QED BY <1>1, <2>1 DEF Event
<1>5. /\ success <=> e \in Successes
      /\ e.kind = "assistant" => e \in Errors \/ e \in Successes
      /\ e.kind # "assistant" => e \notin Errors /\ e \notin Successes
      /\ e \in Errors => e.kind = "assistant" /\ e \notin Successes
      /\ e.kind = "user" <=> e \in Users
      /\ e \in Users => e \notin Errors
      /\ e \notin Ends
  BY <1>1, <1>4, WhichMessage DEF Ends
<1>6. \A K : Has(q, K) <=> e \in K \/ Has(q1, K)
  <2>1. \A K : Has(q, K) <=> Head(q) \in K \/ Has(Tail(q), K)
    BY <1>1, <1>3, HasFirst
  <2> QED BY <1>1, <2>1
<1>7. /\ Ordered(q1)
      /\ e \in Errors => q1 = <<AgentEnd>>
  BY <1>1, <1>3, OrderedTail
<1>8. last \in Errors => FALSE
  <2>1. last \in Errors => q = <<AgentEnd>>
    BY <1>2 DEF InOrder
  <2>2. Head(<<AgentEnd>>) = AgentEnd
    OBVIOUS
  <2> QED BY <1>1, <2>1, <2>2
<1>9. InOrder'
  <2>1. run # "none" => Plain(q)
    BY <1>2 DEF InOrder
  <2>2. run # "none" => Plain(q1) /\ e \notin Errors
    BY <1>6, <2>1 DEF Plain
  <2>3. last1 \in Errors => e \in Errors
    BY <1>1, <1>8
  <2> QED BY <1>1, <1>7, <2>2, <2>3, Rigid, RigidKinds
      DEF InOrder, Ordered, Plain, Ends, AgentEnd
<1>10. Bigs(entries') = Bigs(entries)
  <2> DEFINE b == <<e>>
  <2>1. b \in Seq(Message) /\ entries \in Seq(Entry)
    BY <1>4, MessageAlone DEF SessionTyped
  <2>2. entries' = entries \o b
    BY <1>1, <1>4, <2>1, AppendIsConcat DEF Entry
  <2> HIDE DEF b
  <2> QED BY <2>1, <2>2, HorizonStays
<1>11. Moves(0, 0, 0, 0, 0, 0)
  <2>1. Ending' = Ending
    <3>1. Has(q1, Ends) <=> Has(q, Ends)
      BY <1>5, <1>6
    <3> QED BY <3>1, RigidKinds DEF Ending, One
  <2>2. Running' = Running /\ Sleeping' = Sleeping /\ Underway' = Underway
    BY <1>1, Rigid, SameJobs DEF Running, Sleeping
  <2>3. Likely' <= Likely
    BY <1>1, <1>10, NoMoreLikely
  <2> QED BY <1>1, <2>1, <2>2, <2>3, Counted, CountedNext DEF Moves
<1>12. Standing' <= Standing + (MaxRetries + 1) * 0
  <2>1. Recovery' = Recovery
    BY <1>1, <1>5, <1>6, RigidKinds DEF Recovery, One
  <2>2. Attempts' = Attempts
    BY <1>1, <1>5, <1>6, RigidKinds DEF Attempts
  <2>3. Failed' = Failed
    <3>1. Has(<<AgentEnd>>, Errors) <=> AgentEnd \in Errors
      BY HasOne
    <3>2. (Has(q1, Errors) \/ last1 \in Errors) <=> (Has(q, Errors) \/ last \in Errors)
      BY <1>1, <1>5, <1>6, <1>8
    <3> QED BY <3>2, RigidKinds DEF Failed
  <2> QED BY <2>1, <2>2, <2>3, StandsTheSame
<1>13. Worst' <= Worst /\ Worst \in Int /\ Worst' \in Int
  BY <1>11, <1>12, NoWorse
<1> QED BY <1>1, <1>2, <1>9, <1>13, StillEnough DEF SessionTyped

LEMMA ListenerBounded == ASSUME ListenerThrows PROVE Bounded'
<1>1. outOfStep'
  BY DEF ListenerThrows
<1> QED BY <1>1 DEF Bounded

LEMMA HasNone == ASSUME NEW S, NEW s \in Seq(S), NEW K, S \cap K = {} PROVE ~Has(s, K)
<1>1. \A i \in 1..Len(s) : s[i] \in S
  BY ElementOfSeq
<1> QED BY <1>1 DEF Has

LEMMA AllOutside ==
  ASSUME NEW S, NEW s \in Seq(S), NEW K, ~Has(s, K) PROVE s \in Seq(S \ K)
<1>1. Len(s) \in Nat /\ s \in [1..Len(s) -> S]
  BY LenProperties, SeqDef
<1>2. \A i \in 1..Len(s) : s[i] \in S \ K
  BY <1>1 DEF Has
<1>3. s \in [1..Len(s) -> S \ K]
  BY <1>1, <1>2
<1> QED BY <1>1, <1>3, SeqDef

\* A compaction makes every answer it kept an old one: none of them is too large now.
LEMMA NothingDueAfter ==
  ASSUME SessionTyped, SessionTyped', NEW at \in Nat, at >= answers, answers \in Nat, NEW keep \in Nat \ {0},
         ~Has(entries, Later), entries' = Append(entries, CompactionEntry(keep, at)),
         messages' \in {Context(entries'), Front(Context(entries'))}
  PROVE  ~Due(messages)'
<1> DEFINE c == CompactionEntry(keep, at)
           all == Append(entries, c)
           context == Context(all)
           n == Len(entries) + 1
           Old == Entry \ Later
           kept == SubSeq(all, keep, n - 1)
           left == Without(kept, CompactionEntries)
           rest == SubSeq(all, n + 1, n)
           first == <<Summary>>
<1>1. c \in CompactionEntries /\ c.keep = keep /\ c.at = at /\ c.kind = "compaction"
  BY DEF CompactionEntry, CompactionEntries
<1>2. entries \in Seq(Entry)
  BY DEF SessionTyped
<1> HIDE DEF c
<1>3. /\ all \in Seq(Entry) /\ Compactions(all) # {} /\ Max(Compactions(all)) = n /\ all[n] = c
      /\ context = first \o left \o rest
      /\ context \in Seq(Message)
  BY <1>1, <1>2, ContextAfter
<1>4. entries \in Seq(Old)
  BY <1>2, AllOutside
<1>5. c \in Old /\ Summary \in Old
  BY <1>1, Kinds DEF Later, Entry, Answer, Summary
<1>6. all \in Seq(Old) /\ Len(all) = n /\ n \in Nat
  BY <1>4, <1>5, AppendProperties, LenProperties
<1> HIDE DEF all, n
<1>7. kept \in Seq(Old) /\ rest \in Seq(Old)
  <2>1. keep \in Nat /\ keep > 0 /\ n - 1 \in Int /\ n - 1 <= Len(all) /\ n + 1 \in Nat /\ n + 1 > 0
        /\ n \in Int /\ n <= Len(all)
    BY <1>6
  <2>2. kept \in Seq(Old)
    BY <1>6, <2>1, PartOf
  <2>3. rest \in Seq(Old)
    BY <1>6, <2>1, PartOf
  <2> QED BY <2>2, <2>3
<1>8. left \in Seq(Old)
  <2>1. left \in Seq(Old \ CompactionEntries)
    BY <1>7, WithoutType
  <2> QED BY <2>1, SeqMonotonic
<1>9. first \in Seq(Old)
  BY <1>5
<1> HIDE DEF left, rest, first, Old
<1>10. context \in Seq(Old)
  <2>1. first \o left \in Seq(Old)
    BY <1>8, <1>9, ConcatProperties
  <2>2. first \o left \o rest \in Seq(Old)
    BY <1>7, <2>1, ConcatProperties
  <2> QED BY <1>3, <2>2
<1>11. Horizon(all) = at
  BY <1>1, <1>3 DEF Horizon
<1>12. Old \cap Bigs(all) = {}
  <2>1. Bigs(all) \subseteq Later
    BY <1>11, Kinds DEF Bigs, Later
  <2> QED BY <2>1 DEF Old
<1>13. ~Has(context, Bigs(all))
  BY <1>10, <1>12, HasNone
<1>14. ~Has(Front(context), Bigs(all))
  BY <1>10, <1>13, HasFront
<1>15. entries' = all /\ messages' \in {context, Front(context)}
  BY DEF all, c
<1> HIDE DEF context
<1> QED BY <1>13, <1>14, <1>15, DueNext

LEMMA CompactionEndsBounded ==
  ASSUME SessionTyped, SessionTyped', MirrorInv, OneWait, Known, Bounded, NEW o \in Owners, CompactionEnds(o)
  PROVE  Bounded'
<1> SUFFICES ASSUME ~outOfStep' PROVE InOrder' /\ budget' >= 0 /\ budget' >= Worst'
  BY DEF Bounded
<1> DEFINE job == jobs[o]
           at == answers + IF run = "turn" THEN 1 ELSE 0
           going == job.kind = "overflow" \/ (job.kind = "threshold" /\ steeringQueue \o followUpQueue # <<>>)
<1>1. /\ job # None /\ entries' = Append(entries, CompactionEntry(job.keep, at))
      /\ timers' = IF going THEN timers + 1 ELSE timers
      /\ jobs' = [jobs EXCEPT ![o] = None]
      /\ outOfStep' = (outOfStep \/ agentEventQueue # <<>>)
      /\ messages' \in {Context(entries'), Front(Context(entries'))}
      /\ UNCHANGED <<run, agentEventQueue, lastAssistantMessage, retryAttempt,
                     backoff, overflowRecoveryAttempted, budget>>
  BY DEF CompactionEnds, Released
<1>2. ~outOfStep /\ InOrder
  BY <1>1 DEF Bounded
<1>3. InOrder'
  BY <1>1, <1>2, OrderStays
<1>4. job \in Job /\ job.keep \in Nat \ {0}
  BY <1>1 DEF SessionTyped, Job
<1>5. answers \in Nat /\ at \in Nat /\ at >= answers
  BY DEF MirrorInv, MirrorTyped
<1> HIDE DEF at
<1>6. ~Due(messages)'
  <2>1. ~Has(entries, Later)
    BY DEF Known
  <2> DEFINE keep == job.keep
  <2>2. keep \in Nat \ {0} /\ entries' = Append(entries, CompactionEntry(keep, at))
    BY <1>1, <1>4
  <2> HIDE DEF keep, job
  <2> QED BY <1>1, <1>5, <2>1, <2>2, NothingDueAfter
<1>7. Likely' = 0
  BY <1>6 DEF Likely, One
<1>8. Running' = Running /\ Ending' = Ending /\ Sleeping' = Sleeping
  BY <1>1, Rigid, SameSaid DEF Running, Sleeping
<1>9. /\ Underway' <= Underway + 0
      /\ o \in Continuing => Underway' <= Underway + (-1)
  BY <1>1, JobEnds
<1>10. Moves(0, 0, 0, 0, 0, 0) \/ Moves(0, 0, 1, 0, -1, 0)
  <2>1. CASE o \in Continuing
    <3>1. timers' <= timers + 1
      BY <1>1, Counted
    <3> QED BY <1>7, <1>8, <1>9, <2>1, <3>1, Counted, CountedNext DEF Moves
  <2>2. CASE o \notin Continuing
    <3>1. timers' = timers
      BY <1>1, <2>2 DEF Continuing, Continues
    <3> QED BY <1>7, <1>8, <1>9, <3>1, Counted, CountedNext DEF Moves
  <2> QED BY <2>1, <2>2
<1>11. Standing' <= Standing + (MaxRetries + 1) * 0
  BY <1>1, SameSaid, StandsTheSame
<1>12. Worst' <= Worst /\ Worst \in Int /\ Worst' \in Int
  BY <1>10, <1>11, NoWorse
<1> QED BY <1>1, <1>2, <1>3, <1>12, StillEnough DEF SessionTyped

-----------------------------------------------------------------------------
(* A run goes on, ends, begins.                                              *)

LEMMA EmittedHas ==
  ASSUME MirrorInv, NEW events \in Seq(Event), Emit(events)
  PROVE  \A K : Has(agentEventQueue', K) <=> Has(agentEventQueue, K) \/ (connected /\ Has(events, K))
<1> DEFINE q == agentEventQueue
           q1 == agentEventQueue'
<1>1. q \in Seq(Event)
  BY DEF MirrorInv, MirrorTyped
<1>2. q1 = IF connected THEN q \o events ELSE q
  BY DEF Emit
<1>3. \A K : Has(q \o events, K) <=> Has(q, K) \/ Has(events, K)
  BY <1>1, HasBoth
<1> HIDE DEF q, q1
<1>4. \A K : Has(q1, K) <=> Has(q, K) \/ (connected /\ Has(events, K))
  <2>1. CASE connected
    <3>1. q1 = q \o events
      BY <1>2, <2>1
    <3> QED BY <1>3, <2>1, <3>1
  <2>2. CASE ~connected
    BY <1>2, <2>2
  <2> QED BY <2>1, <2>2
<1> QED BY <1>4 DEF q, q1

LEMMA EmittedOrder ==
  ASSUME MirrorInv, NEW events \in Seq(Event), Emit(events), Plain(agentEventQueue), Ordered(events),
         lastAssistantMessage \notin Errors, UNCHANGED lastAssistantMessage,
         run' # "none" => Plain(events)
  PROVE  InOrder'
<1> DEFINE q == agentEventQueue
           q1 == agentEventQueue'
<1>1. q \in Seq(Event)
  BY DEF MirrorInv, MirrorTyped
<1>2. q1 = IF connected THEN q \o events ELSE q
  BY DEF Emit
<1>3. Ordered(q \o events) /\ Ordered(q)
  BY <1>1, OrderedJoin, PlainIsOrdered
<1>4. Ordered(q1)
  BY <1>2, <1>3
<1>5. Plain(events) => Plain(q1)
  BY EmittedHas DEF Plain
<1> QED BY <1>4, <1>5, Rigid, RigidKinds DEF InOrder, Ordered, Plain, Ends, AgentEnd

LEMMA Apart ==
  /\ Users \cap Answer = {} /\ Users \cap Ends = {} /\ Ends \cap Answer = {}
  /\ Errors \subseteq Answer /\ Successes \subseteq Answer
  /\ \A es : Bigs(es) \subseteq Answer
  /\ Users \subseteq Message /\ Users \subseteq Event /\ Message \subseteq Event
  /\ AgentEnd \in Event /\ AgentEnd \in Ends /\ Later \subseteq Answer
BY DEF Users, Answer, Ends, Errors, Successes, Bigs, User, AgentEnd, Message, Event, Later

LEMMA DrainedSpoken == ASSUME NEW q \in Seq(Texts) PROVE Drained(q) \in Seq(Users)
<1>1. CASE q = <<>>
  BY <1>1, EmptySeq DEF Drained
<1>2. CASE q # <<>>
  <2> DEFINE u == User(Head(q))
  <2>1. u \in Users /\ Drained(q) = <<u>>
    BY <1>2, HeadTailProperties DEF Users, Drained
  <2> HIDE DEF u
  <2>2. <<u>> \in Seq(Users)
    BY <2>1
  <2> QED BY <2>1, <2>2
<1> QED BY <1>1, <1>2

\* Events that are no answers and no end.
Words == Message \ Answer

LEMMA WordsArePlain ==
  ASSUME NEW s \in Seq(Words)
  PROVE  /\ s \in Seq(Event) /\ s \in Seq(Message) /\ Plain(s) /\ Ordered(s)
         /\ \A K : K \subseteq Answer \cup Ends => ~Has(s, K)
<1>1. Words \subseteq Event /\ Words \subseteq Message
  BY Apart DEF Words
<1>2. Words \cap Ends = {}
  BY Kinds DEF Words, Ends, AgentEnd, Message, Answer, Summary
<1>3. \A K : K \subseteq Answer \cup Ends => Words \cap K = {}
  BY <1>2 DEF Words
<1>4. \A K : K \subseteq Answer \cup Ends => ~Has(s, K)
  BY <1>3, HasNone
<1>5. Errors \subseteq Answer \cup Ends /\ Ends \subseteq Answer \cup Ends
  BY Apart
<1>6. Plain(s)
  BY <1>4, <1>5 DEF Plain
<1> QED BY <1>1, <1>4, <1>6, SeqMonotonic, PlainIsOrdered

LEMMA UsersAreWords == Users \subseteq Words
BY Apart DEF Words

\* A run that announces nothing but words and is then under way: what can still fail is
\* counted anew.
LEMMA GoesOn ==
  ASSUME SessionTyped, SessionTyped', MirrorInv, ~outOfStep, Bounded,
         NEW announced \in Seq(Words), Emit(announced),
         Plain(agentEventQueue), lastAssistantMessage \notin Errors,
         budget' = Budget(messages), messages' = messages \o announced, timers' <= timers,
         UNCHANGED <<lastAssistantMessage, backoff, jobs, entries>>
  PROVE  InOrder' /\ budget' >= 0 /\ budget' >= Worst'
<1>1. /\ announced \in Seq(Event) /\ announced \in Seq(Message) /\ Plain(announced) /\ Ordered(announced)
      /\ \A K : K \subseteq Answer \cup Ends => ~Has(announced, K)
  BY WordsArePlain
<1>2. InOrder'
  BY <1>1, EmittedOrder
<1>3. Likely' = 1 => Due(messages)
  <2> DEFINE K == Bigs(entries)
  <2>1. messages \in Seq(Message) /\ K \subseteq Answer
    BY Apart DEF SessionTyped
  <2>2. Has(messages', K) <=> Has(messages, K) \/ Has(announced, K)
    BY <1>1, <2>1, HasBoth
  <2>3. ~Has(announced, K)
    BY <1>1, <2>1
  <2>4. Bigs(entries') = K
    OBVIOUS
  <2> QED BY <2>1, <2>2, <2>3, <2>4, StillLikely
<1>4. Underway' <= Underway + 0 /\ (MaxRetries + 1) * 0 = 0 /\ Budget(messages) \in Int
  <2>1. Underway' = Underway /\ Underway \in Nat
    BY SameJobs, Counted
  <2>2. Budget(messages) \in Int
    BY BudgetTyped DEF SessionTyped
  <2> QED BY <2>1, <2>2, SessionAssumption
<1>5. budget' = Budget(messages) + (MaxRetries + 1) * 0
  BY <1>4
<1> DEFINE ms == messages
<1>6. budget' = Budget(ms) + (MaxRetries + 1) * 0 /\ (Likely' = 1 => Due(ms))
  BY <1>3, <1>5
<1> HIDE DEF ms
<1>7. budget' >= 0 /\ budget' >= Worst'
  BY <1>2, <1>4, <1>6, CountedAnew
<1> QED BY <1>2, <1>7

LEMMA ToolsEndBounded ==
  ASSUME SessionTyped, SessionTyped', MirrorInv, Bounded, ToolsEnd PROVE Bounded'
<1> SUFFICES ASSUME ~outOfStep' PROVE InOrder' /\ budget' >= 0 /\ budget' >= Worst'
  BY DEF Bounded
<1> DEFINE result == ToolResult(answers)
           first == <<result>>
           rest == Drained(steeringQueue)
           announced == first \o rest
<1>1. /\ run = "tools" /\ messages' = messages \o announced /\ Emit(announced) /\ budget' = Budget(messages)
      /\ UNCHANGED <<lastAssistantMessage, timers, backoff, jobs, entries, outOfStep>>
  BY DEF ToolsEnd
<1>2. ~outOfStep /\ Plain(agentEventQueue) /\ lastAssistantMessage \notin Errors
  BY <1>1 DEF Bounded, InOrder
<1>3. result \in Words
  BY Kinds DEF ToolResult, Words, Message, Answer, MirrorInv, MirrorTyped
<1>4. first \in Seq(Words) /\ rest \in Seq(Words)
  <2>1. rest \in Seq(Users)
    BY QueuesTyped, DrainedSpoken
  <2> HIDE DEF result, rest
  <2>2. rest \in Seq(Words)
    BY <2>1, UsersAreWords, SeqMonotonic
  <2> QED BY <1>3, <2>2
<1> HIDE DEF first, rest
<1>5. announced \in Seq(Words)
  BY <1>4, ConcatProperties
<1> HIDE DEF announced
<1>6. timers' <= timers
  BY <1>1, Counted
<1> QED BY <1>1, <1>2, <1>5, <1>6, GoesOn

LEMMA StreamThrowsBounded ==
  ASSUME SessionTyped, SessionTyped', MirrorInv, Bounded, NEW retryable \in BOOLEAN, StreamThrows(retryable)
  PROVE  Bounded'
<1> SUFFICES ASSUME ~outOfStep' PROVE InOrder' /\ budget' >= 0 /\ budget' >= Worst'
  BY DEF Bounded
<1> DEFINE none == <<>>
           end == <<AgentEnd>>
           events == none \o end
           f == Failure(throws')
<1>1. /\ run = "turn" /\ run' = "none" /\ messages' = Append(messages, f) /\ throws' = throws + 1
      /\ Emit(events)
      /\ UNCHANGED <<lastAssistantMessage, retryAttempt, backoff, overflowRecoveryAttempted, timers,
                     jobs, entries, budget, outOfStep>>
  BY DEF StreamThrows, EndRun
<1>2. ~outOfStep /\ Plain(agentEventQueue) /\ lastAssistantMessage \notin Errors
  BY <1>1 DEF Bounded, InOrder
<1>3. /\ end \in Seq(Event) /\ Len(end) = 1 /\ end[1] = AgentEnd
      /\ \A K : Has(end, K) <=> AgentEnd \in K
  BY Apart, HasOne
<1>4. events = end
  <2>1. none \in Seq(Event) /\ Len(none) = 0
    BY EmptySeq
  <2> HIDE DEF end
  <2> QED BY <1>3, <2>1, ConcatEmptySeq
<1>5. Ordered(end)
  BY <1>3, Apart DEF Ordered
<1> HIDE DEF end, events, none
<1>6. Emit(end)
  BY <1>1, <1>4
<1>7. InOrder'
  BY <1>1, <1>2, <1>3, <1>5, <1>6, EmittedOrder
<1>8. \A K : Has(agentEventQueue', K) <=> Has(agentEventQueue, K) \/ (connected /\ AgentEnd \in K)
  BY <1>3, <1>6, EmittedHas
<1>9. AgentEnd \notin Errors /\ AgentEnd \notin Successes /\ AgentEnd \notin Successes \cup Users
  BY Apart
<1>10. Moves(-1, 1, 0, 0, 0, 0)
  <2>1. Running = 1 /\ Running' = 0 /\ Ending = 0
    BY <1>1, <1>2 DEF Running, Ending, One, Plain
  <2>2. Sleeping' = Sleeping /\ Underway' = Underway
    BY <1>1, Rigid, SameJobs DEF Sleeping
  <2>3. Likely' <= Likely
    <3> DEFINE K == Bigs(entries)
               b == <<f>>
    <3>1. messages \in Seq(Message) /\ K \subseteq Answer
      BY Apart DEF SessionTyped
    <3>2. f \in Words
      BY <1>1 DEF Failure, Words, Message, Answer, SessionTyped
    <3> HIDE DEF f
    <3>3. b \in Seq(Words) /\ f \in Message
      BY <3>2 DEF Words
    <3>4. messages' = messages \o b
      BY <1>1, <3>1, <3>3, AppendIsConcat
    <3> HIDE DEF b
    <3>5. b \in Seq(Message) /\ ~Has(b, K)
      BY <3>1, <3>3, WordsArePlain
    <3>6. Has(messages', K) <=> Has(messages, K) \/ Has(b, K)
      BY <3>1, <3>4, <3>5, HasBoth
    <3> QED BY <1>1, <3>5, <3>6, NoMoreLikely
  <2> QED BY <1>1, <2>1, <2>2, <2>3, Counted, CountedNext DEF Moves
<1>11. Standing' <= Standing + (MaxRetries + 1) * 0
  <2>1. Recovery' = Recovery
    BY <1>1, <1>8, <1>9, RigidKinds DEF Recovery, One
  <2>2. Attempts' = Attempts
    BY <1>1, <1>8, <1>9, RigidKinds DEF Attempts
  <2>3. Failed' = Failed
    BY <1>1, <1>8, <1>9, RigidKinds DEF Failed, One
  <2> QED BY <2>1, <2>2, <2>3, StandsTheSame
<1>12. Worst' <= Worst /\ Worst \in Int /\ Worst' \in Int
  BY <1>10, <1>11, NoWorse
<1> QED BY <1>1, <1>2, <1>7, <1>12, StillEnough DEF SessionTyped

LEMMA StartBounded ==
  ASSUME SessionTyped, SessionTyped', MirrorInv, Bounded, ~outOfStep',
         NEW ms \in Seq(Users), NEW skip \in BOOLEAN, NEW sq \in Seq(Texts), NEW fq,
         StartRun(ms, skip, sq, fq),
         \/ timers' = timers - 1
         \/ timers' = timers /\ ms # <<>>,
         UNCHANGED <<lastAssistantMessage, retryAttempt, backoff, overflowRecoveryAttempted,
                     jobs, entries>>
  PROVE  InOrder' /\ budget' >= 0 /\ budget' >= Worst'
<1> DEFINE polled == IF skip THEN <<>> ELSE Drained(sq)
           announced == ms \o polled
<1>1. /\ run = "none" /\ run' = "turn" /\ messages' = messages \o announced
      /\ Emit(announced)
      /\ budget' = IF announced = <<>> THEN budget ELSE Budget(messages)
      /\ outOfStep' = (outOfStep \/ agentEventQueue # <<>>)
  BY DEF StartRun
<1>2. polled \in Seq(Users)
  BY DrainedSpoken, EmptySeq
<1> HIDE DEF polled
<1>3. announced \in Seq(Users) /\ Len(announced) = Len(ms) + Len(polled) /\ Len(ms) \in Nat /\ Len(polled) \in Nat
  BY <1>2, ConcatProperties, LenProperties
<1>4. ms # <<>> => announced # <<>>
  BY <1>3, EmptySeq
<1> HIDE DEF announced
<1>5. announced \in Seq(Words)
  BY <1>3, UsersAreWords, SeqMonotonic
<1>6. ~outOfStep /\ agentEventQueue = <<>>
  BY <1>1
<1>7. \A K : ~Has(agentEventQueue, K)
  BY <1>6, HasNothing
<1>8. Plain(agentEventQueue)
  BY <1>7 DEF Plain
<1>9. lastAssistantMessage \notin Errors
  <2>1. Len(<<AgentEnd>>) = 1 /\ Len(<<>>) = 0
    OBVIOUS
  <2>2. <<AgentEnd>> # <<>>
    BY <2>1
  <2> QED BY <1>6, <2>2 DEF Bounded, InOrder
<1>10. CASE announced # <<>>
  <2>1. timers' <= timers /\ budget' = Budget(messages)
    BY <1>1, <1>10, Counted
  <2> QED BY <1>1, <1>5, <1>6, <1>8, <1>9, <2>1, GoesOn
<1>11. CASE announced = <<>>
  <2>1. timers' = timers - 1 /\ budget' = budget
    BY <1>1, <1>4, <1>11
  <2>2. InOrder'
    <3>1. announced \in Seq(Event) /\ Plain(announced) /\ Ordered(announced)
      BY <1>5, WordsArePlain
    <3> QED BY <1>1, <1>8, <1>9, <3>1, EmittedOrder
  <2>3. ~Has(announced, Ends) /\ ~Has(announced, Errors) /\ ~Has(announced, Successes)
        /\ ~Has(announced, Successes \cup Users) /\ ~Has(announced, Bigs(entries))
    BY <1>11, HasNothing
  <2>4. \A K : Has(agentEventQueue', K) <=> Has(agentEventQueue, K) \/ (connected /\ Has(announced, K))
    <3>1. announced \in Seq(Event)
      BY <1>5, WordsArePlain
    <3> QED BY <1>1, <3>1, EmittedHas
  <2>5. Moves(1, 0, -1, 0, 0, 0)
    <3>1. Running = 0 /\ Running' = 1 /\ Ending' = 0
      BY <1>1, <1>7, <2>3, <2>4, RigidKinds DEF Running, Ending, One
    <3>2. Sleeping' = Sleeping /\ Underway' = Underway
      BY Rigid, SameJobs DEF Sleeping
    <3>3. Likely' <= Likely
      <4> DEFINE K == Bigs(entries)
      <4>1. messages \in Seq(Message) /\ announced \in Seq(Message)
        BY <1>5, WordsArePlain DEF SessionTyped
      <4>2. Has(messages', K) <=> Has(messages, K) \/ Has(announced, K)
        BY <1>1, <4>1, HasBoth
      <4> QED BY <2>3, <4>2, NoMoreLikely
    <3> QED BY <2>1, <3>1, <3>2, <3>3, Counted, CountedNext DEF Moves
  <2>6. Standing' <= Standing + (MaxRetries + 1) * 0
    <3>1. Recovery' = Recovery
      BY <2>3, <2>4, RigidKinds DEF Recovery, One
    <3>2. Attempts' = Attempts
      BY <2>3, <2>4, RigidKinds DEF Attempts
    <3>3. Failed' = Failed
      BY <2>3, <2>4, RigidKinds DEF Failed, One
    <3> QED BY <3>1, <3>2, <3>3, StandsTheSame
  <2>7. Worst' <= Worst /\ Worst \in Int /\ Worst' \in Int
    BY <2>5, <2>6, NoWorse
  <2> QED BY <1>6, <2>1, <2>2, <2>7, StillEnough DEF SessionTyped
<1> QED BY <1>10, <1>11

LEMMA TimerBounded ==
  ASSUME SessionTyped, SessionTyped', MirrorInv, Bounded, TimerFires PROVE Bounded'
<1> SUFFICES ASSUME ~outOfStep' PROVE InOrder' /\ budget' >= 0 /\ budget' >= Worst'
  BY DEF Bounded
<1>1. /\ timers' = timers - 1
      /\ UNCHANGED <<lastAssistantMessage, retryAttempt, backoff, overflowRecoveryAttempted,
                     jobs, entries>>
  BY DEF TimerFires
<1>2. steeringQueue \in Seq(Texts) /\ followUpQueue \in Seq(Texts)
  BY QueuesTyped
<1>3. CASE StartRun(<<>>, FALSE, steeringQueue, followUpQueue)
  <2> DEFINE none == <<>>
  <2>1. none \in Seq(Users) /\ StartRun(none, FALSE, steeringQueue, followUpQueue)
    BY <1>3, EmptySeq
  <2> HIDE DEF none
  <2> QED BY <1>1, <1>2, <2>1, StartBounded
<1>4. CASE /\ steeringQueue # <<>>
           /\ StartRun(Drained(steeringQueue), TRUE, Tail(steeringQueue), followUpQueue)
  <2> DEFINE ms == Drained(steeringQueue)
             rest == Tail(steeringQueue)
  <2>1. ms \in Seq(Users) /\ rest \in Seq(Texts) /\ StartRun(ms, TRUE, rest, followUpQueue)
    BY <1>2, <1>4, DrainedSpoken, HeadTailProperties
  <2> HIDE DEF ms, rest
  <2> QED BY <1>1, <2>1, StartBounded
<1>5. CASE StartRun(Drained(followUpQueue), FALSE, steeringQueue, Tail(followUpQueue))
  <2> DEFINE ms == Drained(followUpQueue)
             rest == Tail(followUpQueue)
  <2>1. ms \in Seq(Users) /\ StartRun(ms, FALSE, steeringQueue, rest)
    BY <1>2, <1>5, DrainedSpoken
  <2> HIDE DEF ms, rest
  <2> QED BY <1>1, <1>2, <2>1, StartBounded
<1>6. CASE UNCHANGED <<agentVars, agentEventQueue, missed, budget, outOfStep>>
  <2>1. UNCHANGED <<run, messages, agentEventQueue, budget, outOfStep>>
    BY <1>6 DEF agentVars
  <2>2. InOrder'
    BY <1>1, <2>1, OrderStays DEF Bounded
  <2>3. Moves(0, 0, -1, 0, 0, 0)
    <3>1. Likely' <= Likely /\ Underway' = Underway
      BY <1>1, <2>1, NoMoreLikely, SameJobs
    <3>2. Running' = Running /\ Ending' = Ending /\ Sleeping' = Sleeping
      BY <1>1, <2>1, Rigid, SameSaid DEF Running, Sleeping
    <3> QED BY <1>1, <3>1, <3>2, Counted, CountedNext DEF Moves
  <2>4. Standing' <= Standing + (MaxRetries + 1) * 0
    BY <1>1, <2>1, SameSaid, StandsTheSame
  <2>5. Worst' <= Worst /\ Worst \in Int /\ Worst' \in Int
    BY <2>3, <2>4, NoWorse
  <2> QED BY <2>1, <2>2, <2>5, StillEnough DEF SessionTyped
<1> QED BY <1>3, <1>4, <1>5, <1>6 DEF TimerFires

LEMMA SendPromptBounded ==
  ASSUME SessionTyped, SessionTyped', MirrorInv, Bounded, NEW t \in Texts, SendPrompt(t) PROVE Bounded'
<1>1. UNCHANGED <<lastAssistantMessage, retryAttempt, backoff, overflowRecoveryAttempted, jobs,
                  entries, timers>>
  BY DEF SendPrompt
<1>2. CASE StartRun(<<User(t)>>, FALSE, steeringQueue, followUpQueue)
  <2> SUFFICES ASSUME ~outOfStep' PROVE InOrder' /\ budget' >= 0 /\ budget' >= Worst'
    BY DEF Bounded
  <2> DEFINE u == User(t)
             ms == <<u>>
  <2>1. u \in Users
    BY DEF Users
  <2> HIDE DEF u
  <2>2. ms \in Seq(Users) /\ ms # <<>>
    <3>1. ms \in Seq(Users) /\ Len(ms) = 1
      BY <2>1
    <3> QED BY <3>1, EmptySeq
  <2>3. StartRun(ms, FALSE, steeringQueue, followUpQueue)
    BY <1>2 DEF u
  <2> HIDE DEF ms
  <2> QED BY <1>1, <2>2, <2>3, QueuesTyped, StartBounded
<1>3. CASE UNCHANGED <<agentVars, agentEventQueue, missed, budget, outOfStep>>
  BY <1>1, <1>3, QuietBounded DEF agentVars
<1> QED BY <1>2, <1>3 DEF SendPrompt

LEMMA BashBounded == ASSUME SessionTyped, SessionTyped', Bounded, RecordBash PROVE Bounded'
<1> SUFFICES ASSUME ~outOfStep' PROVE InOrder' /\ budget' >= 0 /\ budget' >= Worst'
  BY DEF Bounded
<1> DEFINE x == Bash(calls + 1)
           b == <<x>>
           K == Bigs(entries)
           ms == messages
<1>1. /\ budget' = Budget(messages)
      /\ UNCHANGED <<run, agentEventQueue, lastAssistantMessage, timers, backoff, jobs>>
      /\ \/ UNCHANGED <<messages, entries, outOfStep>>
         \/ /\ messages' = messages \o b /\ entries' = entries \o b
            /\ outOfStep' = (outOfStep \/ agentEventQueue # <<>>)
  BY DEF RecordBash
<1>2. InOrder'
  BY <1>1, OrderStays DEF Bounded
<1>3. x \in Words
  BY Kinds DEF Bash, Words, Message, Answer, SessionTyped
<1> HIDE DEF x
<1>4. b \in Seq(Words)
  BY <1>3
<1> HIDE DEF b
<1>5. messages \in Seq(Message) /\ entries \in Seq(Entry) /\ K \subseteq Answer
  BY Apart DEF SessionTyped
<1>6. b \in Seq(Message) /\ ~Has(b, K)
  BY <1>4, <1>5, WordsArePlain
<1>7. Bigs(entries') = K
  BY <1>1, <1>5, <1>6, HorizonStays
<1>8. Has(messages', K) => Has(messages, K)
  <2>1. Has(messages \o b, K) <=> Has(messages, K) \/ Has(b, K)
    BY <1>5, <1>6, HasBoth
  <2>2. messages' = messages \/ messages' = messages \o b
    BY <1>1
  <2> HIDE DEF K
  <2> QED BY <1>6, <2>1, <2>2
<1>9. Likely' = 1 => Due(ms)
  BY <1>5, <1>7, <1>8, StillLikely
<1>10. budget' = Budget(ms) + (MaxRetries + 1) * 0 /\ timers' <= timers /\ Underway' <= Underway + 0
  <2>1. Underway' = Underway /\ Underway \in Nat /\ timers \in Nat
    BY <1>1, SameJobs, Counted
  <2>2. Budget(messages) \in Int
    BY BudgetTyped DEF SessionTyped
  <2> QED BY <1>1, <2>1, <2>2, SessionAssumption
<1> HIDE DEF ms
<1>11. budget' >= 0 /\ budget' >= Worst'
  BY <1>1, <1>2, <1>9, <1>10, CountedAnew
<1> QED BY <1>2, <1>11

LEMMA PromptBounded ==
  ASSUME SessionTyped, SessionTyped', Bounded, NEW t \in Texts, Prompt(t) PROVE Bounded'
<1> SUFFICES ASSUME ~outOfStep' PROVE InOrder' /\ budget' >= 0 /\ budget' >= Worst'
  BY DEF Bounded
<1> DEFINE ms == messages \o pendingBashMessages
           es == entries \o pendingBashMessages
           lasts == {i \in DOMAIN ms : IsAssistant(ms[i])}
           lastAssistant == IF lasts = {} THEN None ELSE ms[Max(lasts)]
           j == IF jobs'[t] = None THEN 0 ELSE 1
<1>1. /\ entries' = es /\ CheckCompaction(t, lastAssistant, ms, es, removed)
      /\ budget' = Budget(ms) + IF jobs'[t] = None THEN 0 ELSE MaxRetries + 1
      /\ outOfStep' = (outOfStep \/ (pendingBashMessages # <<>> /\ agentEventQueue # <<>>))
      /\ UNCHANGED <<run, agentEventQueue, lastAssistantMessage, backoff, timers>>
  BY DEF Prompt
<1>2. InOrder'
  BY <1>1, OrderStays DEF Bounded
<1>3. ms \in Seq(Message) /\ Bigs(es) = Bigs(entries)
  BY MessagesJoin, HorizonStays DEF SessionTyped
<1> HIDE DEF ms, es, lastAssistant
<1>4. /\ \A K : Has(messages', K) => Has(ms, K)
      /\ \/ UNCHANGED jobs
         \/ Underway' <= Underway + 1 /\ jobs'[t] # None
  BY <1>1, <1>3, Who, Checked
<1>5. Likely' = 1 => Due(ms)
  BY <1>1, <1>3, <1>4, StillLikely
<1>6. j \in 0..1 /\ Underway' <= Underway + j
  <2>1. CASE UNCHANGED jobs
    <3>1. Underway' = Underway /\ Underway \in Nat
      BY <2>1, SameJobs, Counted
    <3> QED BY <3>1
  <2>2. CASE Underway' <= Underway + 1 /\ jobs'[t] # None
    BY <2>2
  <2> QED BY <1>4, <2>1, <2>2
<1>7. budget' = Budget(ms) + (MaxRetries + 1) * j /\ timers' <= timers
  <2>1. Budget(ms) \in Int /\ timers \in Nat
    BY BudgetTyped DEF SessionTyped
  <2> QED BY <1>1, <2>1, SessionAssumption
<1> HIDE DEF j
<1>8. budget' >= 0 /\ budget' >= Worst'
  BY <1>1, <1>2, <1>5, <1>6, <1>7, CountedAnew
<1> QED BY <1>2, <1>8

\* An answer, and the end of the run behind it.
LEMMA LastWord ==
  ASSUME NEW m \in Answer
  PROVE  LET events == <<m>> \o <<AgentEnd>> IN
         /\ events \in Seq(Event) /\ Ordered(events)
         /\ \A K : Has(events, K) <=> m \in K \/ AgentEnd \in K
<1> DEFINE a == <<m>>
           b == <<AgentEnd>>
           c == a \o b
<1>1. m \in Event /\ AgentEnd \in Event /\ m \notin Ends
  BY Kinds, Apart
<1>2. a \in Seq(Event) /\ Len(a) = 1 /\ a[1] = m /\ b \in Seq(Event) /\ Len(b) = 1 /\ b[1] = AgentEnd
  BY <1>1
<1>3. (\A K : Has(a, K) <=> m \in K) /\ (\A K : Has(b, K) <=> AgentEnd \in K)
  BY HasOne
<1> HIDE DEF a, b
<1>4. /\ c \in Seq(Event) /\ Len(c) = Len(a) + Len(b)
      /\ \A i \in 1..(Len(a) + Len(b)) : c[i] = IF i <= Len(a) THEN a[i] ELSE b[i - Len(a)]
  BY <1>2, ConcatProperties
<1>5. Len(c) = 2 /\ c[1] = m /\ c[2] = AgentEnd
  <2>1. Len(c) = 2
    BY <1>2, <1>4
  <2>2. 1 \in 1..2 /\ 2 \in 1..2 /\ 1..2 = 1..(Len(a) + Len(b)) /\ 2 - Len(a) = 1
    BY <1>2
  <2>3. c[1] = a[1]
    BY <1>2, <1>4, <2>2
  <2>4. c[2] = b[1]
    BY <1>2, <1>4, <2>2
  <2> QED BY <1>2, <2>1, <2>3, <2>4
<1>6. \A K : Has(c, K) <=> m \in K \/ AgentEnd \in K
  <2>1. \A K : Has(c, K) <=> Has(a, K) \/ Has(b, K)
    BY <1>2, HasBoth
  <2> QED BY <1>3, <2>1
<1> HIDE DEF c
<1>7. Ordered(c)
  <2>1. \A i \in 1..Len(c) : i = 1 \/ i = 2
    BY <1>5
  <2>2. \A i \in 1..Len(c) : c[i] \in Ends => i = Len(c)
    BY <1>1, <1>5, <2>1
  <2>3. \A i \in 1..Len(c) : c[i] \in Errors => i = Len(c) - 1 /\ c[Len(c)] = AgentEnd
    <3>1. AgentEnd \notin Errors
      BY Apart
    <3> QED BY <1>5, <2>1, <3>1
  <2> QED BY <2>2, <2>3 DEF Ordered
<1>8. c \in Seq(Event)
  BY <1>4
<1> QED BY <1>6, <1>7, <1>8 DEF c, a, b

LEMMA AnswersBounded ==
  ASSUME SessionTyped, SessionTyped', MirrorInv, Bounded, NEW stop \in AllStops \cup {"aborted"}, Answers(stop)
  PROVE  Bounded'
<1> SUFFICES ASSUME ~outOfStep' PROVE InOrder' /\ budget' >= 0 /\ budget' >= Worst'
  BY DEF Bounded
<1> DEFINE msg == Assistant(answers + 1, stop)
           one == <<msg>>
           polled == IF stop \notin Ended THEN <<>>
                     ELSE Drained(IF steeringQueue # <<>> THEN steeringQueue ELSE followUpQueue)
           end == <<AgentEnd>>
           going == one \o polled
           ending == one \o end
           ms == messages'
<1>1. /\ run = "turn" /\ messages' = messages \o one \o polled
      /\ budget' = IF IsError(msg) THEN budget - 1 ELSE Budget(ms)
      /\ \/ /\ stop = "toolUse" \/ polled # <<>>
            /\ Emit(going)
         \/ /\ ~(stop = "toolUse" \/ polled # <<>>)
            /\ run' = "none" /\ Emit(ending)
      /\ UNCHANGED <<lastAssistantMessage, retryAttempt, backoff, overflowRecoveryAttempted, timers,
                     jobs, entries, outOfStep>>
  BY DEF Answers, EndRun
<1>2. ~outOfStep /\ Plain(agentEventQueue) /\ lastAssistantMessage \notin Errors
  BY <1>1 DEF Bounded, InOrder
<1>3. /\ msg \in Answer /\ msg.stop = stop /\ (IsError(msg) <=> msg \in Errors)
      /\ (msg \in Errors <=> stop \in ErrorStops)
  <2>1. msg \in Answer /\ msg.stop = stop /\ msg.kind = "assistant"
    BY DEF Assistant, Answer, MirrorInv, MirrorTyped
  <2> HIDE DEF msg
  <2> QED BY <2>1 DEF IsError, Errors
<1>4. polled \in Seq(Users) /\ (stop \in ErrorStops \cup {"toolUse"} => polled = <<>>)
  BY QueuesTyped, DrainedSpoken, EmptySeq DEF ErrorStops, Ended
<1>5. msg \in Message /\ msg \in Event
  BY <1>3, Kinds, Apart
<1> HIDE DEF msg, polled
<1>6. one \in Seq(Message) /\ one \in Seq(Event) /\ \A K : Has(one, K) <=> msg \in K
  BY <1>5, HasOne
<1>7. polled \in Seq(Words)
  BY <1>4, UsersAreWords, SeqMonotonic
<1>8. /\ polled \in Seq(Event) /\ polled \in Seq(Message) /\ Plain(polled)
      /\ \A K : K \subseteq Answer \cup Ends => ~Has(polled, K)
  BY <1>7, WordsArePlain
<1>9. /\ ending \in Seq(Event) /\ Ordered(ending)
      /\ \A K : Has(ending, K) <=> msg \in K \/ AgentEnd \in K
  BY <1>3, LastWord
<1> HIDE DEF one, ending
<1>10. going \in Seq(Event) /\ \A K : Has(going, K) <=> Has(one, K) \/ Has(polled, K)
  <2>1. going \in Seq(Event)
    BY <1>6, <1>8, ConcatProperties
  <2> QED BY <1>6, <1>8, <2>1, HasBoth
<1> HIDE DEF going
<1>11. InOrder'
  <2>1. CASE (stop = "toolUse" \/ polled # <<>>) /\ Emit(going)
    <3>1. msg \notin Errors
      BY <1>3, <1>4, <2>1 DEF ErrorStops
    <3>2. msg \notin Ends
      BY <1>3, Apart
    <3>3. Plain(going)
      BY <1>6, <1>8, <1>10, <3>1, <3>2 DEF Plain
    <3> QED BY <1>1, <1>2, <1>10, <2>1, <3>3, PlainIsOrdered, EmittedOrder
  <2>2. CASE run' = "none" /\ Emit(ending)
    BY <1>1, <1>2, <1>9, <2>2, EmittedOrder
  <2> QED BY <1>1, <2>1, <2>2
<1>12. CASE msg \notin Errors
  <2>1. ms \in Seq(Message) /\ budget' = Budget(ms) /\ Bigs(entries') = Bigs(entries)
    BY <1>1, <1>3, <1>12, Rigid DEF SessionTyped
  <2>2. Budget(ms) \in Int /\ Underway' = Underway /\ Underway \in Nat /\ timers \in Nat
    BY <1>1, BudgetTyped, SameJobs, Counted
  <2>3. Likely' = 1 => Due(ms)
    <3>1. Has(messages', Bigs(entries)) => Has(ms, Bigs(entries))
      OBVIOUS
    <3> HIDE DEF ms
    <3> QED BY <2>1, <3>1, StillLikely
  <2>4. budget' = Budget(ms) + (MaxRetries + 1) * 0 /\ timers' <= timers /\ Underway' <= Underway + 0
    BY <1>1, <2>1, <2>2, SessionAssumption
  <2> HIDE DEF ms
  <2>5. budget' >= 0 /\ budget' >= Worst'
    BY <1>1, <1>11, <2>3, <2>4, CountedAnew
  <2> QED BY <1>11, <2>5
<1>13. CASE msg \in Errors
  <2>1. run' = "none" /\ Emit(ending) /\ polled = <<>> /\ budget' = budget - 1
    BY <1>1, <1>3, <1>4, <1>13 DEF ErrorStops
  <2>2. \A K : Has(agentEventQueue', K)
                <=> Has(agentEventQueue, K) \/ (connected /\ (msg \in K \/ AgentEnd \in K))
    BY <1>9, <2>1, EmittedHas
  <2>3. /\ msg \notin Ends /\ msg \notin Successes /\ msg \notin Successes \cup Users
        /\ AgentEnd \in Ends /\ AgentEnd \notin Errors /\ AgentEnd \notin Successes
        /\ AgentEnd \notin Successes \cup Users
    BY <1>3, <1>13, Apart DEF Successes
  <2>4. Running = 1 /\ Running' = 0 /\ Ending = 0 /\ Failed = 0
    BY <1>1, <1>2, <2>1 DEF Running, Ending, Failed, One, Plain
  <2>5. Ending' = One(connected) /\ Failed' = One(connected)
    BY <1>1, <1>2, <1>13, <2>2, <2>3, RigidKinds DEF Ending, Failed, One, Plain
  <2>6. Recovery' = Recovery /\ Attempts' = Attempts
    <3>1. Recovery' = Recovery
      BY <1>1, <2>2, <2>3, RigidKinds DEF Recovery, One
    <3>2. Attempts' = Attempts
      BY <1>1, <2>2, <2>3, RigidKinds DEF Attempts
    <3> QED BY <3>1, <3>2
  <2>7. Sleeping' = Sleeping /\ Underway' = Underway /\ timers' = timers
    BY <1>1, Rigid, SameJobs DEF Sleeping
  <2>8. Likely' <= Likely
    <3> DEFINE K == Bigs(entries)
    <3>1. messages \in Seq(Message) /\ K \subseteq Answer
      BY Apart DEF SessionTyped
    <3>2. Has(messages \o one, K) <=> Has(messages, K) \/ Has(one, K)
      BY <1>6, <3>1, HasBoth
    <3>3. messages \o one \in Seq(Message)
      BY <1>6, <3>1, ConcatProperties
    <3> DEFINE both == messages \o one
    <3>4. Has(both \o polled, K) <=> Has(both, K) \/ Has(polled, K)
      <4>1. both \in Seq(Message) /\ polled \in Seq(Message)
        BY <1>8, <3>3
      <4> HIDE DEF both, K
      <4> QED BY <4>1, HasBoth
    <3>5. msg \notin K
      BY <1>3, <1>13 DEF Bigs, ErrorStops
    <3>6. ~Has(one, K) /\ ~Has(polled, K)
      BY <1>6, <1>8, <3>1, <3>5
    <3> HIDE DEF K
    <3>7. Has(messages \o one \o polled, K) => Has(messages, K)
      BY <3>2, <3>4, <3>6
    <3>8. Has(messages', K) => Has(messages, K)
      BY <1>1, <3>7
    <3>9. Has(messages', Bigs(entries)) => Has(messages, Bigs(entries)) /\ Bigs(entries') = Bigs(entries)
      BY <1>1, <3>8 DEF K
    <3> QED BY <1>1, <3>8, <3>9, NoMoreLikely DEF K
  <2>9. Worst >= 1 /\ Worst' <= Worst - 1 /\ Worst \in Int /\ Worst' \in Int
    <3> DEFINE w == MaxRetries + 1
               a == Load
               b == Load'
               x == Standing
               y == Standing'
    <3>1. Moves(-1, One(connected), 0, 0, 0, 0)
      BY <2>4, <2>5, <2>7, <2>8, Counted, CountedNext DEF Moves, One
    <3>2. One(connected) \in 0..1 /\ One(connected) \in Int
      BY DEF One
    <3>3. b <= a + (-1 + One(connected) + 0 + 0 + 0 + 0) /\ a \in Int /\ b \in Int
      BY <3>1, <3>2, LoadFalls
    <3>4. a >= 1
      <4> DEFINE r == Running
                 e == Ending
                 n == timers
                 s == Sleeping
                 u == Underway
                 l == Likely
      <4>1. r = 1 /\ e \in Nat /\ n \in Nat /\ s \in Nat /\ u \in Nat /\ l \in Nat /\ a = r + e + n + s + u + l
        BY <2>4, Counted DEF Load
      <4> HIDE DEF r, e, n, s, u, l, a
      <4> QED BY <4>1
    <3>5. x >= 1 - w /\ x \in Int /\ y = x - One(connected)
      <4> DEFINE r == Recovery
                 t == Attempts
                 f == Failed
                 r1 == Recovery'
                 t1 == Attempts'
                 f1 == Failed'
                 g == One(connected)
      <4>1. /\ r \in 0..1 /\ t \in 0..MaxRetries /\ f = 0 /\ r1 = r /\ t1 = t /\ f1 = g /\ g \in Int
            /\ x = r - t - f /\ y = r1 - t1 - f1
        BY <2>4, <2>5, <2>6, <3>2, Counted DEF Standing
      <4> HIDE DEF r, t, f, r1, t1, f1, g, x, y
      <4>2. MaxRetries \in Nat
        BY SessionAssumption
      <4>3. y = x - g
        BY <4>1, <4>2
      <4>4. x >= 1 - w /\ x \in Int
        BY <4>1, <4>2
      <4> QED BY <4>3, <4>4 DEF g
    <3>6. Worst = w * a + x /\ Worst' = w * b + y
      BY DEF Worst
    <3>7. w \in Nat /\ w >= 1
      BY SessionAssumption
    <3> DEFINE g == One(connected)
    <3> HIDE DEF w, a, b, x, y
    <3>8. g \in 0..1 /\ b + (1 - g) <= a /\ y = x - g
      BY <3>2, <3>3, <3>5
    <3> HIDE DEF g
    <3>9. w * a + x >= 1
      <4>1. w * 1 + (1 - w) <= w * a + x
        <5>1. 1 + 0 <= a /\ 1 - w <= x + w * 0 /\ 1 - w \in Int
          BY <3>3, <3>4, <3>5, <3>7
        <5> QED BY <3>3, <3>5, <3>7, <5>1, LessIsBetter
      <4> QED BY <3>7, <4>1
    <3>10. w * b + y <= w * a + x - 1
      <4>1. CASE g = 1
        <5>1. b + 0 <= a /\ y <= (x - 1) + w * 0 /\ y \in Int /\ x - 1 \in Int
          BY <3>3, <3>5, <3>7, <3>8, <4>1
        <5>2. w * b + y <= w * a + (x - 1)
          BY <3>3, <3>7, <5>1, LessIsBetter
        <5> QED BY <3>3, <3>5, <3>7, <5>2
      <4>2. CASE g = 0
        <5>1. b + 1 <= a /\ y <= (x - 1) + w * 1 /\ y \in Int /\ x - 1 \in Int
          BY <3>3, <3>5, <3>7, <3>8, <4>2
        <5>2. w * b + y <= w * a + (x - 1)
          BY <3>3, <3>7, <5>1, LessIsBetter
        <5> QED BY <3>3, <3>5, <3>7, <5>2
      <4> QED BY <3>8, <4>1, <4>2
    <3>11. w * a + x \in Int /\ w * b + y \in Int
      BY <3>3, <3>5, <3>7, <3>8
    <3> DEFINE v == w * a + x
               v1 == w * b + y
    <3>12. v >= 1 /\ v1 <= v - 1 /\ v \in Int /\ v1 \in Int
      <4>1. v >= 1
        BY <3>9
      <4>2. v1 <= v - 1
        <5> DEFINE p == w * a
        <5>1. v1 <= p + (x - 1) /\ v = p + x /\ p \in Int /\ x \in Int /\ v1 \in Int
          BY <3>3, <3>5, <3>7, <3>10, <3>11
        <5> HIDE DEF p, v, v1
        <5> QED BY <5>1
      <4>3. v \in Int /\ v1 \in Int
        BY <3>11
      <4> QED BY <4>1, <4>2, <4>3
    <3>13. Worst = v /\ Worst' = v1
      BY <3>6
    <3> HIDE DEF v, v1
    <3> QED BY <3>12, <3>13
  <2>10. budget' >= 0 /\ budget' >= Worst'
    <3> DEFINE a == Worst
               b == Worst'
    <3>1. budget \in Int /\ budget >= a /\ a >= 1 /\ b <= a - 1 /\ a \in Int /\ b \in Int
      BY <1>2, <2>9 DEF Bounded, SessionTyped
    <3> HIDE DEF a, b
    <3>2. budget - 1 >= 0 /\ budget - 1 >= b
      BY <3>1
    <3> QED BY <2>1, <3>2 DEF b
  <2> QED BY <1>11, <2>10
<1> QED BY <1>12, <1>13

-----------------------------------------------------------------------------
(* What the bound rests on besides.                                          *)

LEMMA WaitStays == ASSUME OneWait, UNCHANGED <<backoff, jobs>> PROVE OneWait'
BY Rigid, RigidKinds DEF OneWait, Manual

LEMMA CheckedWait ==
  ASSUME SessionTyped, OneWait, NEW o \in Owners, o # Manual, NEW m, NEW ms \in Seq(Message), NEW es, NEW gone,
         CheckCompaction(o, m, ms, es, gone)
  PROVE  \A p \in Owners : /\ jobs'[p].kind = "manual" => p = Manual
                           /\ p # o => jobs'[p] = jobs[p]
<1>1. \/ UNCHANGED jobs
      \/ jobs'[o].kind # "manual" /\ \A p \in Owners : p # o => jobs'[p] = jobs[p]
  BY Checked
<1> QED BY <1>1 DEF OneWait

LEMMA WaitStep ==
  ASSUME SessionTyped, OneWait, [Next]_vars PROVE OneWait'
<1> USE DEF Handler
<1>1. Handler \in Owners /\ Manual \in Owners /\ Manual # Handler /\ \A t \in Texts : t \in Owners /\ t # Handler /\ t # Manual
  BY SessionAssumption DEF Owners, Manual, Texts
<1>2. messages \in Seq(Message) /\ jobs \in [Owners -> {None} \cup Job]
  BY DEF SessionTyped
<1>3. CASE ProcessRetry
  <2>1. jobs[Handler] = None /\ lastAssistantMessage.stop = "retryable" /\ backoff' = lastAssistantMessage /\ UNCHANGED jobs
    BY <1>3 DEF ProcessRetry, Busy, MayRetry
  <2> QED BY <2>1, Rigid, RigidKinds DEF OneWait, Manual
<1>4. CASE ProcessEnd
  <2>1. backoff = None /\ UNCHANGED backoff
    BY <1>4 DEF ProcessEnd, Busy
  <2>2. \/ UNCHANGED jobs
        \/ CheckCompaction(Handler, lastAssistantMessage, messages, entries, removed)
    BY <1>4 DEF ProcessEnd
  <2>3. \A p \in Owners : jobs'[p].kind = "manual" => p = Manual
    BY <1>1, <1>2, <2>2, CheckedWait DEF OneWait
  <2> QED BY <2>1, <2>3, Rigid DEF OneWait, Manual
<1>5. CASE BackoffEnds
  BY <1>5, Rigid DEF BackoffEnds, OneWait, Manual
<1>6. ASSUME NEW o \in Owners, CompactionEnds(o) \/ CompactionFails(o) PROVE OneWait'
  <2>1. jobs' = [jobs EXCEPT ![o] = None] /\ UNCHANGED backoff
    BY <1>6 DEF CompactionEnds, CompactionFails, Released
  <2>2. \A p \in Owners : jobs'[p] = None \/ jobs'[p] = jobs[p]
    BY <1>2, <2>1
  <2> QED BY <1>1, <2>1, <2>2, Rigid, Kinds DEF OneWait, Manual
<1>7. CASE CompactBegins
  <2>1. UNCHANGED backoff
    BY <1>7 DEF CompactBegins
  <2>2. \A p \in Owners : p # Manual => jobs'[p] = jobs[p]
    BY <1>2, <1>7 DEF CompactBegins
  <2> QED BY <1>1, <2>1, <2>2, Rigid DEF OneWait, Manual
<1>8. CASE AbortEffects
  <2>1. backoff' = None
    BY <1>8 DEF AbortEffects
  <2>2. \/ UNCHANGED jobs
        \/ CheckCompaction(Handler, backoff, messages, entries, removed)
    BY <1>8 DEF AbortEffects
  <2>3. \A p \in Owners : jobs'[p].kind = "manual" => p = Manual
    BY <1>1, <1>2, <2>2, CheckedWait DEF OneWait
  <2> QED BY <2>1, <2>3, Rigid DEF OneWait, Manual
<1>9. ASSUME NEW t \in Texts, Prompt(t) PROVE OneWait'
  <2> DEFINE ms == messages \o pendingBashMessages
             es == entries \o pendingBashMessages
             lasts == {i \in DOMAIN ms : IsAssistant(ms[i])}
             last == IF lasts = {} THEN None ELSE ms[Max(lasts)]
  <2>1. CheckCompaction(t, last, ms, es, removed) /\ UNCHANGED backoff
    BY <1>9 DEF Prompt
  <2>2. ms \in Seq(Message)
    BY MessagesJoin DEF SessionTyped
  <2> HIDE DEF ms, es, last
  <2>3. \A p \in Owners : /\ jobs'[p].kind = "manual" => p = Manual
                          /\ p # t => jobs'[p] = jobs[p]
    BY <1>1, <2>1, <2>2, CheckedWait
  <2> QED BY <1>1, <2>1, <2>3, Rigid DEF OneWait, Manual
<1>10. CASE UNCHANGED <<backoff, jobs>>
  BY <1>10, WaitStays
<1>11. CASE SystemStep
  <2>1. (\E stop \in AllStops \cup {"aborted"} : Answers(stop)) \/ ToolsEnd \/ ProcessMessage \/ TimerFires
          \/ (\E t \in Texts : SendPrompt(t))
        => UNCHANGED <<backoff, jobs>>
    BY DEF Answers, ToolsEnd, ProcessMessage, TimerFires, SendPrompt
  <2> QED BY <1>3, <1>4, <1>5, <1>6, <1>7, <1>10, <1>11, <2>1 DEF SystemStep
<1>12. CASE \E retryable \in BOOLEAN : StreamThrows(retryable)
  <2>1. UNCHANGED <<backoff, jobs>>
    BY <1>12 DEF StreamThrows
  <2> QED BY <1>10, <2>1
<1>15. CASE ListenerThrows
  <2>1. UNCHANGED <<backoff, jobs>>
    BY <1>15 DEF ListenerThrows
  <2> QED BY <1>10, <2>1
<1>13. CASE UserStep
  <2>1. (\E t \in Texts : Steer(t) \/ FollowUp(t)) \/ ClearQueue \/ RecordBash => UNCHANGED <<backoff, jobs>>
    BY DEF Steer, FollowUp, ClearQueue, RecordBash
  <2> QED BY <1>8, <1>9, <1>10, <1>13, <2>1 DEF UserStep, Abort, Compact
<1>14. CASE UNCHANGED vars
  BY <1>10, <1>14 DEF vars, sessionVars
<1> QED BY <1>11, <1>12, <1>13, <1>14, <1>15 DEF Next

\* The session hears of answers in the order they come.
LEMMA LaterShrinks ==
  ASSUME MirrorInv, answers' \in {answers, answers + 1}
  PROVE  Later' \subseteq Later /\ \A s : Has(s, Later') => Has(s, Later)
<1>1. Later' \subseteq Later
  BY Kinds, Rigid DEF Later, MirrorInv, MirrorTyped
<1> QED BY <1>1 DEF Has

LEMMA KnownStays ==
  ASSUME MirrorInv, Known, answers' \in {answers, answers + 1},
         ~Has(entries', Later), ~Has(agentEventQueue', Later'), ~Has(pendingBashMessages', Answer)
  PROVE  Known'
<1>1. ~Has(entries', Later')
  BY LaterShrinks
<1> QED BY <1>1, Rigid DEF Known

LEMMA TailKnown ==
  ASSUME MirrorInv, Known, agentEventQueue # <<>>
  PROVE  ~Has(Tail(agentEventQueue), Later) /\ Head(agentEventQueue) \notin Later
<1>1. agentEventQueue \in Seq(Event)
  BY DEF MirrorInv, MirrorTyped
<1> QED BY <1>1, HasFirst DEF Known

LEMMA EmitsWords ==
  ASSUME MirrorInv, Known, NEW announced \in Seq(Words), Emit(announced),
         UNCHANGED <<answers, entries, pendingBashMessages>>
  PROVE  Known'
<1>1. announced \in Seq(Event) /\ ~Has(announced, Later)
  <2>1. Later \subseteq Answer \cup Ends
    BY Apart
  <2> QED BY <2>1, WordsArePlain
<1>2. ~Has(agentEventQueue', Later)
  BY <1>1, EmittedHas DEF Known
<1>3. ~Has(agentEventQueue', Later')
  BY <1>2, LaterShrinks
<1> QED BY <1>3, KnownStays DEF Known

LEMMA StartKnown ==
  ASSUME MirrorInv, Known, NEW ms \in Seq(Users), NEW skip \in BOOLEAN, NEW sq \in Seq(Texts), NEW fq,
         StartRun(ms, skip, sq, fq), UNCHANGED <<answers, entries, pendingBashMessages>>
  PROVE  Known'
<1> DEFINE polled == IF skip THEN <<>> ELSE Drained(sq)
           announced == ms \o polled
<1>1. Emit(announced)
  BY DEF StartRun
<1>2. polled \in Seq(Users)
  BY DrainedSpoken, EmptySeq
<1> HIDE DEF polled
<1>3. announced \in Seq(Users)
  BY <1>2, ConcatProperties
<1> HIDE DEF announced
<1>4. announced \in Seq(Words)
  BY <1>3, UsersAreWords, SeqMonotonic
<1> QED BY <1>1, <1>4, EmitsWords

LEMMA SameKnown ==
  ASSUME Known, UNCHANGED <<answers, entries, pendingBashMessages, agentEventQueue>>
  PROVE  Known'
BY Rigid DEF Known, Later, Has

LEMMA TimerKnown == ASSUME MirrorInv, Known, TimerFires PROVE Known'
<1>1. UNCHANGED <<answers, entries, pendingBashMessages>>
  BY DEF TimerFires
<1>2. steeringQueue \in Seq(Texts) /\ followUpQueue \in Seq(Texts)
  BY QueuesTyped
<1>3. CASE StartRun(<<>>, FALSE, steeringQueue, followUpQueue)
  <2> DEFINE none == <<>>
  <2>1. none \in Seq(Users) /\ StartRun(none, FALSE, steeringQueue, followUpQueue)
    BY <1>3, EmptySeq
  <2> HIDE DEF none
  <2> QED BY <1>1, <1>2, <2>1, StartKnown
<1>4. CASE /\ steeringQueue # <<>>
           /\ StartRun(Drained(steeringQueue), TRUE, Tail(steeringQueue), followUpQueue)
  <2> DEFINE ms == Drained(steeringQueue)
             rest == Tail(steeringQueue)
  <2>1. ms \in Seq(Users) /\ rest \in Seq(Texts) /\ StartRun(ms, TRUE, rest, followUpQueue)
    BY <1>2, <1>4, DrainedSpoken, HeadTailProperties
  <2> HIDE DEF ms, rest
  <2> QED BY <1>1, <2>1, StartKnown
<1>5. CASE StartRun(Drained(followUpQueue), FALSE, steeringQueue, Tail(followUpQueue))
  <2> DEFINE ms == Drained(followUpQueue)
             rest == Tail(followUpQueue)
  <2>1. ms \in Seq(Users) /\ StartRun(ms, FALSE, steeringQueue, rest)
    BY <1>2, <1>5, DrainedSpoken
  <2> HIDE DEF ms, rest
  <2> QED BY <1>1, <1>2, <2>1, StartKnown
<1>6. CASE UNCHANGED <<agentVars, agentEventQueue, missed, budget, outOfStep>>
  BY <1>1, <1>6, SameKnown
<1> QED BY <1>3, <1>4, <1>5, <1>6 DEF TimerFires

LEMMA SendPromptKnown == ASSUME MirrorInv, Known, NEW t \in Texts, SendPrompt(t) PROVE Known'
<1>1. UNCHANGED <<answers, entries, pendingBashMessages>>
  BY DEF SendPrompt
<1>2. CASE StartRun(<<User(t)>>, FALSE, steeringQueue, followUpQueue)
  <2> DEFINE u == User(t)
             ms == <<u>>
  <2>1. u \in Users
    BY DEF Users
  <2> HIDE DEF u
  <2>2. ms \in Seq(Users)
    BY <2>1
  <2>3. StartRun(ms, FALSE, steeringQueue, followUpQueue)
    BY <1>2 DEF u
  <2> HIDE DEF ms
  <2> QED BY <1>1, <2>2, <2>3, QueuesTyped, StartKnown
<1>3. CASE UNCHANGED <<agentVars, agentEventQueue, missed, budget, outOfStep>>
  BY <1>1, <1>3, SameKnown
<1> QED BY <1>2, <1>3 DEF SendPrompt

LEMMA ToolsEndKnown == ASSUME MirrorInv, Known, ToolsEnd PROVE Known'
<1> DEFINE result == ToolResult(answers)
           first == <<result>>
           rest == Drained(steeringQueue)
           announced == first \o rest
<1>1. Emit(announced) /\ UNCHANGED <<answers, entries, pendingBashMessages>>
  BY DEF ToolsEnd
<1>2. result \in Words
  BY Kinds DEF ToolResult, Words, Message, Answer, MirrorInv, MirrorTyped
<1>3. rest \in Seq(Users)
  BY QueuesTyped, DrainedSpoken
<1> HIDE DEF result, rest
<1>4. first \in Seq(Words) /\ rest \in Seq(Words)
  <2>1. rest \in Seq(Words)
    BY <1>3, UsersAreWords, SeqMonotonic
  <2> QED BY <1>2, <2>1
<1> HIDE DEF first
<1>5. announced \in Seq(Words)
  BY <1>4, ConcatProperties
<1> HIDE DEF announced
<1> QED BY <1>1, <1>5, EmitsWords

LEMMA StreamThrowsKnown ==
  ASSUME MirrorInv, Known, NEW retryable \in BOOLEAN, StreamThrows(retryable) PROVE Known'
<1> DEFINE none == <<>>
           end == <<AgentEnd>>
           events == none \o end
<1>1. Emit(events) /\ UNCHANGED <<answers, entries, pendingBashMessages>>
  BY DEF StreamThrows, EndRun
<1>2. end \in Seq(Event) /\ none \in Seq(Event) /\ ~Has(end, Later) /\ ~Has(none, Later)
  <2>1. AgentEnd \in Event /\ AgentEnd \notin Later
    BY Apart
  <2> QED BY <2>1, HasOne, HasNothing, EmptySeq
<1> HIDE DEF none, end
<1>3. events \in Seq(Event) /\ ~Has(events, Later)
  BY <1>2, ConcatProperties, HasBoth
<1> HIDE DEF events
<1>4. ~Has(agentEventQueue', Later)
  BY <1>1, <1>3, EmittedHas DEF Known
<1>5. ~Has(agentEventQueue', Later')
  BY <1>1, <1>4, LaterShrinks
<1> QED BY <1>1, <1>5, KnownStays DEF Known

LEMMA AnswersKnown ==
  ASSUME MirrorInv, Known, NEW stop \in AllStops \cup {"aborted"}, Answers(stop) PROVE Known'
<1> DEFINE msg == Assistant(answers + 1, stop)
           one == <<msg>>
           polled == IF stop \notin Ended THEN <<>>
                     ELSE Drained(IF steeringQueue # <<>> THEN steeringQueue ELSE followUpQueue)
           end == <<AgentEnd>>
           going == one \o polled
           ending == one \o end
<1>1. /\ Emit(going) \/ Emit(ending)
      /\ answers' = answers + 1 /\ UNCHANGED <<entries, pendingBashMessages>>
  BY DEF Answers, EndRun
<1>2. msg \in Answer /\ msg.id = answers + 1
  BY DEF Assistant, Answer, MirrorInv, MirrorTyped
<1>3. msg \notin Later' /\ Later' \subseteq Answer
  BY <1>1, <1>2, Rigid DEF Later, MirrorInv, MirrorTyped
<1>4. polled \in Seq(Users)
  BY QueuesTyped, DrainedSpoken, EmptySeq
<1>5. msg \in Event
  BY <1>2, Kinds, Apart
<1> HIDE DEF msg, polled
<1>6. polled \in Seq(Words)
  BY <1>4, UsersAreWords, SeqMonotonic
<1>7. polled \in Seq(Event) /\ ~Has(polled, Later')
  <2>1. Later' \subseteq Answer \cup Ends
    BY <1>3
  <2> QED BY <1>6, <2>1, WordsArePlain
<1>8. one \in Seq(Event) /\ ~Has(one, Later')
  BY <1>3, <1>5, HasOne
<1>9. ending \in Seq(Event) /\ ~Has(ending, Later')
  <2>1. AgentEnd \notin Later'
    BY <1>3, Apart
  <2> QED BY <1>2, <1>3, <2>1, LastWord
<1> HIDE DEF one, ending
<1>10. going \in Seq(Event) /\ ~Has(going, Later')
  BY <1>7, <1>8, ConcatProperties, HasBoth
<1> HIDE DEF going
<1>11. ~Has(agentEventQueue, Later')
  BY <1>1, LaterShrinks DEF Known
<1>12. ~Has(agentEventQueue', Later')
  BY <1>1, <1>9, <1>10, <1>11, EmittedHas
<1> QED BY <1>1, <1>12, KnownStays DEF Known

LEMMA TookKnown ==
  ASSUME MirrorInv, Known, agentEventQueue # <<>>, agentEventQueue' = Tail(agentEventQueue),
         UNCHANGED <<answers, entries, pendingBashMessages>>
  PROVE  Known'
<1>1. ~Has(agentEventQueue', Later')
  BY TailKnown, LaterShrinks
<1> QED BY <1>1, KnownStays DEF Known

LEMMA MessageKnown == ASSUME SessionTyped, MirrorInv, Known, ProcessMessage PROVE Known'
<1> DEFINE e == Head(agentEventQueue)
           b == <<e>>
<1>1. /\ agentEventQueue # <<>> /\ e # AgentEnd /\ agentEventQueue' = Tail(agentEventQueue)
      /\ entries' = Append(entries, e) /\ UNCHANGED <<answers, pendingBashMessages>>
  BY DEF ProcessMessage, ghostVars
<1>2. e \in Message
  <2>1. agentEventQueue \in Seq(Event)
    BY DEF MirrorInv, MirrorTyped
  <2>2. e \in Event
    BY <1>1, <2>1, HeardLess
  <2> QED BY <1>1, <2>2 DEF Event
<1>3. ~Has(agentEventQueue', Later') /\ e \notin Later
  BY <1>1, TailKnown, LaterShrinks
<1> HIDE DEF e
<1>4. /\ entries \in Seq(Entry) /\ b \in Seq(Entry) /\ ~Has(b, Later)
      /\ entries' = entries \o b
  <2>1. e \in Entry /\ entries \in Seq(Entry)
    BY <1>2 DEF Entry, SessionTyped
  <2>2. entries' = entries \o b
    BY <1>1, <2>1, AppendIsConcat
  <2> QED BY <1>3, <2>1, <2>2, HasOne
<1> HIDE DEF b
<1>5. ~Has(entries', Later)
  BY <1>4, HasBoth DEF Known
<1> QED BY <1>1, <1>3, <1>5, KnownStays DEF Known

LEMMA CompactionKnown ==
  ASSUME SessionTyped, MirrorInv, Known, NEW o \in Owners, CompactionEnds(o)
  PROVE  Known'
<1> DEFINE at == answers + IF run = "turn" THEN 1 ELSE 0
           c == CompactionEntry(jobs[o].keep, at)
           b == <<c>>
<1>1. /\ jobs[o] # None /\ entries' = Append(entries, c)
      /\ UNCHANGED <<agentEventQueue, answers, pendingBashMessages>>
  BY DEF CompactionEnds
<1>2. c \in Entry /\ c \notin Later /\ entries \in Seq(Entry)
  <2>1. jobs[o].keep \in Nat \ {0}
    BY <1>1 DEF SessionTyped, Job
  <2>2. c \in CompactionEntries
    BY <2>1 DEF CompactionEntry, CompactionEntries, MirrorInv, MirrorTyped
  <2>3. c \notin Later
    BY <2>2, Kinds DEF CompactionEntries, Later
  <2> QED BY <2>2, <2>3 DEF Entry, SessionTyped
<1> HIDE DEF c
<1>3. entries' = entries \o b /\ b \in Seq(Entry) /\ ~Has(b, Later)
  BY <1>1, <1>2, AppendIsConcat, HasOne
<1> HIDE DEF b
<1>4. ~Has(entries', Later)
  BY <1>2, <1>3, HasBoth DEF Known
<1>5. ~Has(agentEventQueue', Later')
  BY <1>1, LaterShrinks DEF Known
<1> QED BY <1>1, <1>4, <1>5, KnownStays DEF Known

\* Bash output: kept back during a run, flushed by the next prompt.
LEMMA FlushKnown ==
  ASSUME SessionTyped, MirrorInv, Known, NEW b \in Seq(Message), ~Has(b, Answer), entries' = entries \o b,
         pendingBashMessages' \in {pendingBashMessages, <<>>}, UNCHANGED <<agentEventQueue, answers>>
  PROVE  Known'
<1>1. entries \in Seq(Entry) /\ b \in Seq(Entry)
  <2>1. Message \subseteq Entry
    BY DEF Entry
  <2> QED BY <2>1, SeqMonotonic DEF SessionTyped
<1>2. Has(entries \o b, Later) <=> Has(entries, Later) \/ Has(b, Later)
  BY <1>1, HasBoth
<1>3. Has(b, Later) => Has(b, Answer)
  BY Apart DEF Has
<1>4. ~Has(entries', Later)
  BY <1>2, <1>3 DEF Known
<1>5. ~Has(pendingBashMessages', Answer)
  BY HasNothing DEF Known
<1>6. ~Has(agentEventQueue', Later')
  BY LaterShrinks DEF Known
<1> QED BY <1>4, <1>5, <1>6, KnownStays

LEMMA PromptKnown == ASSUME SessionTyped, MirrorInv, Known, NEW t \in Texts, Prompt(t) PROVE Known'
<1>1. /\ entries' = entries \o pendingBashMessages /\ pendingBashMessages' = <<>>
      /\ UNCHANGED <<agentEventQueue, answers>>
  BY DEF Prompt
<1>2. pendingBashMessages \in Seq(Message) /\ ~Has(pendingBashMessages, Answer)
  BY DEF SessionTyped, Known
<1> DEFINE b == pendingBashMessages
<1>3. b \in Seq(Message) /\ ~Has(b, Answer) /\ entries' = entries \o b
  BY <1>1, <1>2
<1>4. pendingBashMessages' \in {pendingBashMessages, <<>>}
  BY <1>1
<1> HIDE DEF b
<1> QED BY <1>1, <1>3, <1>4, FlushKnown

LEMMA BashKnown == ASSUME SessionTyped, MirrorInv, Known, RecordBash PROVE Known'
<1> DEFINE x == Bash(calls + 1)
           b == <<x>>
<1>1. /\ UNCHANGED <<agentEventQueue, answers>>
      /\ \/ pendingBashMessages' = pendingBashMessages \o b /\ UNCHANGED entries
         \/ entries' = entries \o b /\ UNCHANGED pendingBashMessages
  BY DEF RecordBash
<1>2. x \in Words
  BY Kinds DEF Bash, Words, Message, Answer, SessionTyped
<1> HIDE DEF x
<1>3. b \in Seq(Message) /\ ~Has(b, Answer)
  <2>1. b \in Seq(Words) /\ Answer \subseteq Answer \cup Ends
    BY <1>2
  <2> HIDE DEF b
  <2> QED BY <2>1, WordsArePlain
<1> HIDE DEF b
<1>4. CASE pendingBashMessages' = pendingBashMessages \o b /\ UNCHANGED entries
  <2>1. pendingBashMessages \in Seq(Message)
    BY DEF SessionTyped
  <2>2. ~Has(pendingBashMessages', Answer)
    BY <1>3, <1>4, <2>1, HasBoth DEF Known
  <2>3. ~Has(agentEventQueue', Later')
    BY <1>1, LaterShrinks DEF Known
  <2> QED BY <1>1, <1>4, <2>2, <2>3, KnownStays DEF Known
<1>5. CASE entries' = entries \o b /\ UNCHANGED pendingBashMessages
  <2>1. pendingBashMessages' \in {pendingBashMessages, <<>>}
    BY <1>5
  <2> QED BY <1>1, <1>3, <1>5, <2>1, FlushKnown
<1> QED BY <1>1, <1>4, <1>5

LEMMA KnownStep == ASSUME SessionTyped, MirrorInv, Known, [Next]_vars PROVE Known'
<1>1. CASE UNCHANGED <<answers, entries, pendingBashMessages, agentEventQueue>>
  BY <1>1, SameKnown
<1>2. CASE ProcessRetry \/ ProcessEnd \/ ListenerThrows
  <2>1. /\ agentEventQueue # <<>> /\ agentEventQueue' = Tail(agentEventQueue)
        /\ UNCHANGED <<answers, entries, pendingBashMessages>>
    BY <1>2 DEF ProcessRetry, ProcessEnd, ListenerThrows
  <2> QED BY <2>1, TookKnown
<1>3. CASE SystemStep
  <2>1. BackoffEnds \/ (\E o \in Owners : CompactionFails(o)) \/ CompactBegins
          => UNCHANGED <<answers, entries, pendingBashMessages, agentEventQueue>>
    BY DEF BackoffEnds, CompactionFails, CompactBegins, ghostVars
  <2> QED BY <1>1, <1>2, <1>3, <2>1, AnswersKnown, ToolsEndKnown, MessageKnown, TimerKnown,
             CompactionKnown, SendPromptKnown DEF SystemStep
<1>4. CASE \E retryable \in BOOLEAN : StreamThrows(retryable)
  BY <1>4, StreamThrowsKnown
<1>5. CASE UserStep
  <2>1. (\E t \in Texts : Steer(t) \/ FollowUp(t)) \/ ClearQueue \/ AbortEffects
          => UNCHANGED <<answers, entries, pendingBashMessages, agentEventQueue>>
    BY DEF Steer, FollowUp, ClearQueue, AbortEffects
  <2> QED BY <1>1, <1>5, <2>1, PromptKnown, BashKnown DEF UserStep, Abort, Compact
<1>6. CASE UNCHANGED vars
  BY <1>1, <1>6 DEF vars, sessionVars, ghostVars
<1> QED BY <1>2, <1>3, <1>4, <1>5, <1>6 DEF Next

-----------------------------------------------------------------------------
(* The bound.                                                                *)

LEMMA BoundedStep ==
  ASSUME SessionTyped, SessionTyped', MirrorInv, OneWait, Known, Bounded, [Next]_vars PROVE Bounded'
<1>1. CASE SystemStep
  BY <1>1, AnswersBounded, ToolsEndBounded, MessageBounded, RetryBounded, EndBounded, BackoffBounded,
     TimerBounded, CompactionEndsBounded, CompactionFailsBounded, CompactBeginsBounded,
     SendPromptBounded DEF SystemStep
<1>2. CASE \E retryable \in BOOLEAN : StreamThrows(retryable)
  BY <1>2, StreamThrowsBounded
<1>3. CASE UserStep
  <2>1. (\E t \in Texts : Steer(t) \/ FollowUp(t)) \/ ClearQueue
          => UNCHANGED <<run, agentEventQueue, lastAssistantMessage, retryAttempt, timers, messages,
                         overflowRecoveryAttempted, backoff, jobs, entries, budget, outOfStep>>
    BY DEF Steer, FollowUp, ClearQueue
  <2> QED BY <1>3, <2>1, PromptBounded, BashBounded, AbortBounded, QuietBounded
      DEF UserStep, Abort, Compact
<1>4. CASE UNCHANGED vars
  BY <1>4, QuietBounded DEF vars, agentVars, sessionVars, ghostVars
<1> QED BY <1>1, <1>2, <1>3, <1>4, ListenerBounded DEF Next

LEMMA BoundStep == BoundInv /\ [Next]_vars => BoundInv'
<1> SUFFICES ASSUME BoundInv, [Next]_vars PROVE BoundInv'
  OBVIOUS
<1>1. SessionTyped /\ MirrorInv /\ OneWait /\ Known /\ Bounded
  BY DEF BoundInv
<1>2. SessionTyped' /\ MirrorInv'
  BY <1>1, TypedStep, InvStep
<1>3. OneWait' /\ Known'
  BY <1>1, WaitStep, KnownStep
<1>4. Bounded'
  BY <1>1, <1>2, BoundedStep
<1> QED BY <1>2, <1>3, <1>4 DEF BoundInv

LEMMA BoundInit == Init => BoundInv
<1> SUFFICES ASSUME Init PROVE BoundInv
  OBVIOUS
<1>1. SessionTyped /\ MirrorInv
  BY TypedInit, InvInit
<1>2. /\ entries = <<>> /\ agentEventQueue = <<>> /\ pendingBashMessages = <<>> /\ messages = <<>>
      /\ run = "none" /\ lastAssistantMessage = None /\ retryAttempt = 0 /\ backoff = None
      /\ overflowRecoveryAttempted = FALSE /\ timers = 0 /\ budget = MaxRetries + 2
      /\ \A o \in Owners : jobs[o] = None
  BY DEF Init
<1>3. \A K : ~Has(agentEventQueue, K) /\ ~Has(entries, K) /\ ~Has(messages, K) /\ ~Has(pendingBashMessages, K)
  BY <1>2, HasNothing
<1>4. Known /\ OneWait
  BY <1>2, <1>3, Kinds DEF Known, OneWait
<1>5. InOrder
  <2>1. Plain(agentEventQueue) /\ Ordered(agentEventQueue)
    BY <1>3, PlainIsOrdered DEF Plain
  <2>2. lastAssistantMessage \notin Errors
    BY <1>2, Kinds DEF Errors, None
  <2> QED BY <1>2, <2>1, <2>2 DEF InOrder
<1>6. Running = 0 /\ Ending = 0 /\ Sleeping = 0 /\ Likely = 0
  <2>1. ~Due(messages)
    BY <1>1, <1>3, DueNow DEF SessionTyped
  <2> QED BY <1>2, <1>3, <2>1 DEF Running, Ending, Sleeping, Likely, One
<1>7. Underway = 0
  <2>1. Continuing = {}
    BY <1>2, Kinds DEF Continuing, Continues
  <2> QED BY <2>1, FS_EmptySet DEF Underway
<1>8. Attempts = 0 /\ Recovery = 1 /\ Failed = 0
  <2>1. lastAssistantMessage \notin Errors
    BY <1>2, Kinds DEF Errors, None
  <2> QED BY <1>2, <1>3, <2>1 DEF Attempts, Recovery, Failed, One
<1>9. Load = 0 /\ Standing = 1
  BY <1>2, <1>6, <1>7, <1>8 DEF Load, Standing
<1>10. budget >= 0 /\ budget >= Worst
  BY <1>2, <1>9, SessionAssumption DEF Worst
<1> QED BY <1>1, <1>4, <1>5, <1>10 DEF Bounded, BoundInv

\* However retries, recoveries from an overflow, compactions and rejected requests mix, the
\* provider is asked and fails a bounded number of times before the user speaks or runs a
\* command again: for any number of retries, texts and calls and whatever the model answers.
THEOREM FailuresAreBounded == Spec => []FailuresBounded
<1>1. BoundInv => FailuresBounded
  BY DEF BoundInv, Bounded, FailuresBounded
<1>2. Spec => []BoundInv
  BY BoundInit, BoundStep, PTL DEF Spec
<1> QED BY <1>1, <1>2, PTL

-----------------------------------------------------------------------------
(* What a reload of the session gives.                                       *)

\* Answers come in the order of their numbers.
Before(A, B) == \A x \in A \cap Answer : \A y \in B \cap Answer : x.id < y.id
Ascending(s) ==
  \A i, j \in 1..Len(s) : i < j /\ s[i] \in Answer /\ s[j] \in Answer => s[i].id < s[j].id

LEMMA AscendingJoin ==
  ASSUME NEW S, NEW s \in Seq(S), NEW t \in Seq(S)
  PROVE  Ascending(s \o t) <=> Ascending(s) /\ Ascending(t) /\ Before(ToSet(s), ToSet(t))
<1> DEFINE r == s \o t
           m == Len(s)
           n == Len(t)
<1>1. /\ Len(r) = m + n /\ \A i \in 1..m : r[i] = s[i]
      /\ \A i \in 1..n : r[m + i] = t[i]
  BY Joined
<1>2. /\ m \in Nat /\ n \in Nat
      /\ ToSet(s) = {s[i] : i \in 1..m} /\ ToSet(t) = {t[i] : i \in 1..n}
  BY ElementsOf
<1> HIDE DEF r, m, n
<1>3. ASSUME NEW i \in 1..(m + n)
      PROVE  i \in 1..m \/ \E k \in 1..n : i = m + k
  <2>1. CASE i <= m
    BY <1>2, <2>1
  <2>2. CASE ~(i <= m)
    <3>1. i - m \in 1..n /\ i = m + (i - m)
      BY <1>2, <2>2
    <3> QED BY <3>1
  <2> QED BY <2>1, <2>2
<1>4. /\ \A i \in 1..m : i \in 1..(m + n)
      /\ \A i \in 1..n : m + i \in 1..(m + n)
      /\ \A i \in 1..m : \A k \in 1..n : i < m + k /\ ~(m + k < i)
      /\ \A i, k \in 1..n : m + i < m + k <=> i < k
  BY <1>2
<1>5. ASSUME Ascending(r) PROVE Ascending(s) /\ Ascending(t) /\ Before(ToSet(s), ToSet(t))
  <2>1. \A i, j \in 1..(m + n) : i < j /\ r[i] \in Answer /\ r[j] \in Answer => r[i].id < r[j].id
    BY <1>1, <1>5 DEF Ascending
  <2>2. Ascending(s)
    <3> SUFFICES ASSUME NEW i \in 1..m, NEW j \in 1..m, i < j, s[i] \in Answer, s[j] \in Answer
                 PROVE  s[i].id < s[j].id
      BY DEF Ascending, m
    <3> QED BY <1>1, <1>4, <2>1
  <2>3. Ascending(t)
    <3> SUFFICES ASSUME NEW i \in 1..n, NEW j \in 1..n, i < j, t[i] \in Answer, t[j] \in Answer
                 PROVE  t[i].id < t[j].id
      BY DEF Ascending, n
    <3>1. m + i < m + j /\ m + i \in 1..(m + n) /\ m + j \in 1..(m + n)
      BY <1>4
    <3> QED BY <1>1, <2>1, <3>1
  <2>4. ASSUME NEW i \in 1..m, NEW j \in 1..n, s[i] \in Answer, t[j] \in Answer
        PROVE  s[i].id < t[j].id
    BY <1>1, <1>4, <2>1, <2>4
  <2> QED BY <1>2, <2>2, <2>3, <2>4 DEF Before
<1>6. ASSUME Ascending(s), Ascending(t), Before(ToSet(s), ToSet(t)) PROVE Ascending(r)
  <2>1. /\ \A i, j \in 1..m : i < j /\ s[i] \in Answer /\ s[j] \in Answer => s[i].id < s[j].id
        /\ \A i, j \in 1..n : i < j /\ t[i] \in Answer /\ t[j] \in Answer => t[i].id < t[j].id
    BY <1>6 DEF Ascending, m, n
  <2>2. \A i \in 1..m : \A j \in 1..n : s[i] \in Answer /\ t[j] \in Answer => s[i].id < t[j].id
    BY <1>2, <1>6 DEF Before
  <2> SUFFICES ASSUME NEW i \in 1..(m + n), NEW j \in 1..(m + n), i < j,
                      r[i] \in Answer, r[j] \in Answer
               PROVE  r[i].id < r[j].id
    BY <1>1 DEF Ascending
  <2>3. CASE i \in 1..m /\ j \in 1..m
    BY <1>1, <2>1, <2>3
  <2>4. ASSUME NEW k \in 1..n, NEW l \in 1..n, i = m + k, j = m + l PROVE r[i].id < r[j].id
    BY <1>1, <1>4, <2>1, <2>4
  <2>5. ASSUME i \in 1..m, NEW l \in 1..n, j = m + l PROVE r[i].id < r[j].id
    BY <1>1, <2>2, <2>5
  <2>6. ASSUME j \in 1..m, NEW l \in 1..n, i = m + l PROVE FALSE
    BY <1>4, <2>6
  <2> QED BY <1>3, <2>3, <2>4, <2>5, <2>6
<1> QED BY <1>5, <1>6 DEF r

LEMMA AscendingOne == ASSUME NEW e PROVE Ascending(<<e>>) /\ Ascending(<<>>)
<1>1. Len(<<e>>) = 1 /\ \A i, j \in 1..1 : ~(i < j)
  OBVIOUS
<1>2. Len(<<>>) = 0 /\ \A i, j \in 1..0 : ~(i < j)
  OBVIOUS
<1> QED BY <1>1, <1>2 DEF Ascending

LEMMA AscendingWithout ==
  ASSUME NEW S, NEW T, NEW s \in Seq(S), Ascending(s)
  PROVE  Ascending(Without(s, T))
<1> DEFINE good == {r \in Seq(S) : Ascending(r) => Ascending(Without(r, T))}
<1>1. <<>> \in good
  <2>1. <<>> \in Seq(S)
    BY EmptySeq
  <2> QED BY <2>1, WithoutEmpty
<1>2. ASSUME NEW r \in Seq(S), NEW e \in S, r \in good PROVE Append(r, e) \in good
  <2> DEFINE x == Without(r, T)
             l == <<e>>
             a == Append(r, e)
  <2>1. x \in Seq(S) /\ ToSet(x) = ToSet(r) \ T
    BY WithoutType, WithoutKeeps, SeqMonotonic, S \ T \subseteq S
  <2>2. l \in Seq(S) /\ ToSet(l) = {e} /\ Ascending(l)
    BY OneElement, AscendingOne
  <2>3. a = r \o l /\ Append(x, e) = x \o l /\ a \in Seq(S)
    BY <2>1, AppendIsConcat, AppendProperties
  <2>4. Without(a, T) = IF e \in T THEN x ELSE Append(x, e)
    BY WithoutAppend
  <2>5. Ascending(r) => Ascending(x)
    BY <1>2
  <2> HIDE DEF x, l, a
  <2>6. ASSUME Ascending(a) PROVE Ascending(Without(a, T))
    <3>1. Ascending(r) /\ Before(ToSet(r), ToSet(l))
      BY <2>2, <2>3, <2>6, AscendingJoin
    <3>2. Ascending(x) /\ Before(ToSet(x), ToSet(l))
      BY <2>1, <2>5, <3>1 DEF Before
    <3>3. Ascending(x \o l)
      BY <2>1, <2>2, <3>2, AscendingJoin
    <3> QED BY <2>3, <2>4, <3>2, <3>3
  <2> QED BY <2>3, <2>6 DEF a
<1> HIDE DEF good
<1>3. s \in good
  BY <1>1, <1>2, EveryList
<1> QED BY <1>3 DEF good

LEMMA WithoutTwice ==
  ASSUME NEW S, NEW T, NEW U, NEW s \in Seq(S)
  PROVE  Without(Without(s, T), U) = Without(s, T \cup U)
<1> DEFINE good == {r \in Seq(S) : Without(Without(r, T), U) = Without(r, T \cup U)}
<1>1. <<>> \in good
  <2>1. <<>> \in Seq(S)
    BY EmptySeq
  <2> QED BY <2>1, WithoutEmpty
<1>2. ASSUME NEW r \in Seq(S), NEW e \in S, r \in good PROVE Append(r, e) \in good
  <2> DEFINE x == Without(r, T)
             V == T \cup U
             y == Without(r, V)
  <2>1. x \in Seq(S) /\ Append(r, e) \in Seq(S)
    BY WithoutType, SeqMonotonic, S \ T \subseteq S, AppendProperties
  <2>2. Without(x, U) = y
    BY <1>2
  <2> HIDE DEF x, y, V
  <2>3. Without(Append(r, e), T) = IF e \in T THEN x ELSE Append(x, e)
    BY WithoutAppend DEF x
  <2>4. Without(Append(r, e), V) = IF e \in V THEN y ELSE Append(y, e)
    BY WithoutAppend DEF y
  <2>5. Without(Append(x, e), U) = IF e \in U THEN y ELSE Append(y, e)
    BY <2>1, <2>2, WithoutAppend
  <2>6. Without(Without(Append(r, e), T), U) = Without(Append(r, e), V)
    BY <2>2, <2>3, <2>4, <2>5 DEF V
  <2> QED BY <2>1, <2>6 DEF V
<1> HIDE DEF good
<1>3. s \in good
  BY <1>1, <1>2, EveryList
<1> QED BY <1>3 DEF good

LEMMA PartIs ==
  ASSUME NEW S, NEW s \in Seq(S), NEW a \in Nat \ {0}, NEW b \in Int, b <= Len(s)
  PROVE  /\ SubSeq(s, a, b) \in Seq(S)
         /\ Len(SubSeq(s, a, b)) = IF a <= b THEN b - a + 1 ELSE 0
         /\ \A i \in 1..Len(SubSeq(s, a, b)) :
              SubSeq(s, a, b)[i] = s[a + (i - 1)] /\ a + (i - 1) \in a..b
<1>1. Len(s) \in Nat /\ \A i \in 1..Len(s) : s[i] \in S
  BY ElementsOf
<1>2. \A i \in a..b : s[i] \in S /\ a \in Int
  BY <1>1
<1> DEFINE p == SubSeq(s, a, b)
<1>3. /\ p \in Seq(S) /\ Len(p) = IF a <= b THEN b - a + 1 ELSE 0
      /\ \A i \in 1..(b - a + 1) : p[i] = s[a + i - 1]
  <2>1. a \in Int
    OBVIOUS
  <2> QED BY <1>2, <2>1, SubSeqProperties
<1> HIDE DEF p
<1>4. ASSUME NEW i \in 1..Len(p) PROVE p[i] = s[a + (i - 1)] /\ a + (i - 1) \in a..b
  <2>1. i \in 1..(b - a + 1) /\ a <= b /\ i \in Nat
    BY <1>3
  <2>2. a + i - 1 = a + (i - 1)
    BY <2>1
  <2>3. a + (i - 1) \in a..b
    BY <2>1
  <2>4. p[i] = s[a + i - 1]
    BY <1>3, <2>1
  <2> QED BY <2>2, <2>3, <2>4
<1> QED BY <1>3, <1>4 DEF p

LEMMA AscendingPart ==
  ASSUME NEW S, NEW s \in Seq(S), NEW a \in Nat \ {0}, NEW b \in Int, b <= Len(s), Ascending(s)
  PROVE  Ascending(SubSeq(s, a, b))
<1> DEFINE p == SubSeq(s, a, b)
<1>1. p \in Seq(S) /\ \A i \in 1..Len(p) : p[i] = s[a + (i - 1)] /\ a + (i - 1) \in a..b
  BY PartIs
<1>2. Len(p) \in Nat /\ Len(s) \in Nat
  BY <1>1, ElementsOf
<1> HIDE DEF p
<1> SUFFICES ASSUME NEW i \in 1..Len(p), NEW j \in 1..Len(p), i < j,
                    p[i] \in Answer, p[j] \in Answer
             PROVE  p[i].id < p[j].id
  BY DEF Ascending, p
<1> DEFINE k == a + (i - 1)
           l == a + (j - 1)
<1>3. p[i] = s[k] /\ p[j] = s[l] /\ k \in a..b /\ l \in a..b
  BY <1>1
<1>4. k < l
  BY <1>2
<1> HIDE DEF k, l
<1>5. k \in 1..Len(s) /\ l \in 1..Len(s)
  BY <1>2, <1>3
<1> QED BY <1>3, <1>4, <1>5 DEF Ascending

\* Parts of two lists put together.
LEMMA PartLeft ==
  ASSUME NEW S, NEW s \in Seq(S), NEW t \in Seq(S),
         NEW a \in Nat \ {0}, NEW b \in Int, b <= Len(s)
  PROVE  SubSeq(s \o t, a, b) = SubSeq(s, a, b)
<1> DEFINE r == s \o t
           p == SubSeq(r, a, b)
           q == SubSeq(s, a, b)
<1>1. r \in Seq(S) /\ Len(r) = Len(s) + Len(t) /\ \A i \in 1..Len(s) : r[i] = s[i]
  BY Joined
<1>2. Len(s) \in Nat /\ Len(t) \in Nat
  BY ElementsOf
<1> HIDE DEF r
<1>3. b <= Len(r)
  BY <1>1, <1>2
<1>4. /\ p \in Seq(S) /\ Len(p) = IF a <= b THEN b - a + 1 ELSE 0
      /\ \A i \in 1..Len(p) : p[i] = r[a + (i - 1)] /\ a + (i - 1) \in a..b
  BY <1>1, <1>3, PartIs
<1>5. /\ q \in Seq(S) /\ Len(q) = IF a <= b THEN b - a + 1 ELSE 0
      /\ \A i \in 1..Len(q) : q[i] = s[a + (i - 1)] /\ a + (i - 1) \in a..b
  BY PartIs
<1> HIDE DEF p, q
<1>6. Len(p) = Len(q)
  BY <1>4, <1>5
<1>7. ASSUME NEW i \in 1..Len(p) PROVE p[i] = q[i]
  <2> DEFINE k == a + (i - 1)
  <2>1. p[i] = r[k] /\ k \in a..b /\ q[i] = s[k]
    BY <1>4, <1>5, <1>6
  <2> HIDE DEF k
  <2>2. k \in 1..Len(s)
    BY <1>2, <2>1
  <2> QED BY <1>1, <2>1, <2>2
<1>8. p = q
  BY <1>4, <1>5, <1>6, <1>7, SeqEqual
<1> QED BY <1>8 DEF p, q, r

LEMMA PartRight ==
  ASSUME NEW S, NEW s \in Seq(S), NEW t \in Seq(S), NEW a \in Nat \ {0}, a <= Len(s) + 1
  PROVE  SubSeq(s \o t, a, Len(s \o t)) = SubSeq(s, a, Len(s)) \o t
<1> DEFINE r == s \o t
           p == SubSeq(r, a, Len(r))
           q == SubSeq(s, a, Len(s))
           u == q \o t
<1>1. /\ r \in Seq(S) /\ Len(r) = Len(s) + Len(t) /\ \A i \in 1..Len(s) : r[i] = s[i]
      /\ \A i \in 1..Len(t) : r[Len(s) + i] = t[i]
  BY Joined
<1>2. Len(s) \in Nat /\ Len(t) \in Nat
  BY ElementsOf
<1> HIDE DEF r
<1>3. Len(r) \in Int /\ Len(r) <= Len(r) /\ Len(s) \in Int /\ Len(s) <= Len(s)
  BY <1>1, <1>2
<1>4. /\ p \in Seq(S) /\ Len(p) = IF a <= Len(r) THEN Len(r) - a + 1 ELSE 0
      /\ \A i \in 1..Len(p) : p[i] = r[a + (i - 1)] /\ a + (i - 1) \in a..Len(r)
  BY <1>1, <1>3, PartIs
<1>5. /\ q \in Seq(S) /\ Len(q) = IF a <= Len(s) THEN Len(s) - a + 1 ELSE 0
      /\ \A i \in 1..Len(q) : q[i] = s[a + (i - 1)] /\ a + (i - 1) \in a..Len(s)
  BY <1>3, PartIs
<1> HIDE DEF p, q
<1>6. /\ u \in Seq(S) /\ Len(u) = Len(q) + Len(t) /\ \A i \in 1..Len(q) : u[i] = q[i]
      /\ \A i \in 1..Len(t) : u[Len(q) + i] = t[i]
  <2>1. q \in Seq(S)
    BY <1>5
  <2> QED BY <2>1, Joined
<1> HIDE DEF u
<1>7. Len(q) = Len(s) - a + 1 /\ Len(q) \in Nat
  BY <1>2, <1>5
<1>8. Len(p) = Len(u) /\ Len(p) \in Nat
  BY <1>1, <1>2, <1>4, <1>6, <1>7
<1>9. ASSUME NEW i \in 1..Len(p) PROVE p[i] = u[i]
  <2>1. CASE i <= Len(q)
    <3>1. i \in 1..Len(q)
      BY <1>7, <1>8, <2>1
    <3> DEFINE k == a + (i - 1)
    <3>2. p[i] = r[k] /\ k \in a..Len(s) /\ q[i] = s[k] /\ u[i] = q[i]
      BY <1>4, <1>5, <1>6, <3>1
    <3> HIDE DEF k
    <3>3. k \in 1..Len(s)
      BY <1>2, <3>2
    <3> QED BY <1>1, <3>2, <3>3
  <2>2. CASE ~(i <= Len(q))
    <3> DEFINE j == i - Len(q)
    <3>1. j \in 1..Len(t) /\ i = Len(q) + j /\ a + (i - 1) = Len(s) + j
      BY <1>2, <1>6, <1>7, <1>8, <2>2
    <3>2. p[i] = r[a + (i - 1)]
      BY <1>4
    <3> HIDE DEF j
    <3>3. r[Len(s) + j] = t[j] /\ u[Len(q) + j] = t[j]
      BY <1>1, <1>6, <3>1
    <3> QED BY <3>1, <3>2, <3>3
  <2> QED BY <2>1, <2>2
<1>10. p = u
  BY <1>4, <1>6, <1>8, <1>9, SeqEqual
<1> QED BY <1>10 DEF p, q, r, u
\* What comes later in a list comes after what comes earlier.
LEMMA PartsBefore ==
  ASSUME NEW S, NEW s \in Seq(S), Ascending(s), NEW a \in Nat \ {0}, NEW b \in Int,
         NEW c \in Nat \ {0}, NEW d \in Int, b < c, d <= Len(s)
  PROVE  Before(ToSet(SubSeq(s, a, b)), ToSet(SubSeq(s, c, d)))
<1> DEFINE p == SubSeq(s, a, b)
           q == SubSeq(s, c, d)
<1>1. CASE ~(b <= Len(s)) \/ ~(c <= d)
  <2>1. Len(s) \in Nat
    BY ElementsOf
  <2>2. ~(c <= d)
    BY <1>1, <2>1
  <2>3. q \in Seq(S) /\ Len(q) = 0
    BY <2>2, PartIs
  <2> HIDE DEF q
  <2>4. q \in Seq(S)
    BY <2>3
  <2>5. ToSet(q) = {q[i] : i \in 1..Len(q)}
    BY <2>4, ElementsOf
  <2>6. \A i \in 1..Len(q) : FALSE
    BY <2>3
  <2>7. ToSet(q) = {}
    BY <2>5, <2>6
  <2> QED BY <2>7 DEF Before, q
<1>2. CASE b <= Len(s) /\ c <= d
  <2>1. p \in Seq(S) /\ \A i \in 1..Len(p) : p[i] = s[a + (i - 1)] /\ a + (i - 1) \in a..b
    BY <1>2, PartIs
  <2>2. q \in Seq(S) /\ \A i \in 1..Len(q) : q[i] = s[c + (i - 1)] /\ c + (i - 1) \in c..d
    BY PartIs
  <2> HIDE DEF p, q
  <2>3. ToSet(p) = {p[i] : i \in 1..Len(p)} /\ ToSet(q) = {q[i] : i \in 1..Len(q)} /\ Len(s) \in Nat
    BY <2>1, <2>2, ElementsOf
  <2> SUFFICES ASSUME NEW i \in 1..Len(p), NEW j \in 1..Len(q), p[i] \in Answer, q[j] \in Answer
               PROVE  p[i].id < q[j].id
    BY <2>3 DEF Before, p, q
  <2> DEFINE k == a + (i - 1)
             l == c + (j - 1)
  <2>4. p[i] = s[k] /\ k \in a..b /\ q[j] = s[l] /\ l \in c..d
    BY <2>1, <2>2
  <2> HIDE DEF k, l
  <2>5. k \in 1..Len(s) /\ l \in 1..Len(s) /\ k < l
    BY <1>2, <2>3, <2>4
  <2> QED BY <2>4, <2>5 DEF Ascending
<1> QED BY <1>1, <1>2

\* No answer but the last has its number.
Errs(gone) == [kind : {"assistant"}, id : gone, stop : RemovedStops]
Removables == {a \in Answer : a.stop \in RemovedStops}

LEMMA LastGoes ==
  ASSUME NEW S, NEW s \in Seq(S), NEW m \in S, m \in Removables, Ascending(Append(s, m))
  PROVE  Without(Append(s, m), Errs({m.id})) = s
<1> DEFINE T == Errs({m.id})
           l == <<m>>
           r == s \o l
<1>1. m \in T /\ m \in Answer /\ m.id \in Nat
  <2>1. m \in Answer /\ m.stop \in RemovedStops
    BY DEF Removables
  <2> QED BY <2>1 DEF Answer, Errs
<1>2. T \subseteq Answer /\ \A x \in T : x.id = m.id
  BY <1>1 DEF Answer, Errs, RemovedStops, ErrorStops, AllStops
<1>3. l \in Seq(S) /\ ToSet(l) = {m} /\ r = Append(s, m)
  BY OneElement, AppendIsConcat
<1> HIDE DEF T, l, r
<1>4. Before(ToSet(s), ToSet(l))
  BY <1>3, AscendingJoin DEF r
<1>5. \A x \in ToSet(s) \cap Answer : x.id < m.id
  BY <1>1, <1>3, <1>4 DEF Before
<1>6. \A i \in 1..Len(s) : s[i] \notin T
  <2>1. ToSet(s) = {s[i] : i \in 1..Len(s)}
    BY ElementsOf
  <2> QED BY <1>1, <1>2, <1>5, <2>1
<1>7. Without(s, T) = s
  BY <1>6, WithoutNothing
<1> QED BY <1>1, <1>7, WithoutAppend DEF T

\* The parts of what a reload gives.
LEMMA ContextParts ==
  ASSUME NEW es \in Seq(Entry), Compactions(es) # {}
  PROVE  LET c == Max(Compactions(es))
             left == Without(SubSeq(es, es[c].keep, c - 1), CompactionEntries)
             rest == SubSeq(es, c + 1, Len(es))
         IN /\ c \in 1..Len(es) /\ es[c].keep \in Nat \ {0}
            /\ SubSeq(es, es[c].keep, c - 1) \in Seq(Entry)
            /\ left \in Seq(Message) /\ rest \in Seq(Message)
            /\ Context(es) = <<Summary>> \o left \o rest
<1> DEFINE c == Max(Compactions(es))
           kept == SubSeq(es, es[c].keep, c - 1)
           left == Without(kept, CompactionEntries)
           rest == SubSeq(es, c + 1, Len(es))
<1>1. Context(es) = <<Summary>> \o left \o rest
  BY DEF Context
<1>2. /\ Len(es) \in Nat /\ Compactions(es) \subseteq 1..Len(es) /\ \A i \in 1..Len(es) : es[i] \in Entry
      /\ \A i \in 1..Len(es) : es[i].kind = "compaction" <=> i \in Compactions(es)
  BY ElementsOf DEF Compactions
<1>3. c \in Compactions(es) /\ \A x \in Compactions(es) : c >= x
  BY <1>2, GreatestExists
<1> HIDE DEF c
<1>4. c \in 1..Len(es) /\ es[c].keep \in Nat \ {0}
  BY <1>2, <1>3, Kinds
<1>5. kept \in Seq(Entry)
  <2>1. c - 1 \in Int /\ c - 1 <= Len(es)
    BY <1>2, <1>4
  <2> QED BY <1>4, <2>1, PartIs
<1>6. left \in Seq(Message)
  <2>1. left \in Seq(Entry \ CompactionEntries)
    BY <1>5, WithoutType
  <2>2. Entry \ CompactionEntries \subseteq Message
    BY Kinds
  <2> QED BY <2>1, <2>2, SeqMonotonic
<1>7. rest \in Seq(Message)
  <2>1. c + 1 \in Nat \ {0} /\ Len(es) \in Int /\ Len(es) <= Len(es)
    BY <1>2, <1>4
  <2> DEFINE a == c + 1
  <2>2. /\ rest \in Seq(Entry)
        /\ \A i \in 1..Len(rest) : rest[i] = es[a + (i - 1)] /\ a + (i - 1) \in a..Len(es)
    BY <2>1, PartIs
  <2> HIDE DEF rest
  <2>3. ASSUME NEW i \in 1..Len(rest) PROVE rest[i] \notin CompactionEntries
    <3> DEFINE k == a + (i - 1)
    <3>1. rest[i] = es[k] /\ k \in a..Len(es)
      BY <2>2
    <3> HIDE DEF k
    <3>2. k \in 1..Len(es) /\ ~(c >= k)
      BY <1>2, <1>4, <3>1
    <3> QED BY <1>2, <1>3, <3>1, <3>2, Kinds
  <2>4. rest \in Seq(Entry \ CompactionEntries)
    BY <2>2, <2>3, AllOutside DEF Has
  <2>5. Entry \ CompactionEntries \subseteq Message
    BY Kinds
  <2> QED BY <2>4, <2>5, SeqMonotonic
<1> QED BY <1>1, <1>4, <1>5, <1>6, <1>7 DEF c

\* Without a compaction all entries are messages.
LEMMA ContextWhole ==
  ASSUME NEW es \in Seq(Entry), Compactions(es) = {}
  PROVE  Context(es) = es /\ es \in Seq(Message)
<1>1. \A i \in 1..Len(es) : es[i] \in Entry /\ es[i].kind # "compaction"
  BY ElementsOf DEF Compactions
<1>2. ~Has(es, CompactionEntries)
  BY <1>1, Kinds DEF Has
<1>3. es \in Seq(Entry \ CompactionEntries)
  BY <1>2, AllOutside
<1>4. Entry \ CompactionEntries \subseteq Message
  BY Kinds
<1> QED BY <1>3, <1>4, SeqMonotonic DEF Context

LEMMA PartElements ==
  ASSUME NEW S, NEW s \in Seq(S), NEW a \in Nat \ {0}, NEW b \in Int, b <= Len(s)
  PROVE  ToSet(SubSeq(s, a, b)) \subseteq ToSet(s)
<1> DEFINE p == SubSeq(s, a, b)
<1>1. p \in Seq(S) /\ \A i \in 1..Len(p) : p[i] = s[a + (i - 1)] /\ a + (i - 1) \in a..b
  BY PartIs
<1> HIDE DEF p
<1>2. ToSet(p) = {p[i] : i \in 1..Len(p)} /\ ToSet(s) = {s[i] : i \in 1..Len(s)} /\ Len(s) \in Nat
  BY <1>1, ElementsOf
<1>3. ASSUME NEW i \in 1..Len(p) PROVE p[i] \in ToSet(s)
  <2> DEFINE k == a + (i - 1)
  <2>1. p[i] = s[k] /\ k \in a..b
    BY <1>1
  <2> HIDE DEF k
  <2>2. k \in 1..Len(s)
    BY <1>2, <2>1
  <2> QED BY <1>2, <2>1, <2>2
<1> QED BY <1>2, <1>3 DEF p

LEMMA BeforeLess ==
  ASSUME NEW A, NEW B, NEW A0, NEW B0, Before(A, B),
         A0 \cap Answer \subseteq A, B0 \cap Answer \subseteq B
  PROVE  Before(A0, B0)
BY DEF Before

\* What a reload gives is messages of the session, in their order, behind the summary.
LEMMA ContextIs ==
  ASSUME NEW es \in Seq(Entry)
  PROVE  /\ Context(es) \in Seq(Message)
         /\ ToSet(Context(es)) \subseteq ToSet(es) \cup {Summary}
         /\ Ascending(es) => Ascending(Context(es))
<1>1. CASE Compactions(es) = {}
  BY <1>1, ContextWhole
<1>2. CASE Compactions(es) # {}
  <2> DEFINE c == Max(Compactions(es))
             keep == es[c].keep
             kept == SubSeq(es, keep, c - 1)
             left == Without(kept, CompactionEntries)
             rest == SubSeq(es, c + 1, Len(es))
             first == <<Summary>>
  <2>1. /\ c \in 1..Len(es) /\ keep \in Nat \ {0} /\ kept \in Seq(Entry)
        /\ left \in Seq(Message) /\ rest \in Seq(Message)
        /\ Context(es) = first \o left \o rest
    BY <1>2, ContextParts
  <2> HIDE DEF c, keep
  <2>2. /\ Len(es) \in Nat /\ c - 1 \in Int /\ c - 1 <= Len(es) /\ c + 1 \in Nat \ {0} /\ c - 1 < c + 1
        /\ Len(es) \in Int /\ Len(es) <= Len(es)
    BY <2>1, ElementsOf
  <2>3. ToSet(kept) \subseteq ToSet(es) /\ ToSet(rest) \subseteq ToSet(es)
    BY <2>1, <2>2, PartElements
  <2>4. ToSet(left) = ToSet(kept) \ CompactionEntries
    BY <2>1, WithoutKeeps
  <2>5. first \in Seq(Message) /\ ToSet(first) = {Summary} /\ Ascending(first) /\ Summary \notin Answer
    BY OneElement, AscendingOne, Kinds DEF Summary, Answer
  <2>6. ASSUME Ascending(es)
        PROVE  Ascending(left) /\ Ascending(rest) /\ Before(ToSet(left), ToSet(rest))
    <3>1. Ascending(kept) /\ Ascending(rest)
      BY <2>1, <2>2, <2>6, AscendingPart
    <3>2. Before(ToSet(kept), ToSet(rest))
      BY <2>1, <2>2, <2>6, PartsBefore
    <3>3. Ascending(left)
      BY <2>1, <3>1, AscendingWithout
    <3> QED BY <2>4, <3>1, <3>2, <3>3, BeforeLess
  <2> HIDE DEF left, rest, first
  <2> DEFINE head == first \o left
  <2>7. head \in Seq(Message) /\ ToSet(head) = {Summary} \cup ToSet(left)
    BY <2>1, <2>5, Joined
  <2>8. Ascending(es) => Ascending(head) /\ Before(ToSet(head), ToSet(rest))
    <3>1. SUFFICES ASSUME Ascending(es) PROVE Ascending(head) /\ Before(ToSet(head), ToSet(rest))
      OBVIOUS
    <3>2. Before(ToSet(first), ToSet(left))
      BY <2>5 DEF Before
    <3>3. Ascending(head)
      BY <2>1, <2>5, <2>6, <3>1, <3>2, AscendingJoin
    <3>4. Before(ToSet(head), ToSet(rest))
      BY <2>5, <2>6, <2>7, <3>1, BeforeLess
    <3> QED BY <3>3, <3>4
  <2> HIDE DEF head
  <2> DEFINE all == head \o rest
  <2>9. all \in Seq(Message) /\ ToSet(all) = ToSet(head) \cup ToSet(rest)
    BY <2>1, <2>7, Joined
  <2>10. Ascending(es) => Ascending(all)
    BY <2>1, <2>6, <2>7, <2>8, AscendingJoin
  <2> HIDE DEF all
  <2>11. Context(es) = all
    BY <2>1 DEF all, head
  <2> QED BY <2>3, <2>4, <2>7, <2>9, <2>10, <2>11
<1> QED BY <1>1, <1>2

\* New messages join what a reload gives.
LEMMA ContextJoins ==
  ASSUME NEW es \in Seq(Entry), NEW b \in Seq(Message)
  PROVE  Context(es \o b) = Context(es) \o b
<1> DEFINE all == es \o b
<1>1. Compactions(all) = Compactions(es)
  BY HorizonStays
<1>2. b \in Seq(Entry)
  BY SeqMonotonic DEF Entry
<1>3. CASE Compactions(es) = {}
  BY <1>1, <1>3 DEF Context
<1>4. CASE Compactions(es) # {}
  <2> DEFINE c == Max(Compactions(es))
             keep == es[c].keep
             left == Without(SubSeq(es, keep, c - 1), CompactionEntries)
             rest == SubSeq(es, c + 1, Len(es))
             first == <<Summary>>
  <2>1. /\ c \in 1..Len(es) /\ keep \in Nat \ {0}
        /\ left \in Seq(Message) /\ rest \in Seq(Message)
        /\ Context(es) = first \o left \o rest
    BY <1>4, ContextParts
  <2>2. Context(all) = first \o Without(SubSeq(all, all[c].keep, c - 1), CompactionEntries)
                             \o SubSeq(all, c + 1, Len(all))
    BY <1>1, <1>4 DEF Context
  <2> HIDE DEF c
  <2>3. all[c] = es[c]
    BY <1>2, <2>1, Joined
  <2>4. Len(es) \in Nat /\ c - 1 \in Int /\ c - 1 <= Len(es) /\ c + 1 \in Nat \ {0} /\ c + 1 <= Len(es) + 1
    BY <2>1, ElementsOf
  <2> HIDE DEF keep
  <2>5. SubSeq(all, keep, c - 1) = SubSeq(es, keep, c - 1)
    BY <1>2, <2>1, <2>4, PartLeft
  <2>6. SubSeq(all, c + 1, Len(all)) = rest \o b
    BY <1>2, <2>4, PartRight
  <2>7. Context(all) = first \o left \o (rest \o b)
    BY <2>2, <2>3, <2>5, <2>6 DEF keep
  <2>8. first \in Seq(Message)
    BY OneElement, Kinds
  <2> HIDE DEF left, rest, first, all
  <2> DEFINE head == first \o left
  <2>9. head \in Seq(Message)
    BY <2>1, <2>8, Joined
  <2> HIDE DEF head
  <2>10. head \o (rest \o b) = (head \o rest) \o b
    BY <2>1, <2>9, ConcatAssociative
  <2> QED BY <2>1, <2>7, <2>10 DEF head, all
<1> QED BY <1>3, <1>4

-----------------------------------------------------------------------------
(* The agent's messages against a reload and the events still waited for.    *)

\* The agent's messages ms, the events still waited for and what a reload gives; gone are
\* the answers taken out of the messages.
Failures == [kind : {"failure"}, id : Nat]
Hidden(gone) == Ends \cup Errs(gone)
Agree(ms, context, events, gone) ==
  Without(ms, Failures) = Without(context, Errs(gone)) \o Without(events, Hidden(gone))

LEMMA FailuresApart ==
  Failures \cap Answer = {} /\ Failures \cap Users = {} /\ Failures \cap Ends = {} /\ Failures \subseteq Message
  /\ Summary \notin Failures /\ Failures \subseteq Words
BY DEF Failures, Answer, Users, Ends, User, AgentEnd, Summary, Message, Words

\* A list of which nothing goes.
LEMMA AllStays ==
  ASSUME NEW S, NEW s \in Seq(S), NEW T, ~Has(s, T) PROVE Without(s, T) = s
BY WithoutNothing DEF Has

LEMMA WithoutParts ==
  ASSUME NEW S, NEW T, NEW s \in Seq(S) PROVE Without(s, T) \in Seq(S) /\ ToSet(Without(s, T)) \subseteq ToSet(s)
<1>1. Without(s, T) \in Seq(S)
  BY WithoutType, SeqMonotonic, S \ T \subseteq S
<1> QED BY <1>1, WithoutKeeps

LEMMA EventsJoin == \A r, s, t \in Seq(Event) : (r \o s) \o t = r \o (s \o t)
BY ConcatAssociative

\* What the loop adds to the messages it also tells.
LEMMA MoreSaid ==
  ASSUME NEW ms \in Seq(Message), NEW context \in Seq(Message), NEW q \in Seq(Event), NEW gone,
         NEW b \in Seq(Message), NEW c \in Seq(Event), Agree(ms, context, q, gone),
         Without(b, Failures) = Without(c, Hidden(gone))
  PROVE  Agree(ms \o b, context, q \o c, gone)
<1> DEFINE H == Hidden(gone)
           A == Without(context, Errs(gone))
           B == Without(q, H)
           C == Without(c, H)
<1>1. Without(ms \o b, Failures) = Without(ms, Failures) \o Without(b, Failures)
  BY WithoutJoin
<1>2. Without(q \o c, H) = B \o C
  BY WithoutJoin
<1>3. A \in Seq(Event) /\ B \in Seq(Event) /\ C \in Seq(Event)
  <2>1. context \in Seq(Event)
    BY Apart, SeqMonotonic
  <2> QED BY <2>1, WithoutParts
<1>4. Without(ms, Failures) = A \o B /\ Without(b, Failures) = C
  BY DEF Agree
<1> HIDE DEF A, B, C
<1>5. (A \o B) \o C = A \o (B \o C)
  BY <1>3, EventsJoin
<1> QED BY <1>1, <1>2, <1>4, <1>5 DEF Agree, A

\* The session records the first event it was told.
LEMMA Recorded ==
  ASSUME NEW ms, NEW context \in Seq(Message), NEW q \in Seq(Event), NEW gone,
         q # <<>>, Head(q) \in Message, Agree(ms, context, q, gone)
  PROVE  Agree(ms, Append(context, Head(q)), Tail(q), gone)
<1> DEFINE e == Head(q)
           b == <<e>>
           t == Tail(q)
           H == Hidden(gone)
           E == Errs(gone)
           A == Without(context, E)
           B == Without(b, E)
           C == Without(t, H)
<1>1. t \in Seq(Event) /\ q = b \o t
  BY HeadTailProperties, AppendIsConcat, SeqEqual
<1>2. e \in Event /\ e \in Message /\ e \notin Ends
  BY Apart, Kinds DEF Ends, AgentEnd, Message, Answer, Summary
<1>3. b \in Seq(Event) /\ b \in Seq(Message) /\ Append(context, e) = context \o b
  BY <1>2, AppendIsConcat
<1>4. Without(b, H) = B
  <2> DEFINE none == <<>>
  <2>1. none \in Seq(Event) /\ b = Append(none, e) /\ Without(none, H) = none /\ Without(none, E) = none
    BY EmptySeq, WithoutEmpty
  <2> HIDE DEF none, b, e, H, E
  <2>2. Without(Append(none, e), H) = IF e \in H THEN none ELSE Append(none, e)
    BY <1>2, <2>1, WithoutAppend
  <2>3. Without(Append(none, e), E) = IF e \in E THEN none ELSE Append(none, e)
    BY <1>2, <2>1, WithoutAppend
  <2>4. e \in H <=> e \in E
    BY <1>2 DEF H, E, Hidden
  <2> QED BY <2>1, <2>2, <2>3, <2>4
<1> HIDE DEF e, b, t
<1>5. Without(q, H) = Without(b, H) \o C
  BY <1>1, <1>3, WithoutJoin
<1>6. Without(context \o b, E) = A \o B
  BY <1>3, WithoutJoin
<1>7. A \in Seq(Event) /\ B \in Seq(Event) /\ C \in Seq(Event)
  <2>1. context \in Seq(Event)
    BY Apart, SeqMonotonic
  <2> QED BY <1>1, <1>3, <2>1, WithoutParts
<1>8. Without(ms, Failures) = A \o Without(q, H)
  BY DEF Agree
<1> HIDE DEF A, B, C
<1>9. (A \o B) \o C = A \o (B \o C)
  BY <1>7, EventsJoin
<1>10. Without(ms, Failures) = Without(context \o b, E) \o Without(t, H)
  BY <1>4, <1>5, <1>6, <1>8, <1>9 DEF C
<1> QED BY <1>3, <1>10 DEF Agree, e, t

\* agent_end says nothing of the messages.
LEMMA EndSaysNothing ==
  ASSUME NEW ms, NEW context, NEW gone, Agree(ms, context, <<AgentEnd>>, gone)
  PROVE  Agree(ms, context, <<>>, gone)
<1> DEFINE none == <<>>
           H == Hidden(gone)
<1>1. none \in Seq(Event) /\ <<AgentEnd>> = Append(none, AgentEnd) /\ Without(none, H) = none
      /\ AgentEnd \in Event /\ AgentEnd \in H
  BY EmptySeq, WithoutEmpty, Apart DEF Hidden
<1> HIDE DEF none, H
<1>2. Without(Append(none, AgentEnd), H) = none
  BY <1>1, WithoutAppend
<1>3. Without(<<AgentEnd>>, H) = Without(none, H)
  BY <1>1, <1>2
<1> QED BY <1>3 DEF Agree, H, none

\* The answer that ends the messages is taken out.
LEMMA TakenOut ==
  ASSUME NEW ms \in Seq(Message), NEW context \in Seq(Message), NEW q \in Seq(Event), NEW gone,
         ms # <<>>, Last(ms) \in Removables, Agree(ms, context, q, gone),
         Ascending(context), Ascending(q), Before(ToSet(context), ToSet(q))
  PROVE  Agree(Front(ms), context, q, gone \cup {Last(ms).id})
<1> DEFINE f == Front(ms)
           e == Last(ms)
           more == gone \cup {e.id}
           E == Errs({e.id})
           F == Without(f, Failures)
           A == Without(context, Errs(gone))
           B == Without(q, Hidden(gone))
<1>1. f \in Seq(Message) /\ e \in Message /\ ms = Append(f, e)
  BY FrontAndLast
<1>2. e \notin Failures
  BY FailuresApart DEF Removables
<1>3. Errs(more) = Errs(gone) \cup E /\ Hidden(more) = Hidden(gone) \cup E
  BY DEF Errs, Hidden
<1>4. context \in Seq(Event) /\ Message \subseteq Event /\ e \in Event
  BY <1>1, Apart, SeqMonotonic
<1> HIDE DEF f, e, more, E
<1>5. Without(ms, Failures) = Append(F, e)
  BY <1>1, <1>2, WithoutAppend
<1>6. /\ A \in Seq(Event) /\ ToSet(A) \subseteq ToSet(context)
      /\ B \in Seq(Event) /\ ToSet(B) \subseteq ToSet(q)
  BY <1>4, WithoutParts
<1>7. Ascending(A) /\ Ascending(B)
  BY <1>4, AscendingWithout
<1>8. F \in Seq(Event)
  <2>1. F \in Seq(Message)
    BY <1>1, WithoutParts
  <2> QED BY <1>4, <2>1, SeqMonotonic
<1>9. Without(context, Errs(gone) \cup E) = Without(A, E)
  BY WithoutTwice
<1>10. Without(q, Hidden(gone) \cup E) = Without(B, E)
  BY WithoutTwice
<1>11. Without(ms, Failures) = A \o B
  BY DEF Agree
<1>12. Before(ToSet(A), ToSet(B))
  BY <1>6, BeforeLess
<1> HIDE DEF A, B, F
<1>13. Ascending(A \o B)
  BY <1>6, <1>7, <1>12, AscendingJoin
<1>14. Without(A \o B, E) = Without(A, E) \o Without(B, E)
  BY <1>6, WithoutJoin
<1>15. Without(Append(F, e), E) = F
  <2>1. e \in Removables /\ Ascending(Append(F, e))
    BY <1>5, <1>11, <1>13 DEF e
  <2> QED BY <1>4, <1>8, <2>1, LastGoes DEF E
<1>16. F = Without(context, Errs(more)) \o Without(q, Hidden(more))
  BY <1>3, <1>5, <1>9, <1>10, <1>11, <1>14, <1>15
<1> QED BY <1>16 DEF Agree, F, f, e, more

\* Words the session hears of at once: the output of bash.
LEMMA BashAgrees ==
  ASSUME NEW ms \in Seq(Message), NEW context \in Seq(Message), NEW b \in Seq(Words), NEW gone,
         gone \subseteq Nat, ~Has(b, Failures), Agree(ms, context, <<>>, gone)
  PROVE  Agree(ms \o b, context \o b, <<>>, gone)
<1> DEFINE E == Errs(gone)
           A == Without(context, E)
           none == <<>>
<1>1. /\ b \in Seq(Message) /\ Without(b, Failures) = b
  BY WordsArePlain, AllStays
<1>2. ~Has(b, E)
  <2>1. E \subseteq Answer \cup Ends
    BY DEF Errs, Answer, RemovedStops, ErrorStops, AllStops
  <2> QED BY <2>1, WordsArePlain
<1>3. Without(b, E) = b
  BY <1>2, AllStays
<1>4. Without(ms \o b, Failures) = Without(ms, Failures) \o b
  BY <1>1, WithoutJoin
<1>5. Without(context \o b, E) = A \o b
  <2>1. b \in Seq(Message)
    BY <1>1
  <2> HIDE DEF E
  <2>2. Without(context \o b, E) = Without(context, E) \o Without(b, E)
    BY <2>1, WithoutJoin
  <2> QED BY <1>3, <2>2
<1>6. A \in Seq(Message)
  BY WithoutParts
<1>7. Without(none, Hidden(gone)) = none
  BY WithoutEmpty
<1>8. Without(ms, Failures) = A \o Without(none, Hidden(gone))
  BY DEF Agree
<1> HIDE DEF A, none
<1>9. Without(ms, Failures) = A \o none
  BY <1>7, <1>8
<1>10. A \o none = A /\ (A \o b) \o none = A \o b
  <2>1. A \o b \in Seq(Message)
    BY <1>1, <1>6, ConcatProperties
  <2> QED BY <1>6, <2>1, ConcatEmptySeq DEF none
<1>11. Without(ms \o b, Failures) = Without(context \o b, E) \o Without(none, Hidden(gone))
  BY <1>4, <1>5, <1>7, <1>9, <1>10
<1> QED BY <1>11 DEF Agree, none

\* The messages are what a reload gives.
LEMMA Reloaded ==
  ASSUME NEW context \in Seq(Message), ~Has(context, Failures)
  PROVE  Agree(context, context, <<>>, {})
<1> DEFINE none == <<>>
<1>1. Without(context, Failures) = context
  BY AllStays
<1>2. Without(context, Errs({})) = context
  <2>1. ~Has(context, Errs({}))
    BY DEF Has, Errs
  <2> QED BY <2>1, AllStays
<1>3. Without(none, Hidden({})) = none /\ context \o none = context
  BY WithoutEmpty, ConcatEmptySeq
<1> HIDE DEF none
<1>4. Without(context, Failures) = Without(context, Errs({})) \o Without(none, Hidden({}))
  BY <1>1, <1>2, <1>3
<1> QED BY <1>4 DEF Agree, none

\* With nothing left to hear the two are alike.
LEMMA AllHeard ==
  ASSUME NEW ms, NEW context \in Seq(Message), NEW gone, Agree(ms, context, <<>>, gone)
  PROVE  Without(context, Errs(gone)) = Without(ms, Failures)
<1> DEFINE none == <<>>
           A == Without(context, Errs(gone))
<1>1. A \in Seq(Message)
  BY WithoutParts
<1>2. Without(none, Hidden(gone)) = none
  BY WithoutEmpty
<1>3. Without(ms, Failures) = A \o Without(none, Hidden(gone))
  BY DEF Agree
<1> HIDE DEF A, none
<1>4. A \o none = A
  BY <1>1, ConcatEmptySeq DEF none
<1>5. Without(ms, Failures) = A
  BY <1>2, <1>3, <1>4
<1> QED BY <1>5 DEF A

-----------------------------------------------------------------------------
(* The session is told and records answers in their order.                   *)

\* The session is told and records answers in their order, and no failures.
Sorted ==
  /\ Ascending(entries) /\ Ascending(agentEventQueue)
  /\ Before(ToSet(entries), ToSet(agentEventQueue))
  /\ ~Has(entries, Failures) /\ ~Has(agentEventQueue, Failures)
  /\ ~Has(pendingBashMessages, Failures)

\* What the agent and the session keep is no younger than the last answer.
Dated == ~Has(messages, Later) /\ lastAssistantMessage \notin Later /\ removed \subseteq 0..answers

LEMMA HasIn ==
  ASSUME NEW S, NEW s \in Seq(S), NEW K PROVE Has(s, K) <=> \E x \in ToSet(s) : x \in K
<1>1. ToSet(s) = {s[i] : i \in 1..Len(s)}
  BY ElementsOf
<1> QED BY <1>1 DEF Has

LEMMA NoAnswers ==
  ASSUME NEW S, NEW s \in Seq(S), ~Has(s, Answer)
  PROVE  /\ Ascending(s) /\ ToSet(s) \cap Answer = {}
         /\ \A B : Before(ToSet(s), B) /\ Before(B, ToSet(s))
<1>1. \A i \in 1..Len(s) : s[i] \notin Answer
  BY DEF Has
<1>2. ToSet(s) \cap Answer = {}
  BY HasIn
<1> QED BY <1>1, <1>2 DEF Ascending, Before

LEMMA BeforeBoth ==
  ASSUME NEW A, NEW B, NEW C
  PROVE  /\ Before(A \cup B, C) <=> Before(A, C) /\ Before(B, C)
         /\ Before(C, A \cup B) <=> Before(C, A) /\ Before(C, B)
BY DEF Before

\* Entries that are no answers, and no failures, join the session.
LEMMA EntriesSorted ==
  ASSUME SessionTyped, MirrorInv, Sorted, NEW b \in Seq(Entry), ~Has(b, Answer), ~Has(b, Failures),
         entries' = entries \o b, UNCHANGED agentEventQueue, ~Has(pendingBashMessages', Failures)
  PROVE  Sorted'
<1> DEFINE es == entries
           q == agentEventQueue
<1>1. es \in Seq(Entry)
  BY DEF SessionTyped
<1>2. /\ Ascending(es) /\ Ascending(q) /\ Before(ToSet(es), ToSet(q))
      /\ ~Has(es, Failures) /\ ~Has(q, Failures)
  BY DEF Sorted
<1> HIDE DEF es, q
<1>3. Ascending(b) /\ Before(ToSet(b), ToSet(q)) /\ Before(ToSet(es), ToSet(b))
  BY NoAnswers
<1>4. ToSet(es \o b) = ToSet(es) \cup ToSet(b)
  BY <1>1, Joined
<1>5. Ascending(es \o b)
  BY <1>1, <1>2, <1>3, AscendingJoin
<1>6. Before(ToSet(es \o b), ToSet(q))
  BY <1>2, <1>3, <1>4, BeforeBoth
<1>7. ~Has(es \o b, Failures)
  BY <1>1, <1>2, HasBoth
<1>8. entries' = es \o b /\ agentEventQueue' = q
  BY DEF es, q
<1> QED BY <1>2, <1>5, <1>6, <1>7, <1>8 DEF Sorted

LEMMA QueueTyped == ASSUME MirrorInv PROVE agentEventQueue \in Seq(Event) /\ answers \in Nat
BY DEF MirrorInv, MirrorTyped

\* The session is told of something: an answer among it is a new one.
LEMMA ToldSorted ==
  ASSUME SessionTyped, MirrorInv, Known, Sorted, NEW events \in Seq(Event), Emit(events),
         Ascending(events), ~Has(events, Failures), \A x \in ToSet(events) \cap Answer : x.id > answers,
         UNCHANGED <<entries, pendingBashMessages>>
  PROVE  Sorted'
<1> DEFINE es == entries
           q == agentEventQueue
           q1 == agentEventQueue'
<1>1. es \in Seq(Entry) /\ q \in Seq(Event) /\ answers \in Nat
  BY QueueTyped DEF SessionTyped
<1>2. /\ Ascending(es) /\ Ascending(q) /\ Before(ToSet(es), ToSet(q))
      /\ ~Has(es, Failures) /\ ~Has(q, Failures) /\ ~Has(es, Later) /\ ~Has(q, Later)
  BY DEF Sorted, Known
<1>3. q1 = IF connected THEN q \o events ELSE q
  BY DEF Emit
<1> HIDE DEF es, q, q1
<1>4. ASSUME NEW S, NEW s \in Seq(S), ~Has(s, Later) PROVE Before(ToSet(s), ToSet(events))
  <2>1. \A x \in ToSet(s) : x \notin Later
    BY <1>4, HasIn
  <2>2. \A x \in ToSet(s) \cap Answer : x.id \in Nat /\ ~(x.id > answers)
    BY <2>1, Kinds DEF Later
  <2>3. \A x \in ToSet(events) \cap Answer : x.id \in Nat
    BY Kinds
  <2> QED BY <1>1, <2>2, <2>3 DEF Before
<1>5. Before(ToSet(es), ToSet(events)) /\ Before(ToSet(q), ToSet(events))
  BY <1>1, <1>2, <1>4
<1>6. CASE connected
  <2>1. ToSet(q \o events) = ToSet(q) \cup ToSet(events)
    BY <1>1, Joined
  <2>2. Ascending(q \o events)
    BY <1>1, <1>2, <1>5, AscendingJoin
  <2>3. Before(ToSet(es), ToSet(q \o events))
    BY <1>2, <1>5, <2>1, BeforeBoth
  <2>4. ~Has(q \o events, Failures)
    BY <1>1, <1>2, HasBoth
  <2>5. q1 = q \o events
    BY <1>3, <1>6
  <2>6. Ascending(q1) /\ Before(ToSet(es), ToSet(q1)) /\ ~Has(q1, Failures)
    BY <2>2, <2>3, <2>4, <2>5
  <2> QED BY <1>2, <2>6 DEF Sorted, es, q1
<1>7. CASE ~connected
  <2>1. q1 = q
    BY <1>3, <1>7
  <2> QED BY <1>2, <2>1 DEF Sorted, es, q1, q
<1> QED BY <1>6, <1>7

LEMMA WordsSorted ==
  ASSUME SessionTyped, MirrorInv, Known, Sorted, NEW announced \in Seq(Words), Emit(announced),
         ~Has(announced, Failures), UNCHANGED <<entries, pendingBashMessages>>
  PROVE  Sorted'
<1>1. announced \in Seq(Event) /\ ~Has(announced, Answer)
  BY WordsArePlain, Answer \subseteq Answer \cup Ends
<1>2. Ascending(announced) /\ ToSet(announced) \cap Answer = {}
  BY <1>1, NoAnswers
<1> QED BY <1>1, <1>2, ToldSorted

\* The session has dealt with the first event.
LEMMA TailSorted ==
  ASSUME NEW q \in Seq(Event), q # <<>>, Ascending(q), ~Has(q, Failures)
  PROVE  /\ Tail(q) \in Seq(Event) /\ Ascending(Tail(q)) /\ ~Has(Tail(q), Failures) /\ Head(q) \notin Failures
         /\ ToSet(q) = {Head(q)} \cup ToSet(Tail(q)) /\ Before({Head(q)}, ToSet(Tail(q)))
<1> DEFINE e == Head(q)
           b == <<e>>
           t == Tail(q)
<1>1. e \in Event /\ t \in Seq(Event)
  BY HeardLess
<1>2. q = b \o t
  BY HeadTailProperties, AppendIsConcat, SeqEqual
<1>3. ~Has(t, Failures) /\ e \notin Failures
  BY HasFirst
<1> HIDE DEF e, t
<1>4. b \in Seq(Event) /\ ToSet(b) = {e}
  BY <1>1, OneElement
<1> HIDE DEF b
<1>5. Ascending(b \o t) /\ ToSet(b \o t) = ToSet(b) \cup ToSet(t)
  BY <1>1, <1>2, <1>4, Joined
<1>6. Ascending(t) /\ Before(ToSet(b), ToSet(t))
  BY <1>1, <1>4, <1>5, AscendingJoin
<1> QED BY <1>1, <1>2, <1>3, <1>4, <1>5, <1>6 DEF e, t

LEMMA TookSorted ==
  ASSUME SessionTyped, MirrorInv, Sorted, agentEventQueue # <<>>, agentEventQueue' = Tail(agentEventQueue),
         UNCHANGED <<entries, pendingBashMessages>>
  PROVE  Sorted'
<1> DEFINE q == agentEventQueue
           A == ToSet(entries)
<1>1. q \in Seq(Event) /\ q # <<>> /\ Ascending(q) /\ ~Has(q, Failures) /\ Before(A, ToSet(q))
  BY QueueTyped DEF Sorted
<1> HIDE DEF q, A
<1>2. Ascending(Tail(q)) /\ ~Has(Tail(q), Failures) /\ ToSet(q) = {Head(q)} \cup ToSet(Tail(q))
  BY <1>1, TailSorted
<1>3. Before(A, ToSet(Tail(q)))
  BY <1>1, <1>2, BeforeBoth
<1>4. agentEventQueue' = Tail(q)
  BY DEF q
<1> QED BY <1>2, <1>3, <1>4 DEF Sorted, A

LEMMA MessageSorted == ASSUME SessionTyped, MirrorInv, Sorted, ProcessMessage PROVE Sorted'
<1> DEFINE e == Head(agentEventQueue)
           b == <<e>>
           q == agentEventQueue
           t == Tail(q)
           es == entries
<1>1. /\ q # <<>> /\ e # AgentEnd /\ agentEventQueue' = t
      /\ entries' = Append(es, e) /\ UNCHANGED pendingBashMessages
  BY DEF ProcessMessage
<1>2. /\ q \in Seq(Event) /\ Ascending(q) /\ ~Has(q, Failures) /\ Before(ToSet(es), ToSet(q))
      /\ Ascending(es) /\ ~Has(es, Failures) /\ es \in Seq(Entry) /\ ~Has(pendingBashMessages, Failures)
  BY QueueTyped DEF Sorted, SessionTyped
<1>3. /\ Ascending(t) /\ ~Has(t, Failures) /\ e \notin Failures
      /\ ToSet(q) = {e} \cup ToSet(t) /\ Before({e}, ToSet(t))
  BY <1>1, <1>2, TailSorted
<1>4. e \in Entry
  <2>1. e \in Event
    BY <1>1, <1>2, HeardLess
  <2> QED BY <1>1, <2>1 DEF Event, Entry
<1> HIDE DEF e, q, t, es
<1>5. b \in Seq(Entry) /\ ToSet(b) = {e} /\ Ascending(b) /\ ~Has(b, Failures)
  BY <1>3, <1>4, OneElement, AscendingOne, HasOne
<1>6. entries' = es \o b
  BY <1>1, <1>2, <1>4, AppendIsConcat
<1> HIDE DEF b
<1>7. Before(ToSet(es), ToSet(b)) /\ Before(ToSet(es), ToSet(t))
  BY <1>2, <1>3, <1>5, BeforeBoth
<1>8. Ascending(es \o b) /\ ToSet(es \o b) = ToSet(es) \cup ToSet(b)
  BY <1>2, <1>5, <1>7, AscendingJoin, Joined
<1>9. Before(ToSet(es \o b), ToSet(t))
  BY <1>3, <1>5, <1>7, <1>8, BeforeBoth
<1>10. ~Has(es \o b, Failures)
  BY <1>2, <1>5, HasBoth
<1> QED BY <1>1, <1>2, <1>3, <1>6, <1>8, <1>9, <1>10 DEF Sorted

\* Messages of users, tools, bash and compactions.
Speech == Message \ (Answer \cup Failures)
Open(ms) == ms # <<>> => ~IsAssistant(Last(ms))
Opens(ms) == ms # <<>> /\ Open(ms)

LEMMA SpeechIs ==
  /\ \A m \in Message : IsAssistant(m) <=> m \in Answer \cup Failures
  /\ Speech \subseteq Message /\ Speech \subseteq Words /\ Users \subseteq Speech
  /\ \A m \in Speech : ~IsAssistant(m)
  /\ \A n \in Nat : ToolResult(n) \in Speech /\ Bash(n) \in Speech
<1>1. \A m \in Message : IsAssistant(m) <=> m \in Answer \cup Failures
  BY DEF Message, Answer, Failures, IsAssistant, Summary
<1>2. Users \subseteq Message /\ \A u \in Users : ~IsAssistant(u)
  BY DEF Users, User, Message, IsAssistant
<1>3. \A n \in Nat : /\ ToolResult(n) \in Message /\ Bash(n) \in Message
                     /\ ~IsAssistant(ToolResult(n)) /\ ~IsAssistant(Bash(n))
  BY DEF ToolResult, Bash, Message, IsAssistant
<1> QED BY <1>1, <1>2, <1>3 DEF Speech, Words

LEMMA SpeechSays ==
  ASSUME NEW b \in Seq(Speech)
  PROVE  /\ b \in Seq(Words) /\ b \in Seq(Message) /\ b \in Seq(Event)
         /\ ~Has(b, Failures) /\ ~Has(b, Answer)
         /\ \A gone : gone \subseteq Nat => ~Has(b, Hidden(gone))
<1>1. b \in Seq(Words)
  BY SpeechIs, SeqMonotonic
<1>2. b \in Seq(Message) /\ b \in Seq(Event) /\ \A K : K \subseteq Answer \cup Ends => ~Has(b, K)
  BY <1>1, WordsArePlain
<1>3. ~Has(b, Failures)
  BY HasNone DEF Speech
<1>4. \A gone : gone \subseteq Nat => Hidden(gone) \subseteq Answer \cup Ends
  BY DEF Hidden, Errs, Answer, RemovedStops, ErrorStops, AllStops
<1>5. Answer \subseteq Answer \cup Ends
  OBVIOUS
<1> QED BY <1>1, <1>2, <1>3, <1>4, <1>5

LEMMA LastOf ==
  ASSUME NEW S, NEW s \in Seq(S), NEW t \in Seq(S), t # <<>>
  PROVE  Last(s \o t) = Last(t) /\ Last(t) \in S
<1>1. /\ s \o t \in Seq(S) /\ Len(s \o t) = Len(s) + Len(t)
      /\ \A i \in 1..Len(t) : (s \o t)[Len(s) + i] = t[i]
  BY Joined
<1>2. Len(s) \in Nat /\ Len(t) \in Nat /\ Len(t) >= 1 /\ \A i \in 1..Len(t) : t[i] \in S
  BY ElementsOf
<1>3. Len(t) \in 1..Len(t)
  BY <1>2
<1> QED BY <1>1, <1>2, <1>3 DEF Last

LEMMA OpenJoins ==
  ASSUME NEW ms \in Seq(Message), NEW b \in Seq(Speech), b # <<>> \/ Open(ms)
  PROVE  Open(ms \o b)
<1>1. b \in Seq(Message)
  BY SpeechSays
<1>2. CASE b # <<>>
  <2>1. Last(ms \o b) = Last(b)
    BY <1>1, <1>2, LastOf
  <2>2. Last(b) \in Speech
    BY <1>2, FrontAndLast
  <2> QED BY <2>1, <2>2, SpeechIs DEF Open
<1>3. CASE b = <<>>
  <2>1. ms \o b = ms
    BY <1>3, ConcatEmptySeq
  <2> QED BY <1>3, <2>1
<1> QED BY <1>2, <1>3

LEMMA OpensJoins ==
  ASSUME NEW ms \in Seq(Message), NEW b \in Seq(Speech), b # <<>> \/ Opens(ms)
  PROVE  Opens(ms \o b)
<1>1. b \in Seq(Message)
  BY SpeechSays
<1>2. ms \o b # <<>>
  BY <1>1, ConcatEqualIffEmpty DEF Opens
<1>3. Open(ms \o b)
  BY OpenJoins DEF Opens
<1> QED BY <1>2, <1>3 DEF Opens

\* The loop announces messages that call for an answer, and asks for one.
Says(b) ==
  b \in Seq(Speech) /\ Emit(b) /\ messages' = messages \o b /\ Opens(messages') /\ run' = "turn"

LEMMA StartSays ==
  ASSUME SessionTyped, NEW ms \in Seq(Users), NEW skip \in BOOLEAN, NEW sq \in Seq(Texts), NEW fq,
         StartRun(ms, skip, sq, fq), ms # <<>> \/ Opens(messages)
  PROVE  \E b : Says(b) /\ outOfStep' = (outOfStep \/ agentEventQueue # <<>>)
<1> DEFINE polled == IF skip THEN <<>> ELSE Drained(sq)
           b == ms \o polled
<1>1. /\ Emit(b) /\ messages' = messages \o b /\ run' = "turn"
      /\ outOfStep' = (outOfStep \/ agentEventQueue # <<>>)
  BY DEF StartRun
<1>2. polled \in Seq(Users)
  BY DrainedSpoken, EmptySeq
<1> HIDE DEF polled
<1>3. b \in Seq(Users) /\ (ms # <<>> => b # <<>>)
  BY <1>2, ConcatProperties, ConcatEqualIffEmpty
<1> HIDE DEF b
<1>4. b \in Seq(Speech)
  BY <1>3, SpeechIs, SeqMonotonic
<1>5. messages \in Seq(Message)
  BY DEF SessionTyped
<1>6. Opens(messages \o b)
  BY <1>3, <1>4, <1>5, OpensJoins
<1>7. Opens(messages')
  BY <1>1, <1>6
<1> QED BY <1>1, <1>4, <1>7 DEF Says

LEMMA DrainedSays ==
  ASSUME NEW q \in Seq(Texts), q # <<>>
  PROVE  Drained(q) \in Seq(Users) /\ Drained(q) # <<>> /\ Tail(q) \in Seq(Texts)
<1>1. Drained(q) \in Seq(Users) /\ Tail(q) \in Seq(Texts)
  BY DrainedSpoken, HeadTailProperties
<1>2. Drained(q) # <<>>
  BY DEF Drained
<1> QED BY <1>1, <1>2

Elsewhere == <<entries, pendingBashMessages, lastAssistantMessage, removed, answers>>

LEMMA TimerSays ==
  ASSUME SessionTyped, MirrorInv, TimerFires
  PROVE  /\ UNCHANGED Elsewhere
         /\ \/ \E b : Says(b) /\ outOfStep' = (outOfStep \/ agentEventQueue # <<>>)
            \/ UNCHANGED <<agentVars, agentEventQueue, missed, outOfStep>>
<1>1. UNCHANGED Elsewhere
  BY DEF TimerFires, Elsewhere
<1>2. steeringQueue \in Seq(Texts) /\ followUpQueue \in Seq(Texts)
  BY QueuesTyped
<1>3. CASE LET last == IF messages = <<>> THEN None ELSE Last(messages) IN
           /\ ~IsAssistant(last) /\ last # None
           /\ StartRun(<<>>, FALSE, steeringQueue, followUpQueue)
  <2> DEFINE none == <<>>
  <2>1. none \in Seq(Users) /\ StartRun(none, FALSE, steeringQueue, followUpQueue) /\ Opens(messages)
    BY <1>3, EmptySeq DEF Open, Opens
  <2> HIDE DEF none
  <2> QED BY <1>1, <1>2, <2>1, StartSays
<1>4. CASE /\ steeringQueue # <<>>
           /\ StartRun(Drained(steeringQueue), TRUE, Tail(steeringQueue), followUpQueue)
  <2> DEFINE ms == Drained(steeringQueue)
             rest == Tail(steeringQueue)
  <2>1. ms \in Seq(Users) /\ ms # <<>> /\ rest \in Seq(Texts) /\ StartRun(ms, TRUE, rest, followUpQueue)
    BY <1>2, <1>4, DrainedSays
  <2> HIDE DEF ms, rest
  <2> QED BY <1>1, <2>1, StartSays
<1>5. CASE /\ followUpQueue # <<>>
           /\ StartRun(Drained(followUpQueue), FALSE, steeringQueue, Tail(followUpQueue))
  <2> DEFINE ms == Drained(followUpQueue)
             rest == Tail(followUpQueue)
  <2>1. ms \in Seq(Users) /\ ms # <<>> /\ StartRun(ms, FALSE, steeringQueue, rest)
    BY <1>2, <1>5, DrainedSays
  <2> HIDE DEF ms, rest
  <2> QED BY <1>1, <1>2, <2>1, StartSays
<1>6. CASE UNCHANGED <<agentVars, agentEventQueue, missed, budget, outOfStep>>
  BY <1>1, <1>6
<1> QED BY <1>3, <1>4, <1>5, <1>6 DEF TimerFires

LEMMA SendPromptSays ==
  ASSUME SessionTyped, MirrorInv, NEW t \in Texts, SendPrompt(t)
  PROVE  /\ UNCHANGED Elsewhere
         /\ \/ \E b : Says(b) /\ outOfStep' = (outOfStep \/ agentEventQueue # <<>>)
            \/ UNCHANGED <<agentVars, agentEventQueue, missed, outOfStep>>
<1>1. UNCHANGED Elsewhere
  BY DEF SendPrompt, Elsewhere
<1>2. CASE StartRun(<<User(t)>>, FALSE, steeringQueue, followUpQueue)
  <2> DEFINE u == User(t)
             ms == <<u>>
  <2>1. u \in Users
    BY DEF Users
  <2> HIDE DEF u
  <2>2. ms \in Seq(Users) /\ ms # <<>>
    BY <2>1
  <2>3. StartRun(ms, FALSE, steeringQueue, followUpQueue)
    BY <1>2 DEF u
  <2> HIDE DEF ms
  <2> QED BY <1>1, <2>2, <2>3, QueuesTyped, StartSays
<1>3. CASE UNCHANGED <<agentVars, agentEventQueue, missed, budget, outOfStep>>
  BY <1>1, <1>3
<1> QED BY <1>2, <1>3 DEF SendPrompt

LEMMA ToolsEndSays ==
  ASSUME SessionTyped, MirrorInv, ToolsEnd
  PROVE  UNCHANGED Elsewhere /\ run = "tools" /\ UNCHANGED outOfStep /\ \E b : Says(b)
<1> DEFINE result == ToolResult(answers)
           first == <<result>>
           rest == Drained(steeringQueue)
           b == first \o rest
<1>1. /\ run = "tools" /\ run' = "turn" /\ Emit(b) /\ messages' = messages \o b
      /\ UNCHANGED Elsewhere /\ UNCHANGED outOfStep
  BY DEF ToolsEnd, Elsewhere
<1>2. result \in Speech
  BY QueueTyped, SpeechIs
<1>3. rest \in Seq(Users)
  BY QueuesTyped, DrainedSpoken
<1> HIDE DEF result, rest
<1>4. first \in Seq(Speech) /\ rest \in Seq(Speech) /\ first # <<>>
  BY <1>2, <1>3, SpeechIs, SeqMonotonic, OneElement
<1> HIDE DEF first
<1>5. b \in Seq(Speech) /\ b # <<>>
  BY <1>4, ConcatProperties, ConcatEqualIffEmpty
<1> HIDE DEF b
<1>6. messages \in Seq(Message)
  BY DEF SessionTyped
<1>7. Opens(messages \o b)
  BY <1>5, <1>6, OpensJoins
<1>8. Opens(messages')
  BY <1>1, <1>7
<1> QED BY <1>1, <1>5, <1>8 DEF Says

\* The model's answer m: the loop goes on with what was queued, with tools, or ends.
Concludes(m, b) ==
  /\ m \in Answer /\ m.id = answers + 1 /\ b \in Seq(Users)
  /\ messages' = messages \o (<<m>> \o b)
  /\ \/ Emit(<<m>> \o b) /\ run' # "none" /\ (run' = "turn" => b # <<>>) /\ m \notin Errors
     \/ Emit(<<m>> \o <<AgentEnd>>) /\ run' = "none" /\ b = <<>>

LEMMA AnswerConcludes ==
  ASSUME SessionTyped, MirrorInv, NEW stop \in AllStops \cup {"aborted"}, Answers(stop)
  PROVE  /\ UNCHANGED <<entries, pendingBashMessages, lastAssistantMessage, removed, outOfStep>>
         /\ answers' = answers + 1 /\ run = "turn"
         /\ \E m, b : Concludes(m, b)
<1> DEFINE m == Assistant(answers + 1, stop)
           one == <<m>>
           polled == IF stop \notin Ended THEN <<>>
                     ELSE Drained(IF steeringQueue # <<>> THEN steeringQueue ELSE followUpQueue)
<1>1. /\ answers' = answers + 1 /\ run = "turn" /\ messages' = messages \o one \o polled
      /\ \/ /\ stop = "toolUse" \/ polled # <<>>
            /\ run' = IF stop = "toolUse" THEN "tools" ELSE "turn"
            /\ Emit(one \o polled)
         \/ /\ polled = <<>> /\ run' = "none" /\ Emit(one \o <<AgentEnd>>)
      /\ UNCHANGED <<entries, pendingBashMessages, lastAssistantMessage, removed, outOfStep>>
  BY DEF Answers, EndRun
<1>2. m \in Answer /\ m.id = answers + 1 /\ m.stop = stop
  BY QueueTyped DEF Assistant, Answer
<1>3. polled \in Seq(Users)
  BY QueuesTyped, DrainedSpoken, EmptySeq
<1>4. stop = "toolUse" \/ polled # <<>> => m \notin Errors
  <2>1. polled # <<>> => stop \in Ended
    OBVIOUS
  <2> QED BY <1>2, <2>1 DEF Errors, ErrorStops, Ended
<1> HIDE DEF m, polled
<1>5. one \in Seq(Message) /\ polled \in Seq(Message) /\ messages \in Seq(Message)
  <2>1. m \in Message
    BY <1>2, Kinds
  <2>2. one \in Seq(Message)
    BY <2>1, OneElement
  <2>3. Users \subseteq Message
    BY Apart
  <2> QED BY <1>3, <2>2, <2>3, SeqMonotonic DEF SessionTyped
<1> HIDE DEF one
<1>6. messages \o one \o polled = messages \o (one \o polled)
  BY <1>5, ConcatAssociative
<1>7. messages' = messages \o (one \o polled)
  BY <1>1, <1>6
<1>8. CASE /\ stop = "toolUse" \/ polled # <<>>
           /\ run' = IF stop = "toolUse" THEN "tools" ELSE "turn"
           /\ Emit(one \o polled)
  <2>1. run' # "none" /\ (run' = "turn" => polled # <<>>) /\ m \notin Errors
    BY <1>4, <1>8
  <2>2. Concludes(m, polled)
    BY <1>2, <1>3, <1>7, <1>8, <2>1 DEF Concludes, one
  <2> QED BY <1>1, <2>2
<1>9. CASE polled = <<>> /\ run' = "none" /\ Emit(one \o <<AgentEnd>>)
  <2>1. Concludes(m, polled)
    BY <1>2, <1>3, <1>7, <1>9 DEF Concludes, one
  <2> QED BY <1>1, <2>1
<1> QED BY <1>1, <1>8, <1>9

LEMMA AnswerSorted ==
  ASSUME SessionTyped, MirrorInv, Known, Sorted, NEW m, NEW b, Concludes(m, b),
         UNCHANGED <<entries, pendingBashMessages>>
  PROVE  Sorted'
<1> DEFINE one == <<m>>
           end == <<AgentEnd>>
<1>1. m \in Event /\ m \in Answer /\ m.id = answers + 1 /\ b \in Seq(Users) /\ answers \in Nat
  BY QueueTyped, Kinds, Apart DEF Concludes
<1>2. one \in Seq(Event) /\ ToSet(one) = {m} /\ Ascending(one) /\ ~Has(one, Failures)
  BY <1>1, OneElement, AscendingOne, HasOne, FailuresApart
<1>3. b \in Seq(Event) /\ ~Has(b, Answer) /\ ~Has(b, Failures)
  <2>1. b \in Seq(Speech)
    BY <1>1, SpeechIs, SeqMonotonic
  <2> QED BY <2>1, SpeechSays
<1>4. end \in Seq(Event) /\ ~Has(end, Answer) /\ ~Has(end, Failures)
  BY Apart, OneElement, HasOne, FailuresApart DEF Ends
<1> HIDE DEF one, end
<1>5. ASSUME NEW more \in Seq(Event), ~Has(more, Answer), ~Has(more, Failures), Emit(one \o more)
      PROVE  Sorted'
  <2> DEFINE events == one \o more
  <2>1. Ascending(more) /\ ToSet(more) \cap Answer = {} /\ Before(ToSet(one), ToSet(more))
    BY <1>5, NoAnswers
  <2>2. events \in Seq(Event) /\ ToSet(events) = {m} \cup ToSet(more)
    BY <1>2, <1>5, Joined
  <2>3. Ascending(events) /\ ~Has(events, Failures)
    BY <1>2, <1>5, <2>1, AscendingJoin, HasBoth
  <2>4. \A x \in ToSet(events) \cap Answer : x.id > answers
    BY <1>1, <2>1, <2>2
  <2>5. Emit(events)
    BY <1>5
  <2> HIDE DEF events
  <2> QED BY <2>2, <2>3, <2>4, <2>5, ToldSorted
<1> QED BY <1>3, <1>4, <1>5 DEF Concludes, one, end

LEMMA SaysSorted ==
  ASSUME SessionTyped, MirrorInv, Known, Sorted, NEW b, Says(b), UNCHANGED <<entries, pendingBashMessages>>
  PROVE  Sorted'
BY SpeechSays, WordsSorted DEF Says

LEMMA ThrowSorted ==
  ASSUME SessionTyped, MirrorInv, Known, Sorted, NEW retryable \in BOOLEAN, StreamThrows(retryable)
  PROVE  Sorted'
<1> DEFINE none == <<>>
           end == <<AgentEnd>>
           events == none \o end
<1>1. Emit(events) /\ UNCHANGED <<entries, pendingBashMessages>>
  BY DEF StreamThrows, EndRun
<1>2. end \in Seq(Event) /\ none \in Seq(Event) /\ ~Has(end, Failures) /\ ~Has(end, Answer)
  BY Apart, OneElement, HasOne, FailuresApart, EmptySeq DEF Ends
<1> HIDE DEF end
<1>3. events = end
  BY <1>2, ConcatEmptySeq
<1>4. Ascending(end) /\ ToSet(end) \cap Answer = {}
  BY <1>2, NoAnswers
<1> QED BY <1>1, <1>2, <1>3, <1>4, ToldSorted

LEMMA SameSorted ==
  ASSUME Sorted, UNCHANGED <<entries, agentEventQueue, pendingBashMessages>> PROVE Sorted'
BY DEF Sorted

\* A compaction, bash output, and its flush by a prompt.
LEMMA AddedSorted ==
  ASSUME SessionTyped, MirrorInv, Known, Sorted, UNCHANGED agentEventQueue,
         \/ \E o \in Owners : CompactionEnds(o)
         \/ \E t \in Texts : Prompt(t)
         \/ RecordBash
  PROVE  Sorted'
<1>1. ASSUME NEW o \in Owners, CompactionEnds(o) PROVE Sorted'
  <2> DEFINE c == CompactionEntry(jobs[o].keep, answers + IF run = "turn" THEN 1 ELSE 0)
             b == <<c>>
  <2>1. jobs[o] # None /\ entries' = Append(entries, c) /\ UNCHANGED pendingBashMessages
    BY <1>1 DEF CompactionEnds
  <2>2. c \in CompactionEntries
    <3>1. jobs[o].keep \in Nat \ {0}
      BY <2>1 DEF SessionTyped, Job
    <3> QED BY <3>1, QueueTyped DEF CompactionEntry, CompactionEntries
  <2>3. c \in Entry /\ c \notin Answer /\ c \notin Failures
    BY <2>2 DEF Entry, CompactionEntries, Answer, Failures
  <2> HIDE DEF c
  <2>4. entries' = entries \o b /\ b \in Seq(Entry) /\ ~Has(b, Answer) /\ ~Has(b, Failures)
    <3>1. entries \in Seq(Entry)
      BY DEF SessionTyped
    <3> QED BY <2>1, <2>3, <3>1, AppendIsConcat, OneElement, HasOne
  <2>5. ~Has(pendingBashMessages', Failures)
    BY <2>1 DEF Sorted
  <2> HIDE DEF b
  <2> QED BY <2>4, <2>5, EntriesSorted
<1>2. ASSUME NEW t \in Texts, Prompt(t) PROVE Sorted'
  <2> DEFINE b == pendingBashMessages
  <2>1. entries' = entries \o b /\ pendingBashMessages' = <<>>
    BY <1>2 DEF Prompt
  <2>2. b \in Seq(Message) /\ ~Has(b, Answer) /\ ~Has(b, Failures)
    BY DEF SessionTyped, Known, Sorted
  <2> HIDE DEF b
  <2>3. b \in Seq(Entry)
    BY <2>2, SeqMonotonic DEF Entry
  <2>4. ~Has(pendingBashMessages', Failures)
    BY <2>1, HasNothing
  <2> QED BY <2>1, <2>2, <2>3, <2>4, EntriesSorted
<1>3. ASSUME RecordBash PROVE Sorted'
  <2> DEFINE x == Bash(calls + 1)
             b == <<x>>
  <2>1. \/ pendingBashMessages' = pendingBashMessages \o b /\ UNCHANGED entries
        \/ entries' = entries \o b /\ UNCHANGED pendingBashMessages
    BY <1>3 DEF RecordBash
  <2>2. x \in Speech
    BY SpeechIs DEF SessionTyped
  <2> HIDE DEF x
  <2>3. b \in Seq(Speech)
    BY <2>2, OneElement
  <2> HIDE DEF b
  <2>4. b \in Seq(Message) /\ ~Has(b, Answer) /\ ~Has(b, Failures)
    BY <2>3, SpeechSays
  <2>5. b \in Seq(Entry)
    BY <2>4, SeqMonotonic DEF Entry
  <2>6. CASE pendingBashMessages' = pendingBashMessages \o b /\ UNCHANGED entries
    <3>1. pendingBashMessages \in Seq(Message) /\ ~Has(pendingBashMessages, Failures)
      BY DEF SessionTyped, Sorted
    <3>2. ~Has(pendingBashMessages \o b, Failures)
      BY <2>4, <3>1, HasBoth
    <3>3. ~Has(pendingBashMessages', Failures)
      BY <2>6, <3>2
    <3> QED BY <2>6, <3>3 DEF Sorted
  <2>7. CASE entries' = entries \o b /\ UNCHANGED pendingBashMessages
    <3>1. ~Has(pendingBashMessages', Failures)
      BY <2>7 DEF Sorted
    <3> QED BY <2>4, <2>5, <2>7, <3>1, EntriesSorted
  <2> QED BY <2>1, <2>6, <2>7
<1> QED BY <1>1, <1>2, <1>3

LEMMA SortedStep == ASSUME SessionTyped, MirrorInv, Known, Sorted, [Next]_vars PROVE Sorted'
<1>1. CASE UNCHANGED <<entries, agentEventQueue, pendingBashMessages>>
  BY <1>1, SameSorted
<1>2. CASE ProcessRetry \/ ProcessEnd \/ ListenerThrows
  <2>1. /\ agentEventQueue # <<>> /\ agentEventQueue' = Tail(agentEventQueue)
        /\ UNCHANGED <<entries, pendingBashMessages>>
    BY <1>2 DEF ProcessRetry, ProcessEnd, ListenerThrows
  <2> QED BY <2>1, TookSorted
<1>3. CASE TimerFires \/ (\E t \in Texts : SendPrompt(t)) \/ ToolsEnd
  <2>1. /\ UNCHANGED <<entries, pendingBashMessages>>
        /\ (\E b : Says(b)) \/ UNCHANGED agentEventQueue
    BY <1>3, TimerSays, SendPromptSays, ToolsEndSays DEF Elsewhere
  <2> QED BY <1>1, <2>1, SaysSorted
<1>4. CASE \E stop \in AllStops \cup {"aborted"} : Answers(stop)
  BY <1>4, AnswerConcludes, AnswerSorted
<1>5. CASE \/ \E o \in Owners : CompactionEnds(o)
           \/ \E t \in Texts : Prompt(t)
           \/ RecordBash
  <2>1. UNCHANGED agentEventQueue
    BY <1>5 DEF CompactionEnds, Prompt, RecordBash
  <2> QED BY <1>5, <2>1, AddedSorted
<1>6. CASE \/ BackoffEnds \/ (\E o \in Owners : CompactionFails(o)) \/ CompactBegins
           \/ (\E t \in Texts : Steer(t) \/ FollowUp(t)) \/ ClearQueue \/ AbortEffects \/ UNCHANGED vars
  <2>1. UNCHANGED <<entries, agentEventQueue, pendingBashMessages>>
    BY <1>6 DEF BackoffEnds, CompactionFails, CompactBegins, Steer, FollowUp, ClearQueue, AbortEffects,
                vars, sessionVars
  <2> QED BY <1>1, <2>1
<1> QED BY <1>2, <1>3, <1>4, <1>5, <1>6, MessageSorted, ThrowSorted
    DEF Next, SystemStep, UserStep, Abort, Compact

-----------------------------------------------------------------------------
(* No answer the agent or the session keeps is younger than the last.        *)

LEMMA LaterStays == ASSUME UNCHANGED answers PROVE Later' = Later
BY Rigid DEF Later

LEMMA DatedSame ==
  ASSUME Dated, UNCHANGED answers, ~Has(messages', Later),
         lastAssistantMessage' \notin Later, removed' \subseteq 0..answers
  PROVE  Dated'
BY LaterStays DEF Dated

LEMMA NotLater ==
  ASSUME MirrorInv, NEW m \in Answer, m \notin Later PROVE m.id \in 0..answers
BY QueueTyped, Kinds DEF Later

LEMMA FewerMessages ==
  ASSUME NEW ms \in Seq(Message), NEW K
  PROVE  Has(WithoutLastAnswer(ms), K) => Has(ms, K)
BY HasFront DEF WithoutLastAnswer

\* The checks for a compaction take out at most the message they are about.
LEMMA CheckTakes ==
  ASSUME NEW o, NEW m, NEW ms, NEW es, NEW gone, CheckCompaction(o, m, ms, es, gone)
  PROVE  \/ messages' = ms /\ removed' = gone
         \/ /\ "overflow" \in CompactionReasons(o, m, ms)
            /\ messages' = WithoutLastAnswer(ms)
            /\ removed' = IF ms # <<>> /\ Last(ms) = m THEN gone \cup {m.id} ELSE gone
BY DEF CheckCompaction

LEMMA CheckDated ==
  ASSUME SessionTyped, MirrorInv, Dated, NEW o, NEW ms \in Seq(Message), NEW es,
         ~Has(ms, Later), NEW m \in Message \cup {None}, m \notin Later,
         CheckCompaction(o, m, ms, es, removed)
  PROVE  ~Has(messages', Later) /\ removed' \subseteq 0..answers
<1>1. removed \subseteq 0..answers
  BY DEF Dated
<1>2. CASE messages' = ms /\ removed' = removed
  BY <1>1, <1>2
<1>3. CASE /\ "overflow" \in CompactionReasons(o, m, ms)
           /\ messages' = WithoutLastAnswer(ms)
           /\ removed' = IF ms # <<>> /\ Last(ms) = m THEN removed \cup {m.id} ELSE removed
  <2>1. m \in Answer
    <3>1. m # None /\ m.kind = "assistant"
      BY <1>3, ReasonsAre
    <3> QED BY <3>1, Kinds
  <2>2. m.id \in 0..answers
    BY <2>1, NotLater
  <2>3. ~Has(messages', Later)
    BY <1>3, FewerMessages
  <2> QED BY <1>1, <1>3, <2>2, <2>3
<1> QED BY <1>2, <1>3, CheckTakes

LEMMA NoneNotLater == None \notin Later /\ None \notin Errors /\ None \notin Message
BY Kinds DEF Later, None, Errors, Answer

LEMMA SaysDated ==
  ASSUME SessionTyped, Dated, NEW b, Says(b), UNCHANGED Elsewhere PROVE Dated'
<1>1. b \in Seq(Message) /\ ~Has(b, Answer) /\ messages' = messages \o b /\ messages \in Seq(Message)
  BY SpeechSays DEF Says, SessionTyped
<1>2. ~Has(b, Later)
  BY <1>1, Apart DEF Has
<1>3. ~Has(messages', Later)
  BY <1>1, <1>2, HasBoth DEF Dated
<1> QED BY <1>3, DatedSame DEF Dated, Elsewhere

LEMMA ThrowDated ==
  ASSUME SessionTyped, Dated, NEW retryable \in BOOLEAN, StreamThrows(retryable) PROVE Dated'
<1> DEFINE f == Failure(throws')
           b == <<f>>
<1>1. messages' = Append(messages, f) /\ UNCHANGED <<lastAssistantMessage, removed, answers>>
  BY DEF StreamThrows
<1>2. f \in Message /\ f \notin Later
  <2>1. throws' \in Nat
    BY DEF StreamThrows, SessionTyped
  <2>2. f \in Failures
    BY <2>1 DEF Failure, Failures
  <2> QED BY <2>2, FailuresApart, Apart
<1> HIDE DEF f
<1>3. b \in Seq(Message) /\ ~Has(b, Later) /\ messages' = messages \o b /\ messages \in Seq(Message)
  <2>1. messages \in Seq(Message)
    BY DEF SessionTyped
  <2> QED BY <1>1, <1>2, <2>1, AppendIsConcat, OneElement, HasOne
<1> HIDE DEF b
<1>4. ~Has(messages', Later)
  BY <1>3, HasBoth DEF Dated
<1> QED BY <1>1, <1>4, DatedSame DEF Dated

LEMMA AnswerDated ==
  ASSUME SessionTyped, MirrorInv, Dated, NEW m, NEW b, Concludes(m, b),
         UNCHANGED <<lastAssistantMessage, removed>>, answers' = answers + 1
  PROVE  Dated'
<1> DEFINE one == <<m>>
           more == one \o b
<1>1. m \in Answer /\ m.id = answers' /\ b \in Seq(Users) /\ messages' = messages \o more
  BY DEF Concludes
<1>2. Later' \subseteq Later /\ \A s : Has(s, Later') => Has(s, Later)
  BY LaterShrinks
<1>3. m \notin Later' /\ Later' \subseteq Answer
  BY <1>1, QueueTyped, Rigid DEF Later
<1>4. one \in Seq(Message) /\ ~Has(one, Later')
  BY <1>1, <1>3, Kinds, OneElement, HasOne
<1>5. b \in Seq(Message) /\ ~Has(b, Later')
  <2>1. b \in Seq(Speech)
    BY <1>1, SpeechIs, SeqMonotonic
  <2>2. b \in Seq(Message) /\ ~Has(b, Answer)
    BY <2>1, SpeechSays
  <2> QED BY <1>3, <2>2 DEF Has
<1> HIDE DEF one
<1>6. more \in Seq(Message) /\ ~Has(more, Later')
  BY <1>4, <1>5, ConcatProperties, HasBoth
<1> HIDE DEF more
<1>7. messages \in Seq(Message) /\ ~Has(messages, Later')
  BY <1>2 DEF SessionTyped, Dated
<1>8. ~Has(messages \o more, Later')
  BY <1>6, <1>7, HasBoth
<1>9. ~Has(messages', Later')
  BY <1>1, <1>8
<1>10. lastAssistantMessage' \notin Later' /\ removed' \subseteq 0..answers'
  BY <1>2, QueueTyped DEF Dated
<1> QED BY <1>9, <1>10 DEF Dated

LEMMA MessageDated ==
  ASSUME SessionTyped, MirrorInv, Known, Dated, ProcessMessage PROVE Dated'
<1>1. Head(agentEventQueue) \notin Later
  BY TailKnown DEF ProcessMessage
<1>2. UNCHANGED <<messages, removed, answers>>
  BY DEF ProcessMessage, agentVars, ghostVars
<1>3. lastAssistantMessage' \in {Head(agentEventQueue), lastAssistantMessage}
  BY DEF ProcessMessage
<1> QED BY <1>1, <1>2, <1>3, DatedSame DEF Dated

LEMMA RetryDated ==
  ASSUME SessionTyped, MirrorInv, Dated, ProcessRetry PROVE Dated'
<1> DEFINE m == lastAssistantMessage
<1>1. /\ m # None /\ messages' = WithoutLastAnswer(messages) /\ removed' = removed \cup {m.id}
      /\ lastAssistantMessage' = None /\ UNCHANGED answers
  BY DEF ProcessRetry, MayRetry
<1>2. m \in Answer /\ m \notin Later /\ messages \in Seq(Message)
  BY <1>1 DEF SessionTyped, Dated
<1> HIDE DEF m
<1>3. m.id \in 0..answers
  BY <1>2, NotLater
<1>4. ~Has(messages', Later)
  BY <1>1, <1>2, FewerMessages DEF Dated
<1>5. removed' \subseteq 0..answers
  BY <1>1, <1>3 DEF Dated
<1> QED BY <1>1, <1>4, <1>5, NoneNotLater, DatedSame

LEMMA EndDated ==
  ASSUME SessionTyped, MirrorInv, Dated, ProcessEnd PROVE Dated'
<1> DEFINE m == lastAssistantMessage
<1>1. lastAssistantMessage' = None /\ UNCHANGED answers
  BY DEF ProcessEnd
<1>2. UNCHANGED <<messages, removed>> \/ CheckCompaction(Handler, m, messages, entries, removed)
  BY DEF ProcessEnd
<1>3. m \in Message \cup {None} /\ m \notin Later /\ messages \in Seq(Message) /\ ~Has(messages, Later)
      /\ removed \subseteq 0..answers
  BY Kinds DEF SessionTyped, Dated
<1> HIDE DEF m
<1>4. ~Has(messages', Later) /\ removed' \subseteq 0..answers
  BY <1>2, <1>3, CheckDated
<1> QED BY <1>1, <1>4, NoneNotLater, DatedSame

LEMMA AbortDated ==
  ASSUME SessionTyped, MirrorInv, OneWait, Dated, AbortEffects
  PROVE  Dated' /\ UNCHANGED <<messages, removed>>
<1>1. UNCHANGED <<lastAssistantMessage, answers>>
  BY DEF AbortEffects
<1>2. UNCHANGED <<messages, removed>>
  <2>1. CASE backoff = None
    BY <2>1 DEF AbortEffects
  <2>2. CASE backoff # None
    <3>1. CheckCompaction(Handler, backoff, messages, entries, removed) /\ backoff.stop = "retryable"
      BY <2>2 DEF AbortEffects, OneWait
    <3>2. "overflow" \notin CompactionReasons(Handler, backoff, messages)
      BY <3>1, ReasonsAre
    <3> QED BY <3>1, <3>2, CheckTakes
  <2> QED BY <2>1, <2>2
<1> QED BY <1>1, <1>2, DatedSame DEF Dated

LEMMA CompactionDated ==
  ASSUME SessionTyped, MirrorInv, Known, Known', SessionTyped', Dated, NEW o \in Owners, CompactionEnds(o)
  PROVE  Dated'
<1> DEFINE context == Context(entries')
<1>1. /\ UNCHANGED <<lastAssistantMessage, answers>>
      /\ \/ messages' = context /\ removed' = {}
         \/ IsError(Last(context)) /\ messages' = Front(context) /\ removed' = {Last(context).id}
      /\ entries' = Append(entries, CompactionEntry(jobs[o].keep, answers + IF run = "turn" THEN 1 ELSE 0))
      /\ jobs[o] # None
  BY DEF CompactionEnds
<1>2. entries' \in Seq(Entry) /\ ~Has(entries', Later)
  BY <1>1, LaterStays DEF SessionTyped, Known
<1>3. context \in Seq(Message) /\ ToSet(context) \subseteq ToSet(entries') \cup {Summary}
  BY <1>2, ContextIs
<1>4. context # <<>>
  <2>1. jobs[o].keep \in Nat \ {0} /\ entries \in Seq(Entry)
    BY <1>1 DEF SessionTyped, Job
  <2> DEFINE c == CompactionEntry(jobs[o].keep, answers + IF run = "turn" THEN 1 ELSE 0)
  <2>2. c \in CompactionEntries
    BY <2>1, QueueTyped DEF CompactionEntry, CompactionEntries
  <2>3. entries' = Append(entries, c)
    BY <1>1
  <2> HIDE DEF c
  <2> QED BY <2>1, <2>2, <2>3, ContextAfter
<1> HIDE DEF context
<1>5. ~Has(context, Later)
  <2>1. \A x \in ToSet(entries') : x \notin Later
    BY <1>2, HasIn
  <2>2. Summary \notin Later
    BY Kinds DEF Later, Answer, Summary
  <2> QED BY <1>3, <2>1, <2>2, HasIn
<1>6. Last(context) \in Message /\ Last(context) \notin Later
  <2>1. Len(context) \in 1..Len(context) /\ Last(context) = context[Len(context)]
    BY <1>3, <1>4, ElementsOf DEF Last
  <2> QED BY <1>3, <1>5, <2>1, ElementsOf DEF Has
<1>7. IsError(Last(context)) => Last(context).id \in 0..answers
  BY <1>6, Kinds, NotLater DEF IsError
<1>8. ~Has(messages', Later)
  BY <1>1, <1>3, <1>5, HasFront
<1>9. removed' \subseteq 0..answers
  BY <1>1, <1>7
<1> QED BY <1>1, <1>8, <1>9, DatedSame DEF Dated

\* prompt() looks at the last answer, or failure, among the messages.
LEMMA PromptChecks ==
  ASSUME SessionTyped, NEW t \in Texts, Prompt(t)
  PROVE  LET ms == messages \o pendingBashMessages
             es == entries \o pendingBashMessages
         IN /\ entries' = es /\ pendingBashMessages' = <<>> /\ run = "none" /\ UNCHANGED run
            /\ outOfStep' = (outOfStep \/ (pendingBashMessages # <<>> /\ agentEventQueue # <<>>))
            /\ UNCHANGED <<agentEventQueue, lastAssistantMessage, answers, missed>>
            /\ ms \in Seq(Message)
            /\ \E m \in ToSet(ms) \cup {None} :
                 /\ CheckCompaction(t, m, ms, es, removed)
                 /\ ms # <<>> /\ IsAssistant(Last(ms)) => Last(ms) = m
<1> DEFINE ms == messages \o pendingBashMessages
           es == entries \o pendingBashMessages
           lasts == {i \in DOMAIN ms : IsAssistant(ms[i])}
           m == IF lasts = {} THEN None ELSE ms[Max(lasts)]
<1>1. /\ entries' = es /\ pendingBashMessages' = <<>> /\ run = "none" /\ UNCHANGED run
      /\ outOfStep' = (outOfStep \/ (pendingBashMessages # <<>> /\ agentEventQueue # <<>>))
      /\ UNCHANGED <<agentEventQueue, lastAssistantMessage, answers, missed>>
      /\ CheckCompaction(t, m, ms, es, removed)
  BY DEF Prompt
<1>2. ms \in Seq(Message)
  BY ConcatProperties DEF SessionTyped
<1> HIDE DEF ms
<1>3. /\ Len(ms) \in Nat /\ lasts \subseteq 1..Len(ms) /\ ToSet(ms) = {ms[i] : i \in 1..Len(ms)}
      /\ DOMAIN ms = 1..Len(ms) /\ (ms # <<>> => Len(ms) >= 1)
  BY <1>2, ElementsOf
<1>4. ASSUME lasts # {} PROVE Max(lasts) \in lasts /\ \A x \in lasts : Max(lasts) >= x
  BY <1>3, <1>4, GreatestExists
<1>5. m \in ToSet(ms) \cup {None}
  BY <1>3, <1>4
<1>6. ASSUME ms # <<>>, IsAssistant(Last(ms)) PROVE Last(ms) = m
  <2> DEFINE n == Len(ms)
  <2>1. n \in 1..n /\ n \in lasts /\ Last(ms) = ms[n]
    BY <1>3, <1>6 DEF Last
  <2>2. Max(lasts) \in 1..n /\ Max(lasts) >= n
    BY <1>3, <1>4, <2>1
  <2> HIDE DEF n
  <2>3. Max(lasts) = n
    BY <1>3, <2>2 DEF n
  <2> QED BY <2>1, <2>3
<1> HIDE DEF m, es
<1> QED BY <1>1, <1>2, <1>5, <1>6 DEF ms, es

LEMMA PromptDated ==
  ASSUME SessionTyped, MirrorInv, Known, Dated, NEW t \in Texts, Prompt(t) PROVE Dated'
<1> DEFINE b == pendingBashMessages
           ms == messages \o b
           es == entries \o b
<1>1. /\ UNCHANGED <<lastAssistantMessage, answers>> /\ ms \in Seq(Message)
      /\ \E m \in ToSet(ms) \cup {None} : CheckCompaction(t, m, ms, es, removed)
  BY PromptChecks
<1>2. b \in Seq(Message) /\ ~Has(b, Later) /\ messages \in Seq(Message) /\ ~Has(messages, Later)
  <2>1. ~Has(b, Later)
    BY Apart DEF Known, Has
  <2> QED BY <2>1 DEF SessionTyped, Dated
<1>3. ~Has(ms, Later)
  BY <1>2, HasBoth
<1>4. PICK m \in ToSet(ms) \cup {None} : CheckCompaction(t, m, ms, es, removed)
  BY <1>1
<1> HIDE DEF ms, es
<1>5. m \in Message \cup {None} /\ m \notin Later
  BY <1>1, <1>3, ElementsOf, HasIn, NoneNotLater
<1>6. ~Has(messages', Later) /\ removed' \subseteq 0..answers
  BY <1>1, <1>3, <1>4, <1>5, CheckDated
<1> QED BY <1>1, <1>6, DatedSame DEF Dated

\* What bash leaves is kept back while a run is under way.
LEMMA BashSays ==
  ASSUME SessionTyped, RecordBash
  PROVE  /\ UNCHANGED <<run, agentEventQueue, lastAssistantMessage, removed, answers, missed>>
         /\ \/ run # "none" /\ UNCHANGED <<messages, entries, outOfStep>>
            \/ /\ run = "none" /\ outOfStep' = (outOfStep \/ agentEventQueue # <<>>)
               /\ \E b \in Seq(Speech) : messages' = messages \o b /\ entries' = entries \o b
<1> DEFINE x == Bash(calls + 1)
           b == <<x>>
<1>1. /\ UNCHANGED <<run, agentEventQueue, lastAssistantMessage, removed, answers, missed>>
      /\ \/ run # "none" /\ UNCHANGED <<messages, entries, outOfStep>>
         \/ /\ run = "none" /\ messages' = messages \o b /\ entries' = entries \o b
            /\ outOfStep' = (outOfStep \/ agentEventQueue # <<>>)
  BY DEF RecordBash
<1>2. x \in Speech
  BY SpeechIs DEF SessionTyped
<1> HIDE DEF x
<1>3. b \in Seq(Speech)
  BY <1>2, OneElement
<1> HIDE DEF b
<1> QED BY <1>1, <1>3

LEMMA BashDated ==
  ASSUME SessionTyped, Dated, RecordBash PROVE Dated'
<1>1. /\ UNCHANGED <<lastAssistantMessage, removed, answers>>
      /\ UNCHANGED messages \/ \E b \in Seq(Speech) : messages' = messages \o b
  BY BashSays
<1>2. ~Has(messages', Later)
  <2>1. CASE UNCHANGED messages
    BY <2>1 DEF Dated
  <2>2. ASSUME NEW b \in Seq(Speech), messages' = messages \o b PROVE ~Has(messages', Later)
    <3>1. b \in Seq(Message) /\ ~Has(b, Answer) /\ messages \in Seq(Message)
      BY SpeechSays DEF SessionTyped
    <3>2. ~Has(b, Later)
      BY <3>1, Apart DEF Has
    <3> QED BY <2>2, <3>1, <3>2, HasBoth DEF Dated
  <2> QED BY <1>1, <2>1, <2>2
<1> QED BY <1>1, <1>2, DatedSame DEF Dated

LEMMA DatedStep ==
  ASSUME SessionTyped, SessionTyped', MirrorInv, OneWait, Known, Known', Dated, [Next]_vars PROVE Dated'
<1>1. CASE UNCHANGED <<messages, lastAssistantMessage, removed, answers>>
  BY <1>1, DatedSame DEF Dated
<1>2. CASE TimerFires \/ (\E t \in Texts : SendPrompt(t)) \/ ToolsEnd
  <2>1. /\ UNCHANGED Elsewhere
        /\ (\E b : Says(b)) \/ UNCHANGED messages
    BY <1>2, TimerSays, SendPromptSays, ToolsEndSays DEF agentVars
  <2> QED BY <1>1, <2>1, SaysDated DEF Elsewhere
<1>3. CASE \E stop \in AllStops \cup {"aborted"} : Answers(stop)
  BY <1>3, AnswerConcludes, AnswerDated
<1>4. CASE \/ BackoffEnds \/ (\E o \in Owners : CompactionFails(o)) \/ CompactBegins
           \/ (\E t \in Texts : Steer(t) \/ FollowUp(t)) \/ ClearQueue \/ ListenerThrows \/ UNCHANGED vars
  <2>1. UNCHANGED <<messages, lastAssistantMessage, removed, answers>>
    BY <1>4 DEF BackoffEnds, CompactionFails, CompactBegins, Steer, FollowUp, ClearQueue, ListenerThrows,
                vars, agentVars, sessionVars, ghostVars
  <2> QED BY <1>1, <2>1
<1> QED BY <1>2, <1>3, <1>4, MessageDated, ThrowDated, RetryDated, EndDated, AbortDated, CompactionDated,
           PromptDated, BashDated
    DEF Next, SystemStep, UserStep, Abort, Compact

-----------------------------------------------------------------------------
(* The agent's messages stay those of a reload.                              *)

\* Errors the session has not dealt with: still to hear of, or to see the end of their run.
Unhandled(q, last) == {e \in Errors : e = last \/ Has(q, {e})}

\* Such an error ends the agent's messages, behind something that calls for an answer or
\* older than the last compaction; only the recovery from an overflow takes it out early.
Spoken(ms, horizon, errors) ==
  \A e \in errors :
    \/ ms # <<>> /\ Last(ms) = e /\ (e.id <= horizon \/ Open(Front(ms)))
    \/ e.stop = "overflow" /\ Open(ms)

\* A request is out for messages that call for an answer, or began before the compaction.
TurnOpen == run = "turn" => Open(messages) \/ answers + 1 <= Horizon(entries)

Faithful ==
  ~missed /\ ~outOfStep
    => /\ Agree(messages, Context(entries), agentEventQueue, removed)
       /\ Spoken(messages, Horizon(entries), Unhandled(agentEventQueue, lastAssistantMessage))
       /\ TurnOpen

\* The last answer heard of, or about to be.
Latest(q, last) ==
  {e \in Answer : /\ e = last \/ Has(q, {e})
                  /\ \A y \in Answer : Has(q, {y}) => y.id <= e.id}

\* One that says nothing of its overflow ends the messages, where it calls for no answer,
\* is older than the last compaction, or something has come behind it.
Voiced(ms, horizon, answered) ==
  \A e \in answered :
    e.stop = "silent"
      => \/ e.id <= horizon \/ Open(ms) \/ Last(ms) \in Failures
         \/ ms # <<>> /\ Last(ms) = e /\ Open(Front(ms))

Voices ==
  ~missed /\ ~outOfStep
    => Voiced(messages, Horizon(entries), Latest(agentEventQueue, lastAssistantMessage))

LEMMA NothingLatest == \A ms, h : Voiced(ms, h, Latest(<<>>, None))
BY NoneNotLater, HasNothing, Kinds DEF Voiced, Latest

LEMMA LatestAtEnd == ASSUME NEW m \in Answer PROVE m \in Latest(<<AgentEnd>>, m)
<1>1. \A y : Has(<<AgentEnd>>, {y}) <=> AgentEnd \in {y}
  BY HasOne
<1>2. AgentEnd \notin Answer
  BY DEF AgentEnd, Answer
<1> QED BY <1>1, <1>2 DEF Latest

\* What is asked about for an overflow is no older than the last compaction.
LEMMA FreshIsYoung ==
  ASSUME NEW o, NEW m \in Answer, NEW ms, NEW reason \in CompactionReasons(o, m, ms), reason # "no"
  PROVE  ~(m.id <= Horizon(entries))
<1>1. ~Stale(m) /\ m.kind = "assistant" /\ m.id \in Nat
  BY Kinds DEF CompactionReasons
<1>2. CASE Compactions(entries) = {}
  <2>1. Horizon(entries) = -1
    BY <1>2 DEF Horizon
  <2> QED BY <1>1, <2>1
<1>3. CASE Compactions(entries) # {}
  <2>1. Horizon(entries) = entries[Max(Compactions(entries))].at
    BY <1>3 DEF Horizon
  <2> QED BY <1>1, <1>3, <2>1 DEF Stale
<1> QED BY <1>2, <1>3

LEMMA FaithfulNow ==
  ASSUME Faithful, ~missed, ~outOfStep, Bounded
  PROVE  /\ Agree(messages, Context(entries), agentEventQueue, removed)
         /\ Spoken(messages, Horizon(entries), Unhandled(agentEventQueue, lastAssistantMessage))
         /\ TurnOpen /\ InOrder
BY DEF Faithful, Bounded

LEMMA FaithfulNext ==
  ASSUME ~missed' /\ ~outOfStep'
           => /\ Agree(messages', Context(entries'), agentEventQueue', removed')
              /\ Spoken(messages', Horizon(entries'), Unhandled(agentEventQueue', lastAssistantMessage'))
              /\ (run' = "turn" => Open(messages') \/ answers' + 1 <= Horizon(entries'))
  PROVE  Faithful'
BY DEF Faithful, TurnOpen

LEMMA FaithfulSame ==
  ASSUME Faithful, UNCHANGED <<run, messages, entries, agentEventQueue, lastAssistantMessage, removed, answers,
                               missed, outOfStep>>
  PROVE  Faithful'
BY FaithfulNext DEF Faithful, TurnOpen

LEMMA NothingUnhandled ==
  ASSUME InOrder, agentEventQueue = <<>> \/ run # "none"
  PROVE  Unhandled(agentEventQueue, lastAssistantMessage) = {}
<1> SUFFICES ASSUME NEW e \in Errors, e = lastAssistantMessage \/ Has(agentEventQueue, {e}) PROVE FALSE
  BY DEF Unhandled
<1>1. CASE run # "none"
  <2>1. ~Has(agentEventQueue, Errors) /\ lastAssistantMessage \notin Errors
    BY <1>1 DEF InOrder, Plain
  <2> QED BY <2>1 DEF Has
<1>2. CASE agentEventQueue = <<>>
  <2>1. ~Has(agentEventQueue, {e}) /\ agentEventQueue # <<AgentEnd>>
    BY <1>2, HasNothing
  <2> QED BY <2>1 DEF InOrder
<1> QED BY <1>1, <1>2

LEMMA UnhandledJoins ==
  ASSUME NEW q \in Seq(Event), NEW c \in Seq(Event), NEW last
  PROVE  Unhandled(q \o c, last) = Unhandled(q, last) \cup {e \in Errors : Has(c, {e})}
<1>1. \A e : Has(q \o c, {e}) <=> Has(q, {e}) \/ Has(c, {e})
  BY HasBoth
<1> QED BY <1>1 DEF Unhandled

LEMMA NoErrors ==
  ASSUME NEW c, ~Has(c, Answer) PROVE {e \in Errors : Has(c, {e})} = {}
BY Apart DEF Has

LEMMA NothingSpoken == ASSUME NEW ms, NEW h PROVE Spoken(ms, h, {})
BY DEF Spoken

\* Everything told while no event fell into the gap of compact().
LEMMA ToldAll ==
  ASSUME MirrorInv, NEW events \in Seq(Event), Emit(events), ~missed'
  PROVE  ~missed /\ agentEventQueue' = agentEventQueue \o events
<1>1. ~missed /\ (connected \/ events = <<>>)
  BY DEF Emit
<1>2. agentEventQueue' = IF connected THEN agentEventQueue \o events ELSE agentEventQueue
  BY DEF Emit
<1>3. events = <<>> => agentEventQueue \o events = agentEventQueue
  BY QueueTyped, ConcatEmptySeq
<1> QED BY <1>1, <1>2, <1>3

LEMMA ContextTyped == ASSUME SessionTyped PROVE Context(entries) \in Seq(Message) /\ messages \in Seq(Message)
BY ContextIs DEF SessionTyped

LEMMA SaysFaithful ==
  ASSUME SessionTyped, MirrorInv, Bounded, Faithful, NEW b, Says(b), UNCHANGED Elsewhere,
         \/ run = "tools" /\ UNCHANGED outOfStep
         \/ outOfStep' = (outOfStep \/ agentEventQueue # <<>>)
  PROVE  Faithful'
<1> SUFFICES ASSUME ~missed', ~outOfStep'
             PROVE  /\ Agree(messages', Context(entries'), agentEventQueue', removed')
                    /\ Spoken(messages', Horizon(entries'), Unhandled(agentEventQueue', lastAssistantMessage'))
                    /\ (run' = "turn" => Open(messages') \/ answers' + 1 <= Horizon(entries'))
  BY FaithfulNext
<1> DEFINE q == agentEventQueue
           c == Context(entries)
<1>1. /\ b \in Seq(Speech) /\ Emit(b) /\ messages' = messages \o b /\ Open(messages')
      /\ UNCHANGED <<entries, lastAssistantMessage, removed>>
  BY DEF Says, Elsewhere, Opens
<1>2. /\ b \in Seq(Message) /\ b \in Seq(Event) /\ ~Has(b, Failures) /\ ~Has(b, Answer)
      /\ ~Has(b, Hidden(removed)) /\ q \in Seq(Event)
  BY <1>1, SpeechSays, QueueTyped DEF SessionTyped
<1>3. ~missed /\ agentEventQueue' = q \o b
  BY <1>1, <1>2, ToldAll
<1>4. ~outOfStep /\ (q = <<>> \/ run # "none")
  <2>1. CASE run = "tools" /\ UNCHANGED outOfStep
    BY <2>1
  <2>2. CASE outOfStep' = (outOfStep \/ q # <<>>)
    BY <2>2
  <2> QED BY <2>1, <2>2
<1>5. Agree(messages, c, q, removed) /\ InOrder
  BY <1>3, <1>4, FaithfulNow
<1>6. Unhandled(q, lastAssistantMessage) = {}
  BY <1>4, <1>5, NothingUnhandled
<1>7. Unhandled(q \o b, lastAssistantMessage) = {}
  <2>1. {e \in Errors : Has(b, {e})} = {}
    BY <1>2, NoErrors
  <2> DEFINE last == lastAssistantMessage
  <2>2. Unhandled(q \o b, last) = Unhandled(q, last) \cup {e \in Errors : Has(b, {e})}
    BY <1>2, UnhandledJoins
  <2> QED BY <1>6, <2>1, <2>2
<1>8. Without(b, Failures) = b /\ Without(b, Hidden(removed)) = b
  BY <1>2, AllStays
<1>9. c \in Seq(Message) /\ messages \in Seq(Message)
  BY ContextTyped
<1> HIDE DEF q, c
<1>10. Agree(messages \o b, c, q \o b, removed)
  BY <1>2, <1>5, <1>8, <1>9, MoreSaid
<1>11. Agree(messages', Context(entries'), agentEventQueue', removed')
  BY <1>1, <1>3, <1>10 DEF c
<1>12. Unhandled(agentEventQueue', lastAssistantMessage') = {}
  BY <1>1, <1>3, <1>7
<1> QED BY <1>1, <1>11, <1>12, NothingSpoken

LEMMA ThrowFaithful ==
  ASSUME SessionTyped, MirrorInv, Bounded, Faithful, NEW retryable \in BOOLEAN, StreamThrows(retryable)
  PROVE  Faithful'
<1> SUFFICES ASSUME ~missed', ~outOfStep'
             PROVE  /\ Agree(messages', Context(entries'), agentEventQueue', removed')
                    /\ Spoken(messages', Horizon(entries'), Unhandled(agentEventQueue', lastAssistantMessage'))
                    /\ (run' = "turn" => Open(messages') \/ answers' + 1 <= Horizon(entries'))
  BY FaithfulNext
<1> DEFINE f == Failure(throws')
           b == <<f>>
           none == <<>>
           end == <<AgentEnd>>
           events == none \o end
           q == agentEventQueue
           c == Context(entries)
           H == Hidden(removed)
<1>1. /\ Emit(events) /\ messages' = Append(messages, f) /\ run = "turn" /\ run' = "none"
      /\ UNCHANGED <<entries, lastAssistantMessage, removed, outOfStep>>
  BY DEF StreamThrows, EndRun
<1>2. f \in Failures /\ f \in Message
  <2>1. throws' \in Nat
    BY DEF StreamThrows, SessionTyped
  <2>2. f \in Failures
    BY <2>1 DEF Failure, Failures
  <2> QED BY <2>2, FailuresApart
<1>3. end \in Seq(Event) /\ none \in Seq(Event) /\ ~Has(end, Answer) /\ q \in Seq(Event) /\ AgentEnd \in H
  BY Apart, OneElement, HasOne, EmptySeq, QueueTyped DEF Ends, Hidden
<1>4. c \in Seq(Message) /\ messages \in Seq(Message)
  BY ContextTyped
<1>5. Without(none, H) = none /\ Without(none, Failures) = none /\ end = Append(none, AgentEnd) /\ b = Append(none, f)
      /\ none \in Seq(Message)
  BY WithoutEmpty, EmptySeq
<1> HIDE DEF f, end, H, q, c
<1>6. events = end
  BY <1>3, ConcatEmptySeq
<1>7. b \in Seq(Message) /\ messages' = messages \o b
  BY <1>1, <1>2, <1>4, AppendIsConcat, OneElement
<1> HIDE DEF b, none
<1>8. Without(end, H) = none
  <2>1. AgentEnd \in Event
    BY Apart
  <2> QED BY <1>3, <1>5, <2>1, WithoutAppend
<1>9. Without(b, Failures) = none
  BY <1>2, <1>5, WithoutAppend
<1>10. ~missed /\ agentEventQueue' = q \o end
  BY <1>1, <1>3, <1>6, ToldAll DEF q
<1>11. Agree(messages, c, q, removed) /\ InOrder
  BY <1>1, <1>10, FaithfulNow DEF c, q
<1>12. Unhandled(q, lastAssistantMessage) = {}
  BY <1>1, <1>11, NothingUnhandled DEF q
<1>13. Unhandled(q \o end, lastAssistantMessage) = {}
  <2>1. {e \in Errors : Has(end, {e})} = {}
    BY <1>3, NoErrors
  <2> DEFINE last == lastAssistantMessage
  <2>2. Unhandled(q \o end, last) = Unhandled(q, last) \cup {e \in Errors : Has(end, {e})}
    BY <1>3, UnhandledJoins
  <2> QED BY <1>12, <2>1, <2>2
<1>14. Agree(messages \o b, c, q \o end, removed)
  BY <1>3, <1>4, <1>7, <1>8, <1>9, <1>11, MoreSaid DEF H
<1>15. Agree(messages', Context(entries'), agentEventQueue', removed')
  BY <1>1, <1>7, <1>10, <1>14 DEF c
<1>16. Unhandled(agentEventQueue', lastAssistantMessage') = {}
  BY <1>1, <1>10, <1>13
<1> QED BY <1>1, <1>15, <1>16, NothingSpoken

\* An answer that is none of the errors taken out, and no end, is not hidden.
LEMMA NewAnswerShows ==
  ASSUME MirrorInv, Dated, NEW m \in Answer, m.id = answers + 1
  PROVE  m \notin Hidden(removed) /\ m \notin Failures /\ <<m>> \in Seq(Event) /\ <<m>> \in Seq(Message)
         /\ Without(<<m>>, Hidden(removed)) = <<m>> /\ Without(<<m>>, Failures) = <<m>>
<1> DEFINE H == Hidden(removed)
           one == <<m>>
<1>1. m \in Event /\ m \in Message /\ m \notin Failures
  BY Kinds, Apart, FailuresApart
<1>2. m \notin H
  <2>1. m.id \notin 0..answers
    BY QueueTyped
  <2>2. m.id \notin removed
    BY <2>1 DEF Dated
  <2>3. m \notin Errs(removed) /\ m \notin Ends
    BY <2>2, Apart DEF Errs
  <2> QED BY <2>3 DEF Hidden
<1> HIDE DEF H
<1>3. one \in Seq(Event) /\ one \in Seq(Message) /\ ~Has(one, H) /\ ~Has(one, Failures)
  BY <1>1, <1>2, OneElement, HasOne
<1> HIDE DEF one
<1>4. Without(one, H) = one /\ Without(one, Failures) = one
  BY <1>3, AllStays
<1> QED BY <1>1, <1>2, <1>3, <1>4 DEF one, H

LEMMA FrontOfAppend ==
  ASSUME NEW S, NEW s \in Seq(S), NEW e \in S
  PROVE  Append(s, e) # <<>> /\ Last(Append(s, e)) = e /\ Front(Append(s, e)) = s
<1> DEFINE r == Append(s, e)
           f == Front(r)
<1>1. r \in Seq(S) /\ r # <<>> /\ Len(r) = Len(s) + 1 /\ r[Len(s) + 1] = e /\ Len(s) \in Nat
      /\ \A i \in 1..Len(s) : r[i] = s[i]
  BY AppendProperties, LenProperties
<1>2. Last(r) = e
  BY <1>1 DEF Last
<1> HIDE DEF r
<1>3. f \in Seq(S) /\ r = Append(f, Last(r))
  BY <1>1, FrontAndLast
<1> HIDE DEF f
<1>4. Len(r) = Len(f) + 1 /\ Len(f) \in Nat /\ \A i \in 1..Len(f) : r[i] = f[i]
  BY <1>2, <1>3, AppendProperties, LenProperties
<1>5. Len(f) = Len(s) /\ \A i \in 1..Len(f) : f[i] = s[i]
  BY <1>1, <1>4
<1>6. f = s
  BY <1>3, <1>5, SeqEqual
<1> QED BY <1>1, <1>2, <1>6 DEF f, r

LEMMA AnswerFaithful ==
  ASSUME SessionTyped, MirrorInv, Bounded, Dated, Faithful, NEW m, NEW b, Concludes(m, b),
         run = "turn", UNCHANGED <<entries, lastAssistantMessage, removed, outOfStep>>
  PROVE  Faithful'
<1> SUFFICES ASSUME ~missed', ~outOfStep'
             PROVE  /\ Agree(messages', Context(entries'), agentEventQueue', removed')
                    /\ Spoken(messages', Horizon(entries'), Unhandled(agentEventQueue', lastAssistantMessage'))
                    /\ (run' = "turn" => Open(messages') \/ answers' + 1 <= Horizon(entries'))
  BY FaithfulNext
<1> DEFINE q == agentEventQueue
           c == Context(entries)
           H == Hidden(removed)
           one == <<m>>
           end == <<AgentEnd>>
           last == lastAssistantMessage
           h == Horizon(entries)
<1>1. /\ m \in Answer /\ m.id = answers + 1 /\ b \in Seq(Users) /\ messages' = messages \o (one \o b)
      /\ \/ Emit(one \o b) /\ run' # "none" /\ (run' = "turn" => b # <<>>) /\ m \notin Errors
         \/ Emit(one \o end) /\ run' = "none" /\ b = <<>>
  BY DEF Concludes
<1>2. /\ one \in Seq(Event) /\ one \in Seq(Message)
      /\ Without(one, H) = one /\ Without(one, Failures) = one
  BY <1>1, NewAnswerShows
<1>3. b \in Seq(Speech)
  BY <1>1, SpeechIs, SeqMonotonic
<1>4. b \in Seq(Event) /\ b \in Seq(Message) /\ ~Has(b, Failures) /\ ~Has(b, H) /\ ~Has(b, Answer)
  BY <1>3, SpeechSays DEF SessionTyped
<1>5. Without(b, Failures) = b /\ Without(b, H) = b
  BY <1>4, AllStays
<1>6. end \in Seq(Event) /\ ~Has(end, Answer)
  BY Apart, OneElement, HasOne DEF Ends
<1>7. c \in Seq(Message) /\ messages \in Seq(Message) /\ q \in Seq(Event)
  BY ContextTyped, QueueTyped
<1>8. (\A e : Has(one, {e}) <=> e = m) /\ Last(one) = m
  <2>1. \A e : Has(one, {e}) <=> m \in {e}
    BY HasOne
  <2>2. Last(one) = m
    BY DEF Last
  <2> QED BY <2>1, <2>2
<1>9. Without(end, H) = <<>>
  <2> DEFINE none == <<>>
  <2>1. none \in Seq(Event) /\ end = Append(none, AgentEnd) /\ Without(none, H) = none
        /\ AgentEnd \in Event /\ AgentEnd \in H
    BY EmptySeq, WithoutEmpty, Apart DEF Hidden
  <2> HIDE DEF none, end, H
  <2>2. Without(Append(none, AgentEnd), H) = none
    BY <2>1, WithoutAppend
  <2> QED BY <2>1, <2>2 DEF none
<1>10. Append(messages, m) = messages \o one
  BY <1>1, <1>7, Kinds, AppendIsConcat
<1> HIDE DEF one, end, H, q, c, last, h
<1>11. Without(one \o b, Failures) = one \o b /\ Without(one \o b, H) = one \o b
  <2>1. \A T : Without(one \o b, T) = Without(one, T) \o Without(b, T)
    BY <1>2, <1>4, WithoutJoin
  <2> QED BY <1>2, <1>5, <2>1
<1>12. CASE Emit(one \o b) /\ run' # "none" /\ (run' = "turn" => b # <<>>) /\ m \notin Errors
  <2> DEFINE events == one \o b
  <2>1. events \in Seq(Event) /\ events \in Seq(Message)
    BY <1>2, <1>4, ConcatProperties
  <2>2. \A e : Has(events, {e}) <=> e = m \/ Has(b, {e})
    BY <1>2, <1>4, <1>8, HasBoth
  <2>3. {e \in Errors : Has(events, {e})} = {}
    <3>1. {e \in Errors : Has(b, {e})} = {}
      BY <1>4, NoErrors
    <3> QED BY <1>12, <2>2, <3>1
  <2>4. b # <<>> => Open(messages \o events)
    <3>1. SUFFICES ASSUME b # <<>> PROVE Open(messages \o events)
      OBVIOUS
    <3>2. Last(one \o b) = Last(b) /\ one \o b # <<>>
      BY <1>2, <1>4, <3>1, LastOf, ConcatEqualIffEmpty
    <3>3. Last(messages \o events) = Last(events)
      BY <1>7, <2>1, <3>2, LastOf
    <3>4. Last(b) \in Speech
      BY <1>3, <3>1, FrontAndLast
    <3> QED BY <3>2, <3>3, <3>4, SpeechIs DEF Open
  <2>5. messages' = messages \o events /\ Emit(events) /\ Without(events, Failures) = Without(events, H)
    BY <1>1, <1>11, <1>12
  <2> HIDE DEF events
  <2>6. ~missed /\ agentEventQueue' = q \o events
    BY <2>1, <2>5, ToldAll DEF q
  <2>7. Agree(messages, c, q, removed) /\ InOrder
    BY <2>6, FaithfulNow DEF c, q
  <2>8. Unhandled(q, last) = {}
    BY <2>7, NothingUnhandled DEF q, last
  <2>9. Unhandled(q \o events, last) = {}
    <3>1. Unhandled(q \o events, last) = Unhandled(q, last) \cup {e \in Errors : Has(events, {e})}
      BY <1>7, <2>1, UnhandledJoins
    <3> QED BY <2>3, <2>8, <3>1
  <2>10. Agree(messages \o events, c, q \o events, removed)
    BY <1>7, <2>1, <2>5, <2>7, MoreSaid DEF H
  <2>11. Agree(messages', Context(entries'), agentEventQueue', removed')
    BY <2>5, <2>6, <2>10 DEF c
  <2>12. Unhandled(agentEventQueue', lastAssistantMessage') = {}
    BY <2>6, <2>9 DEF last
  <2>13. run' = "turn" => Open(messages')
    BY <1>12, <2>4, <2>5
  <2> QED BY <2>11, <2>12, <2>13, NothingSpoken
<1>13. CASE Emit(one \o end) /\ run' = "none" /\ b = <<>>
  <2> DEFINE events == one \o end
  <2>1. events \in Seq(Event)
    BY <1>2, <1>6, ConcatProperties
  <2>2. \A e : Has(events, {e}) <=> e = m \/ Has(end, {e})
    BY <1>2, <1>6, <1>8, HasBoth
  <2>3. {e \in Errors : Has(events, {e})} \subseteq {m}
    <3>1. {e \in Errors : Has(end, {e})} = {}
      BY <1>6, NoErrors
    <3> QED BY <2>2, <3>1
  <2>4. messages' = messages \o one
    <3>1. one \o b = one
      BY <1>2, <1>13, ConcatEmptySeq
    <3> QED BY <1>1, <3>1
  <2>5. Without(events, H) = one
    <3>1. Without(one \o end, H) = Without(one, H) \o Without(end, H)
      BY <1>2, <1>6, WithoutJoin
    <3>2. one \o <<>> = one
      BY <1>2, ConcatEmptySeq
    <3> QED BY <1>2, <1>9, <3>1, <3>2
  <2>6. Emit(events)
    BY <1>13
  <2> HIDE DEF events
  <2>7. ~missed /\ agentEventQueue' = q \o events
    BY <2>1, <2>6, ToldAll DEF q
  <2>8. Agree(messages, c, q, removed) /\ InOrder /\ TurnOpen
    BY <2>7, FaithfulNow DEF c, q
  <2>9. Unhandled(q, last) = {}
    BY <2>8, NothingUnhandled DEF q, last
  <2>10. Unhandled(q \o events, last) \subseteq {m}
    <3>1. Unhandled(q \o events, last) = Unhandled(q, last) \cup {e \in Errors : Has(events, {e})}
      BY <1>7, <2>1, UnhandledJoins
    <3> QED BY <2>3, <2>9, <3>1
  <2>11. Agree(messages \o one, c, q \o events, removed)
    <3>1. Without(one, Failures) = Without(events, H)
      BY <1>2, <2>5
    <3> QED BY <1>2, <1>7, <2>1, <2>8, <3>1, MoreSaid DEF H
  <2>12. Agree(messages', Context(entries'), agentEventQueue', removed')
    BY <2>4, <2>7, <2>11 DEF c
  <2>13. Unhandled(agentEventQueue', lastAssistantMessage') \subseteq {m} /\ Horizon(entries') = h
    BY <2>7, <2>10 DEF last, h
  <2>14. messages' # <<>> /\ Last(messages') = m /\ Front(messages') = messages
    <3>1. messages' = Append(messages, m)
      BY <1>10, <2>4
    <3> QED BY <1>1, <1>7, <3>1, Kinds, FrontOfAppend
  <2>15. m.id <= h \/ Open(messages)
    BY <1>1, <2>8 DEF TurnOpen, h
  <2>16. Spoken(messages', Horizon(entries'), Unhandled(agentEventQueue', lastAssistantMessage'))
    BY <2>13, <2>14, <2>15 DEF Spoken
  <2> QED BY <1>13, <2>12, <2>16
<1> QED BY <1>1, <1>12, <1>13

LEMMA MessageFaithful ==
  ASSUME SessionTyped, MirrorInv, Bounded, Faithful, ProcessMessage PROVE Faithful'
<1> SUFFICES ASSUME ~missed', ~outOfStep'
             PROVE  /\ Agree(messages', Context(entries'), agentEventQueue', removed')
                    /\ Spoken(messages', Horizon(entries'), Unhandled(agentEventQueue', lastAssistantMessage'))
                    /\ (run' = "turn" => Open(messages') \/ answers' + 1 <= Horizon(entries'))
  BY FaithfulNext
<1> DEFINE q == agentEventQueue
           e == Head(q)
           b == <<e>>
           c == Context(entries)
           last == lastAssistantMessage
           h == Horizon(entries)
<1>1. /\ q # <<>> /\ e # AgentEnd /\ agentEventQueue' = Tail(q) /\ entries' = Append(entries, e)
      /\ lastAssistantMessage' \in {e, last} /\ (lastAssistantMessage' = e => e.kind = "assistant" \/ e = last)
      /\ UNCHANGED <<messages, run, removed, answers, missed, outOfStep>>
  BY DEF ProcessMessage, agentVars, ghostVars
<1>2. /\ Agree(messages, c, q, removed) /\ Spoken(messages, h, Unhandled(q, last)) /\ TurnOpen
  BY <1>1, FaithfulNow
<1>3. q \in Seq(Event) /\ c \in Seq(Message) /\ entries \in Seq(Entry)
  BY QueueTyped, ContextTyped DEF SessionTyped
<1>4. e \in Message
  <2>1. e \in Event
    BY <1>1, <1>3, HeardLess
  <2> QED BY <1>1, <2>1 DEF Event
<1>5. \A K : Has(q, K) <=> e \in K \/ Has(Tail(q), K)
  BY <1>1, <1>3, HasFirst
<1>6. Agree(messages, Append(c, e), Tail(q), removed)
  BY <1>1, <1>2, <1>3, <1>4, Recorded
<1> HIDE DEF e
<1>7. b \in Seq(Message) /\ entries' = entries \o b /\ Append(c, e) = c \o b
  <2>1. e \in Entry
    BY <1>4 DEF Entry
  <2> QED BY <1>1, <1>3, <1>4, <2>1, OneElement, AppendIsConcat
<1> HIDE DEF b, q, last
<1>8. Context(entries') = Append(c, e) /\ Horizon(entries') = h
  BY <1>3, <1>7, ContextJoins, HorizonStays
<1> HIDE DEF c, h
<1>9. Unhandled(agentEventQueue', lastAssistantMessage') \subseteq Unhandled(q, last)
  BY <1>1, <1>5 DEF Unhandled
<1>10. Spoken(messages', Horizon(entries'), Unhandled(agentEventQueue', lastAssistantMessage'))
  BY <1>1, <1>2, <1>8, <1>9 DEF Spoken
<1>11. run' = "turn" => Open(messages') \/ answers' + 1 <= Horizon(entries')
  BY <1>1, <1>2, <1>8 DEF TurnOpen, h
<1>12. Agree(messages', Context(entries'), agentEventQueue', removed')
  BY <1>1, <1>6, <1>8
<1> QED BY <1>10, <1>11, <1>12

\* What an overflow takes out is the answer itself, the end of the messages, or a failure
\* that has come behind it.
LEMMA CheckAgrees ==
  ASSUME SessionTyped, NEW o, NEW es \in Seq(Entry), Horizon(es) = Horizon(entries),
         NEW ms \in Seq(Message), NEW q \in Seq(Event), NEW m \in Message \cup {None},
         NEW errors, errors \subseteq Errors,
         CheckCompaction(o, m, ms, es, removed), Agree(ms, Context(es), q, removed),
         Ascending(es), Ascending(q), Before(ToSet(es), ToSet(q)),
         m \in Removables /\ ~(m.id <= Horizon(entries)) /\ ms # <<>> /\ IsAssistant(Last(ms))
           => Last(ms) = m \/ Last(ms) \in Failures,
         Spoken(ms, Horizon(entries), errors)
  PROVE  Agree(messages', Context(es), q, removed') /\ Spoken(messages', Horizon(entries), errors)
<1> DEFINE c == Context(es)
           h == Horizon(entries)
<1>1. CASE messages' = ms /\ removed' = removed
  BY <1>1
<1>2. CASE /\ "overflow" \in CompactionReasons(o, m, ms)
           /\ messages' = WithoutLastAnswer(ms)
           /\ removed' = IF ms # <<>> /\ Last(ms) = m THEN removed \cup {m.id} ELSE removed
  <2>1. m \in Answer /\ m.stop \in {"overflow", "silent"}
    <3>1. m # None /\ m.kind = "assistant" /\ m.stop \in {"overflow", "silent"}
      BY <1>2, ReasonsAre
    <3> QED BY <3>1, Kinds
  <2>2. m \in Removables /\ m.kind = "assistant" /\ m.id \in Nat /\ IsAssistant(m)
    BY <2>1, Kinds DEF Removables, RemovedStops, ErrorStops, IsAssistant
  <2>3. ~(m.id <= h)
    BY <1>2, <2>1, FreshIsYoung
  <2>4. ASSUME ms # <<>>, IsAssistant(Last(ms)), Last(ms) = m
        PROVE  Agree(messages', c, q, removed') /\ Spoken(messages', h, errors)
    <3>1. messages' = Front(ms) /\ removed' = removed \cup {Last(ms).id}
      BY <1>2, <2>4 DEF WithoutLastAnswer
    <3>2. c \in Seq(Message) /\ Ascending(c) /\ ToSet(c) \subseteq ToSet(es) \cup {Summary}
      BY ContextIs
    <3>3. Before(ToSet(c), ToSet(q))
      <4>1. Summary \notin Answer
        BY DEF Summary, Answer
      <4> QED BY <3>2, <4>1, BeforeLess
    <3> HIDE DEF c
    <3>4. Last(ms) \in Removables /\ Agree(ms, c, q, removed)
      BY <2>2, <2>4 DEF c
    <3>5. Agree(Front(ms), c, q, removed \cup {Last(ms).id})
      BY <2>4, <3>2, <3>3, <3>4, TakenOut
    <3>6. Agree(messages', c, q, removed')
      BY <3>1, <3>5
    <3>7. \A e \in errors : e.stop = "overflow" /\ Open(messages')
      <4>1. ~Open(ms)
        BY <2>4 DEF Open
      <4>2. \A e \in errors : e = m /\ (m.id <= h \/ Open(Front(ms)))
        BY <2>4, <4>1 DEF Spoken
      <4>3. \A e \in errors : e.stop # "silent"
        BY DEF Errors, ErrorStops
      <4> QED BY <2>1, <2>3, <3>1, <4>2, <4>3
    <3> QED BY <3>6, <3>7 DEF Spoken
  <2>5. ASSUME ms # <<>>, Last(ms) \in Failures, Last(ms) # m
        PROVE  Agree(messages', c, q, removed') /\ Spoken(messages', h, errors)
    <3>1. Last(ms) \in Message /\ Front(ms) \in Seq(Message) /\ ms = Append(Front(ms), Last(ms))
      BY <2>5, FrontAndLast
    <3>2. IsAssistant(Last(ms))
      BY <2>5, <3>1, SpeechIs
    <3>3. messages' = Front(ms) /\ removed' = removed
      BY <1>2, <2>5, <3>2 DEF WithoutLastAnswer
    <3>4. Without(ms, Failures) = Without(Front(ms), Failures)
      <4> DEFINE f == Front(ms)
                 e == Last(ms)
      <4>1. f \in Seq(Message) /\ e \in Message /\ e \in Failures /\ ms = Append(f, e)
        BY <2>5, <3>1
      <4> HIDE DEF f, e
      <4>2. Without(Append(f, e), Failures) = Without(f, Failures)
        BY <4>1, WithoutAppend
      <4> QED BY <4>1, <4>2 DEF f
    <3>5. errors = {}
      <4>1. ~Open(ms)
        BY <2>5, <3>2 DEF Open
      <4>2. \A e \in errors : Last(ms) = e
        BY <4>1 DEF Spoken
      <4>3. Errors \cap Failures = {}
        BY FailuresApart, Apart
      <4> QED BY <2>5, <4>2, <4>3
    <3> QED BY <3>3, <3>4, <3>5, NothingSpoken DEF Agree
  <2>6. CASE ~(ms # <<>> /\ IsAssistant(Last(ms)))
    <3>1. messages' = ms
      BY <1>2, <2>6 DEF WithoutLastAnswer
    <3>2. removed' = removed
      BY <1>2, <2>2, <2>6
    <3> QED BY <3>1, <3>2
  <2> QED BY <2>2, <2>3, <2>4, <2>5, <2>6
<1> QED BY <1>1, <1>2, CheckTakes

\* agent_end is the last event, and the run is over.
LEMMA EndIsLast ==
  ASSUME MirrorInv, InOrder, agentEventQueue # <<>>, Head(agentEventQueue) = AgentEnd
  PROVE  agentEventQueue = <<AgentEnd>> /\ Tail(agentEventQueue) = <<>> /\ run = "none"
<1> DEFINE q == agentEventQueue
<1>1. q \in Seq(Event) /\ q # <<>> /\ Ordered(q) /\ Head(q) = AgentEnd /\ AgentEnd \in Ends
  BY QueueTyped, Apart DEF InOrder
<1>2. Has(q, Ends)
  BY <1>1, HasFirst
<1>3. run = "none"
  BY <1>2 DEF InOrder, Plain
<1> HIDE DEF q
<1>4. Tail(q) = <<>>
  BY <1>1, OrderedTail
<1>5. q = <<Head(q)>> \o Tail(q) /\ <<AgentEnd>> \in Seq(Event)
  <2>1. q = <<Head(q)>> \o Tail(q)
    BY <1>1, HeadTailProperties, AppendIsConcat, SeqEqual
  <2> QED BY <2>1, Apart, OneElement
<1>6. q = <<AgentEnd>>
  BY <1>1, <1>4, <1>5, ConcatEmptySeq
<1> QED BY <1>3, <1>4, <1>6 DEF q

LEMMA NoneLeft == Unhandled(<<>>, None) = {}
BY NoneNotLater, HasNothing DEF Unhandled

LEMMA RetryFaithful ==
  ASSUME SessionTyped, MirrorInv, Bounded, Sorted, Faithful, ProcessRetry PROVE Faithful'
<1> SUFFICES ASSUME ~missed', ~outOfStep'
             PROVE  /\ Agree(messages', Context(entries'), agentEventQueue', removed')
                    /\ Spoken(messages', Horizon(entries'), Unhandled(agentEventQueue', lastAssistantMessage'))
                    /\ (run' = "turn" => Open(messages') \/ answers' + 1 <= Horizon(entries'))
  BY FaithfulNext
<1> DEFINE q == agentEventQueue
           c == Context(entries)
           m == lastAssistantMessage
<1>1. /\ q # <<>> /\ Head(q) = AgentEnd /\ agentEventQueue' = Tail(q)
      /\ m # None /\ m.stop = "retryable" /\ messages' = WithoutLastAnswer(messages)
      /\ removed' = removed \cup {m.id} /\ lastAssistantMessage' = None
      /\ UNCHANGED <<entries, run, missed, outOfStep>>
  BY DEF ProcessRetry, MayRetry
<1>2. /\ Agree(messages, c, q, removed) /\ Spoken(messages, Horizon(entries), Unhandled(q, m)) /\ InOrder
  BY <1>1, FaithfulNow
<1>3. q = <<AgentEnd>> /\ Tail(q) = <<>> /\ run = "none"
  BY <1>1, <1>2, EndIsLast
<1>4. m \in Errors /\ m \in Removables /\ IsAssistant(m) /\ m.stop # "overflow"
  <2>1. m \in Answer
    BY <1>1 DEF SessionTyped
  <2> QED BY <1>1, <2>1, Kinds DEF Errors, Removables, RemovedStops, ErrorStops, IsAssistant
<1>5. messages # <<>> /\ Last(messages) = m
  BY <1>2, <1>4 DEF Spoken, Unhandled
<1>6. messages' = Front(messages)
  BY <1>1, <1>4, <1>5 DEF WithoutLastAnswer
<1>7. /\ q \in Seq(Event) /\ messages \in Seq(Message) /\ entries \in Seq(Entry)
      /\ Ascending(entries) /\ Ascending(q) /\ Before(ToSet(entries), ToSet(q))
  BY QueueTyped DEF SessionTyped, Sorted
<1>8. c \in Seq(Message) /\ Ascending(c) /\ Before(ToSet(c), ToSet(q))
  <2>1. c \in Seq(Message) /\ Ascending(c) /\ ToSet(c) \subseteq ToSet(entries) \cup {Summary}
    BY <1>7, ContextIs
  <2>2. Summary \notin Answer
    BY DEF Summary, Answer
  <2> QED BY <1>7, <2>1, <2>2, BeforeLess
<1> HIDE DEF q, c, m
<1>9. Agree(Front(messages), c, q, removed \cup {Last(messages).id})
  BY <1>2, <1>4, <1>5, <1>7, <1>8, TakenOut
<1>10. Agree(messages', c, <<AgentEnd>>, removed')
  BY <1>1, <1>3, <1>5, <1>6, <1>9
<1>11. Agree(messages', c, <<>>, removed')
  BY <1>10, EndSaysNothing
<1>12. agentEventQueue' = <<>> /\ entries' = entries
  BY <1>1, <1>3
<1> QED BY <1>1, <1>3, <1>11, <1>12, NoneLeft, NothingSpoken DEF c

LEMMA EndFaithful ==
  ASSUME SessionTyped, MirrorInv, Bounded, Sorted, Faithful, Voices, ProcessEnd PROVE Faithful'
<1> SUFFICES ASSUME ~missed', ~outOfStep'
             PROVE  /\ Agree(messages', Context(entries'), agentEventQueue', removed')
                    /\ Spoken(messages', Horizon(entries'), Unhandled(agentEventQueue', lastAssistantMessage'))
                    /\ (run' = "turn" => Open(messages') \/ answers' + 1 <= Horizon(entries'))
  BY FaithfulNext
<1> DEFINE q == agentEventQueue
           es == entries
           m == lastAssistantMessage
           ms == messages
           errors == Unhandled(q, m)
<1>1. /\ q # <<>> /\ Head(q) = AgentEnd /\ agentEventQueue' = Tail(q) /\ lastAssistantMessage' = None
      /\ UNCHANGED <<entries, run, missed, outOfStep>>
      /\ UNCHANGED <<messages, removed>> \/ CheckCompaction(Handler, m, ms, es, removed)
  BY DEF ProcessEnd
<1>2. /\ Agree(ms, Context(es), q, removed) /\ Spoken(ms, Horizon(entries), errors) /\ InOrder
  BY <1>1, FaithfulNow
<1>3. q = <<AgentEnd>> /\ Tail(q) = <<>> /\ run = "none"
  BY <1>1, <1>2, EndIsLast
<1>4. /\ q \in Seq(Event) /\ ms \in Seq(Message) /\ es \in Seq(Entry) /\ m \in Message \cup {None}
      /\ Ascending(es) /\ Ascending(q) /\ Before(ToSet(es), ToSet(q)) /\ Horizon(es) = Horizon(entries)
      /\ errors \subseteq Errors
  BY QueueTyped, Kinds DEF SessionTyped, Sorted, Unhandled
<1>5. ASSUME m \in Removables, ~(m.id <= Horizon(entries)), ms # <<>>, IsAssistant(Last(ms))
      PROVE  Last(ms) = m \/ Last(ms) \in Failures
  <2>1. ~Open(ms)
    BY <1>5 DEF Open
  <2>2. CASE m \in Errors
    BY <1>2, <2>1, <2>2 DEF Spoken, Unhandled
  <2>3. CASE m \notin Errors
    <3>1. m \in Answer /\ m.stop = "silent"
      BY <1>5, <2>3 DEF Removables, RemovedStops, Errors
    <3>2. m \in Latest(q, m)
      BY <1>3, <3>1, LatestAtEnd
    <3>3. Voiced(ms, Horizon(entries), Latest(q, m))
      BY <1>1 DEF Voices
    <3> QED BY <1>5, <2>1, <3>1, <3>2, <3>3 DEF Voiced
  <2> QED BY <2>2, <2>3
<1> HIDE DEF q, es, m, ms, errors
<1>6. Agree(messages', Context(es), q, removed')
  <2>1. CASE UNCHANGED <<messages, removed>>
    BY <1>2, <2>1 DEF ms
  <2>2. CASE CheckCompaction(Handler, m, ms, es, removed)
    BY <1>2, <1>4, <1>5, <2>2, CheckAgrees
  <2> QED BY <1>1, <2>1, <2>2
<1>7. Agree(messages', Context(es), <<>>, removed')
  BY <1>3, <1>6, EndSaysNothing
<1>8. agentEventQueue' = <<>> /\ entries' = es
  BY <1>1, <1>3 DEF es
<1> QED BY <1>1, <1>3, <1>7, <1>8, NoneLeft, NothingSpoken

\* The answers begun before the last compaction.
LEMMA HorizonAfter ==
  ASSUME NEW es \in Seq(Entry), NEW e \in CompactionEntries
  PROVE  /\ Horizon(Append(es, e)) = e.at
         /\ Append(es, e) \in Seq(Entry) /\ Context(Append(es, e)) # <<>>
<1> DEFINE all == Append(es, e)
           n == Len(es) + 1
<1>1. /\ all \in Seq(Entry) /\ Compactions(all) # {} /\ Max(Compactions(all)) = n /\ all[n] = e
      /\ Context(all) # <<>>
  BY ContextAfter
<1> HIDE DEF all, n
<1> QED BY <1>1 DEF Horizon, all

\* A compaction makes the agent's messages those of the entries.
LEMMA CompactionFaithful ==
  ASSUME SessionTyped, SessionTyped', MirrorInv, Bounded, Sorted', Faithful,
         NEW o \in Owners, CompactionEnds(o)
  PROVE  Faithful'
<1> SUFFICES ASSUME ~missed', ~outOfStep'
             PROVE  /\ Agree(messages', Context(entries'), agentEventQueue', removed')
                    /\ Spoken(messages', Horizon(entries'), Unhandled(agentEventQueue', lastAssistantMessage'))
                    /\ (run' = "turn" => Open(messages') \/ answers' + 1 <= Horizon(entries'))
  BY FaithfulNext
<1> DEFINE context == Context(entries')
           c == CompactionEntry(jobs[o].keep, answers + IF run = "turn" THEN 1 ELSE 0)
<1>1. /\ UNCHANGED <<run, lastAssistantMessage, answers, agentEventQueue, missed>>
      /\ agentEventQueue = <<>> /\ ~outOfStep /\ jobs[o] # None
      /\ entries' = Append(entries, c)
      /\ \/ messages' = context /\ removed' = {}
         \/ IsError(Last(context)) /\ messages' = Front(context) /\ removed' = {Last(context).id}
  BY DEF CompactionEnds
<1>2. /\ c \in CompactionEntries /\ entries \in Seq(Entry)
      /\ c.at = answers + IF run = "turn" THEN 1 ELSE 0
  <2>1. jobs[o].keep \in Nat \ {0} /\ entries \in Seq(Entry)
    BY <1>1 DEF SessionTyped, Job
  <2> QED BY <2>1, QueueTyped DEF CompactionEntry, CompactionEntries
<1> HIDE DEF c
<1>3. Horizon(entries') = c.at /\ context # <<>> /\ entries' \in Seq(Entry)
  BY <1>1, <1>2, HorizonAfter
<1>4. /\ context \in Seq(Message) /\ ToSet(context) \subseteq ToSet(entries') \cup {Summary}
      /\ Ascending(context)
  BY <1>3, ContextIs DEF Sorted
<1> HIDE DEF context
<1>5. ~Has(context, Failures)
  <2>1. ~Has(entries', Failures)
    BY DEF Sorted
  <2>2. \A x \in ToSet(entries') : x \notin Failures
    BY <1>3, <2>1, HasIn
  <2> QED BY <1>4, <2>2, FailuresApart, HasIn
<1>6. Agree(context, context, <<>>, {})
  BY <1>4, <1>5, Reloaded
<1>7. Agree(messages', context, <<>>, removed')
  <2>1. CASE messages' = context /\ removed' = {}
    BY <1>6, <2>1
  <2>2. CASE IsError(Last(context)) /\ messages' = Front(context) /\ removed' = {Last(context).id}
    <3>1. Last(context) \in Removables
      <4>1. Last(context) \in Message
        BY <1>3, <1>4, FrontAndLast
      <4> QED BY <2>2, <4>1, Kinds DEF IsError, Removables, RemovedStops
    <3> DEFINE q == <<>>
    <3>2. q \in Seq(Event) /\ Ascending(q) /\ Before(ToSet(context), ToSet(q)) /\ ~Has(q, Answer)
      <4>1. q \in Seq(Event) /\ ~Has(q, Answer)
        BY EmptySeq, HasNothing
      <4> QED BY <4>1, NoAnswers
    <3>3. Agree(context, context, q, {})
      BY <1>6
    <3> HIDE DEF q
    <3>4. Agree(Front(context), context, q, {} \cup {Last(context).id})
      BY <1>3, <1>4, <3>1, <3>2, <3>3, TakenOut
    <3>5. {} \cup {Last(context).id} = {Last(context).id}
      OBVIOUS
    <3> QED BY <2>2, <3>4, <3>5 DEF q
  <2> QED BY <1>1, <2>1, <2>2
<1>8. Unhandled(agentEventQueue', lastAssistantMessage') = {}
  <2>1. InOrder
    BY <1>1 DEF Bounded
  <2>2. Unhandled(agentEventQueue, lastAssistantMessage) = {}
    BY <1>1, <2>1, NothingUnhandled
  <2> QED BY <1>1, <2>2
<1>9. run' = "turn" => answers' + 1 <= Horizon(entries')
  BY <1>1, <1>2, <1>3, QueueTyped
<1>10. agentEventQueue' = <<>>
  BY <1>1
<1> QED BY <1>7, <1>8, <1>9, <1>10, NothingSpoken DEF context

\* What bash leaves behind goes to the agent and to the session alike.
LEMMA WordsFaithful ==
  ASSUME SessionTyped, MirrorInv, NEW b \in Seq(Words), ~Has(b, Failures),
         Agree(messages, Context(entries), <<>>, removed)
  PROVE  /\ Agree(messages \o b, Context(entries \o b), <<>>, removed)
         /\ Horizon(entries \o b) = Horizon(entries) /\ entries \o b \in Seq(Entry)
<1>1. b \in Seq(Message) /\ entries \in Seq(Entry)
  BY WordsArePlain DEF SessionTyped
<1>2. Context(entries \o b) = Context(entries) \o b /\ Horizon(entries \o b) = Horizon(entries)
  BY <1>1, ContextJoins, HorizonStays
<1>3. messages \in Seq(Message) /\ removed \subseteq Nat /\ Context(entries) \in Seq(Message)
  BY ContextTyped DEF SessionTyped
<1>4. Agree(messages \o b, Context(entries) \o b, <<>>, removed)
  BY <1>3, BashAgrees
<1>5. entries \o b \in Seq(Entry)
  <2>1. b \in Seq(Entry)
    BY <1>1, SeqMonotonic DEF Entry
  <2> QED BY <1>1, <2>1, ConcatProperties
<1> QED BY <1>2, <1>4, <1>5

LEMMA BashFaithful ==
  ASSUME SessionTyped, MirrorInv, Bounded, Faithful, RecordBash PROVE Faithful'
<1>1. CASE UNCHANGED <<messages, entries, outOfStep>>
  <2>1. UNCHANGED <<run, agentEventQueue, lastAssistantMessage, removed, answers, missed>>
    BY BashSays
  <2> QED BY <1>1, <2>1, FaithfulSame
<1>2. CASE ~UNCHANGED <<messages, entries, outOfStep>>
  <2> SUFFICES ASSUME ~missed', ~outOfStep'
               PROVE  /\ Agree(messages', Context(entries'), agentEventQueue', removed')
                      /\ Spoken(messages', Horizon(entries'), Unhandled(agentEventQueue', lastAssistantMessage'))
                      /\ (run' = "turn" => Open(messages') \/ answers' + 1 <= Horizon(entries'))
    BY FaithfulNext
  <2>1. PICK b \in Seq(Speech) : messages' = messages \o b /\ entries' = entries \o b
    BY <1>2, BashSays
  <2>2. /\ UNCHANGED <<run, agentEventQueue, lastAssistantMessage, removed, answers, missed>>
        /\ run = "none" /\ outOfStep' = (outOfStep \/ agentEventQueue # <<>>)
    BY <1>2, BashSays
  <2>3. agentEventQueue = <<>> /\ ~outOfStep /\ ~missed
    BY <2>2
  <2>4. Agree(messages, Context(entries), <<>>, removed) /\ InOrder
    BY <2>3, FaithfulNow
  <2>5. b \in Seq(Words) /\ ~Has(b, Failures)
    BY SpeechSays, SpeechIs, SeqMonotonic
  <2>6. Agree(messages', Context(entries'), <<>>, removed)
    BY <2>1, <2>4, <2>5, WordsFaithful
  <2>7. Unhandled(agentEventQueue', lastAssistantMessage') = {}
    <3>1. Unhandled(agentEventQueue, lastAssistantMessage) = {}
      BY <2>3, <2>4, NothingUnhandled
    <3> QED BY <2>2, <3>1
  <2>8. agentEventQueue' = <<>> /\ removed' = removed /\ run' = "none"
    BY <2>2, <2>3
  <2> QED BY <2>6, <2>7, <2>8, NothingSpoken
<1> QED BY <1>1, <1>2

\* prompt(): what bash left is flushed, and an overflow at the end of the messages taken out.
LEMMA PromptFaithful ==
  ASSUME SessionTyped, MirrorInv, Known, Bounded, Sorted, Sorted', Faithful, NEW t \in Texts, Prompt(t)
  PROVE  Faithful'
<1> SUFFICES ASSUME ~missed', ~outOfStep'
             PROVE  /\ Agree(messages', Context(entries'), agentEventQueue', removed')
                    /\ Spoken(messages', Horizon(entries'), Unhandled(agentEventQueue', lastAssistantMessage'))
                    /\ (run' = "turn" => Open(messages') \/ answers' + 1 <= Horizon(entries'))
  BY FaithfulNext
<1> DEFINE p == pendingBashMessages
           q == agentEventQueue
           ms == messages \o p
           es == entries \o p
           errors == Unhandled(q, lastAssistantMessage)
<1>1. /\ entries' = es /\ run' = "none" /\ ~missed /\ ~outOfStep /\ (p = <<>> \/ q = <<>>)
      /\ UNCHANGED <<agentEventQueue, lastAssistantMessage>> /\ ms \in Seq(Message)
  BY PromptChecks
<1>2. PICK m \in ToSet(ms) \cup {None} : /\ CheckCompaction(t, m, ms, es, removed)
                                         /\ ms # <<>> /\ IsAssistant(Last(ms)) => Last(ms) = m
  BY PromptChecks
<1>3. /\ Agree(messages, Context(entries), q, removed) /\ InOrder
      /\ Spoken(messages, Horizon(entries), errors)
  BY <1>1, FaithfulNow
<1>4. /\ Agree(ms, Context(es), q, removed) /\ Horizon(es) = Horizon(entries)
      /\ Spoken(ms, Horizon(entries), errors) /\ es \in Seq(Entry)
  <2>1. CASE p = <<>>
    <3>1. messages \in Seq(Message) /\ entries \in Seq(Entry)
      BY DEF SessionTyped
    <3>2. ms = messages /\ es = entries
      BY <2>1, <3>1, ConcatEmptySeq
    <3> QED BY <1>3, <3>1, <3>2
  <2>2. CASE q = <<>>
    <3>1. p \in Seq(Message) /\ ~Has(p, Answer) /\ ~Has(p, Failures)
      BY DEF SessionTyped, Known, Sorted
    <3>2. p \in Seq(Words)
      <4>1. p \in Seq(Message \ Answer)
        BY <3>1, AllOutside
      <4>2. Message \ Answer \subseteq Words
        BY Kinds DEF Words, Message
      <4> QED BY <4>1, <4>2, SeqMonotonic
    <3>3. Agree(messages, Context(entries), <<>>, removed)
      BY <1>3, <2>2
    <3>4. /\ Agree(ms, Context(es), <<>>, removed) /\ Horizon(es) = Horizon(entries)
          /\ es \in Seq(Entry)
      BY <3>1, <3>2, <3>3, WordsFaithful
    <3>5. errors = {}
      BY <1>3, <2>2, NothingUnhandled
    <3> QED BY <2>2, <3>4, <3>5, NothingSpoken
  <2> QED BY <1>1, <2>1, <2>2
<1>5. Ascending(es) /\ Ascending(q) /\ Before(ToSet(es), ToSet(q))
  BY <1>1 DEF Sorted
<1>6. q \in Seq(Event) /\ m \in Message \cup {None} /\ errors \subseteq Errors
  <2>1. ToSet(ms) \subseteq Message
    BY <1>1, ElementsOf
  <2> QED BY <2>1, QueueTyped DEF Unhandled
<1> HIDE DEF p, q, ms, es, errors
<1>7. Agree(messages', Context(es), q, removed') /\ Spoken(messages', Horizon(entries), errors)
  BY <1>1, <1>2, <1>4, <1>5, <1>6, CheckAgrees
<1>8. Agree(messages', Context(entries'), agentEventQueue', removed')
  BY <1>1, <1>7 DEF q
<1>9. Unhandled(agentEventQueue', lastAssistantMessage') = errors /\ Horizon(entries') = Horizon(entries)
  BY <1>1, <1>4 DEF errors, q
<1> QED BY <1>1, <1>7, <1>8, <1>9

LEMMA FaithfulStep ==
  ASSUME SessionTyped, SessionTyped', MirrorInv, OneWait, Known, Bounded, Sorted, Sorted', Dated, Faithful,
         Voices, [Next]_vars
  PROVE  Faithful'
<1>1. CASE TimerFires \/ (\E t \in Texts : SendPrompt(t)) \/ ToolsEnd
  <2>1. /\ UNCHANGED Elsewhere
        /\ \/ \E b : /\ Says(b)
                     /\ \/ run = "tools" /\ UNCHANGED outOfStep
                        \/ outOfStep' = (outOfStep \/ agentEventQueue # <<>>)
           \/ UNCHANGED <<agentVars, agentEventQueue, missed, outOfStep>>
    BY <1>1, TimerSays, SendPromptSays, ToolsEndSays
  <2>2. CASE UNCHANGED <<agentVars, agentEventQueue, missed, outOfStep>>
    BY <2>1, <2>2, FaithfulSame DEF agentVars, Elsewhere
  <2> QED BY <2>1, <2>2, SaysFaithful
<1>2. CASE \E stop \in AllStops \cup {"aborted"} : Answers(stop)
  BY <1>2, AnswerConcludes, AnswerFaithful
<1>3. CASE AbortEffects
  <2>1. UNCHANGED <<messages, removed>>
    BY <1>3, AbortDated
  <2>2. UNCHANGED <<run, entries, agentEventQueue, lastAssistantMessage, answers, missed, outOfStep>>
    BY <1>3 DEF AbortEffects
  <2> QED BY <2>1, <2>2, FaithfulSame
<1>4. CASE \/ BackoffEnds \/ (\E o \in Owners : CompactionFails(o)) \/ CompactBegins
           \/ (\E t \in Texts : Steer(t) \/ FollowUp(t)) \/ ClearQueue \/ UNCHANGED vars
  <2>1. UNCHANGED <<run, messages, entries, agentEventQueue, lastAssistantMessage, removed, answers,
                    missed, outOfStep>>
    BY <1>4 DEF BackoffEnds, CompactionFails, CompactBegins, Steer, FollowUp, ClearQueue,
                vars, agentVars, sessionVars, ghostVars
  <2> QED BY <2>1, FaithfulSame
<1>5. CASE ListenerThrows
  BY <1>5, FaithfulNext DEF ListenerThrows
<1> QED BY <1>1, <1>2, <1>3, <1>4, <1>5, MessageFaithful, ThrowFaithful, RetryFaithful, EndFaithful,
           CompactionFaithful, PromptFaithful, BashFaithful
    DEF Next, SystemStep, UserStep, Abort, Compact

-----------------------------------------------------------------------------
(* A silent overflow ends the messages until it is dealt with.               *)

LEMMA VoicesNext ==
  ASSUME ~missed' /\ ~outOfStep'
           => Voiced(messages', Horizon(entries'), Latest(agentEventQueue', lastAssistantMessage'))
  PROVE  Voices'
<1>1. \A q, last : Latest(q, last)' = Latest(q', last')
  BY Rigid DEF Latest
<1> QED BY <1>1 DEF Voices

LEMMA VoicesSame ==
  ASSUME Voices, UNCHANGED <<messages, entries, agentEventQueue, lastAssistantMessage, missed, outOfStep>>
  PROVE  Voices'
BY VoicesNext DEF Voices

\* What calls for an answer, or a failure, settles it.
LEMMA SpokenOver ==
  ASSUME Open(messages') \/ Last(messages') \in Failures PROVE Voices'
BY VoicesNext DEF Voiced

LEMMA ThreeJoin ==
  ASSUME NEW s \in Seq(Message), NEW t \in Seq(Message), NEW u \in Seq(Message)
  PROVE  s \o t \in Seq(Message) /\ s \o (t \o u) = (s \o t) \o u
BY ConcatProperties, ConcatAssociative

LEMMA AnswerVoiced ==
  ASSUME SessionTyped, MirrorInv, Known, Dated, Faithful, Bounded, NEW m, NEW b, Concludes(m, b),
         run = "turn", UNCHANGED <<entries, lastAssistantMessage, outOfStep>>
  PROVE  Voices'
<1> SUFFICES ASSUME ~missed', ~outOfStep'
             PROVE  Voiced(messages', Horizon(entries'), Latest(agentEventQueue', lastAssistantMessage'))
  BY VoicesNext
<1> DEFINE q == agentEventQueue
           one == <<m>>
           end == <<AgentEnd>>
           last == lastAssistantMessage
<1>1. /\ m \in Answer /\ m.id = answers + 1 /\ b \in Seq(Users) /\ messages' = messages \o (one \o b)
      /\ Emit(one \o b) \/ (Emit(one \o end) /\ b = <<>>)
  BY DEF Concludes
<1>2. /\ m \in Message /\ one \in Seq(Event) /\ one \in Seq(Message) /\ messages \in Seq(Message)
      /\ q \in Seq(Event)
  BY <1>1, Kinds, OneElement, QueueTyped DEF Event, SessionTyped
<1>3. b \in Seq(Speech) /\ b \in Seq(Message) /\ b \in Seq(Event) /\ ~Has(b, Answer)
  <2>1. b \in Seq(Speech)
    BY <1>1, SpeechIs, SeqMonotonic
  <2> QED BY <2>1, SpeechSays
<1>4. end \in Seq(Event) /\ ~Has(end, Answer)
  BY Apart, OneElement, HasOne DEF Ends
<1>5. \A K : Has(one, K) <=> m \in K
  BY HasOne
<1> HIDE DEF one, end, q, last
<1>6. ASSUME NEW c \in Seq(Event), ~Has(c, Answer), Emit(one \o c)
      PROVE  Latest(agentEventQueue', lastAssistantMessage') \subseteq {m} /\ ~missed
  <2>1. one \o c \in Seq(Event)
    BY <1>2, <1>6, ConcatProperties
  <2>2. ~missed /\ agentEventQueue' = q \o (one \o c)
    BY <1>6, <2>1, ToldAll DEF q
  <2>3. \A e \in Answer : Has(agentEventQueue', {e}) <=> Has(q, {e}) \/ e = m
    <3>1. \A K : Has(q \o (one \o c), K) <=> Has(q, K) \/ Has(one \o c, K)
      BY <1>2, <2>1, HasBoth
    <3>2. \A K : Has(one \o c, K) <=> Has(one, K) \/ Has(c, K)
      BY <1>2, <1>6, HasBoth
    <3>3. \A e \in Answer : ~Has(c, {e})
      BY <1>6 DEF Has
    <3> QED BY <1>5, <2>2, <3>1, <3>2, <3>3
  <2>4. ASSUME NEW e \in Answer, e = last \/ Has(q, {e}) PROVE e.id <= answers
    <3>1. e \notin Later
      <4>1. ~Has(q, Later) /\ last \notin Later
        BY DEF Known, Dated, q, last
      <4> QED BY <2>4, <4>1 DEF Has
    <3> QED BY <3>1, NotLater, QueueTyped
  <2>5. ASSUME NEW e \in Latest(agentEventQueue', lastAssistantMessage') PROVE e = m
    <3>1. e \in Answer /\ (e = lastAssistantMessage' \/ Has(agentEventQueue', {e})) /\ m.id <= e.id
      BY <1>1, <2>3, <2>5 DEF Latest
    <3>2. e = m \/ e = last \/ Has(q, {e})
      BY <2>3, <3>1 DEF last
    <3>3. e.id \in Nat /\ answers \in Nat /\ m.id = answers + 1
      BY <1>1, <3>1, Kinds, QueueTyped
    <3>4. ASSUME e = last \/ Has(q, {e}) PROVE FALSE
      <4>1. e.id <= answers
        BY <2>4, <3>1, <3>4
      <4> QED BY <3>1, <3>3, <4>1
    <3> QED BY <3>2, <3>4
  <2> QED BY <2>2, <2>5
<1>7. Latest(agentEventQueue', lastAssistantMessage') \subseteq {m} /\ ~missed
  BY <1>1, <1>3, <1>4, <1>6
<1>8. CASE b # <<>>
  <2>1. messages \o one \in Seq(Message) /\ messages' = (messages \o one) \o b
    <3>1. messages \in Seq(Message) /\ one \in Seq(Message) /\ b \in Seq(Message)
      BY <1>2, <1>3
    <3> QED BY <1>1, <3>1, ThreeJoin
  <2>2. Open((messages \o one) \o b)
    BY <1>3, <1>8, <2>1, OpenJoins
  <2>3. Open(messages')
    BY <2>1, <2>2
  <2> QED BY <2>3 DEF Voiced
<1>9. CASE b = <<>>
  <2>1. messages' = Append(messages, m)
    <3>1. one \o b = one
      BY <1>2, <1>9, ConcatEmptySeq
    <3>2. messages \o one = Append(messages, m)
      BY <1>2, AppendIsConcat DEF one
    <3> QED BY <1>1, <3>1, <3>2
  <2>2. messages' # <<>> /\ Last(messages') = m /\ Front(messages') = messages
    BY <1>2, <2>1, FrontOfAppend
  <2>3. Open(messages) \/ m.id <= Horizon(entries')
    BY <1>1, <1>7 DEF Faithful, TurnOpen
  <2> QED BY <1>7, <2>2, <2>3 DEF Voiced
<1> QED BY <1>8, <1>9

LEMMA MessageVoiced ==
  ASSUME SessionTyped, MirrorInv, Sorted, Voices, ProcessMessage PROVE Voices'
<1> SUFFICES ASSUME ~missed', ~outOfStep'
             PROVE  Voiced(messages', Horizon(entries'), Latest(agentEventQueue', lastAssistantMessage'))
  BY VoicesNext
<1> DEFINE q == agentEventQueue
           x == Head(q)
           t == Tail(q)
           b == <<x>>
           last == lastAssistantMessage
<1>1. /\ q # <<>> /\ x # AgentEnd /\ agentEventQueue' = t /\ entries' = Append(entries, x)
      /\ lastAssistantMessage' = IF x.kind = "assistant" THEN x ELSE last
      /\ UNCHANGED <<messages, missed, outOfStep>>
  BY DEF ProcessMessage, agentVars, ghostVars
<1>2. q \in Seq(Event) /\ Ascending(q) /\ ~Has(q, Failures) /\ entries \in Seq(Entry)
  BY QueueTyped DEF Sorted, SessionTyped
<1>3. x \in Message
  <2>1. x \in Event
    BY <1>1, <1>2, HeardLess
  <2> QED BY <1>1, <2>1 DEF Event
<1>4. /\ Before({x}, ToSet(t)) /\ t \in Seq(Event)
      /\ \A K : Has(q, K) <=> x \in K \/ Has(t, K)
  <2>1. Before({x}, ToSet(t))
    BY <1>1, <1>2, TailSorted
  <2>2. t \in Seq(Event)
    BY <1>1, <1>2, HeardLess
  <2>3. \A K : Has(q, K) <=> x \in K \/ Has(t, K)
    BY <1>1, <1>2, HasFirst
  <2> QED BY <2>1, <2>2, <2>3
<1>5. Horizon(entries') = Horizon(entries)
  <2>1. x \in Entry
    BY <1>3 DEF Entry
  <2> HIDE DEF x
  <2>2. b \in Seq(Message) /\ entries' = entries \o b
    BY <1>1, <1>2, <1>3, <2>1, OneElement, AppendIsConcat
  <2> HIDE DEF b
  <2> QED BY <1>2, <2>2, HorizonStays
<1> HIDE DEF x, t, last
<1>6. \A y \in Answer : Has(t, {y}) /\ x \in Answer => x.id < y.id
  <2>1. \A y : Has(t, {y}) => y \in ToSet(t)
    BY <1>4, HasIn
  <2> QED BY <1>4, <2>1 DEF Before
<1>7. Latest(agentEventQueue', lastAssistantMessage') \subseteq Latest(q, last)
  <2> SUFFICES ASSUME NEW e \in Latest(t, lastAssistantMessage') PROVE e \in Latest(q, last)
    BY <1>1
  <2>1. /\ e \in Answer /\ (e = lastAssistantMessage' \/ Has(t, {e}))
        /\ \A y \in Answer : Has(t, {y}) => y.id <= e.id
    BY DEF Latest
  <2>2. e = last \/ Has(q, {e})
    BY <1>1, <1>4, <2>1
  <2>3. x \in Answer => x.id <= e.id
    <3>1. x \in Answer => x.id \in Nat /\ x.kind = "assistant"
      BY Kinds
    <3>2. e.id \in Nat
      BY <2>1, Kinds
    <3>3. CASE Has(t, {e})
      BY <1>6, <2>1, <3>1, <3>2, <3>3
    <3>4. CASE e = lastAssistantMessage'
      BY <1>1, <3>1, <3>2, <3>4
    <3> QED BY <2>1, <3>3, <3>4
  <2>4. \A y \in Answer : Has(q, {y}) => y.id <= e.id
    BY <1>4, <2>1, <2>3
  <2> QED BY <2>1, <2>2, <2>4 DEF Latest
<1>8. Voiced(messages, Horizon(entries), Latest(q, last))
  BY <1>1 DEF Voices, last
<1> QED BY <1>1, <1>5, <1>7, <1>8 DEF Voiced

\* A compaction makes every answer heard of an old one.
LEMMA CompactionVoiced ==
  ASSUME SessionTyped, MirrorInv, Dated, NEW o \in Owners, CompactionEnds(o) PROVE Voices'
<1> SUFFICES ASSUME ~outOfStep'
             PROVE  Voiced(messages', Horizon(entries'), Latest(agentEventQueue', lastAssistantMessage'))
  BY VoicesNext
<1> DEFINE c == CompactionEntry(jobs[o].keep, answers + IF run = "turn" THEN 1 ELSE 0)
           last == lastAssistantMessage
<1>1. /\ UNCHANGED <<lastAssistantMessage, agentEventQueue>> /\ agentEventQueue = <<>> /\ jobs[o] # None
      /\ entries' = Append(entries, c)
  BY DEF CompactionEnds
<1>2. c \in CompactionEntries /\ entries \in Seq(Entry) /\ c.at >= answers
  <2>1. jobs[o].keep \in Nat \ {0} /\ entries \in Seq(Entry)
    BY <1>1 DEF SessionTyped, Job
  <2> QED BY <2>1, QueueTyped DEF CompactionEntry, CompactionEntries
<1>3. c.at \in Nat
  BY <1>2 DEF CompactionEntries
<1> HIDE DEF c
<1>4. Horizon(entries') = c.at
  BY <1>1, <1>2, HorizonAfter
<1>5. ASSUME NEW e \in Latest(agentEventQueue', lastAssistantMessage') PROVE e.id <= c.at
  <2>1. e \in Answer /\ e = last
    BY <1>1, <1>5, HasNothing DEF Latest
  <2>2. e \notin Later
    BY <2>1 DEF Dated
  <2>3. e.id \in 0..answers
    BY <2>1, <2>2, NotLater
  <2> QED BY <1>2, <1>3, <2>3, QueueTyped
<1> QED BY <1>4, <1>5 DEF Voiced

LEMMA BashVoiced ==
  ASSUME SessionTyped, MirrorInv, Voices, RecordBash PROVE Voices'
<1>1. UNCHANGED <<agentEventQueue, lastAssistantMessage, missed>>
  BY BashSays
<1>2. CASE UNCHANGED <<messages, entries, outOfStep>>
  BY <1>1, <1>2, VoicesSame
<1>3. ASSUME NEW b \in Seq(Speech), messages' = messages \o b, entries' = entries \o b,
             outOfStep' = (outOfStep \/ agentEventQueue # <<>>)
      PROVE  Voices'
  <2>1. b \in Seq(Message) /\ messages \in Seq(Message) /\ entries \in Seq(Entry)
    BY SpeechSays DEF SessionTyped
  <2>2. CASE b = <<>>
    <3>1. messages \o b = messages /\ entries \o b = entries
      BY <2>1, <2>2, ConcatEmptySeq
    <3>2. ASSUME ~missed', ~outOfStep'
          PROVE  Voiced(messages', Horizon(entries'), Latest(agentEventQueue', lastAssistantMessage'))
      <4>1. Voiced(messages, Horizon(entries), Latest(agentEventQueue, lastAssistantMessage))
        BY <1>1, <1>3, <3>2 DEF Voices
      <4> QED BY <1>1, <1>3, <3>1, <4>1
    <3> QED BY <3>2, VoicesNext
  <2>3. CASE b # <<>>
    <3>1. Open(messages \o b)
      BY <2>1, <2>3, OpenJoins
    <3> QED BY <1>3, <3>1, SpokenOver
  <2> QED BY <2>2, <2>3
<1> QED BY <1>2, <1>3, BashSays

LEMMA PromptVoiced ==
  ASSUME SessionTyped, MirrorInv, Known, Sorted, Voices, NEW t \in Texts, Prompt(t) PROVE Voices'
<1> SUFFICES ASSUME ~missed', ~outOfStep'
             PROVE  Voiced(messages', Horizon(entries'), Latest(agentEventQueue', lastAssistantMessage'))
  BY VoicesNext
<1> DEFINE p == pendingBashMessages
           ms == messages \o p
           es == entries \o p
           answered == Latest(agentEventQueue, lastAssistantMessage)
           h == Horizon(entries)
<1>1. /\ entries' = es /\ ~missed /\ ~outOfStep
      /\ UNCHANGED <<agentEventQueue, lastAssistantMessage>> /\ ms \in Seq(Message)
  BY PromptChecks
<1>2. PICK m \in ToSet(ms) \cup {None} : /\ CheckCompaction(t, m, ms, es, removed)
                                         /\ ms # <<>> /\ IsAssistant(Last(ms)) => Last(ms) = m
  BY PromptChecks
<1>3. Voiced(messages, h, answered)
  BY <1>1 DEF Voices
<1>4. p \in Seq(Speech) /\ p \in Seq(Message) /\ messages \in Seq(Message) /\ entries \in Seq(Entry)
  <2>1. p \in Seq(Message) /\ ~Has(p, Answer) /\ ~Has(p, Failures)
    BY DEF SessionTyped, Known, Sorted
  <2>2. ~Has(p, Answer \cup Failures)
    BY <2>1 DEF Has
  <2> QED BY <2>1, <2>2, AllOutside DEF Speech, SessionTyped
<1>5. Horizon(entries') = h
  BY <1>1, <1>4, HorizonStays
<1>6. Voiced(ms, h, answered)
  <2>1. CASE p = <<>>
    <3>1. ms = messages
      BY <1>4, <2>1, ConcatEmptySeq
    <3> QED BY <1>3, <3>1
  <2>2. CASE p # <<>>
    <3>1. Open(ms)
      BY <1>4, <2>2, OpenJoins
    <3> QED BY <3>1 DEF Voiced
  <2> QED BY <2>1, <2>2
<1>7. Latest(agentEventQueue', lastAssistantMessage') = answered
  BY <1>1
<1> HIDE DEF ms, es, answered, h, p
<1>8. Voiced(messages', h, answered)
  <2>1. CASE messages' = ms
    BY <1>6, <2>1
  <2>2. CASE "overflow" \in CompactionReasons(t, m, ms) /\ messages' = WithoutLastAnswer(ms)
    <3>1. m # None /\ m.kind = "assistant"
      BY <2>2, ReasonsAre
    <3>2. CASE ms # <<>> /\ IsAssistant(Last(ms))
      <4>1. messages' = Front(ms) /\ Last(ms) = m /\ ~Open(ms)
        BY <1>2, <2>2, <3>2 DEF WithoutLastAnswer, Open
      <4>2. Last(ms) \notin Failures
        BY <3>1, <4>1 DEF Failures
      <4> QED BY <1>6, <4>1, <4>2 DEF Voiced
    <3>3. CASE ~(ms # <<>> /\ IsAssistant(Last(ms)))
      <4>1. messages' = ms
        BY <2>2, <3>3 DEF WithoutLastAnswer
      <4> QED BY <1>6, <4>1
    <3> QED BY <3>2, <3>3
  <2> QED BY <1>2, <2>1, <2>2, CheckTakes
<1> QED BY <1>5, <1>7, <1>8

LEMMA VoicesStep ==
  ASSUME SessionTyped, SessionTyped', MirrorInv, OneWait, Known, Bounded, Sorted, Dated, Faithful,
         Voices, [Next]_vars
  PROVE  Voices'
<1>1. CASE TimerFires \/ (\E t \in Texts : SendPrompt(t)) \/ ToolsEnd
  <2>1. /\ UNCHANGED Elsewhere
        /\ \/ \E b : Says(b)
           \/ UNCHANGED <<agentVars, agentEventQueue, missed, outOfStep>>
    BY <1>1, TimerSays, SendPromptSays, ToolsEndSays
  <2>2. CASE UNCHANGED <<agentVars, agentEventQueue, missed, outOfStep>>
    BY <2>1, <2>2, VoicesSame DEF agentVars, Elsewhere
  <2>3. ASSUME NEW b, Says(b) PROVE Voices'
    BY <2>3, SpokenOver DEF Says, Opens
  <2> QED BY <2>1, <2>2, <2>3
<1>2. CASE \E stop \in AllStops \cup {"aborted"} : Answers(stop)
  BY <1>2, AnswerConcludes, AnswerVoiced
<1>3. ASSUME NEW retryable \in BOOLEAN, StreamThrows(retryable) PROVE Voices'
  <2> DEFINE f == Failure(throws')
  <2>1. f \in Failures /\ messages' = Append(messages, f)
    BY <1>3 DEF StreamThrows, SessionTyped, Failure, Failures
  <2> HIDE DEF f
  <2>2. f \in Message /\ messages \in Seq(Message)
    BY <2>1, FailuresApart DEF SessionTyped
  <2>3. Last(Append(messages, f)) = f
    BY <2>2, FrontOfAppend
  <2> QED BY <2>1, <2>3, SpokenOver
<1>4. CASE AbortEffects
  <2>1. UNCHANGED messages
    BY <1>4, AbortDated
  <2>2. UNCHANGED <<entries, agentEventQueue, lastAssistantMessage, missed, outOfStep>>
    BY <1>4 DEF AbortEffects
  <2> QED BY <2>1, <2>2, VoicesSame
<1>5. CASE ProcessRetry \/ ProcessEnd
  <2>1. /\ agentEventQueue # <<>> /\ Head(agentEventQueue) = AgentEnd /\ agentEventQueue' = Tail(agentEventQueue)
        /\ lastAssistantMessage' = None /\ UNCHANGED outOfStep
    BY <1>5 DEF ProcessRetry, ProcessEnd
  <2>2. ASSUME ~outOfStep' PROVE agentEventQueue' = <<>>
    BY <2>1, <2>2, EndIsLast DEF Bounded
  <2> QED BY <2>1, <2>2, NothingLatest, VoicesNext
<1>6. CASE ListenerThrows
  BY <1>6, VoicesNext DEF ListenerThrows
<1>7. CASE \/ BackoffEnds \/ (\E o \in Owners : CompactionFails(o)) \/ CompactBegins
           \/ (\E t \in Texts : Steer(t) \/ FollowUp(t)) \/ ClearQueue \/ UNCHANGED vars
  <2>1. UNCHANGED <<messages, entries, agentEventQueue, lastAssistantMessage, missed, outOfStep>>
    BY <1>7 DEF BackoffEnds, CompactionFails, CompactBegins, Steer, FollowUp, ClearQueue,
                vars, agentVars, sessionVars, ghostVars
  <2> QED BY <2>1, VoicesSame
<1> QED BY <1>1, <1>2, <1>3, <1>4, <1>5, <1>6, <1>7, MessageVoiced, CompactionVoiced, BashVoiced, PromptVoiced
    DEF Next, SystemStep, UserStep, Abort, Compact

-----------------------------------------------------------------------------

ReloadInv == BoundInv /\ Sorted /\ Dated /\ Faithful /\ Voices

LEMMA ReloadInit == Init => ReloadInv
<1> SUFFICES ASSUME Init PROVE ReloadInv
  OBVIOUS
<1> DEFINE none == <<>>
<1>1. BoundInv /\ SessionTyped
  BY BoundInit DEF BoundInv
<1>2. /\ entries = none /\ agentEventQueue = none /\ pendingBashMessages = none /\ messages = none
      /\ run = "none" /\ lastAssistantMessage = None /\ removed = {}
  BY DEF Init
<1>3. /\ none \in Seq(Event) /\ none \in Seq(Message) /\ none \in Seq(Entry) /\ Len(none) = 0
      /\ \A K : ~Has(none, K)
  BY EmptySeq, HasNothing
<1>4. Ascending(none) /\ Before(ToSet(none), ToSet(none))
  <2> HIDE DEF none
  <2> QED BY <1>3, NoAnswers
<1>5. Sorted
  BY <1>2, <1>3, <1>4 DEF Sorted
<1>6. Dated
  BY <1>2, <1>3, NoneNotLater DEF Dated
<1>7. Faithful
  <2>1. Compactions(none) = {}
    BY <1>3 DEF Compactions
  <2> HIDE DEF none
  <2>2. Context(none) = none
    BY <1>3, <2>1, ContextWhole
  <2>3. Agree(none, none, <<>>, {})
    BY <1>3, Reloaded
  <2>4. Agree(messages, Context(entries), agentEventQueue, removed)
    BY <1>2, <2>2, <2>3 DEF none
  <2>5. Unhandled(agentEventQueue, lastAssistantMessage) = {}
    BY <1>2, NoneLeft DEF none
  <2>6. TurnOpen
    BY <1>2 DEF TurnOpen
  <2> QED BY <2>4, <2>5, <2>6, NothingSpoken DEF Faithful
<1>8. Voices
  BY <1>2, NothingLatest DEF Voices, none
<1> QED BY <1>1, <1>5, <1>6, <1>7, <1>8 DEF ReloadInv

LEMMA ReloadStep == ReloadInv /\ [Next]_vars => ReloadInv'
<1> SUFFICES ASSUME ReloadInv, [Next]_vars PROVE ReloadInv'
  OBVIOUS
<1>1. SessionTyped /\ MirrorInv /\ OneWait /\ Known /\ Bounded /\ BoundInv /\ Sorted /\ Dated /\ Faithful
      /\ Voices
  BY DEF ReloadInv, BoundInv
<1>2. BoundInv' /\ SessionTyped' /\ Known'
  BY <1>1, BoundStep DEF BoundInv
<1>3. Sorted'
  BY <1>1, SortedStep
<1>4. Dated'
  BY <1>1, <1>2, DatedStep
<1>5. Faithful'
  BY <1>1, <1>2, <1>3, FaithfulStep
<1>6. Voices'
  BY <1>1, <1>2, VoicesStep
<1> QED BY <1>2, <1>3, <1>4, <1>5, <1>6 DEF ReloadInv

\* At rest, when no listener threw, no event fell into the gap of compact() and none was still
\* waited for when a run began, a compaction ended or bash output was recorded: opening the
\* session again gives the model the messages it has now, but for answers taken out for a retry,
\* errors or silent overflows, and for failures the session is never told of; whatever was
\* retried, compacted, recovered or aborted before.
THEOREM ReloadAlwaysFaithful == Spec => []ReloadIsFaithful
<1>1. ReloadInv => ReloadIsFaithful
  <2> SUFFICES ASSUME ReloadInv, agentEventQueue = <<>>, ~missed, ~outOfStep
               PROVE  Without(Context(entries), [kind : {"assistant"}, id : removed, stop : RemovedStops])
                        = Without(messages, [kind : {"failure"}, id : Nat])
    BY DEF ReloadIsFaithful
  <2>1. SessionTyped /\ Bounded /\ Faithful
    BY DEF ReloadInv, BoundInv
  <2>2. Agree(messages, Context(entries), <<>>, removed)
    BY <2>1, FaithfulNow
  <2>3. Context(entries) \in Seq(Message)
    BY <2>1, ContextTyped
  <2>4. Without(Context(entries), Errs(removed)) = Without(messages, Failures)
    BY <2>2, <2>3, AllHeard
  <2> QED BY <2>4 DEF Errs, Failures
<1>2. Spec => []ReloadInv
  BY ReloadInit, ReloadStep, PTL DEF Spec
<1> QED BY <1>1, <1>2, PTL
-----------------------------------------------------------------------------
(* What a call of prompt() waits for is on its way.                          *)

\* The loop stops only with a run under way, a compaction or a promise behind each call.
WaitersServed ==
  \A t \in Texts :
    /\ prompts[t] = "compacting" => jobs[t] # None
    /\ prompts[t] \in {"running", "waitIdle"} => run # "none"
    /\ prompts[t] = "waitRetry" => retryPromise

\* Nothing befell the run that its retry would go on from.
Undisturbed == throws = 0 /\ ~missed /\ ~outOfStep /\ ~displaced

HasEnd(q) == Has(q, Ends)

\* What keeps the promise of a retry: a run, its end still to be processed, or a sleep or a timer
\* with messages agent.continue() accepts.
RetryComes ==
  \/ run # "none"
  \/ HasEnd(agentEventQueue)
  \/ (backoff # None \/ timers > 0) /\ Opens(messages)

\* An end is told behind an answer, heard of before or with it; an error to retry ends the
\* messages, and without it they call for an answer.
EndTold(q, last) == HasEnd(q) => last # None \/ Has(q, Answer)
Resumable(ms, errors) ==
  \A e \in errors : e.stop = "retryable" => ms # <<>> /\ Last(ms) = e /\ Opens(Front(ms))

RetryReady ==
  Undisturbed
    => /\ run = "turn" => Opens(messages)
       /\ EndTold(agentEventQueue, lastAssistantMessage)
       /\ Resumable(messages, Unhandled(agentEventQueue, lastAssistantMessage))
       /\ retryPromise => RetryComes

LEMMA ReadyNext ==
  ASSUME throws' = 0 /\ ~missed' /\ ~outOfStep' /\ ~displaced'
           => /\ run' = "turn" => Opens(messages')
              /\ EndTold(agentEventQueue', lastAssistantMessage')
              /\ Resumable(messages', Unhandled(agentEventQueue', lastAssistantMessage'))
              /\ retryPromise' => \/ run' # "none"
                                  \/ HasEnd(agentEventQueue')
                                  \/ (backoff' # None \/ timers' > 0) /\ Opens(messages')
  PROVE  RetryReady'
BY Rigid DEF RetryReady, Undisturbed, RetryComes

LEMMA ReadyNow ==
  ASSUME RetryReady, Undisturbed, Bounded
  PROVE  /\ run = "turn" => Opens(messages)
         /\ EndTold(agentEventQueue, lastAssistantMessage)
         /\ Resumable(messages, Unhandled(agentEventQueue, lastAssistantMessage))
         /\ retryPromise => RetryComes
         /\ InOrder
BY DEF RetryReady, Undisturbed, Bounded

LEMMA NoneUnhandled ==
  ASSUME NEW q, NEW last, ~Has(q, Errors), last \notin Errors PROVE Unhandled(q, last) = {}
BY DEF Unhandled, Has

\* While a run is under way its end is not told, and no error is left of the run before.
LEMMA RunningReady ==
  ASSUME Bounded', run' # "none",
         throws' = 0 /\ ~missed' /\ ~outOfStep' /\ ~displaced' /\ run' = "turn" => Opens(messages')
  PROVE  RetryReady'
<1> SUFFICES ASSUME ~outOfStep'
             PROVE  /\ EndTold(agentEventQueue', lastAssistantMessage')
                    /\ Resumable(messages', Unhandled(agentEventQueue', lastAssistantMessage'))
  BY ReadyNext
<1>1. ~Has(agentEventQueue', Ends) /\ ~Has(agentEventQueue', Errors) /\ lastAssistantMessage' \notin Errors
  BY RigidKinds DEF Bounded, InOrder, Plain
<1>2. Unhandled(agentEventQueue', lastAssistantMessage') = {}
  BY <1>1, NoneUnhandled
<1> QED BY <1>1, <1>2 DEF EndTold, HasEnd, Resumable

\* With no run and all processed only the promise is left to keep.
LEMMA IdleReady ==
  ASSUME Bounded', run' = "none",
         throws' = 0 /\ ~missed' /\ ~outOfStep' /\ ~displaced'
           => /\ agentEventQueue' = <<>>
              /\ retryPromise' => (backoff' # None \/ timers' > 0) /\ Opens(messages')
  PROVE  RetryReady'
<1> SUFFICES ASSUME ~outOfStep', agentEventQueue' = <<>>
             PROVE  /\ EndTold(agentEventQueue', lastAssistantMessage')
                    /\ Resumable(messages', Unhandled(agentEventQueue', lastAssistantMessage'))
  BY ReadyNext
<1>1. \A K : ~Has(agentEventQueue', K)
  BY HasNothing
<1>2. lastAssistantMessage' \notin Errors
  <2>1. lastAssistantMessage' \in Errors => agentEventQueue' = <<AgentEnd>>
    BY RigidKinds DEF Bounded, InOrder, AgentEnd
  <2> QED BY <2>1
<1>3. Unhandled(agentEventQueue', lastAssistantMessage') = {}
  BY <1>1, <1>2, NoneUnhandled
<1> QED BY <1>1, <1>3 DEF EndTold, HasEnd, Resumable

\* A step that leaves messages, events and the run alone, and no promise alone.
LEMMA QuietReady ==
  ASSUME RetryReady,
         UNCHANGED <<run, messages, agentEventQueue, lastAssistantMessage,
                     throws, missed, outOfStep, displaced>>,
         retryPromise' => retryPromise,
         retryPromise' /\ run = "none" /\ Opens(messages) /\ (backoff # None \/ timers > 0)
           => backoff' # None \/ timers' > 0
  PROVE  RetryReady'
<1>1. throws' = 0 /\ ~missed' /\ ~outOfStep' /\ ~displaced'
        => /\ run = "turn" => Opens(messages)
           /\ EndTold(agentEventQueue, lastAssistantMessage)
           /\ Resumable(messages, Unhandled(agentEventQueue, lastAssistantMessage))
           /\ retryPromise => RetryComes
  BY DEF RetryReady, Undisturbed
<1> QED BY <1>1, ReadyNext DEF RetryComes

\* A run begins, or goes on after its tools.
LEMMA SaysReady == ASSUME Bounded', NEW b, Says(b) PROVE RetryReady'
<1>1. run' # "none" /\ Opens(messages')
  BY DEF Says
<1> QED BY <1>1, RunningReady

\* The timer finds a run, or messages it can go on from.
LEMMA TimerReady ==
  ASSUME SessionTyped, MirrorInv, Bounded', RetryReady, TimerFires PROVE RetryReady'
<1>1. CASE \E b : Says(b)
  BY <1>1, SaysReady
<1>2. CASE UNCHANGED <<agentVars, agentEventQueue, missed, outOfStep>>
  <2>1. UNCHANGED <<run, messages, agentEventQueue, lastAssistantMessage, throws, missed, outOfStep,
                    displaced, retryPromise>>
    BY <1>2 DEF TimerFires, agentVars
  <2>2. ASSUME run = "none", Opens(messages) PROVE FALSE
    <3>1. messages # <<>> /\ ~IsAssistant(Last(messages))
      BY <2>2 DEF Opens, Open
    <3>2. Last(messages) # None
      BY <3>1, FrontOf, Kinds DEF SessionTyped
    <3>3. StartRun(<<>>, FALSE, steeringQueue, followUpQueue)
      BY <2>2, <3>1, <3>2 DEF TimerFires
    <3>4. run' = "turn"
      BY <3>3 DEF StartRun
    <3> QED BY <2>1, <2>2, <3>4
  <2> QED BY <2>1, <2>2, QuietReady
<1> QED BY <1>1, <1>2, TimerSays

LEMMA SendPromptReady ==
  ASSUME SessionTyped, MirrorInv, Bounded', RetryReady, NEW t \in Texts, SendPrompt(t) PROVE RetryReady'
<1>1. CASE \E b : Says(b)
  BY <1>1, SaysReady
<1>2. CASE UNCHANGED <<agentVars, agentEventQueue, missed, outOfStep>>
  <2>1. UNCHANGED <<run, messages, agentEventQueue, lastAssistantMessage, throws, missed, outOfStep,
                    displaced, retryPromise, backoff, timers>>
    BY <1>2 DEF SendPrompt, agentVars
  <2> QED BY <2>1, QuietReady
<1> QED BY <1>1, <1>2, SendPromptSays

\* The model's answer: an error ends messages that called for an answer.
LEMMA AnswerReady ==
  ASSUME SessionTyped, MirrorInv, Bounded, Bounded', RetryReady, NEW m, NEW b, Concludes(m, b),
         run = "turn", UNCHANGED <<lastAssistantMessage, throws, outOfStep, displaced>>
  PROVE  RetryReady'
<1> DEFINE q == agentEventQueue
           one == <<m>>
           end == <<AgentEnd>>
           last == lastAssistantMessage
<1>1. /\ m \in Answer /\ b \in Seq(Users) /\ messages' = messages \o (one \o b)
      /\ \/ run' # "none" /\ (run' = "turn" => b # <<>>)
         \/ Emit(one \o end) /\ run' = "none" /\ b = <<>>
  BY DEF Concludes
<1>2. m \in Message /\ one \in Seq(Event) /\ one \in Seq(Message) /\ messages \in Seq(Message)
  BY <1>1, Kinds, OneElement DEF Event, SessionTyped
<1>3. b \in Seq(Speech) /\ b \in Seq(Message)
  <2>1. b \in Seq(Speech)
    BY <1>1, SpeechIs, SeqMonotonic
  <2> QED BY <2>1, SpeechSays
<1>4. CASE run' # "none"
  <2>1. ASSUME b # <<>> PROVE Opens(messages')
    <3>1. messages \o one \in Seq(Message) /\ messages' = (messages \o one) \o b
      BY <1>1, <1>2, <1>3, ConcatProperties, ConcatAssociative
    <3>2. Opens((messages \o one) \o b)
      BY <1>3, <2>1, <3>1, OpensJoins
    <3> QED BY <3>1, <3>2
  <2> QED BY <1>1, <1>4, <2>1, RunningReady
<1>5. CASE run' = "none"
  <2> SUFFICES ASSUME throws' = 0, ~missed', ~outOfStep', ~displaced'
               PROVE  /\ EndTold(agentEventQueue', lastAssistantMessage')
                      /\ Resumable(messages', Unhandled(agentEventQueue', lastAssistantMessage'))
                      /\ HasEnd(agentEventQueue')
    BY <1>5, ReadyNext
  <2>1. end \in Seq(Event) /\ q \in Seq(Event) /\ ~Has(end, Answer) /\ Has(end, Ends)
    BY Apart, QueueTyped, OneElement, HasOne DEF Ends
  <2> HIDE DEF end
  <2>2. one \o end \in Seq(Event)
    BY <1>2, <2>1, ConcatProperties
  <2>3. ~missed /\ agentEventQueue' = q \o (one \o end)
    BY <1>1, <1>5, <2>2, ToldAll
  <2>4. Undisturbed
    BY <2>3 DEF Undisturbed
  <2>5. Opens(messages) /\ InOrder
    BY <2>4, ReadyNow
  <2>6. \A K : Has(agentEventQueue', K) <=> Has(q, K) \/ m \in K \/ Has(end, K)
    <3>1. \A K : Has(q \o (one \o end), K) <=> Has(q, K) \/ Has(one \o end, K)
      BY <2>1, <2>2, HasBoth
    <3>2. \A K : Has(one \o end, K) <=> Has(one, K) \/ Has(end, K)
      BY <1>2, <2>1, HasBoth
    <3>3. \A K : Has(one, K) <=> m \in K
      BY HasOne
    <3> QED BY <2>3, <3>1, <3>2, <3>3
  <2>7. HasEnd(agentEventQueue') /\ Has(agentEventQueue', Answer)
    BY <1>1, <2>1, <2>6 DEF HasEnd
  <2>8. Unhandled(agentEventQueue', lastAssistantMessage') \subseteq {m}
    <3>1. ~Has(q, Errors) /\ last \notin Errors
      BY <2>5 DEF InOrder, Plain
    <3>2. Errors \subseteq Answer
      BY DEF Errors
    <3>3. ASSUME NEW e \in Errors, e = lastAssistantMessage' \/ Has(agentEventQueue', {e}) PROVE e = m
      <4>1. ~Has(q, {e}) /\ ~Has(end, {e}) /\ e # lastAssistantMessage'
        BY <2>1, <3>1, <3>2 DEF Has
      <4> QED BY <2>6, <3>3, <4>1
    <3> QED BY <3>3 DEF Unhandled
  <2>9. messages' # <<>> /\ Last(messages') = m /\ Front(messages') = messages
    <3>1. messages' = Append(messages, m)
      <4>1. one \o b = one
        BY <1>1, <1>2, <1>5, ConcatEmptySeq
      <4>2. messages \o one = Append(messages, m)
        BY <1>2, AppendIsConcat
      <4> QED BY <1>1, <4>1, <4>2
    <3> QED BY <1>2, <3>1, FrontOfAppend
  <2> QED BY <2>5, <2>7, <2>8, <2>9 DEF EndTold, Resumable
<1> QED BY <1>4, <1>5

\* A message is processed: what is still to be heard is no more than before.
LEMMA MessageReady ==
  ASSUME SessionTyped, MirrorInv, Bounded, RetryReady, ProcessMessage PROVE RetryReady'
<1> SUFFICES ASSUME throws' = 0, ~missed', ~outOfStep', ~displaced'
             PROVE  /\ run' = "turn" => Opens(messages')
                    /\ EndTold(agentEventQueue', lastAssistantMessage')
                    /\ Resumable(messages', Unhandled(agentEventQueue', lastAssistantMessage'))
                    /\ retryPromise' => \/ run' # "none"
                                        \/ HasEnd(agentEventQueue')
                                        \/ (backoff' # None \/ timers' > 0) /\ Opens(messages')
  BY ReadyNext
<1> DEFINE q == agentEventQueue
           e == Head(q)
           last == lastAssistantMessage
<1>1. /\ q # <<>> /\ e # AgentEnd /\ agentEventQueue' = Tail(q)
      /\ lastAssistantMessage' = IF e.kind = "assistant" THEN e ELSE last
      /\ UNCHANGED <<messages, run, throws, missed, outOfStep, displaced, retryPromise, backoff, timers>>
  BY DEF ProcessMessage, agentVars, ghostVars
<1>2. /\ run = "turn" => Opens(messages)
      /\ EndTold(q, last) /\ Resumable(messages, Unhandled(q, last)) /\ (retryPromise => RetryComes)
  <2>1. Undisturbed
    BY <1>1 DEF Undisturbed
  <2> QED BY <2>1, ReadyNow
<1>3. q \in Seq(Event) /\ e \in Message
  <2>1. q \in Seq(Event)
    BY QueueTyped
  <2>2. e \in Event
    BY <1>1, <2>1, HeardLess
  <2> QED BY <1>1, <2>1, <2>2 DEF Event
<1>4. \A K : Has(q, K) <=> e \in K \/ Has(agentEventQueue', K)
  <2>1. \A K : Has(q, K) <=> e \in K \/ Has(Tail(q), K)
    BY <1>1, <1>3, HasFirst
  <2> QED BY <1>1, <2>1
<1> HIDE DEF e
<1>5. HasEnd(agentEventQueue') <=> HasEnd(q)
  BY <1>1, <1>4 DEF HasEnd, Ends
<1>6. Unhandled(agentEventQueue', lastAssistantMessage') \subseteq Unhandled(q, last)
  BY <1>1, <1>4 DEF Unhandled
<1>7. EndTold(agentEventQueue', lastAssistantMessage')
  <2>1. CASE e \in Answer
    <3>1. lastAssistantMessage' = e /\ e # None
      BY <1>1, <2>1, Kinds
    <3> QED BY <3>1 DEF EndTold
  <2>2. CASE e \notin Answer
    <3>1. lastAssistantMessage' = last
      BY <1>1, <1>3, <2>2, Kinds
    <3> QED BY <1>2, <1>4, <1>5, <2>2, <3>1 DEF EndTold
  <2> QED BY <2>1, <2>2
<1>8. Resumable(messages', Unhandled(agentEventQueue', lastAssistantMessage'))
  BY <1>1, <1>2, <1>6 DEF Resumable
<1> QED BY <1>1, <1>2, <1>5, <1>7, <1>8 DEF RetryComes

\* agent_end after an error to retry: without it the messages call for an answer.
LEMMA RetryEndReady ==
  ASSUME SessionTyped, MirrorInv, Bounded, Bounded', RetryReady, ProcessRetry PROVE RetryReady'
<1> DEFINE q == agentEventQueue
           m == lastAssistantMessage
<1>1. /\ q # <<>> /\ Head(q) = AgentEnd /\ agentEventQueue' = Tail(q)
      /\ m # None /\ m.stop = "retryable" /\ messages' = WithoutLastAnswer(messages) /\ backoff' = m
      /\ UNCHANGED <<run, throws, missed, outOfStep, displaced>>
  BY DEF ProcessRetry, MayRetry
<1>2. ASSUME ~outOfStep PROVE Tail(q) = <<>> /\ run = "none"
  BY <1>1, <1>2, EndIsLast DEF Bounded
<1>3. ASSUME throws' = 0, ~missed', ~outOfStep', ~displaced' PROVE Opens(messages')
  <2>1. Resumable(messages, Unhandled(q, m))
    <3>1. Undisturbed
      BY <1>1, <1>3 DEF Undisturbed
    <3> QED BY <3>1, ReadyNow
  <2>2. m \in Errors /\ IsAssistant(m)
    <3>1. m \in Answer
      BY <1>1 DEF SessionTyped
    <3> QED BY <1>1, <3>1, Kinds DEF Errors, ErrorStops, IsAssistant
  <2>3. messages # <<>> /\ Last(messages) = m /\ Opens(Front(messages))
    BY <1>1, <2>1, <2>2 DEF Resumable, Unhandled
  <2>4. messages' = Front(messages)
    BY <1>1, <2>2, <2>3 DEF WithoutLastAnswer
  <2> QED BY <2>3, <2>4
<1>4. CASE outOfStep
  BY <1>1, <1>4, ReadyNext
<1>5. CASE ~outOfStep
  BY <1>1, <1>2, <1>3, <1>5, IdleReady
<1> QED BY <1>4, <1>5

\* agent_end otherwise: an answer was heard of, and the promise is resolved.
LEMMA EndReady ==
  ASSUME SessionTyped, MirrorInv, Bounded, Bounded', RetryReady, ProcessEnd PROVE RetryReady'
<1> DEFINE q == agentEventQueue
           m == lastAssistantMessage
<1>1. /\ q # <<>> /\ Head(q) = AgentEnd /\ agentEventQueue' = Tail(q)
      /\ m # None => retryPromise' = FALSE
      /\ UNCHANGED <<run, throws, missed, outOfStep, displaced>>
  BY DEF ProcessEnd, ResolveRetry
<1>2. ASSUME ~outOfStep PROVE q = <<AgentEnd>> /\ Tail(q) = <<>> /\ run = "none"
  BY <1>1, <1>2, EndIsLast DEF Bounded
<1>3. ASSUME throws' = 0, ~missed', ~outOfStep', ~displaced' PROVE m # None
  <2>1. EndTold(q, m)
    <3>1. Undisturbed
      BY <1>1, <1>3 DEF Undisturbed
    <3> QED BY <3>1, ReadyNow
  <2>2. q = <<AgentEnd>>
    BY <1>1, <1>2, <1>3
  <2> HIDE DEF q, m
  <2>3. \A K : Has(q, K) <=> AgentEnd \in K
    BY <2>2, HasOne
  <2>4. AgentEnd \in Ends /\ AgentEnd \notin Answer
    BY DEF Ends, AgentEnd, Answer
  <2> QED BY <2>1, <2>3, <2>4 DEF EndTold, HasEnd
<1>4. CASE outOfStep
  BY <1>1, <1>4, ReadyNext
<1>5. CASE ~outOfStep
  BY <1>1, <1>2, <1>3, <1>5, IdleReady
<1> QED BY <1>4, <1>5

\* A compaction that replaces the messages of a run or of a retry disturbs it.
LEMMA CompactionReady ==
  ASSUME Bounded', NEW o \in Owners, CompactionEnds(o) PROVE RetryReady'
<1>1. /\ outOfStep' = (outOfStep \/ agentEventQueue # <<>>)
      /\ displaced' = (displaced \/ run # "none" \/ retryPromise)
      /\ UNCHANGED <<run, agentEventQueue, retryPromise>>
  BY DEF CompactionEnds
<1>2. CASE run # "none"
  BY <1>1, <1>2, ReadyNext
<1>3. CASE run = "none"
  BY <1>1, <1>3, IdleReady
<1> QED BY <1>2, <1>3

\* Bash output calls for an answer like a user's message.
LEMMA BashReady ==
  ASSUME SessionTyped, Bounded', RetryReady, RecordBash PROVE RetryReady'
<1>1. /\ UNCHANGED <<run, agentEventQueue, lastAssistantMessage, missed>>
      /\ \/ run # "none" /\ UNCHANGED <<messages, outOfStep>>
         \/ /\ run = "none" /\ outOfStep' = (outOfStep \/ agentEventQueue # <<>>)
            /\ \E b \in Seq(Speech) : messages' = messages \o b
  BY BashSays
<1>2. UNCHANGED <<throws, displaced, retryPromise, backoff, timers>>
  BY DEF RecordBash
<1>3. CASE UNCHANGED <<messages, outOfStep>>
  BY <1>1, <1>2, <1>3, QuietReady
<1>4. ASSUME run = "none", outOfStep' = (outOfStep \/ agentEventQueue # <<>>),
             NEW b \in Seq(Speech), messages' = messages \o b
      PROVE  RetryReady'
  <2>1. ASSUME throws' = 0, ~missed', ~outOfStep', ~displaced', retryPromise'
        PROVE  (backoff' # None \/ timers' > 0) /\ Opens(messages')
    <3>1. RetryComes
      BY <1>1, <1>2, <1>4, <2>1 DEF RetryReady, Undisturbed
    <3>2. ~HasEnd(agentEventQueue)
      BY <1>4, <2>1, HasNothing DEF HasEnd
    <3>3. (backoff # None \/ timers > 0) /\ Opens(messages)
      BY <1>4, <3>1, <3>2 DEF RetryComes
    <3>4. Opens(messages \o b)
      BY <3>3, OpensJoins DEF SessionTyped
    <3> QED BY <1>2, <1>4, <3>3, <3>4
  <2> QED BY <1>1, <1>4, <2>1, IdleReady
<1> QED BY <1>1, <1>3, <1>4

\* prompt() takes no retryable error out, and nothing that calls for an answer.
LEMMA PromptReady ==
  ASSUME SessionTyped, MirrorInv, Known, Sorted, Bounded, Bounded', RetryReady,
         NEW t \in Texts, Prompt(t)
  PROVE  RetryReady'
<1> DEFINE p == pendingBashMessages
           q == agentEventQueue
           ms == messages \o p
           es == entries \o p
           errors == Unhandled(q, lastAssistantMessage)
<1>1. /\ run = "none" /\ run' = "none" /\ ms \in Seq(Message)
      /\ outOfStep' = (outOfStep \/ (p # <<>> /\ q # <<>>))
      /\ UNCHANGED <<agentEventQueue, lastAssistantMessage, missed>>
  BY PromptChecks
<1>2. UNCHANGED <<throws, displaced, retryPromise, backoff, timers>>
  BY DEF Prompt
<1> SUFFICES ASSUME throws' = 0, ~missed', ~outOfStep', ~displaced'
             PROVE  /\ EndTold(agentEventQueue', lastAssistantMessage')
                    /\ Resumable(messages', Unhandled(agentEventQueue', lastAssistantMessage'))
                    /\ retryPromise' => \/ HasEnd(agentEventQueue')
                                        \/ (backoff' # None \/ timers' > 0) /\ Opens(messages')
  BY <1>1, ReadyNext
<1>3. /\ EndTold(q, lastAssistantMessage) /\ Resumable(messages, errors)
      /\ retryPromise => RetryComes
      /\ InOrder /\ (p = <<>> \/ q = <<>>)
  <2>1. Undisturbed /\ (p = <<>> \/ q = <<>>)
    BY <1>1, <1>2 DEF Undisturbed
  <2> QED BY <2>1, ReadyNow
<1>4. PICK m \in ToSet(ms) \cup {None} : /\ CheckCompaction(t, m, ms, es, removed)
                                         /\ ms # <<>> /\ IsAssistant(Last(ms)) => Last(ms) = m
  BY PromptChecks
<1>5. messages' = ms \/ (m.stop \in {"overflow", "silent"} /\ messages' = WithoutLastAnswer(ms))
  BY <1>4, CheckTakes, ReasonsAre
<1>6. Resumable(messages', errors)
  <2> SUFFICES ASSUME NEW e \in errors, e.stop = "retryable"
               PROVE  messages' # <<>> /\ Last(messages') = e /\ Opens(Front(messages'))
    BY DEF Resumable
  <2>1. messages # <<>> /\ Last(messages) = e /\ Opens(Front(messages))
    BY <1>3 DEF Resumable
  <2>2. p = <<>>
    <3>1. q # <<>>
      BY <1>3, NothingUnhandled
    <3> QED BY <1>3, <3>1
  <2>3. ms = messages
    BY <2>2, ConcatEmptySeq DEF SessionTyped
  <2>4. IsAssistant(e)
    BY Kinds DEF Unhandled, Errors, IsAssistant
  <2>5. m = e
    BY <1>4, <2>1, <2>3, <2>4
  <2>6. messages' = messages
    BY <1>5, <2>3, <2>5
  <2> QED BY <2>1, <2>6
<1>7. ASSUME Opens(messages) PROVE Opens(messages')
  <2>1. p \in Seq(Speech)
    <3>1. p \in Seq(Message) /\ ~Has(p, Answer) /\ ~Has(p, Failures)
      BY DEF SessionTyped, Known, Sorted
    <3>2. ~Has(p, Answer \cup Failures)
      BY <3>1 DEF Has
    <3> QED BY <3>1, <3>2, AllOutside DEF Speech
  <2>2. Opens(ms)
    BY <1>7, <2>1, OpensJoins DEF SessionTyped
  <2>3. WithoutLastAnswer(ms) = ms
    BY <2>2 DEF WithoutLastAnswer, Opens, Open
  <2> QED BY <1>5, <2>2, <2>3
<1> HIDE DEF p, ms, es
<1>8. agentEventQueue' = q /\ lastAssistantMessage' = lastAssistantMessage
  BY <1>1
<1>9. Unhandled(agentEventQueue', lastAssistantMessage') = errors
  BY <1>8
<1>10. EndTold(agentEventQueue', lastAssistantMessage')
  BY <1>3, <1>8
<1>11. retryPromise' => \/ HasEnd(agentEventQueue')
                        \/ (backoff' # None \/ timers' > 0) /\ Opens(messages')
  BY <1>1, <1>2, <1>3, <1>7, <1>8 DEF RetryComes
<1> QED BY <1>6, <1>9, <1>10, <1>11

LEMMA ReadyStep ==
  ASSUME SessionTyped, MirrorInv, OneWait, Known, Bounded, Bounded', Sorted, Dated, RetryReady, [Next]_vars
  PROVE  RetryReady'
<1>1. CASE \E stop \in AllStops \cup {"aborted"} : Answers(stop)
  <2>1. UNCHANGED <<throws, displaced>>
    BY <1>1 DEF Answers
  <2> QED BY <1>1, <2>1, AnswerConcludes, AnswerReady
<1>2. CASE ToolsEnd
  BY <1>2, ToolsEndSays, SaysReady
<1>3. CASE \E retryable \in BOOLEAN : StreamThrows(retryable)
  <2>1. throws' = throws + 1 /\ throws \in Nat
    BY <1>3 DEF StreamThrows, SessionTyped
  <2> QED BY <2>1, ReadyNext
<1>4. CASE AbortEffects
  <2>1. UNCHANGED messages
    BY <1>4, AbortDated
  <2>2. /\ UNCHANGED <<run, agentEventQueue, lastAssistantMessage, throws, missed, outOfStep, displaced>>
        /\ retryPromise' = FALSE
    BY <1>4 DEF AbortEffects, ResolveRetry
  <2> QED BY <2>1, <2>2, QuietReady
<1>5. CASE BackoffEnds
  <2>1. /\ UNCHANGED <<run, messages, agentEventQueue, lastAssistantMessage, throws, missed, outOfStep,
                       displaced, retryPromise>>
        /\ timers' = timers + 1 /\ timers \in Nat
    BY <1>5 DEF BackoffEnds, agentVars, ghostVars, SessionTyped
  <2> QED BY <2>1, QuietReady
<1>6. CASE \/ (\E o \in Owners : CompactionFails(o)) \/ CompactBegins
           \/ (\E t \in Texts : Steer(t) \/ FollowUp(t)) \/ ClearQueue \/ UNCHANGED vars
  <2>1. UNCHANGED <<run, messages, agentEventQueue, lastAssistantMessage, throws, missed, outOfStep,
                    displaced, retryPromise, backoff, timers>>
    BY <1>6 DEF CompactionFails, CompactBegins, Steer, FollowUp, ClearQueue,
                vars, agentVars, sessionVars, ghostVars
  <2> QED BY <2>1, QuietReady
<1>7. CASE ListenerThrows
  BY <1>7, ReadyNext DEF ListenerThrows
<1> QED BY <1>1, <1>2, <1>3, <1>4, <1>5, <1>6, <1>7, TimerReady, SendPromptReady, MessageReady, RetryEndReady,
           EndReady, CompactionReady, BashReady, PromptReady
    DEF Next, SystemStep, UserStep, Abort, Compact

-----------------------------------------------------------------------------
(* ... and every call waits for something that is there.                     *)

\* A step that moves no call.
LEMMA StillServed ==
  ASSUME WaitersServed, UNCHANGED prompts, run # "none" => run' # "none", retryPromise => retryPromise',
         \A t \in Texts : jobs'[t] = jobs[t]
  PROVE  WaitersServed'
BY Rigid DEF WaitersServed

\* The end of a run, and of a retry.
LEMMA RunEndServed ==
  ASSUME MirrorInv, WaitersServed, UNCHANGED jobs, NEW events, NEW retryable, EndRun(events, retryable)
  PROVE  WaitersServed'
<1>1. \A t \in Texts :
        /\ prompts[t] = "running" => prompts'[t] = IF retryPromise' THEN "waitRetry" ELSE "returned"
        /\ prompts[t] = "waitIdle" => prompts'[t] = "returned"
        /\ prompts[t] \notin {"running", "waitIdle"} => prompts'[t] = prompts[t]
  BY DEF EndRun
<1>2. retryPromise => retryPromise'
  BY DEF EndRun
<1> QED BY <1>1, <1>2, Rigid DEF WaitersServed

LEMMA RetryResolvedServed ==
  ASSUME MirrorInv, WaitersServed, UNCHANGED run, ResolveRetry, \A t \in Texts : jobs'[t] = jobs[t]
  PROVE  WaitersServed'
<1>1. \A t \in Texts :
        /\ prompts[t] = "waitRetry" => prompts'[t] = IF run = "none" THEN "returned" ELSE "waitIdle"
        /\ prompts[t] # "waitRetry" => prompts'[t] = prompts[t]
  BY DEF ResolveRetry
<1> QED BY <1>1, Rigid DEF WaitersServed

LEMMA ReleasedServed ==
  ASSUME MirrorInv, WaitersServed, UNCHANGED <<run, retryPromise>>, NEW o \in Owners, Released(o)
  PROVE  WaitersServed'
<1>1. DOMAIN jobs = Owners /\ prompts \in [Texts -> Status]
  BY DEF MirrorInv, MirrorTyped
<1>2. \A t \in Texts : t # o => jobs'[t] = jobs[t] /\ prompts'[t] = prompts[t]
  BY <1>1, Who DEF Released
<1>3. o \in Texts => prompts'[o] = "ready"
  BY <1>1 DEF Released
<1> QED BY <1>2, <1>3, Rigid DEF WaitersServed

LEMMA PromptServed ==
  ASSUME MirrorInv, WaitersServed, NEW t \in Texts, Prompt(t) PROVE WaitersServed'
<1> DEFINE ms == messages \o pendingBashMessages
           es == entries \o pendingBashMessages
           lasts == {i \in DOMAIN ms : IsAssistant(ms[i])}
           m == IF lasts = {} THEN None ELSE ms[Max(lasts)]
<1>1. /\ CheckCompaction(t, m, ms, es, removed)
      /\ prompts' = [prompts EXCEPT ![t] = IF jobs'[t] = None THEN "ready" ELSE "compacting"]
      /\ UNCHANGED <<run, retryPromise>>
  BY DEF Prompt
<1> HIDE DEF ms, es, m
<1>2. \A u \in Texts : u # t => jobs'[u] = jobs[u]
  BY <1>1, Who, CheckStarts
<1>3. prompts \in [Texts -> Status]
  BY DEF MirrorInv, MirrorTyped
<1>4. /\ prompts'[t] = IF jobs'[t] = None THEN "ready" ELSE "compacting"
      /\ \A u \in Texts : u # t => prompts'[u] = prompts[u]
  BY <1>1, <1>3
<1> QED BY <1>1, <1>2, <1>4, Rigid DEF WaitersServed

LEMMA SendPromptServed ==
  ASSUME MirrorInv, WaitersServed, NEW t \in Texts, SendPrompt(t) PROVE WaitersServed'
<1>1. prompts \in [Texts -> Status] /\ UNCHANGED <<jobs, retryPromise>>
  BY DEF MirrorInv, MirrorTyped, SendPrompt
<1>2. \/ run' = "turn" /\ prompts' = [prompts EXCEPT ![t] = "running"]
      \/ run' = run /\ prompts' = [prompts EXCEPT ![t] = "returned"]
  BY DEF SendPrompt, StartRun, agentVars
<1>3. /\ \A u \in Texts : u # t => prompts'[u] = prompts[u]
      /\ \/ run' = "turn" /\ prompts'[t] = "running"
         \/ run' = run /\ prompts'[t] = "returned"
  BY <1>1, <1>2
<1> QED BY <1>1, <1>3, Rigid DEF WaitersServed

LEMMA ServedStep ==
  ASSUME MirrorInv, WaitersServed, [Next]_vars PROVE WaitersServed'
<1>1. CASE \E stop \in AllStops \cup {"aborted"} : Answers(stop)
  <2>1. UNCHANGED jobs
    BY <1>1 DEF Answers
  <2>2. \/ UNCHANGED <<prompts, retryPromise>> /\ run' # "none"
        \/ \E events, retryable : EndRun(events, retryable)
    BY <1>1 DEF Answers
  <2> QED BY <2>1, <2>2, StillServed, RunEndServed
<1>2. CASE \E retryable \in BOOLEAN : StreamThrows(retryable)
  BY <1>2, RunEndServed DEF StreamThrows
<1>3. CASE AbortEffects
  <2>1. UNCHANGED run /\ ResolveRetry
    BY <1>3 DEF AbortEffects
  <2>2. \A t \in Texts : jobs'[t] = jobs[t]
    BY <1>3, Who, CheckStarts DEF AbortEffects
  <2> QED BY <2>1, <2>2, RetryResolvedServed
<1>4. CASE ProcessEnd
  <2>1. CASE lastAssistantMessage = None
    BY <1>4, <2>1, StillServed DEF ProcessEnd
  <2>2. CASE lastAssistantMessage # None
    <3>1. UNCHANGED run /\ ResolveRetry /\ CheckCompaction(Handler, lastAssistantMessage, messages, entries, removed)
      BY <1>4, <2>2 DEF ProcessEnd
    <3>2. \A t \in Texts : jobs'[t] = jobs[t]
      BY <3>1, Who, CheckStarts
    <3> QED BY <3>1, <3>2, RetryResolvedServed
  <2> QED BY <2>1, <2>2
<1>5. ASSUME NEW o \in Owners, CompactionEnds(o) \/ CompactionFails(o) PROVE WaitersServed'
  <2>1. Released(o) /\ UNCHANGED <<run, retryPromise>>
    BY <1>5 DEF CompactionEnds, CompactionFails, agentVars
  <2> QED BY <2>1, ReleasedServed
<1>6. CASE CompactBegins
  <2>1. UNCHANGED <<run, prompts, retryPromise>>
    BY <1>6 DEF CompactBegins, agentVars
  <2>2. \A t \in Texts : jobs'[t] = jobs[t]
    BY <1>6, Who DEF CompactBegins, MirrorInv, MirrorTyped
  <2> QED BY <2>1, <2>2, StillServed
<1>7. ASSUME NEW t \in Texts, Steer(t) \/ FollowUp(t) PROVE WaitersServed'
  <2>1. UNCHANGED <<run, retryPromise, jobs>> /\ prompts' = [prompts EXCEPT ![t] = "queued"]
    BY <1>7 DEF Steer, FollowUp
  <2>2. \A u \in Texts : prompts'[u] = prompts[u] \/ prompts'[u] = "queued"
    BY <2>1 DEF MirrorInv, MirrorTyped
  <2> QED BY <2>1, <2>2, Rigid DEF WaitersServed
<1>8. CASE ToolsEnd \/ ProcessMessage \/ ProcessRetry \/ BackoffEnds \/ TimerFires \/ ClearQueue \/ RecordBash
           \/ ListenerThrows \/ UNCHANGED vars
  <2>1. UNCHANGED <<prompts, jobs>> /\ (retryPromise => retryPromise') /\ (run # "none" => run' # "none")
    BY <1>8 DEF ToolsEnd, ProcessMessage, ProcessRetry, ListenerThrows, BackoffEnds, TimerFires, StartRun, ClearQueue,
                RecordBash, vars, agentVars, sessionVars
  <2> QED BY <2>1, StillServed
<1> QED BY <1>1, <1>2, <1>3, <1>4, <1>5, <1>6, <1>7, <1>8, PromptServed, SendPromptServed
    DEF Next, SystemStep, UserStep, Abort, Compact

\* Of a call of prompt() that has not returned, what it waits for is there: the compaction, the run,
\* the promise of a retry.  And unless the stream function rejected, an event was lost or late, or
\* a compaction replaced the messages under the run or its retry, that promise is being kept: a run
\* is under way, its end is still to be processed, or the retry sleeps or its timer is set and
\* agent.continue() will find messages it accepts.
THEOREM PromptsAreServed == Spec => [](WaitersServed /\ (Undisturbed /\ retryPromise => RetryComes))
<1>1. Init => WaitersServed /\ RetryReady
  <2> SUFFICES ASSUME Init PROVE WaitersServed /\ RetryReady
    OBVIOUS
  <2>1. WaitersServed
    BY DEF Init, WaitersServed
  <2>2. /\ agentEventQueue = <<>> /\ lastAssistantMessage = None /\ run = "none" /\ retryPromise = FALSE
    BY DEF Init
  <2>3. ~HasEnd(agentEventQueue) /\ Unhandled(agentEventQueue, lastAssistantMessage) = {}
    BY <2>2, HasNothing, NoneLeft DEF HasEnd
  <2> QED BY <2>1, <2>2, <2>3 DEF RetryReady, EndTold, Resumable
<1>2. /\ ReloadInv /\ WaitersServed /\ RetryReady /\ [Next]_vars
      /\ ReloadInv'
      => WaitersServed' /\ RetryReady'
  BY ReadyStep, ServedStep DEF ReloadInv, BoundInv
<1>3. ReloadInv /\ [Next]_vars => ReloadInv'
  BY ReloadStep
<1>4. RetryReady => (Undisturbed /\ retryPromise => RetryComes)
  BY DEF RetryReady
<1> QED BY <1>1, <1>2, <1>3, <1>4, ReloadInit, PTL DEF Spec
=============================================================================
