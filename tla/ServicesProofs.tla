--------------------------- MODULE ServicesProofs ---------------------------
(***************************************************************************)
(* Proofs about the services beside the loop: the files that several writers     *)
(* share, which are what the edit and write tools of one process change           *)
(* (FileMutationQueue) and the two files of the agent directory that several       *)
(* processes rewrite (Settings, AuthStorage); the event stream between provider     *)
(* and loop (ProviderStream); and the composition of all nine (MCServices), which   *)
(* keeps what is proved of each of them here and in SessionProofs and MomProofs.    *)
(***************************************************************************)
EXTENDS MCServices, SessionProofs, MomProofs, SequenceTheorems, TLAPS

(***************************************************************************)
(* The mutation queue for any number of calls: its types, that one call at a  *)
(* time is inside under one key, and that the map of queues has exactly the    *)
(* keys in use.  The calls of a key form a chain: each waits for the one before *)
(* it, and the map holds the last; so a call that has left its wait has only    *)
(* settled ones before it.  Where no call works beside another one, whoever     *)
(* writes therefore writes alone, and an edit replaces the text it has read.    *)
(***************************************************************************)
Called(c) == promise[c] # "none"
SameKey(c, d) == mutation[c].key = mutation[d].key

\* An edit has seen the file before it reads it.
ReadsAFile == \A c \in Mutations : body[c] = "read" => content # Absent

MutationTyped == MutationTypeOK /\ ReadsAFile

\* Calls are made in the order of their numbers.
CalledInOrder == \A c, d \in Mutations : d < c /\ Called(c) => Called(d)

\* The map holds an unsettled call of the key...
MapHoldsLive ==
  \A k \in Paths : fileMutationQueues[k] # NoCall =>
    /\ promise[fileMutationQueues[k]] \in {"waiting", "inside"}
    /\ mutation[fileMutationQueues[k]].key = k

\* ...the last one, until all of them are settled.
MapHoldsLast ==
  \A c \in Mutations : Called(c) =>
    /\ fileMutationQueues[mutation[c].key] = NoCall => Settled(c)
    /\ fileMutationQueues[mutation[c].key] # NoCall => c <= fileMutationQueues[mutation[c].key]

\* A call waits for the one before it.
Chained ==
  \A c, d \in Mutations :
    Called(c) /\ SameKey(c, d) /\ d < c =>
      \/ Settled(d)
      \/ mutation[c].behind # NoCall /\ d <= mutation[c].behind /\ mutation[c].behind < c
           /\ SameKey(c, mutation[c].behind)

\* Whoever has stopped waiting has only settled calls before it.
FirstCome ==
  \A c, d \in Mutations :
    promise[c] \notin {"none", "waiting"} /\ SameKey(c, d) /\ d < c => Settled(d)

\* A call that has not entered has no fn.
NotBegun == \A c \in Mutations : promise[c] \in {"none", "waiting"} => body[c] = "none"

\* While fn runs for a call, no other call is inside or still writes.
AloneInside ==
  \A c, d \in Mutations :
    promise[c] = "inside" /\ c # d => promise[d] # "inside" /\ ~Writing(d)

OneWriter == \A c, d \in Mutations : Writing(c) /\ Writing(d) => c = d

\* Until it writes, an edit's text is what the file should hold; a file that is
\* being filled is empty, any other is as it should be.
TextIsCurrent ==
  \A c \in Mutations : Writing(c) /\ mutation[c].tool = "edit" => text[c] = expected

FileIsRight ==
  /\ (\A c \in Mutations : body[c] # "fill") => content = expected
  /\ (\E c \in Mutations : body[c] = "fill") => content = <<>>

WritesInTurn == AloneInside /\ OneWriter /\ TextIsCurrent /\ FileIsRight

EditInv == NotBegun /\ (escaped \/ WritesInTurn)

QueueInv == CalledInOrder /\ MapHoldsLive /\ MapHoldsLast /\ Chained /\ FirstCome

-----------------------------------------------------------------------------
LEMMA MutationTypedInit == MutationInit => MutationTyped
<1> SUFFICES ASSUME MutationInit PROVE MutationTyped
  OBVIOUS
<1>1. <<>> \in Seq(Mutations)
  BY EmptySeq
<1>2. mutation \in [Mutations -> [tool : {"edit", "write"}, key : Paths,
                                  behind : Mutations \cup {NoCall}]]
  BY DEF MutationInit, Paths
<1>3. fileMutationQueues \in [Paths -> Mutations \cup {NoCall}]
  BY DEF MutationInit
<1>4. MutationTypeOK
  BY <1>1, <1>2, <1>3 DEF MutationInit, MutationTypeOK, Steps
<1>5. ReadsAFile
  BY DEF MutationInit, ReadsAFile
<1> QED BY <1>4, <1>5 DEF MutationTyped

\* Settling a call touches only its promise and the map.
LEMMA SettleTyped ==
  ASSUME MutationTypeOK, NEW c \in Mutations, NEW outcome \in {"resolved", "rejected"},
         Settle(c, outcome)
  PROVE  /\ promise' \in [Mutations -> {"none", "waiting", "inside", "resolved", "rejected"}]
         /\ fileMutationQueues' \in [Paths -> Mutations \cup {NoCall}]
BY DEF MutationTypeOK, Settle, Forgotten

LEMMA AbsentIsNoText == Absent \notin Seq(Mutations)
<1>1. Absent[1] = 0 /\ Len(Absent) = 1
  BY DEF Absent
<1>2. \A s \in Seq(Mutations) : Len(s) = 1 => s[1] \in Mutations
  BY ElementOfSeq
<1>3. 0 \notin Mutations
  BY MutationAssumption DEF Mutations
<1> QED BY <1>1, <1>2, <1>3

LEMMA MutationTypedNext == MutationTyped /\ [MutationNext]_mutationVars => MutationTyped'
<1> SUFFICES ASSUME MutationTyped, [MutationNext]_mutationVars
             PROVE  MutationTyped'
  OBVIOUS
<1>t. MutationTypeOK /\ ReadsAFile
  BY DEF MutationTyped
<1>1. ASSUME NEW c \in Mutations, NEW tool \in {"edit", "write"}, NEW path \in Paths,
             Mutate(c, tool, path)
      PROVE  MutationTyped'
  <2>1. KeyOf(path) \in Paths
    BY DEF KeyOf, Paths
  <2>2. fileMutationQueues[KeyOf(path)] \in Mutations \cup {NoCall}
    BY <2>1, <1>t DEF MutationTypeOK
  <2>3. mutation' \in [Mutations -> [tool : {"edit", "write"}, key : Paths,
                                     behind : Mutations \cup {NoCall}]]
    BY <1>1, <1>t, <2>1, <2>2 DEF Mutate, MutationTypeOK
  <2>4. fileMutationQueues' \in [Paths -> Mutations \cup {NoCall}]
    BY <1>1, <1>t, <2>1 DEF Mutate, MutationTypeOK
  <2>5. MutationTypeOK'
    BY <1>1, <1>t, <2>3, <2>4 DEF Mutate, MutationTypeOK
  <2>6. ReadsAFile'
    BY <1>1, <1>t DEF Mutate, ReadsAFile
  <2> QED BY <2>5, <2>6 DEF MutationTyped
<1>2. ASSUME NEW c \in Mutations, Enter(c) PROVE MutationTyped'
  <2>1. fileMutationQueues' \in [Paths -> Mutations \cup {NoCall}]
    BY <1>2, <1>t DEF Enter, Forgotten, MutationTypeOK
  <2>2. body' \in [Mutations -> Steps] /\ escaped' \in BOOLEAN
    BY <1>2, <1>t DEF Enter, MutationTypeOK, Steps
  <2>3. MutationTypeOK'
    BY <1>2, <1>t, <2>1, <2>2 DEF Enter, MutationTypeOK
  <2>4. ReadsAFile'
    BY <1>2, <1>t DEF Enter, ReadsAFile, MutationTypeOK
  <2> QED BY <2>3, <2>4 DEF MutationTyped
<1>3. ASSUME NEW c \in Mutations, Prepares(c) PROVE MutationTyped'
  <2>1. /\ promise' \in [Mutations -> {"none", "waiting", "inside", "resolved", "rejected"}]
        /\ fileMutationQueues' \in [Paths -> Mutations \cup {NoCall}]
    BY <1>3, <1>t, SettleTyped DEF Prepares, MutationTypeOK
  <2>2. body' \in [Mutations -> Steps]
    BY <1>3, <1>t DEF Prepares, GoesOn, MutationTypeOK, Steps
  <2>3. MutationTypeOK'
    BY <1>3, <1>t, <2>1, <2>2 DEF Prepares, MutationTypeOK
  <2>4. ReadsAFile'
    BY <1>3, <1>t DEF Prepares, GoesOn, ReadsAFile, MutationTypeOK
  <2> QED BY <2>3, <2>4 DEF MutationTyped
<1>4. ASSUME NEW c \in Mutations, NEW found \in BOOLEAN, Reads(c, found) PROVE MutationTyped'
  <2>1. /\ promise' \in [Mutations -> {"none", "waiting", "inside", "resolved", "rejected"}]
        /\ fileMutationQueues' \in [Paths -> Mutations \cup {NoCall}]
    BY <1>4, <1>t, SettleTyped DEF Reads, MutationTypeOK
  <2>2. body' \in [Mutations -> Steps]
    BY <1>4, <1>t DEF Reads, GoesOn, MutationTypeOK, Steps
  <2>3. content \in Seq(Mutations)
    BY <1>4, <1>t DEF Reads, ReadsAFile, MutationTypeOK
  <2>4. MutationTypeOK'
    BY <1>4, <1>t, <2>1, <2>2, <2>3 DEF Reads, MutationTypeOK
  <2>5. ReadsAFile'
    BY <1>4, <1>t DEF Reads, GoesOn, ReadsAFile, MutationTypeOK
  <2> QED BY <2>4, <2>5 DEF MutationTyped
<1>5. ASSUME NEW c \in Mutations, Opens(c) PROVE MutationTyped'
  <2>1. <<>> \in Seq(Mutations) /\ <<>> # Absent
    BY EmptySeq DEF Absent
  <2>2. body' \in [Mutations -> Steps]
    BY <1>5, <1>t DEF Opens, GoesOn, MutationTypeOK, Steps
  <2>3. MutationTypeOK'
    BY <1>5, <1>t, <2>1, <2>2 DEF Opens, MutationTypeOK
  <2>4. ReadsAFile'
    BY <1>5, <2>1 DEF Opens, ReadsAFile
  <2> QED BY <2>3, <2>4 DEF MutationTyped
<1>6. ASSUME NEW c \in Mutations, Fills(c) PROVE MutationTyped'
  <2> DEFINE added(before) == IF mutation[c].tool = "edit" THEN Append(before, c) ELSE <<c>>
  <2>1. \A s \in Seq(Mutations) : added(s) \in Seq(Mutations)
    BY AppendProperties
  <2>2. text[c] \in Seq(Mutations) /\ <<>> \in Seq(Mutations)
    BY <1>t, EmptySeq DEF MutationTypeOK
  <2>3. content' = added(text[c]) /\ expected' = added(IF expected = Absent THEN <<>> ELSE expected)
    BY <1>6 DEF Fills
  <2>4. content' \in Seq(Mutations) /\ expected' \in Seq(Mutations)
    BY <2>1, <2>2, <2>3, <1>t DEF MutationTypeOK
  <2>5. Absent \notin Seq(Mutations)
    BY AbsentIsNoText
  <2>6. /\ promise' \in [Mutations -> {"none", "waiting", "inside", "resolved", "rejected"}]
        /\ fileMutationQueues' \in [Paths -> Mutations \cup {NoCall}]
    BY <1>6, <1>t, SettleTyped DEF Fills
  <2>7. body' \in [Mutations -> Steps]
    BY <1>6, <1>t DEF Fills, GoesOn, MutationTypeOK, Steps
  <2>8. MutationTypeOK'
    BY <1>6, <1>t, <2>4, <2>6, <2>7 DEF Fills, MutationTypeOK
  <2>9. ReadsAFile'
    BY <2>4, <2>5 DEF ReadsAFile
  <2> QED BY <2>8, <2>9 DEF MutationTyped
<1>7. ASSUME NEW c \in Mutations, WriteFails(c) PROVE MutationTyped'
  <2>1. /\ promise' \in [Mutations -> {"none", "waiting", "inside", "resolved", "rejected"}]
        /\ fileMutationQueues' \in [Paths -> Mutations \cup {NoCall}]
    BY <1>7, <1>t, SettleTyped DEF WriteFails
  <2>2. body' \in [Mutations -> Steps]
    BY <1>7, <1>t DEF WriteFails, GoesOn, MutationTypeOK, Steps
  <2>3. expected' \in Seq(Mutations) \cup {Absent}
    BY <1>7, <1>t, EmptySeq DEF WriteFails, MutationTypeOK
  <2>4. MutationTypeOK'
    BY <1>7, <1>t, <2>1, <2>2, <2>3 DEF WriteFails, MutationTypeOK
  <2>5. ReadsAFile'
    BY <1>7, <1>t DEF WriteFails, GoesOn, ReadsAFile, MutationTypeOK
  <2> QED BY <2>4, <2>5 DEF MutationTyped
<1>8. CASE AbortMutations
  <2>1. fileMutationQueues' \in [Paths -> Mutations \cup {NoCall}]
    BY <1>8, <1>t DEF AbortMutations, Forgotten, MutationTypeOK
  <2>2. promise' \in [Mutations -> {"none", "waiting", "inside", "resolved", "rejected"}]
    BY <1>8, <1>t DEF AbortMutations, MutationTypeOK
  <2>3. MutationTypeOK'
    BY <1>8, <1>t, <2>1, <2>2 DEF AbortMutations, MutationTypeOK
  <2>4. ReadsAFile'
    BY <1>8, <1>t DEF AbortMutations, ReadsAFile
  <2> QED BY <2>3, <2>4 DEF MutationTyped
<1>9. CASE UNCHANGED mutationVars
  BY <1>9, <1>t DEF mutationVars, MutationTyped, MutationTypeOK, ReadsAFile
<1> QED BY <1>1, <1>2, <1>3, <1>4, <1>5, <1>6, <1>7, <1>8, <1>9 DEF MutationNext, BodyStep

-----------------------------------------------------------------------------
LEMMA CallNumbers == NoCall \notin Mutations /\ Mutations \subseteq Nat
BY MutationAssumption DEF NoCall, Mutations

LEMMA CallOrder ==
  \A m, n, o \in Mutations : (m <= n /\ m # n => m < n) /\ (m < n /\ n < o => m < o)
BY CallNumbers

\* Calls that have only settled ones before them settle, and leave the map.
LEMMA SettlingKeeps ==
  ASSUME MutationTypeOK, QueueInv, NEW S \in SUBSET Mutations,
         \A c \in S : Called(c),
         \A c \in S, d \in Mutations : SameKey(c, d) /\ d < c => Settled(d),
         mutation' = mutation, fileMutationQueues' = Forgotten(fileMutationQueues, S),
         \A c \in S : promise'[c] \in {"resolved", "rejected"},
         \A c \in Mutations \ S : promise'[c] = promise[c]
  PROVE  QueueInv'
<1>1. \A c \in Mutations : Called(c) <=> Called(c)'
  BY DEF Called
<1>2. \A c \in Mutations : Settled(c) => Settled(c)'
  BY DEF Settled
<1>3. \A c, d \in Mutations : SameKey(c, d) <=> SameKey(c, d)'
  BY DEF SameKey
<1>4. CalledInOrder'
  BY <1>1 DEF QueueInv, CalledInOrder
<1>5. MapHoldsLive'
  <2> SUFFICES ASSUME NEW k \in Paths, fileMutationQueues'[k] # NoCall
               PROVE  /\ promise'[fileMutationQueues'[k]] \in {"waiting", "inside"}
                      /\ mutation'[fileMutationQueues'[k]].key = k
    BY DEF MapHoldsLive
  <2>1. fileMutationQueues'[k] = fileMutationQueues[k] /\ fileMutationQueues[k] \notin S
    BY DEF Forgotten
  <2>2. fileMutationQueues[k] \in Mutations
    BY <2>1 DEF MutationTypeOK
  <2> QED BY <2>1, <2>2 DEF QueueInv, MapHoldsLive
<1>8. MapHoldsLast'
  <2> SUFFICES ASSUME NEW c \in Mutations, Called(c)
               PROVE  /\ fileMutationQueues'[mutation[c].key] = NoCall => Settled(c)'
                      /\ fileMutationQueues'[mutation[c].key] # NoCall =>
                           c <= fileMutationQueues'[mutation[c].key]
    BY <1>1 DEF MapHoldsLast
  <2> DEFINE k == mutation[c].key
             q == fileMutationQueues[k]
  <2>1. k \in Paths /\ q \in Mutations \cup {NoCall}
    BY DEF MutationTypeOK
  <2>2. (q = NoCall => Settled(c)) /\ (q # NoCall => c <= q)
    BY DEF QueueInv, MapHoldsLast
  <2>3. CASE q \in S
    <3>1. q # NoCall /\ fileMutationQueues'[k] = NoCall
      BY <2>1, <2>3, CallNumbers DEF Forgotten
    <3>2. mutation[q].key = k
      BY <2>1, <3>1 DEF QueueInv, MapHoldsLive
    <3>3. CASE c = q
      BY <3>1, <3>3, <2>3 DEF Settled
    <3>4. CASE c # q
      <4>1. c < q
        <5>1. q \in Mutations /\ c <= q
          BY <2>2, <2>3, <3>1
        <5> QED BY <5>1, <3>4, CallOrder
      <4>2. Settled(c)
        BY <4>1, <3>2, <2>3 DEF SameKey
      <4> QED BY <4>2, <3>1, <1>2
    <3> QED BY <3>3, <3>4
  <2>4. CASE q \notin S
    <3>1. fileMutationQueues'[k] = q
      BY <2>1, <2>4 DEF Forgotten
    <3> QED BY <2>2, <3>1, <1>2
  <2> QED BY <2>3, <2>4
<1>6. Chained'
  BY <1>1, <1>2, <1>3 DEF QueueInv, Chained, SameKey
<1>7. FirstCome'
  BY <1>2, <1>3 DEF QueueInv, FirstCome
<1> QED BY <1>4, <1>5, <1>6, <1>7, <1>8 DEF QueueInv

\* A call whose predecessor has settled has only settled calls before it.
LEMMA TurnComes ==
  ASSUME MutationTypeOK, QueueInv, NEW c \in Mutations, promise[c] = "waiting", MayEnter(c)
  PROVE  \A d \in Mutations : SameKey(c, d) /\ d < c => Settled(d)
<1> SUFFICES ASSUME NEW d \in Mutations, SameKey(c, d), d < c, ~Settled(d) PROVE FALSE
  OBVIOUS
<1> DEFINE b == mutation[c].behind
<1>1. b # NoCall /\ d <= b /\ SameKey(c, b)
  BY DEF QueueInv, Chained, Called
<1>2. b \in Mutations /\ Settled(b)
  BY <1>1 DEF MutationTypeOK, MayEnter
<1>3. d # b
  BY <1>2
<1>4. d < b
  BY <1>1, <1>2, <1>3, CallOrder
<1>5. SameKey(b, d)
  BY <1>1 DEF SameKey
<1>6. promise[b] \notin {"none", "waiting"}
  BY <1>2 DEF Settled
<1> QED BY <1>2, <1>4, <1>5, <1>6 DEF QueueInv, FirstCome

LEMMA SettleKeeps ==
  ASSUME MutationTypeOK, QueueInv, NEW c \in Mutations, NEW outcome \in {"resolved", "rejected"},
         Settle(c, outcome), mutation' = mutation
  PROVE  QueueInv'
<1>1. CASE promise[c] = "inside"
  <2>1. /\ promise' = [promise EXCEPT ![c] = outcome]
        /\ fileMutationQueues' = Forgotten(fileMutationQueues, {c})
    BY <1>1 DEF Settle
  <2>2. \A d \in Mutations : SameKey(c, d) /\ d < c => Settled(d)
    BY <1>1 DEF QueueInv, FirstCome
  <2>3. /\ promise'[c] \in {"resolved", "rejected"}
        /\ \A d \in Mutations \ {c} : promise'[d] = promise[d]
    BY <2>1 DEF MutationTypeOK
  <2>4. Called(c)
    BY <1>1 DEF Called
  <2> HIDE DEF QueueInv
  <2> QED BY <2>1, <2>2, <2>3, <2>4, SettlingKeeps
<1>2. CASE promise[c] # "inside"
  BY <1>2 DEF Settle, QueueInv, CalledInOrder, MapHoldsLive, MapHoldsLast, Chained, FirstCome, Called, SameKey,
              Settled, Live
<1> QED BY <1>1, <1>2

LEMMA QueueUnchanged ==
  ASSUME QueueInv, UNCHANGED <<mutation, promise, fileMutationQueues>>
  PROVE  QueueInv'
BY DEF QueueInv, CalledInOrder, MapHoldsLive, MapHoldsLast, Chained, FirstCome, Called, SameKey, Settled, Live

LEMMA MutateKeeps ==
  ASSUME MutationTypeOK, QueueInv, NEW c \in Mutations, NEW tool, NEW path \in Paths,
         Mutate(c, tool, path)
  PROVE  QueueInv'
<1> USE DEF Called, Settled, Live, SameKey
<1> DEFINE k == KeyOf(path)
           q == fileMutationQueues[k]
<1>1. k \in Paths /\ q \in Mutations \cup {NoCall}
  BY DEF KeyOf, Paths, MutationTypeOK
<1>2. /\ ~Called(c) /\ Called(c)' /\ Live(c)' /\ ~Settled(c) /\ ~Live(c)
      /\ \A d \in Mutations \ {c} : promise'[d] = promise[d] /\ mutation'[d] = mutation[d]
      /\ mutation'[c].key = k /\ mutation'[c].behind = q
  BY DEF Mutate, MutationTypeOK, Called, Live, Settled
<1>3. \A d \in Mutations : d < c => Called(d)
  <2> SUFFICES ASSUME NEW d \in Mutations, d < c PROVE Called(d)
    OBVIOUS
  <2>1. d \in 1..(c - 1)
    BY MutationAssumption DEF Mutations
  <2> QED BY <2>1 DEF Mutate, Called
<1>4. \A d \in Mutations : Called(d) => d < c
  BY <1>2, CallNumbers DEF QueueInv, CalledInOrder
<1>5. \A d \in Mutations \ {c} :
        /\ Called(d) <=> Called(d)'
        /\ Settled(d) <=> Settled(d)'
        /\ Live(d) <=> Live(d)'
  BY <1>2 DEF Called, Settled, Live
<1>6. CalledInOrder'
  <2> SUFFICES ASSUME NEW x \in Mutations, NEW y \in Mutations, y < x, Called(x)'
               PROVE  Called(y)'
    BY DEF CalledInOrder
  <2>1. CASE x = c
    BY <2>1, <1>3, <1>5, CallNumbers
  <2>2. CASE x # c
    BY <2>2, <1>2, <1>5 DEF QueueInv, CalledInOrder
  <2> QED BY <2>1, <2>2
<1>7. fileMutationQueues' = [fileMutationQueues EXCEPT ![k] = c]
  BY DEF Mutate
<1>8. MapHoldsLive'
  <2> SUFFICES ASSUME NEW j \in Paths, fileMutationQueues'[j] # NoCall
               PROVE  /\ promise'[fileMutationQueues'[j]] \in {"waiting", "inside"}
                      /\ mutation'[fileMutationQueues'[j]].key = j
    BY DEF MapHoldsLive
  <2>1. CASE j = k
    <3>1. fileMutationQueues'[j] = c
      BY <2>1, <1>1, <1>7 DEF MutationTypeOK
    <3> QED BY <2>1, <3>1, <1>2
  <2>2. CASE j # k
    <3>1. fileMutationQueues'[j] = fileMutationQueues[j]
      BY <2>2, <1>7 DEF MutationTypeOK
    <3>2. fileMutationQueues[j] \in Mutations
      BY <3>1 DEF MutationTypeOK
    <3>3. /\ promise[fileMutationQueues[j]] \in {"waiting", "inside"}
          /\ mutation[fileMutationQueues[j]].key = j
      BY <3>1 DEF QueueInv, MapHoldsLive
    <3>4. fileMutationQueues[j] # c
      BY <3>3, <1>2
    <3> QED BY <3>1, <3>2, <3>3, <3>4, <1>2
  <2> QED BY <2>1, <2>2
<1>9. MapHoldsLast'
  <2> SUFFICES ASSUME NEW d \in Mutations, Called(d)'
               PROVE  /\ fileMutationQueues'[mutation'[d].key] = NoCall => Settled(d)'
                      /\ fileMutationQueues'[mutation'[d].key] # NoCall =>
                           d <= fileMutationQueues'[mutation'[d].key]
    BY DEF MapHoldsLast
  <2>1. mutation'[d].key \in Paths
    BY <1>1, <1>2 DEF MutationTypeOK
  <2>2. CASE mutation'[d].key = k
    <3>1. fileMutationQueues'[mutation'[d].key] = c
      BY <2>2, <1>1, <1>7 DEF MutationTypeOK
    <3>2. d <= c
      BY <1>4, <1>5, CallNumbers
    <3> QED BY <3>1, <3>2, CallNumbers
  <2>3. CASE mutation'[d].key # k
    <3>1. d # c
      BY <2>3, <1>2
    <3>2. fileMutationQueues'[mutation'[d].key] = fileMutationQueues[mutation[d].key]
      BY <2>1, <2>3, <3>1, <1>2, <1>7 DEF MutationTypeOK
    <3>3. Called(d)
      BY <3>1, <1>5
    <3>4. /\ fileMutationQueues[mutation[d].key] = NoCall => Settled(d)
          /\ fileMutationQueues[mutation[d].key] # NoCall => d <= fileMutationQueues[mutation[d].key]
      BY <3>3 DEF QueueInv, MapHoldsLast
    <3> QED BY <3>1, <3>2, <3>4, <1>5
  <2> QED BY <2>2, <2>3
<1>10. Chained'
  <2> SUFFICES ASSUME NEW x \in Mutations, NEW y \in Mutations,
                      Called(x)', mutation'[x].key = mutation'[y].key, y < x
               PROVE  \/ Settled(y)'
                      \/ /\ mutation'[x].behind # NoCall
                         /\ y <= mutation'[x].behind
                         /\ mutation'[x].behind < x
                         /\ mutation'[x].key = mutation'[mutation'[x].behind].key
    BY DEF Chained, SameKey
  <2>1. CASE x = c
    <3>1. y # c /\ Called(y)
      BY <2>1, <1>3, CallNumbers
    <3>2. mutation[y].key = k
      BY <2>1, <3>1, <1>2
    <3>3. (q = NoCall => Settled(y)) /\ (q # NoCall => y <= q)
      BY <3>1, <3>2 DEF QueueInv, MapHoldsLast
    <3>4. CASE q = NoCall
      BY <3>1, <3>3, <3>4, <1>5
    <3>5. CASE q # NoCall
      <4>1. q \in Mutations /\ promise[q] \in {"waiting", "inside"} /\ mutation[q].key = k
        BY <1>1, <3>5 DEF QueueInv, MapHoldsLive
      <4>2. q # c /\ Called(q)
        BY <4>1, <1>2
      <4>3. q < c
        BY <4>1, <4>2, <1>4
      <4>4. mutation'[q].key = k
        BY <4>1, <4>2, <1>2
      <4> QED BY <2>1, <3>3, <3>5, <4>3, <4>4, <1>2
    <3> QED BY <3>4, <3>5
  <2>2. CASE x # c
    <3>1. Called(x)
      BY <2>2, <1>5
    <3>2. x < c /\ y # c
      BY <3>1, <1>4, CallNumbers
    <3>3. mutation'[x] = mutation[x] /\ mutation'[y] = mutation[y]
      BY <2>2, <3>2, <1>2
    <3> DEFINE b == mutation[x].behind
    <3>4. \/ Settled(y)
          \/ b # NoCall /\ y <= b /\ b < x /\ mutation[x].key = mutation[b].key
      BY <3>1, <3>3 DEF QueueInv, Chained
    <3>5. b \in Mutations \cup {NoCall}
      BY DEF MutationTypeOK
    <3>6. CASE Settled(y)
      BY <3>6, <3>2, <1>5
    <3>7. CASE b # NoCall /\ y <= b /\ b < x /\ mutation[x].key = mutation[b].key
      <4>1. b \in Mutations
        BY <3>5, <3>7
      <4>2. b < c
        BY <3>2, <3>7, <4>1, CallOrder
      <4>3. b # c
        BY <4>2, CallNumbers
      <4>4. mutation'[b] = mutation[b]
        BY <4>1, <4>3, <1>2
      <4> QED BY <3>3, <3>7, <4>4
    <3> QED BY <3>4, <3>6, <3>7
  <2> QED BY <2>1, <2>2
<1>11. FirstCome'
  <2> SUFFICES ASSUME NEW x \in Mutations, NEW y \in Mutations,
                      promise'[x] \notin {"none", "waiting"}, mutation'[x].key = mutation'[y].key,
                      y < x
               PROVE  Settled(y)'
    BY DEF FirstCome, SameKey
  <2>1. x # c
    BY DEF Mutate, MutationTypeOK
  <2>2. promise[x] \notin {"none", "waiting"} /\ Called(x)
    BY <2>1, <1>2 DEF Called
  <2>3. y # c
    BY <2>2, <1>4, CallNumbers
  <2>4. SameKey(x, y)
    BY <2>1, <2>3, <1>2 DEF SameKey
  <2> QED BY <2>2, <2>3, <2>4, <1>5 DEF QueueInv, FirstCome
<1> QED BY <1>6, <1>8, <1>9, <1>10, <1>11 DEF QueueInv

\* The turn of a call comes: it goes inside, or is rejected unheard.
LEMMA EnterKeeps ==
  ASSUME MutationTypeOK, QueueInv, NEW c \in Mutations, Enter(c)
  PROVE  QueueInv'
<1>1. promise[c] = "waiting" /\ MayEnter(c) /\ mutation' = mutation
  BY DEF Enter
<1>2. \A d \in Mutations : SameKey(c, d) /\ d < c => Settled(d)
  BY <1>1, TurnComes
<1>3. CASE c \in signalled
  <2>1. /\ promise' = [promise EXCEPT ![c] = "rejected"]
        /\ fileMutationQueues' = Forgotten(fileMutationQueues, {c})
    BY <1>3 DEF Enter
  <2>2. /\ promise'[c] \in {"resolved", "rejected"}
        /\ \A d \in Mutations \ {c} : promise'[d] = promise[d]
    BY <2>1 DEF MutationTypeOK
  <2>3. Called(c)
    BY <1>1 DEF Called
  <2> HIDE DEF QueueInv
  <2> QED BY <1>1, <1>2, <2>1, <2>2, <2>3, SettlingKeeps
<1>4. CASE c \notin signalled
  <2>1. /\ promise' = [promise EXCEPT ![c] = "inside"]
        /\ fileMutationQueues' = fileMutationQueues
    BY <1>4 DEF Enter
  <2>2. promise'[c] = "inside" /\ \A d \in Mutations \ {c} : promise'[d] = promise[d]
    BY <2>1 DEF MutationTypeOK
  <2>3. \A d \in Mutations : (Called(d) <=> Called(d)') /\ (Settled(d) <=> Settled(d)')
    BY <1>1, <2>2 DEF Called, Settled
  <2>4. CalledInOrder'
    BY <2>3 DEF QueueInv, CalledInOrder
  <2>5. MapHoldsLive'
    <3> SUFFICES ASSUME NEW k \in Paths, fileMutationQueues[k] # NoCall
                 PROVE  /\ promise'[fileMutationQueues[k]] \in {"waiting", "inside"}
                        /\ mutation[fileMutationQueues[k]].key = k
      BY <1>1, <2>1 DEF MapHoldsLive
    <3>1. fileMutationQueues[k] \in Mutations
      BY DEF MutationTypeOK
    <3> QED BY <3>1, <2>2 DEF QueueInv, MapHoldsLive
  <2>6. MapHoldsLast'
    BY <1>1, <2>1, <2>3 DEF QueueInv, MapHoldsLast
  <2>7. Chained'
    BY <1>1, <2>3 DEF QueueInv, Chained, SameKey
  <2>8. FirstCome'
    <3> SUFFICES ASSUME NEW x \in Mutations, NEW y \in Mutations,
                        promise'[x] \notin {"none", "waiting"}, SameKey(x, y), y < x
                 PROVE  Settled(y)
      BY <1>1, <2>3 DEF FirstCome, SameKey
    <3>1. CASE x = c
      BY <3>1, <1>2
    <3>2. CASE x # c
      BY <3>2, <2>2 DEF QueueInv, FirstCome
    <3> QED BY <3>1, <3>2
  <2> QED BY <2>4, <2>5, <2>6, <2>7, <2>8 DEF QueueInv
<1> QED BY <1>3, <1>4

LEMMA AbortKeeps ==
  ASSUME MutationTypeOK, QueueInv, AbortMutations
  PROVE  QueueInv'
<1> DEFINE inside == {c \in Mutations : promise[c] = "inside"}
<1>1. /\ mutation' = mutation
      /\ fileMutationQueues' = Forgotten(fileMutationQueues, inside)
      /\ promise' = [c \in Mutations |-> IF c \in inside THEN "rejected" ELSE promise[c]]
  BY DEF AbortMutations
<1>2. inside \in SUBSET Mutations
  OBVIOUS
<1>3. \A c \in inside : Called(c)
  BY DEF Called
<1>4. \A c \in inside, d \in Mutations : SameKey(c, d) /\ d < c => Settled(d)
  BY DEF QueueInv, FirstCome
<1>5. /\ \A c \in inside : promise'[c] \in {"resolved", "rejected"}
      /\ \A c \in Mutations \ inside : promise'[c] = promise[c]
  BY <1>1
<1> HIDE DEF inside, QueueInv
<1> QED BY <1>1, <1>2, <1>3, <1>4, <1>5, SettlingKeeps

LEMMA QueueInvInit == MutationInit => QueueInv
<1> SUFFICES ASSUME MutationInit PROVE QueueInv
  OBVIOUS
<1>1. \A c \in Mutations : promise[c] = "none"
  BY DEF MutationInit
<1>2. \A k \in Paths : fileMutationQueues[k] = NoCall
  BY DEF MutationInit
<1> QED BY <1>1, <1>2 DEF QueueInv, CalledInOrder, MapHoldsLive, MapHoldsLast, Chained, FirstCome, Called

LEMMA QueueInvNext ==
  MutationTypeOK /\ QueueInv /\ [MutationNext]_mutationVars => QueueInv'
<1> SUFFICES ASSUME MutationTypeOK, QueueInv, [MutationNext]_mutationVars
             PROVE  QueueInv'
  OBVIOUS
<1> USE DEF GoesOn
<1>1. ASSUME NEW c \in Mutations, NEW tool \in {"edit", "write"}, NEW path \in Paths,
             Mutate(c, tool, path)
      PROVE  QueueInv'
  BY <1>1, MutateKeeps
<1>2. ASSUME NEW c \in Mutations, Enter(c) PROVE QueueInv'
  BY <1>2, EnterKeeps
<1>3. ASSUME NEW c \in Mutations, Prepares(c) PROVE QueueInv'
  <2>1. /\ mutation' = mutation
        /\ Settle(c, "rejected") \/ UNCHANGED <<promise, fileMutationQueues>>
    BY <1>3 DEF Prepares
  <2> QED BY <2>1, SettleKeeps, QueueUnchanged
<1>4. ASSUME NEW c \in Mutations, NEW found \in BOOLEAN, Reads(c, found) PROVE QueueInv'
  <2>1. /\ mutation' = mutation
        /\ Settle(c, "rejected") \/ UNCHANGED <<promise, fileMutationQueues>>
    BY <1>4 DEF Reads
  <2> QED BY <2>1, SettleKeeps, QueueUnchanged
<1>5. ASSUME NEW c \in Mutations, Opens(c) PROVE QueueInv'
  BY <1>5, QueueUnchanged DEF Opens
<1>6. ASSUME NEW c \in Mutations, Fills(c) PROVE QueueInv'
  <2>1. mutation' = mutation /\ Settle(c, "resolved")
    BY <1>6 DEF Fills
  <2> QED BY <2>1, SettleKeeps
<1>7. ASSUME NEW c \in Mutations, WriteFails(c) PROVE QueueInv'
  <2>1. mutation' = mutation /\ Settle(c, "rejected")
    BY <1>7 DEF WriteFails
  <2> QED BY <2>1, SettleKeeps
<1>8. CASE AbortMutations
  BY <1>8, AbortKeeps
<1>9. CASE UNCHANGED mutationVars
  BY <1>9, QueueUnchanged DEF mutationVars
<1> QED BY <1>1, <1>2, <1>3, <1>4, <1>5, <1>6, <1>7, <1>8, <1>9 DEF MutationNext, BodyStep

LEMMA OneInsideFollows == QueueInv => OneInside
<1> SUFFICES ASSUME QueueInv, NEW c \in Mutations, NEW d \in Mutations,
                    promise[c] = "inside", promise[d] = "inside",
                    mutation[c].key = mutation[d].key, c # d
             PROVE  FALSE
  BY DEF OneInside
<1>1. ~Settled(c) /\ ~Settled(d)
  BY DEF Settled
<1>2. c < d \/ d < c
  BY CallNumbers
<1> QED BY <1>1, <1>2 DEF QueueInv, FirstCome, SameKey

-----------------------------------------------------------------------------
(* What the file holds.                                                      *)

LEMMA EditInvInit == MutationInit => EditInv
BY DEF MutationInit, EditInv, NotBegun, WritesInTurn, AloneInside, OneWriter, TextIsCurrent,
   FileIsRight, Writing

\* A step that starts no fn and leaves the file and the fns alone.
LEMMA EditUnchanged ==
  ASSUME MutationTypeOK, EditInv, UNCHANGED <<body, content, text, expected, escaped>>,
         \A d \in Mutations : promise'[d] = "inside" => promise[d] = "inside",
         \A d \in Mutations :
           promise'[d] \in {"none", "waiting"} => promise[d] \in {"none", "waiting"},
         \A d \in Mutations : Writing(d) => mutation'[d] = mutation[d]
  PROVE  EditInv'
<1>1. NotBegun'
  <2> SUFFICES ASSUME NEW d \in Mutations, promise'[d] \in {"none", "waiting"}
               PROVE  body'[d] = "none"
    BY DEF NotBegun
  <2> QED BY DEF EditInv, NotBegun
<1>2. \A d \in Mutations : Writing(d)' <=> Writing(d)
  BY DEF Writing
<1>3. WritesInTurn => WritesInTurn'
  <2> SUFFICES ASSUME WritesInTurn PROVE WritesInTurn'
    OBVIOUS
  <2>1. AloneInside' /\ OneWriter'
    BY <1>2 DEF WritesInTurn, AloneInside, OneWriter
  <2>2. TextIsCurrent'
    BY <1>2 DEF WritesInTurn, TextIsCurrent
  <2>3. FileIsRight'
    BY DEF WritesInTurn, FileIsRight
  <2> QED BY <2>1, <2>2, <2>3 DEF WritesInTurn
<1> QED BY <1>1, <1>3 DEF EditInv

LEMMA EnterEdits ==
  ASSUME MutationTypeOK, EditInv, OneInside', NEW c \in Mutations, Enter(c)
  PROVE  EditInv'
<1>1. CASE c \in signalled
  BY <1>1, EditUnchanged DEF Enter, MutationTypeOK
<1>2. CASE c \notin signalled
  <2>1. /\ promise[c] = "waiting" /\ promise' = [promise EXCEPT ![c] = "inside"]
        /\ body' = [body EXCEPT ![c] = "prepare"]
        /\ UNCHANGED <<mutation, content, text, expected>>
    BY <1>2 DEF Enter
  <2>2. escaped' <=> escaped \/ \E d \in Mutations \ {c} :
                       \/ Settled(d) /\ Writing(d)
                       \/ promise[d] = "inside" /\ mutation[d].key # mutation[c].key
    BY <1>2 DEF Enter, MutationTypeOK
  <2>3. NotBegun'
    BY <2>1 DEF EditInv, NotBegun, MutationTypeOK
  <2>4. body[c] = "none" /\ ~Writing(c) /\ ~Writing(c)'
    BY <2>1 DEF EditInv, NotBegun, Writing, MutationTypeOK
  <2>5. \A d \in Mutations : Writing(d)' <=> Writing(d)
    BY <2>1, <2>4 DEF Writing, MutationTypeOK
  <2>6. ASSUME ~escaped' PROVE WritesInTurn'
    <3>1. WritesInTurn
      BY <2>2, <2>6 DEF EditInv
    <3>2. \A d \in Mutations \ {c} : promise[d] # "inside" /\ ~Writing(d)
      <4> SUFFICES ASSUME NEW d \in Mutations \ {c}
                   PROVE  promise[d] # "inside" /\ ~Writing(d)
        OBVIOUS
      <4>1. promise[d] # "inside"
        BY <2>1, <2>2, <2>6 DEF OneInside, MutationTypeOK
      <4>2. promise[d] \in {"none", "waiting", "resolved", "rejected"}
        BY <4>1 DEF MutationTypeOK
      <4> QED BY <4>1, <4>2, <2>2, <2>6 DEF EditInv, NotBegun, Settled, Writing
    <3>3. AloneInside'
      BY <2>1, <2>5, <3>1, <3>2 DEF WritesInTurn, AloneInside, MutationTypeOK
    <3>4. OneWriter' /\ TextIsCurrent'
      BY <2>1, <2>5, <3>1 DEF WritesInTurn, OneWriter, TextIsCurrent
    <3>5. FileIsRight'
      BY <2>1, <2>4, <3>1 DEF WritesInTurn, FileIsRight, MutationTypeOK
    <3> QED BY <3>3, <3>4, <3>5 DEF WritesInTurn
  <2> QED BY <2>3, <2>6 DEF EditInv
<1> QED BY <1>1, <1>2

\* A body that goes on without writing; only one inside goes on to write.
LEMMA BodyGoesOn ==
  ASSUME MutationTypeOK, EditInv, NEW c \in Mutations, NEW next \in Steps \ {"fill", "none"},
         ~Writing(c), body[c] # "none", GoesOn(c, next),
         next = "open" => /\ promise[c] = "inside"
                          /\ mutation[c].tool = "edit" => text'[c] = content,
         \A d \in Mutations \ {c} : text'[d] = text[d],
         UNCHANGED <<mutation, content, expected, escaped>>,
         \/ UNCHANGED promise
         \/ \E outcome \in {"resolved", "rejected"} : promise' = [promise EXCEPT ![c] = outcome]
  PROVE  EditInv'
<1>1. /\ \A d \in Mutations \ {c} : body'[d] = body[d] /\ promise'[d] = promise[d]
      /\ body'[c] = next /\ promise[c] \notin {"none", "waiting"}
      /\ promise'[c] \in {promise[c], "resolved", "rejected"}
  BY DEF GoesOn, MutationTypeOK, EditInv, NotBegun
<1>2. NotBegun'
  BY <1>1 DEF EditInv, NotBegun
<1>3. ASSUME WritesInTurn PROVE WritesInTurn'
  <2>1. \A d \in Mutations \ {c} : Writing(d)' <=> Writing(d)
    BY <1>1 DEF Writing
  <2>2. Writing(c)' <=> next = "open"
    BY <1>1 DEF Writing
  <2>3. next = "open" => \A d \in Mutations \ {c} : promise[d] # "inside" /\ ~Writing(d)
    BY <1>3 DEF WritesInTurn, AloneInside
  <2>4. AloneInside'
    <3> SUFFICES ASSUME NEW d \in Mutations, NEW e \in Mutations, promise'[d] = "inside", d # e
                 PROVE  promise'[e] # "inside" /\ ~Writing(e)'
      BY DEF AloneInside
    <3>1. promise[d] = "inside"
      BY <1>1
    <3>2. promise[e] # "inside" /\ ~Writing(e)
      BY <1>3, <3>1 DEF WritesInTurn, AloneInside
    <3>3. CASE e = c
      BY <1>1, <2>2, <3>2, <3>3
    <3>4. CASE e # c
      BY <1>1, <2>1, <3>2, <3>4
    <3> QED BY <3>3, <3>4
  <2>5. OneWriter'
    BY <1>3, <2>1, <2>2, <2>3 DEF WritesInTurn, OneWriter
  <2>6. \A d \in Mutations : body'[d] = "fill" <=> body[d] = "fill"
    BY <1>1 DEF Writing
  <2>7. FileIsRight'
    BY <1>3, <2>6 DEF WritesInTurn, FileIsRight
  <2>8. TextIsCurrent'
    <3> SUFFICES ASSUME NEW d \in Mutations, Writing(d)', mutation[d].tool = "edit"
                 PROVE  text'[d] = expected
      BY DEF TextIsCurrent
    <3>1. CASE d # c
      BY <1>3, <2>1, <3>1 DEF WritesInTurn, TextIsCurrent
    <3>2. CASE d = c
      <4>1. \A e \in Mutations : body[e] # "fill"
        BY <2>2, <2>3, <3>2 DEF Writing
      <4> QED BY <1>3, <2>2, <3>2, <4>1 DEF WritesInTurn, FileIsRight
    <3> QED BY <3>1, <3>2
  <2> QED BY <2>4, <2>5, <2>7, <2>8 DEF WritesInTurn
<1> QED BY <1>2, <1>3 DEF EditInv

\* A writer is over, and has left the file as it should be.
LEMMA WriterDone ==
  ASSUME MutationTypeOK, EditInv, NEW c \in Mutations, Writing(c), GoesOn(c, "over"),
         NEW outcome \in {"resolved", "rejected"}, Settle(c, outcome),
         UNCHANGED <<mutation, text, escaped>>,
         WritesInTurn => content' = expected'
  PROVE  EditInv'
<1>1. /\ \A d \in Mutations \ {c} : body'[d] = body[d] /\ promise'[d] = promise[d]
      /\ body'[c] = "over" /\ promise[c] \notin {"none", "waiting"}
      /\ promise'[c] \in {"resolved", "rejected"}
  BY DEF GoesOn, Settle, MutationTypeOK, EditInv, NotBegun, Writing
<1>2. NotBegun'
  BY <1>1 DEF EditInv, NotBegun
<1>3. ASSUME WritesInTurn PROVE WritesInTurn'
  <2>1. \A d \in Mutations : ~Writing(d)'
    BY <1>1, <1>3 DEF WritesInTurn, OneWriter, Writing
  <2>2. AloneInside'
    BY <1>1, <1>3, <2>1 DEF WritesInTurn, AloneInside
  <2> QED BY <1>3, <2>1, <2>2 DEF WritesInTurn, OneWriter, TextIsCurrent, FileIsRight, Writing
<1> QED BY <1>2, <1>3 DEF EditInv

LEMMA PreparesEdits ==
  ASSUME MutationTyped, EditInv, NEW c \in Mutations, Prepares(c) PROVE EditInv'
<1> DEFINE next == IF mutation[c].tool = "edit" /\ content = Absent THEN "over"
                   ELSE IF Stops(c) THEN "over"
                   ELSE IF mutation[c].tool = "edit" THEN "read" ELSE "open"
<1>1. /\ body[c] = "prepare" /\ GoesOn(c, next)
      /\ UNCHANGED <<mutation, content, text, expected, escaped>>
      /\ UNCHANGED promise \/ promise' = [promise EXCEPT ![c] = "rejected"]
  BY DEF Prepares, Settle
<1>2. next \in Steps \ {"fill", "none"}
  BY DEF Steps
<1>3. next = "open" => promise[c] = "inside" /\ mutation[c].tool # "edit"
  BY DEF Stops
<1> HIDE DEF next
<1> QED BY <1>1, <1>2, <1>3, BodyGoesOn DEF MutationTyped, Writing

LEMMA ReadsEdits ==
  ASSUME MutationTyped, EditInv, NEW c \in Mutations, NEW found \in BOOLEAN, Reads(c, found)
  PROVE  EditInv'
<1> DEFINE next == IF found /\ ~Stops(c) THEN "open" ELSE "over"
<1>1. /\ body[c] = "read" /\ GoesOn(c, next) /\ text' = [text EXCEPT ![c] = content]
      /\ UNCHANGED <<mutation, content, expected, escaped>>
      /\ UNCHANGED promise \/ promise' = [promise EXCEPT ![c] = "rejected"]
  BY DEF Reads, Settle
<1>2. next \in Steps \ {"fill", "none"}
  BY DEF Steps
<1>3. next = "open" => promise[c] = "inside"
  BY DEF Stops
<1>4. text'[c] = content /\ \A d \in Mutations \ {c} : text'[d] = text[d]
  BY <1>1 DEF MutationTyped, MutationTypeOK
<1> HIDE DEF next
<1> QED BY <1>1, <1>2, <1>3, <1>4, BodyGoesOn DEF MutationTyped, Writing

LEMMA OpensEdits ==
  ASSUME MutationTypeOK, EditInv, NEW c \in Mutations, Opens(c) PROVE EditInv'
<1>1. /\ body[c] = "open" /\ body' = [body EXCEPT ![c] = "fill"] /\ content' = <<>>
      /\ UNCHANGED <<mutation, promise, text, expected, escaped>>
  BY DEF Opens, GoesOn
<1>2. NotBegun'
  BY <1>1 DEF EditInv, NotBegun, MutationTypeOK
<1>3. \A d \in Mutations : Writing(d)' <=> Writing(d)
  BY <1>1 DEF Writing, MutationTypeOK
<1>4. body'[c] = "fill"
  BY <1>1 DEF MutationTypeOK
<1>5. WritesInTurn => WritesInTurn'
  BY <1>1, <1>3, <1>4 DEF WritesInTurn, AloneInside, OneWriter, TextIsCurrent, FileIsRight
<1> QED BY <1>1, <1>2, <1>5 DEF EditInv

LEMMA FillsEdits ==
  ASSUME MutationTyped, EditInv, NEW c \in Mutations, Fills(c) PROVE EditInv'
<1>1. ASSUME WritesInTurn PROVE content' = expected'
  <2>1. CASE mutation[c].tool = "edit"
    <3>1. text[c] = expected /\ text[c] \in Seq(Mutations)
      BY <1>1, <2>1 DEF Fills, Writing, WritesInTurn, TextIsCurrent, MutationTyped, MutationTypeOK
    <3>2. expected # Absent
      BY <3>1, AbsentIsNoText
    <3> QED BY <2>1, <3>1, <3>2 DEF Fills
  <2>2. CASE mutation[c].tool # "edit"
    BY <2>2 DEF Fills
  <2> QED BY <2>1, <2>2
<1> QED BY <1>1, WriterDone DEF Fills, MutationTyped, Writing

LEMMA WriteFailsEdits ==
  ASSUME MutationTypeOK, EditInv, NEW c \in Mutations, WriteFails(c) PROVE EditInv'
<1>1. ASSUME WritesInTurn PROVE content' = expected'
  <2>1. CASE body[c] = "fill"
    BY <1>1, <2>1 DEF WriteFails, WritesInTurn, FileIsRight
  <2>2. CASE body[c] # "fill"
    <3>1. \A d \in Mutations : body[d] # "fill"
      BY <1>1, <2>2 DEF WriteFails, WritesInTurn, OneWriter, Writing
    <3> QED BY <1>1, <2>2, <3>1 DEF WriteFails, WritesInTurn, FileIsRight
  <2> QED BY <2>1, <2>2
<1> QED BY <1>1, WriterDone DEF WriteFails

LEMMA EditInvNext ==
  MutationTyped /\ OneInside' /\ EditInv /\ [MutationNext]_mutationVars => EditInv'
<1> SUFFICES ASSUME MutationTyped, OneInside', EditInv, [MutationNext]_mutationVars
             PROVE  EditInv'
  OBVIOUS
<1>t. MutationTypeOK
  BY DEF MutationTyped
<1>1. ASSUME NEW c \in Mutations, NEW tool \in {"edit", "write"}, NEW path \in Paths,
             Mutate(c, tool, path)
      PROVE  EditInv'
  <2>1. /\ promise[c] = "none" /\ promise' = [promise EXCEPT ![c] = "waiting"]
        /\ \A d \in Mutations \ {c} : mutation'[d] = mutation[d]
        /\ UNCHANGED <<body, content, text, expected, escaped>>
    BY <1>1, <1>t DEF Mutate, MutationTypeOK
  <2>2. ~Writing(c)
    BY <2>1 DEF EditInv, NotBegun, Writing
  <2> QED BY <1>t, <2>1, <2>2, EditUnchanged DEF MutationTypeOK
<1>2. CASE AbortMutations
  BY <1>2, <1>t, EditUnchanged DEF AbortMutations
<1>3. CASE UNCHANGED mutationVars
  BY <1>3, <1>t, EditUnchanged DEF mutationVars
<1> QED BY <1>t, <1>1, <1>2, <1>3, EnterEdits, PreparesEdits, ReadsEdits, OpensEdits, FillsEdits,
           WriteFailsEdits DEF MutationNext, BodyStep

-----------------------------------------------------------------------------
\* The calls, their promises and the file hold what their declarations say.
THEOREM MutationTypes == MutationSpec => []MutationTypeOK
<1>1. MutationInit => MutationTyped
  BY MutationTypedInit
<1>2. MutationTyped /\ [MutationNext]_mutationVars => MutationTyped'
  BY MutationTypedNext
<1>3. MutationTyped => MutationTypeOK
  BY DEF MutationTyped
<1> QED BY <1>1, <1>2, <1>3, PTL DEF MutationSpec

LEMMA QueueInvAlways == MutationSpec => [](MutationTypeOK /\ QueueInv)
<1>1. MutationInit => QueueInv
  BY QueueInvInit
<1>2. MutationTypeOK /\ QueueInv /\ [MutationNext]_mutationVars => QueueInv'
  BY QueueInvNext
<1>3. MutationSpec => []MutationTypeOK
  BY MutationTypes
<1> QED BY <1>1, <1>2, <1>3, PTL DEF MutationSpec

\* Under one key one fn at a time runs, whatever fails or is aborted
\* (file-mutation-queue.ts:20-39): of two calls of a key the earlier has settled.
THEOREM OneInsideAlways == MutationSpec => []OneInside
<1>1. MutationTypeOK /\ QueueInv => OneInside
  BY OneInsideFollows
<1> QED BY <1>1, QueueInvAlways, PTL

\* The map has the keys of the unsettled calls and no others
\* (file-mutation-queue.ts:32-38), so that no call slips past an earlier one and
\* the map does not grow.
THEOREM QueuesAreForgotten == MutationSpec => []QueuesForgotten
<1>1. MutationTypeOK /\ QueueInv => QueuesForgotten
  <2> SUFFICES ASSUME MutationTypeOK, QueueInv, NEW k \in Paths
               PROVE  (fileMutationQueues[k] # NoCall)
                        <=> \E c \in Mutations : Live(c) /\ mutation[c].key = k
    BY DEF QueuesForgotten
  <2>1. ASSUME fileMutationQueues[k] # NoCall
        PROVE  \E c \in Mutations : Live(c) /\ mutation[c].key = k
    <3>1. fileMutationQueues[k] \in Mutations
      BY <2>1 DEF MutationTypeOK
    <3> QED BY <2>1, <3>1 DEF QueueInv, MapHoldsLive, Live
  <2>2. ASSUME NEW c \in Mutations, Live(c), mutation[c].key = k
        PROVE  fileMutationQueues[k] # NoCall
    BY <2>2 DEF QueueInv, MapHoldsLast, Live, Settled, Called
  <2> QED BY <2>1, <2>2
<1> QED BY <1>1, QueueInvAlways, PTL

\* Both at once: a call is held back exactly by the unsettled calls of its key before it.
THEOREM MutationsAreQueued == MutationSpec => []MutationsQueued
<1>1. OneInside /\ QueuesForgotten => MutationsQueued
  BY DEF MutationsQueued
<1> QED BY <1>1, OneInsideAlways, QueuesAreForgotten, PTL

\* No edit is lost (edit.ts, write.ts inside withFileMutationQueue): what the file
\* holds is what the calls would have made of it one after the other, whichever of
\* them fail or are aborted, unless one of them worked beside another.
THEOREM EditsAlwaysCompose == MutationSpec => []EditsCompose
<1>1. MutationInit => MutationTyped /\ EditInv
  BY MutationTypedInit, EditInvInit
<1>2. /\ MutationTyped /\ EditInv /\ OneInside' /\ [MutationNext]_mutationVars
      => MutationTyped' /\ EditInv'
  BY MutationTypedNext, EditInvNext
<1>3. EditInv => EditsCompose
  BY DEF EditInv, EditsCompose, WritesInTurn, FileIsRight, Writing
<1> QED BY <1>1, <1>2, <1>3, OneInsideAlways, PTL DEF MutationSpec

-----------------------------------------------------------------------------
(* Progress: somebody may always go on, and every step brings its call closer. *)

\* A call queues behind one that was made before it.
QueuedBehindEarlier ==
  \A c \in Mutations : mutation[c].behind # NoCall =>
    Called(mutation[c].behind) /\ mutation[c].behind < c

\* While a call is inside, its fn has a step to take.
InsideIsRunning ==
  \A c \in Mutations : promise[c] = "inside" => body[c] \in {"prepare", "read", "open", "fill"}

\* As long as a call is unsettled, one that is unsettled may go on: it may enter, or its fn
\* runs.  Nobody waits for ever on an entry that nobody will release.
NobodyWaitsForEver ==
  (\E c \in Mutations : Live(c)) =>
    \E c \in Mutations :
      \/ promise[c] = "waiting" /\ MayEnter(c)
      \/ promise[c] = "inside" /\ body[c] \in {"prepare", "read", "open", "fill"}

\* The steps a call that was made still has ahead of it.
Ahead(c) ==
  IF promise[c] = "waiting" THEN 5
  ELSE [none |-> 0, over |-> 0, fill |-> 1, open |-> 2, read |-> 3, prepare |-> 4][body[c]]

\* No step of any call, and no abort, sets a call back, and each step of its own brings it on.
CallsComeCloser ==
  [][\A c \in Mutations : promise[c] # "none" =>
        /\ Ahead(c)' <= Ahead(c)
        /\ Enter(c) \/ BodyStep(c) => Ahead(c)' < Ahead(c)]_mutationVars

LEMMA ProgressInit == MutationInit => QueuedBehindEarlier /\ InsideIsRunning
BY DEF MutationInit, QueuedBehindEarlier, InsideIsRunning

LEMMA QueuedBehindKept ==
  ASSUME MutationTypeOK, QueueInv, QueuedBehindEarlier, [MutationNext]_mutationVars
  PROVE  QueuedBehindEarlier'
<1>0. \A c \in Mutations : mutation[c].behind # NoCall => mutation[c].behind \in Mutations
  BY DEF MutationTypeOK
<1>1. ASSUME mutation' = mutation, \A d \in Mutations : Called(d) => Called(d)'
      PROVE  QueuedBehindEarlier'
  BY <1>0, <1>1 DEF QueuedBehindEarlier
<1>2. ASSUME NEW c \in Mutations, NEW tool \in {"edit", "write"}, NEW path \in Paths,
             Mutate(c, tool, path)
      PROVE  QueuedBehindEarlier'
  <2> DEFINE k == KeyOf(path)
             q == fileMutationQueues[k]
  <2>1. k \in Paths /\ q \in Mutations \cup {NoCall}
    BY DEF KeyOf, Paths, MutationTypeOK
  <2>2. /\ promise[c] = "none" /\ promise'[c] = "waiting" /\ mutation'[c].behind = q
        /\ \A d \in Mutations \ {c} : promise'[d] = promise[d] /\ mutation'[d] = mutation[d]
    BY <1>2 DEF Mutate, MutationTypeOK
  <2>3. ASSUME q # NoCall PROVE Called(q) /\ q < c
    <3>1. q \in Mutations /\ Called(q)
      BY <2>1, <2>3 DEF QueueInv, MapHoldsLive, Called
    <3>2. q # c /\ ~(c < q)
      BY <2>2, <3>1 DEF QueueInv, CalledInOrder, Called
    <3>3. q \in Nat /\ c \in Nat
      BY <3>1, CallNumbers
    <3>4. q < c
      BY <3>2, <3>3
    <3> QED BY <3>1, <3>4
  <2> HIDE DEF q
  <2>4. ASSUME NEW d \in Mutations, NEW b, b = mutation'[d].behind, b # NoCall
        PROVE  promise'[b] # "none" /\ b < d
    <3>1. CASE d = c
      <4>1. b = q /\ Called(b) /\ b < c /\ b \in Mutations
        BY <2>1, <2>2, <2>3, <2>4, <3>1
      <4> QED BY <2>2, <3>1, <4>1 DEF Called
    <3>2. CASE d # c
      <4>1. b \in Mutations /\ Called(b) /\ b < d
        BY <1>0, <2>2, <2>4, <3>2 DEF QueuedBehindEarlier
      <4> QED BY <2>2, <4>1 DEF Called
    <3> QED BY <3>1, <3>2
  <2>5. \A d \in Mutations : mutation'[d].behind # NoCall =>
           promise'[mutation'[d].behind] # "none" /\ mutation'[d].behind < d
    BY <2>4
  <2> QED BY <2>5 DEF QueuedBehindEarlier, Called
<1>3. ASSUME NEW c \in Mutations, NEW outcome \in {"resolved", "rejected"}, Settle(c, outcome)
      PROVE  \A d \in Mutations : Called(d) => Called(d)'
  BY <1>3 DEF Settle, Called, MutationTypeOK
<1>4. ASSUME NEW c \in Mutations, BodyStep(c) PROVE QueuedBehindEarlier'
  <2>1. mutation' = mutation
    BY <1>4 DEF BodyStep, Prepares, Reads, Opens, Fills, WriteFails
  <2>2. UNCHANGED promise \/ Settle(c, "resolved") \/ Settle(c, "rejected")
    BY <1>4 DEF BodyStep, Prepares, Reads, Opens, Fills, WriteFails
  <2> QED BY <1>1, <1>3, <2>1, <2>2 DEF Called
<1>5. ASSUME NEW c \in Mutations, Enter(c) PROVE QueuedBehindEarlier'
  <2>1. mutation' = mutation /\ \A d \in Mutations : Called(d) => Called(d)'
    BY <1>5 DEF Enter, Called, MutationTypeOK
  <2> QED BY <1>1, <2>1
<1>6. CASE AbortMutations
  <2>1. mutation' = mutation /\ \A d \in Mutations : Called(d) => Called(d)'
    BY <1>6 DEF AbortMutations, Called, MutationTypeOK
  <2> QED BY <1>1, <2>1
<1>7. CASE UNCHANGED mutationVars
  <2>1. mutation' = mutation /\ \A d \in Mutations : Called(d) => Called(d)'
    BY <1>7 DEF mutationVars, Called
  <2> QED BY <1>1, <2>1
<1> QED BY <1>2, <1>4, <1>5, <1>6, <1>7 DEF MutationNext

LEMMA InsideKept ==
  ASSUME MutationTypeOK, InsideIsRunning, [MutationNext]_mutationVars
  PROVE  InsideIsRunning'
<1> USE DEF InsideIsRunning
<1>1. ASSUME NEW c \in Mutations, NEW tool \in {"edit", "write"}, NEW path \in Paths,
             Mutate(c, tool, path)
      PROVE  InsideIsRunning'
  BY <1>1 DEF Mutate, MutationTypeOK
<1>2. ASSUME NEW c \in Mutations, Enter(c) PROVE InsideIsRunning'
  BY <1>2 DEF Enter, MutationTypeOK
<1>3. ASSUME NEW c \in Mutations, NEW next \in Steps, GoesOn(c, next),
             promise'[c] = "inside" => next \in {"prepare", "read", "open", "fill"},
             \A d \in Mutations \ {c} : promise'[d] = promise[d]
      PROVE  InsideIsRunning'
  BY <1>3 DEF GoesOn, MutationTypeOK
<1>4. ASSUME NEW c \in Mutations, NEW outcome \in {"resolved", "rejected"}, Settle(c, outcome)
      PROVE  promise'[c] # "inside" /\ \A d \in Mutations \ {c} : promise'[d] = promise[d]
  BY <1>4 DEF Settle, MutationTypeOK
<1>5. ASSUME NEW c \in Mutations, BodyStep(c) PROVE InsideIsRunning'
  <2>1. PICK next \in Steps : GoesOn(c, next)
    BY <1>5 DEF BodyStep, Prepares, Reads, Opens, Fills, WriteFails, Steps
  <2>2. \/ Settle(c, "resolved") \/ Settle(c, "rejected")
        \/ UNCHANGED promise /\ (promise[c] = "inside" => next \in {"prepare", "read", "open", "fill"})
    <3>1. CASE Prepares(c)
      BY <3>1, <2>1 DEF Prepares, GoesOn, Stops, MutationTypeOK
    <3>2. ASSUME NEW found \in BOOLEAN, Reads(c, found)
          PROVE  \/ Settle(c, "rejected")
                 \/ UNCHANGED promise /\ next = "open"
      BY <3>2, <2>1 DEF Reads, GoesOn, MutationTypeOK
    <3>3. CASE Opens(c)
      BY <3>3, <2>1 DEF Opens, GoesOn, MutationTypeOK
    <3>4. CASE Fills(c) \/ WriteFails(c)
      BY <3>4 DEF Fills, WriteFails
    <3> QED BY <1>5, <3>1, <3>2, <3>3, <3>4 DEF BodyStep
  <2>3. CASE Settle(c, "resolved") \/ Settle(c, "rejected")
    BY <1>3, <1>4, <2>1, <2>3
  <2>4. CASE UNCHANGED promise /\ (promise[c] = "inside" => next \in {"prepare", "read", "open", "fill"})
    BY <1>3, <2>1, <2>4
  <2> QED BY <2>2, <2>3, <2>4
<1>6. CASE AbortMutations
  BY <1>6 DEF AbortMutations, MutationTypeOK
<1>7. CASE UNCHANGED mutationVars
  BY <1>7 DEF mutationVars
<1> QED BY <1>1, <1>2, <1>5, <1>6, <1>7 DEF MutationNext

LEMMA SomebodyGoesOn ==
  ASSUME MutationTypeOK, QueuedBehindEarlier, InsideIsRunning
  PROVE  NobodyWaitsForEver
<1> SUFFICES ASSUME NEW c0 \in Mutations, Live(c0)
             PROVE  \E c \in Mutations :
                      \/ promise[c] = "waiting" /\ MayEnter(c)
                      \/ promise[c] = "inside" /\ body[c] \in {"prepare", "read", "open", "fill"}
  BY DEF NobodyWaitsForEver
<1> DEFINE live == {c \in Mutations : Live(c)}
<1>1. live \subseteq Nat /\ live # {}
  BY CallNumbers
<1> HIDE DEF live
<1>2. PICK c \in live : \A d \in live : c <= d
  BY <1>1, SomeLeast
<1>3. c \in Mutations /\ Live(c)
  BY DEF live
<1>4. CASE promise[c] = "inside"
  BY <1>3, <1>4 DEF InsideIsRunning
<1>5. CASE promise[c] = "waiting"
  <2>1. ASSUME mutation[c].behind # NoCall PROVE Settled(mutation[c].behind)
    <3>1. /\ mutation[c].behind \in Mutations /\ Called(mutation[c].behind)
          /\ mutation[c].behind < c
      BY <1>3, <2>1 DEF QueuedBehindEarlier, MutationTypeOK
    <3>2. mutation[c].behind \notin live
      BY <1>2, <1>3, <3>1, CallNumbers
    <3>3. ~Live(mutation[c].behind)
      BY <3>1, <3>2 DEF live
    <3>4. promise[mutation[c].behind] \in {"none", "waiting", "inside", "resolved", "rejected"}
      BY <3>1 DEF MutationTypeOK
    <3> QED BY <3>1, <3>3, <3>4 DEF Called, Live, Settled
  <2> QED BY <1>3, <1>5, <2>1 DEF MayEnter
<1> QED BY <1>3, <1>4, <1>5 DEF Live

\* No deadlock: whatever calls are made, aborted or fail, one that is unsettled may always go
\* on; the first that was made, at the latest (withFileMutationQueue).
THEOREM NobodyAlwaysWaits == MutationSpec => []NobodyWaitsForEver
<1>1. MutationTypeOK /\ QueueInv /\ QueuedBehindEarlier /\ InsideIsRunning
        /\ [MutationNext]_mutationVars => QueuedBehindEarlier' /\ InsideIsRunning'
  BY QueuedBehindKept, InsideKept
<1>2. MutationTypeOK /\ QueuedBehindEarlier /\ InsideIsRunning => NobodyWaitsForEver
  BY SomebodyGoesOn
<1> QED BY <1>1, <1>2, ProgressInit, QueueInvAlways, PTL DEF MutationSpec

LEMMA CloserStep ==
  ASSUME MutationTypeOK, NotBegun, [MutationNext]_mutationVars,
         NEW c \in Mutations, promise[c] # "none"
  PROVE  /\ Ahead(c)' <= Ahead(c)
         /\ Enter(c) \/ BodyStep(c) => Ahead(c)' < Ahead(c)
<1>0. Ahead(c) \in 0..5
  BY DEF Ahead, MutationTypeOK, Steps
<1>1. ASSUME NEW d \in Mutations, d # c,
             \/ \E tool \in {"edit", "write"}, path \in Paths : Mutate(d, tool, path)
             \/ Enter(d) \/ BodyStep(d)
      PROVE  Ahead(c)' = Ahead(c)
  <2>1. promise'[c] = promise[c] /\ body'[c] = body[c]
    BY <1>1 DEF Mutate, Enter, BodyStep, Prepares, Reads, Opens, Fills, WriteFails, Settle, GoesOn,
                MutationTypeOK
  <2> QED BY <2>1 DEF Ahead
<1>2. ASSUME NEW tool, NEW path, Mutate(c, tool, path) PROVE FALSE
  BY <1>2 DEF Mutate
<1>3. CASE Enter(c)
  <2>1. /\ promise[c] = "waiting" /\ body[c] = "none"
        /\ promise'[c] \in {"inside", "rejected"} /\ body'[c] \in {"none", "prepare"}
    BY <1>3 DEF Enter, NotBegun, MutationTypeOK
  <2> QED BY <2>1 DEF Ahead
<1>4. CASE BodyStep(c)
  <2>1. /\ promise[c] # "waiting" /\ promise'[c] # "waiting"
    <3>1. body[c] # "none"
      BY <1>4 DEF BodyStep, Prepares, Reads, Opens, Fills, WriteFails, Writing
    <3>2. promise[c] # "waiting"
      BY <3>1 DEF NotBegun
    <3> QED BY <1>4, <3>2 DEF BodyStep, Prepares, Reads, Opens, Fills, WriteFails, Settle,
                              MutationTypeOK
  <2>2. \/ body[c] = "prepare" /\ body'[c] \in {"read", "open", "over"}
        \/ body[c] = "read" /\ body'[c] \in {"open", "over"}
        \/ body[c] = "open" /\ body'[c] \in {"fill", "over"}
        \/ body[c] = "fill" /\ body'[c] = "over"
    BY <1>4 DEF BodyStep, Prepares, Reads, Opens, Fills, WriteFails, Writing, GoesOn,
                MutationTypeOK
  <2> QED BY <2>1, <2>2 DEF Ahead
<1>5. ASSUME AbortMutations \/ UNCHANGED mutationVars
      PROVE  Ahead(c)' = Ahead(c)
  <2>1. body' = body /\ (promise'[c] = "waiting" <=> promise[c] = "waiting")
    BY <1>5 DEF AbortMutations, mutationVars, MutationTypeOK
  <2> QED BY <2>1 DEF Ahead
<1>6. CASE Enter(c) \/ BodyStep(c)
  BY <1>0, <1>3, <1>4, <1>6
<1>7. CASE ~(Enter(c) \/ BodyStep(c))
  <2>1. Ahead(c)' = Ahead(c)
    BY <1>1, <1>2, <1>5, <1>7 DEF MutationNext
  <2> QED BY <1>0, <1>7, <2>1
<1> QED BY <1>6, <1>7

\* A call that was made has at most five steps ahead of it, and no other call or abort adds
\* one: with the fairness of its steps, it is settled.
THEOREM CallsAlwaysComeCloser == MutationSpec => CallsComeCloser
<1>1. MutationTyped /\ EditInv /\ [MutationNext]_mutationVars
      => [\A c \in Mutations : promise[c] # "none" =>
             /\ Ahead(c)' <= Ahead(c)
             /\ Enter(c) \/ BodyStep(c) => Ahead(c)' < Ahead(c)]_mutationVars
  BY CloserStep DEF MutationTyped, EditInv
<1>2. /\ MutationTyped /\ EditInv /\ OneInside' /\ [MutationNext]_mutationVars
      => MutationTyped' /\ EditInv'
  BY MutationTypedNext, EditInvNext
<1> QED
  BY <1>1, <1>2, MutationTypedInit, EditInvInit, OneInsideAlways, PTL
     DEF MutationSpec, CallsComeCloser

-----------------------------------------------------------------------------
(***************************************************************************)
(* What Settings keeps for any processes, fields and bounds: its types, and   *)
(* that a save never undoes what another process has saved.  The argument is    *)
(* the lock: whoever is about to write holds it, and has read under it what the *)
(* file still holds.                                                           *)
(***************************************************************************)
Task == [snapshot : [Fields -> Values], modified : SUBSET Fields]

\* A running task is in the queue, which is no longer than there were sets.
QueueHoldsTask ==
  \A m \in Managers : /\ Len(writeQueue[m]) <= sets
                      /\ step[m] \in {"lock", "write"} => writeQueue[m] # <<>>

SettingsTyped == SettingsTypeOK /\ QueueHoldsTask

\* Who writes holds the lock, and conversely.
WriterHasLock == \A m \in Managers : step[m] = "write" <=> settingsLock = m

\* ... and has read what the file holds, unless the file appeared in between.
ReadIsFresh ==
  \A m \in Managers :
    /\ step[m] = "lock" => read[m] = NoSettings
    /\ step[m] = "write" /\ ~overtaken =>
         read[m] = Parsed(settingsFile) /\ settingsFile # TornSettings

\* What the file must hold, if it can be read.
Owed == [f \in Fields |-> IF f \in wiped THEN 0 ELSE due[f]]

SettingsInv == SettingsTyped /\ WriterHasLock /\ ReadIsFresh /\ SettingsKept

-----------------------------------------------------------------------------
LEMMA FileStates ==
  /\ NoSettingsFile # EmptySettings /\ NoSettingsFile # TornSettings /\ EmptySettings # TornSettings
  /\ {NoSettingsFile, EmptySettings, TornSettings} \cap [Fields -> Values] = {}
  /\ NoSettings \in [Fields -> Values]
<1>1. PICK f \in Fields : TRUE
  BY SettingsAssumption
<1>2. NoSettingsFile[f] = -1 /\ EmptySettings[f] = -2 /\ TornSettings[f] = -3
  BY DEF NoSettingsFile, EmptySettings, TornSettings
<1>3. \A s \in [Fields -> Values] : s[f] \in Nat
  BY SettingsAssumption DEF Values
<1>4. NoSettings \in [Fields -> Values]
  BY SettingsAssumption DEF NoSettings, Values
<1>5. -1 \notin Nat /\ -2 \notin Nat /\ -3 \notin Nat /\ -1 # -2 /\ -1 # -3 /\ -2 # -3
  OBVIOUS
<1> QED BY <1>2, <1>3, <1>4, <1>5

LEMMA ParsedType ==
  ASSUME SettingsTypeOK, settingsFile # TornSettings
  PROVE  Parsed(settingsFile) \in [Fields -> Values]
BY SettingsAssumption DEF SettingsTypeOK, Parsed, NoSettings, Values

LEMMA TasksLeft ==
  ASSUME NEW q \in Seq(Task), q # <<>>
  PROVE  q[1] \in Task /\ Tail(q) \in Seq(Task) /\ Len(Tail(q)) <= Len(q)
BY HeadTailProperties, EmptySeq

LEMMA SettingsTypedInit == SettingsInit => SettingsTyped
<1> SUFFICES ASSUME SettingsInit PROVE SettingsTyped
  OBVIOUS
<1>1. NoSettings \in [Fields -> Values]
  BY SettingsAssumption DEF NoSettings, Values
<1>2. [m \in Managers |-> <<>>] \in [Managers -> Seq(Task)]
  BY EmptySeq
<1>3. /\ settingsFile \in [Fields -> Values] \cup {NoSettingsFile, EmptySettings, TornSettings}
      /\ settingsLock \in Managers \cup {Nobody, DeadManager}
  BY <1>1 DEF SettingsInit
<1>4. [m \in Managers |-> NoReload] \in [Managers -> NoReload..MaxSets]
  BY SettingsAssumption DEF NoReload
<1>5. /\ sets \in 0..MaxSets /\ persisted \subseteq Values /\ reloads \in 0..MaxReloads
      /\ deadManagers \in 0..MaxDeadManagers
  BY SettingsAssumption DEF SettingsInit
<1>6. SettingsTypeOK
  BY <1>1, <1>2, <1>3, <1>4, <1>5 DEF SettingsInit, SettingsTypeOK, Task
<1>7. QueueHoldsTask
  <2>1. \A m \in Managers : writeQueue[m] = <<>> /\ step[m] = "idle" /\ sets = 0
    BY DEF SettingsInit
  <2>2. Len(<<>>) = 0
    OBVIOUS
  <2> SUFFICES ASSUME NEW m \in Managers
               PROVE  /\ Len(writeQueue[m]) <= sets
                      /\ step[m] \in {"lock", "write"} => writeQueue[m] # <<>>
    BY DEF QueueHoldsTask
  <2>3. Len(writeQueue[m]) = 0 /\ sets = 0
    BY <2>1, <2>2
  <2> QED BY <2>1, <2>3
<1> QED BY <1>6, <1>7 DEF SettingsTyped

LEMMA TaskEndsTyped ==
  ASSUME SettingsTyped, NEW m \in Managers, TaskEnds(m), writeQueue[m] # <<>>, sets' = sets
  PROVE  /\ step' \in [Managers -> {"idle", "lock", "write", "dead"}]
         /\ read' \in [Managers -> [Fields -> Values]]
         /\ writeQueue' \in [Managers -> Seq(Task)]
         /\ reloading' \in [Managers -> NoReload..MaxSets]
         /\ QueueHoldsTask'
<1>1. writeQueue \in [Managers -> Seq(Task)]
  BY DEF SettingsTyped, SettingsTypeOK, Task
<1>2. Tail(writeQueue[m]) \in Seq(Task) /\ Len(Tail(writeQueue[m])) <= Len(writeQueue[m])
  BY <1>1, TasksLeft
<1>3. writeQueue' \in [Managers -> Seq(Task)]
  BY <1>1, <1>2 DEF TaskEnds
<1>4. step' \in [Managers -> {"idle", "lock", "write", "dead"}]
  BY DEF TaskEnds, SettingsTyped, SettingsTypeOK
<1>5. read' \in [Managers -> [Fields -> Values]]
  BY SettingsAssumption DEF TaskEnds, SettingsTyped, SettingsTypeOK, NoSettings, Values
<1>6. reloading' \in [Managers -> NoReload..MaxSets]
  BY SettingsAssumption DEF TaskEnds, SettingsTyped, SettingsTypeOK, NoReload
<1>7. QueueHoldsTask'
  <2> SUFFICES ASSUME NEW k \in Managers
               PROVE  /\ Len(writeQueue'[k]) <= sets
                      /\ step'[k] \in {"lock", "write"} => writeQueue'[k] # <<>>
    BY DEF QueueHoldsTask
  <2>1. CASE k = m
    <3>1. writeQueue'[k] = Tail(writeQueue[m]) /\ step'[k] = "idle"
      BY <2>1, <1>1 DEF TaskEnds, SettingsTyped, SettingsTypeOK
    <3>2. Len(Tail(writeQueue[m])) \in Nat /\ Len(writeQueue[m]) \in Nat /\ sets \in Nat
      BY <1>1, <1>2, LenProperties, SettingsAssumption DEF SettingsTyped, SettingsTypeOK
    <3> QED BY <3>1, <3>2, <1>2 DEF SettingsTyped, QueueHoldsTask
  <2>2. CASE k # m
    <3>1. writeQueue'[k] = writeQueue[k] /\ step'[k] = step[k]
      BY <2>2, <1>1 DEF TaskEnds, SettingsTyped, SettingsTypeOK
    <3> QED BY <3>1 DEF SettingsTyped, QueueHoldsTask
  <2> QED BY <2>1, <2>2
<1> QED BY <1>3, <1>4, <1>5, <1>6, <1>7

LEMMA LoadTyped ==
  ASSUME SettingsTypeOK, NEW m \in Managers, NEW fallback \in [Fields -> Values], Load(m, fallback)
  PROVE  /\ settingsLock' \in Managers \cup {Nobody, DeadManager}
         /\ globalSettings' \in [Managers -> [Fields -> Values]]
         /\ loadFailed' \in [Managers -> BOOLEAN]
<1>1. settingsFile = NoSettingsFile \/ settingsFile # TornSettings
        => Parsed(settingsFile) \in [Fields -> Values]
  BY ParsedType, SettingsAssumption DEF Parsed, NoSettings, Values
<1>2. globalSettings' \in [Managers -> [Fields -> Values]]
  BY <1>1 DEF Load, SettingsTypeOK
<1>3. loadFailed' \in [Managers -> BOOLEAN] /\ settingsLock' \in Managers \cup {Nobody, DeadManager}
  BY DEF Load, SettingsTypeOK
<1> QED BY <1>2, <1>3

LEMMA BlankTyped ==
  ASSUME SettingsTypeOK, NEW m \in Managers, Blank(m)
  PROVE  /\ modifiedFields' \in [Managers -> SUBSET Fields]
         /\ writeQueue' \in [Managers -> Seq(Task)]
         /\ reloading' \in [Managers -> NoReload..MaxSets]
         /\ read' \in [Managers -> [Fields -> Values]]
         /\ writeQueue'[m] = <<>>
         /\ \A k \in Managers : k # m => writeQueue'[k] = writeQueue[k]
<1>1. writeQueue \in [Managers -> Seq(Task)] /\ <<>> \in Seq(Task)
  BY EmptySeq DEF SettingsTypeOK, Task
<1>2. NoSettings \in [Fields -> Values] /\ NoReload \in NoReload..MaxSets
  BY SettingsAssumption DEF NoSettings, Values, NoReload
<1> QED BY <1>1, <1>2 DEF Blank, SettingsTypeOK

LEMMA SettingsTypedNext == SettingsTyped /\ [SettingsNext]_settingsVars => SettingsTyped'
<1> SUFFICES ASSUME SettingsTyped, [SettingsNext]_settingsVars
             PROVE  SettingsTyped'
  OBVIOUS
<1> USE SettingsAssumption
<1>t. SettingsTypeOK /\ QueueHoldsTask
  BY DEF SettingsTyped
<1>q. \A m \in Managers : writeQueue[m] \in Seq(Task) /\ Len(writeQueue[m]) \in Nat
  BY <1>t, LenProperties DEF SettingsTypeOK, Task
<1>z. NoSettings \in [Fields -> Values]
  BY DEF NoSettings, Values
<1>1. ASSUME NEW m \in Managers, NEW f \in Fields, SetField(m, f) PROVE SettingsTyped'
  <2> DEFINE values == [globalSettings[m] EXCEPT ![f] = sets + 1]
             task == [snapshot |-> values, modified |-> modifiedFields[m] \cup {f}]
  <2>0. \/ writeQueue' = writeQueue
        \/ writeQueue' = [writeQueue EXCEPT ![m] = Append(@, task)]
    BY <1>1 DEF SetField
  <2>1. sets \in Nat /\ sets < MaxSets /\ sets + 1 \in Values
    BY <1>1, <1>t DEF SetField, SettingsTypeOK, Values
  <2>2. task \in Task /\ values \in [Fields -> Values]
    BY <1>t, <2>1 DEF SettingsTypeOK, Task
  <2>3. /\ Append(writeQueue[m], task) \in Seq(Task)
        /\ Len(Append(writeQueue[m], task)) = Len(writeQueue[m]) + 1
    BY <1>q, <2>2, AppendProperties
  <2>4. /\ writeQueue' \in [Managers -> Seq(Task)]
        /\ \A k \in Managers : writeQueue'[k] = writeQueue[k]
                              \/ Len(writeQueue'[k]) = Len(writeQueue[k]) + 1
    <3> HIDE DEF task
    <3>1. writeQueue \in [Managers -> Seq(Task)]
      BY <1>t DEF SettingsTypeOK, Task
    <3> QED BY <2>0, <3>1, <2>3
  <2>5. QueueHoldsTask'
    <3> SUFFICES ASSUME NEW k \in Managers
                 PROVE  /\ Len(writeQueue'[k]) <= sets'
                        /\ step'[k] \in {"lock", "write"} => writeQueue'[k] # <<>>
      BY DEF QueueHoldsTask
    <3>1. sets' = sets + 1 /\ step' = step /\ Len(writeQueue[k]) <= sets
      BY <1>1, <1>t DEF SetField, QueueHoldsTask
    <3>2. Len(writeQueue'[k]) <= sets'
      BY <3>1, <2>4, <2>1, <1>q
    <3>3. step'[k] \in {"lock", "write"} => writeQueue'[k] # <<>>
      <4>1. step[k] \in {"lock", "write"} => writeQueue[k] # <<>>
        BY <1>t DEF QueueHoldsTask
      <4>2. Len(writeQueue'[k]) = Len(writeQueue[k]) + 1 => writeQueue'[k] # <<>>
        BY <1>q
      <4> QED BY <4>1, <4>2, <3>1, <2>4
    <3> QED BY <3>2, <3>3
  <2>6. SettingsTypeOK'
    <3>1. globalSettings' \in [Managers -> [Fields -> Values]]
      BY <1>1, <1>t, <2>2 DEF SetField, SettingsTypeOK
    <3>2. modifiedFields' \in [Managers -> SUBSET Fields]
      BY <1>1, <1>t DEF SetField, SettingsTypeOK
    <3>3. sets' \in 0..MaxSets
      BY <1>1, <2>1 DEF SetField
    <3> QED BY <1>1, <1>t, <2>4, <3>1, <3>2, <3>3 DEF SetField, SettingsTypeOK, Task
  <2> QED BY <2>5, <2>6 DEF SettingsTyped
<1>2. ASSUME NEW m \in Managers, BeginTask(m) PROVE SettingsTyped'
  <2>1. CASE settingsFile = TornSettings
    <3>1. TaskEnds(m) /\ writeQueue[m] # <<>> /\ sets' = sets /\ settingsLock' = Nobody
      BY <1>2, <2>1, FileStates DEF BeginTask
    <3> QED BY <1>2, <1>t, <3>1, TaskEndsTyped DEF BeginTask, SettingsTyped, SettingsTypeOK, Task
  <2>2. CASE settingsFile # TornSettings
    <3>1. /\ step' \in [Managers -> {"idle", "lock", "write", "dead"}]
          /\ settingsLock' \in Managers \cup {Nobody, DeadManager}
          /\ UNCHANGED <<writeQueue, reloading, sets>>
      BY <1>2, <2>2, <1>t DEF BeginTask, SettingsTypeOK
    <3>2. read' \in [Managers -> [Fields -> Values]]
      <4>1. Parsed(settingsFile) \in [Fields -> Values]
        BY <1>t, <2>2, ParsedType
      <4> QED BY <1>2, <2>2, <1>t, <1>z, <4>1 DEF BeginTask, SettingsTypeOK
    <3>3. SettingsTypeOK'
      BY <1>2, <1>t, <3>1, <3>2 DEF BeginTask, SettingsTypeOK
    <3>4. \A k \in Managers : step'[k] = step[k] \/ k = m
      BY <1>2, <2>2, <1>t DEF BeginTask, SettingsTypeOK
    <3>5. QueueHoldsTask'
      BY <1>2, <1>t, <3>1, <3>4 DEF BeginTask, QueueHoldsTask
    <3> QED BY <3>3, <3>5 DEF SettingsTyped
  <2> QED BY <2>1, <2>2
<1>3. ASSUME NEW m \in Managers, LockNewFile(m) PROVE SettingsTyped'
  <2>1. SettingsTypeOK'
    BY <1>3, <1>t DEF LockNewFile, SettingsTypeOK
  <2>2. QueueHoldsTask'
    BY <1>3, <1>t DEF LockNewFile, QueueHoldsTask, SettingsTypeOK
  <2> QED BY <2>1, <2>2 DEF SettingsTyped
<1>4. ASSUME NEW m \in Managers, LockSettingsFails(m) PROVE SettingsTyped'
  <2>1. TaskEnds(m) /\ writeQueue[m] # <<>> /\ sets' = sets
    BY <1>4, <1>t DEF LockSettingsFails, QueueHoldsTask
  <2> QED BY <1>4, <1>t, <2>1, TaskEndsTyped
          DEF LockSettingsFails, SettingsTyped, SettingsTypeOK, Task
<1>5. ASSUME NEW m \in Managers, WriteSettings(m) PROVE SettingsTyped'
  <2>1. TaskEnds(m) /\ writeQueue[m] # <<>> /\ sets' = sets
    BY <1>5, <1>t DEF WriteSettings, QueueHoldsTask
  <2>2. writeQueue[m][1] \in Task
    BY <1>q, <2>1, TasksLeft
  <2>3. MergedSettings(read[m], writeQueue[m][1]) \in [Fields -> Values]
    BY <1>t, <2>2 DEF MergedSettings, SettingsTypeOK, Task
  <2>4. /\ due' \in [Fields -> Values] /\ wiped' \subseteq Fields
        /\ persisted' \subseteq Values /\ repeated' \in BOOLEAN
    BY <1>5, <1>t, <2>2 DEF WriteSettings, SettingsTypeOK, Task
  <2>5. modifiedFields' \in [Managers -> SUBSET Fields]
    BY <1>5, <1>t DEF WriteSettings, SettingsTypeOK
  <2>6. settingsFile' \in [Fields -> Values] /\ settingsLock' = Nobody
    BY <1>5, <2>3 DEF WriteSettings
  <2> QED BY <1>5, <1>t, <2>1, <2>4, <2>5, <2>6, TaskEndsTyped
          DEF WriteSettings, SettingsTyped, SettingsTypeOK, Task
<1>6. ASSUME NEW m \in Managers, DieInTask(m) PROVE SettingsTyped'
  <2>1. /\ modifiedFields' \in [Managers -> SUBSET Fields]
        /\ writeQueue' \in [Managers -> Seq(Task)]
        /\ reloading' \in [Managers -> NoReload..MaxSets]
        /\ read' \in [Managers -> [Fields -> Values]]
        /\ writeQueue'[m] = <<>>
        /\ \A k \in Managers : k # m => writeQueue'[k] = writeQueue[k]
    BY <1>6, <1>t, BlankTyped DEF DieInTask
  <2>2. /\ globalSettings' \in [Managers -> [Fields -> Values]]
        /\ loadFailed' \in [Managers -> BOOLEAN]
        /\ step' \in [Managers -> {"idle", "lock", "write", "dead"}]
    BY <1>6, <1>t, <1>z DEF DieInTask, SettingsTypeOK
  <2>3. /\ settingsFile' \in [Fields -> Values] \cup {NoSettingsFile, EmptySettings, TornSettings}
        /\ due' \in [Fields -> Values] /\ wiped' \subseteq Fields
        /\ settingsLock' \in Managers \cup {Nobody, DeadManager}
        /\ deadManagers' \in 0..MaxDeadManagers
    BY <1>6, <1>t, <1>z DEF DieInTask, SettingsTypeOK
  <2>4. SettingsTypeOK'
    BY <1>6, <1>t, <2>1, <2>2, <2>3 DEF DieInTask, SettingsTypeOK, Task
  <2>5. QueueHoldsTask'
    <3> SUFFICES ASSUME NEW k \in Managers
                 PROVE  /\ Len(writeQueue'[k]) <= sets'
                        /\ step'[k] \in {"lock", "write"} => writeQueue'[k] # <<>>
      BY DEF QueueHoldsTask
    <3>1. CASE k = m
      <4>1. step'[k] = "dead" /\ sets' = sets /\ sets \in Nat /\ Len(<<>>) = 0
        BY <1>6, <1>t, <3>1 DEF DieInTask, SettingsTypeOK
      <4> QED BY <3>1, <4>1, <2>1
    <3>2. CASE k # m
      BY <1>6, <1>t, <3>2, <2>1 DEF DieInTask, QueueHoldsTask, SettingsTypeOK
    <3> QED BY <3>1, <3>2
  <2> QED BY <2>4, <2>5 DEF SettingsTyped
<1>7. ASSUME NEW m \in Managers, StartManager(m) PROVE SettingsTyped'
  <2>1. /\ modifiedFields' \in [Managers -> SUBSET Fields]
        /\ writeQueue' \in [Managers -> Seq(Task)]
        /\ reloading' \in [Managers -> NoReload..MaxSets]
        /\ read' \in [Managers -> [Fields -> Values]]
        /\ writeQueue'[m] = <<>>
        /\ \A k \in Managers : k # m => writeQueue'[k] = writeQueue[k]
    BY <1>7, <1>t, BlankTyped DEF StartManager
  <2>2. /\ settingsLock' \in Managers \cup {Nobody, DeadManager}
        /\ globalSettings' \in [Managers -> [Fields -> Values]]
        /\ loadFailed' \in [Managers -> BOOLEAN]
    BY <1>7, <1>t, <1>z, LoadTyped DEF StartManager
  <2>3. step' \in [Managers -> {"idle", "lock", "write", "dead"}]
    BY <1>7, <1>t DEF StartManager, SettingsTypeOK
  <2>4. SettingsTypeOK'
    BY <1>7, <1>t, <2>1, <2>2, <2>3 DEF StartManager, SettingsTypeOK, Task
  <2>5. QueueHoldsTask'
    <3> SUFFICES ASSUME NEW k \in Managers
                 PROVE  /\ Len(writeQueue'[k]) <= sets'
                        /\ step'[k] \in {"lock", "write"} => writeQueue'[k] # <<>>
      BY DEF QueueHoldsTask
    <3>1. CASE k = m
      <4>1. step'[k] = "idle" /\ sets' = sets /\ sets \in Nat /\ Len(<<>>) = 0
        BY <1>7, <1>t, <3>1 DEF StartManager, SettingsTypeOK
      <4> QED BY <3>1, <4>1, <2>1
    <3>2. CASE k # m
      BY <1>7, <1>t, <3>2, <2>1 DEF StartManager, QueueHoldsTask, SettingsTypeOK
    <3> QED BY <3>1, <3>2
  <2> QED BY <2>4, <2>5 DEF SettingsTyped
<1>8. ASSUME NEW m \in Managers, StartReload(m) PROVE SettingsTyped'
  <2>1. Len(writeQueue[m]) \in NoReload..MaxSets
    BY <1>t, <1>q DEF QueueHoldsTask, SettingsTypeOK, NoReload
  <2>2. reloads' \in 0..MaxReloads
    BY <1>8, <1>t DEF StartReload, SettingsTypeOK
  <2>3. SettingsTypeOK'
    BY <1>8, <1>t, <2>1, <2>2 DEF StartReload, SettingsTypeOK
  <2>4. QueueHoldsTask'
    BY <1>8, <1>t DEF StartReload, QueueHoldsTask
  <2> QED BY <2>3, <2>4 DEF SettingsTyped
<1>9. ASSUME NEW m \in Managers, Reload(m) PROVE SettingsTyped'
  <2>1. /\ settingsLock' \in Managers \cup {Nobody, DeadManager}
        /\ globalSettings' \in [Managers -> [Fields -> Values]]
        /\ loadFailed' \in [Managers -> BOOLEAN]
    BY <1>9, <1>t, LoadTyped DEF Reload, SettingsTypeOK
  <2>2. NoReload \in NoReload..MaxSets
    BY DEF NoReload
  <2>3. SettingsTypeOK'
    BY <1>9, <1>t, <2>1, <2>2 DEF Reload, SettingsTypeOK
  <2>4. QueueHoldsTask'
    BY <1>9, <1>t DEF Reload, QueueHoldsTask
  <2> QED BY <2>3, <2>4 DEF SettingsTyped
<1>10. CASE UNCHANGED settingsVars
  <2>1. SettingsTypeOK'
    BY <1>10, <1>t DEF settingsVars, SettingsTypeOK
  <2>2. QueueHoldsTask'
    BY <1>10, <1>t DEF settingsVars, QueueHoldsTask
  <2> QED BY <2>1, <2>2 DEF SettingsTyped
<1> QED BY <1>1, <1>2, <1>3, <1>4, <1>5, <1>6, <1>7, <1>8, <1>9, <1>10 DEF SettingsNext

-----------------------------------------------------------------------------
\* Merging into what the file still holds changes it as `due` changes, unless the
\* task repeats a set.
LEMMA MergeIsDue ==
  ASSUME SettingsInv, NEW m \in Managers, WriteSettings(m)
  PROVE  SettingsKept'
<1> DEFINE task == writeQueue[m][1]
           written == {task.snapshot[f] : f \in task.modified}
<1>1. SettingsTypeOK /\ writeQueue[m] # <<>> /\ writeQueue[m] \in Seq(Task)
  BY DEF SettingsInv, SettingsTyped, SettingsTypeOK, QueueHoldsTask, WriteSettings, Task
<1>2. task \in Task
  BY <1>1, TasksLeft
<1>5. settingsFile' = MergedSettings(read[m], task)
  BY DEF WriteSettings
<1>6. settingsFile' \in [Fields -> Values]
  BY <1>1, <1>2, <1>5 DEF MergedSettings, SettingsTypeOK, Task
<1>7. Parsed(settingsFile') = settingsFile' /\ settingsFile' # TornSettings
  BY <1>6, FileStates DEF Parsed
<1>3. SUFFICES ASSUME ~overtaken, ~repeated, written \cap persisted = {}
               PROVE  Parsed(settingsFile') = Owed'
  <2>1. overtaken' = overtaken /\ repeated' = (repeated \/ written \cap persisted # {})
    BY DEF WriteSettings
  <2>2. Parsed(settingsFile)' = Parsed(settingsFile')
    BY DEF Parsed
  <2> QED BY <2>1, <2>2, <1>7 DEF SettingsKept, Owed
<1>4. /\ read[m] = Parsed(settingsFile) /\ settingsFile # TornSettings
      /\ read[m] = Owed
  BY <1>3 DEF SettingsInv, ReadIsFresh, SettingsKept, WriteSettings, Owed
<1>8. \A f \in task.modified : task.snapshot[f] \notin persisted
  BY <1>3
<1>9. /\ due' = [f \in Fields |-> IF f \in task.modified /\ task.snapshot[f] \notin persisted
                                 THEN task.snapshot[f] ELSE due[f]]
      /\ wiped' = wiped \ task.modified
  BY DEF WriteSettings
<1>10. \A f \in Fields : MergedSettings(read[m], task)[f] = Owed'[f]
  BY <1>4, <1>8, <1>9 DEF MergedSettings, Owed
<1>11. MergedSettings(read[m], task) = Owed'
  BY <1>10 DEF MergedSettings, Owed
<1> QED BY <1>5, <1>7, <1>11

\* The file does not change under the lock of another process.
LEMMA SettingsLockKeeps ==
  ASSUME SettingsInv, SettingsTyped', [SettingsNext]_settingsVars
  PROVE  WriterHasLock' /\ ReadIsFresh' /\ SettingsKept'
<1> USE SettingsAssumption
<1>t. SettingsTypeOK /\ SettingsTypeOK' /\ WriterHasLock /\ ReadIsFresh /\ SettingsKept
  BY DEF SettingsInv, SettingsTyped
<1>1. ASSUME NEW m \in Managers, NEW f \in Fields, SetField(m, f)
      PROVE  WriterHasLock' /\ ReadIsFresh' /\ SettingsKept'
  BY <1>1, <1>t DEF SetField, WriterHasLock, ReadIsFresh, SettingsKept
<1>2. ASSUME NEW m \in Managers, BeginTask(m)
      PROVE  WriterHasLock' /\ ReadIsFresh' /\ SettingsKept'
  <2>1. SettingsKept'
    BY <1>2, <1>t DEF BeginTask, SettingsKept
  <2>2. CASE settingsFile = NoSettingsFile
    <3>1. /\ step' = [step EXCEPT ![m] = "lock"] /\ read' = [read EXCEPT ![m] = NoSettings]
          /\ UNCHANGED <<settingsLock, settingsFile, overtaken>> /\ step[m] = "idle"
      BY <1>2, <2>2, FileStates DEF BeginTask
    <3>2. WriterHasLock'
      BY <3>1, <1>t DEF WriterHasLock, SettingsTypeOK
    <3>3. ReadIsFresh'
      BY <3>1, <1>t DEF ReadIsFresh, SettingsTypeOK
    <3> QED BY <2>1, <3>2, <3>3
  <2>3. CASE settingsFile = TornSettings
    <3>1. /\ step' = [step EXCEPT ![m] = "idle"] /\ read' = [read EXCEPT ![m] = NoSettings]
          /\ settingsLock' = Nobody /\ settingsLock \notin Managers
          /\ UNCHANGED <<settingsFile, overtaken>>
      BY <1>2, <2>3, FileStates DEF BeginTask, TaskEnds, MayLockSettings
    <3>2. WriterHasLock'
      BY <3>1, <1>t DEF WriterHasLock, SettingsTypeOK
    <3>3. ReadIsFresh'
      BY <3>1, <1>t DEF ReadIsFresh, SettingsTypeOK
    <3> QED BY <2>1, <3>2, <3>3
  <2>4. CASE settingsFile \notin {NoSettingsFile, TornSettings}
    <3>1. /\ step' = [step EXCEPT ![m] = "write"]
          /\ read' = [read EXCEPT ![m] = Parsed(settingsFile)]
          /\ settingsLock' = m /\ settingsLock \notin Managers
          /\ UNCHANGED <<settingsFile, overtaken>>
      BY <1>2, <2>4 DEF BeginTask, MayLockSettings
    <3>2. WriterHasLock'
      BY <3>1, <1>t DEF WriterHasLock, SettingsTypeOK
    <3>3. ReadIsFresh'
      <4>1. Parsed(settingsFile') = Parsed(settingsFile)
        BY <3>1 DEF Parsed
      <4> QED BY <3>1, <4>1, <2>4, <1>t DEF ReadIsFresh, SettingsTypeOK
    <3> QED BY <2>1, <3>2, <3>3
  <2> QED BY <2>2, <2>3, <2>4
<1>3. ASSUME NEW m \in Managers, LockNewFile(m)
      PROVE  WriterHasLock' /\ ReadIsFresh' /\ SettingsKept'
  <2>1. /\ step' = [step EXCEPT ![m] = "write"] /\ step[m] = "lock"
        /\ settingsLock' = m /\ settingsLock \notin Managers
        /\ UNCHANGED <<read, settingsFile, repeated, due, wiped>>
        /\ overtaken' = (overtaken \/ settingsFile # NoSettingsFile)
    BY <1>3 DEF LockNewFile, MayLockSettings
  <2>2. WriterHasLock'
    BY <2>1, <1>t DEF WriterHasLock, SettingsTypeOK
  <2>3. ReadIsFresh'
    <3>1. ~overtaken' => settingsFile' = NoSettingsFile /\ Parsed(settingsFile') = NoSettings
      BY <2>1 DEF Parsed
    <3>2. read'[m] = NoSettings
      BY <2>1, <1>t DEF ReadIsFresh
    <3>3. Parsed(settingsFile') = Parsed(settingsFile)
      BY <2>1 DEF Parsed
    <3> QED BY <2>1, <3>1, <3>2, <3>3, <1>t, FileStates DEF ReadIsFresh, SettingsTypeOK
  <2>4. SettingsKept'
    BY <2>1, <1>t DEF SettingsKept
  <2> QED BY <2>2, <2>3, <2>4
<1>4. ASSUME NEW m \in Managers, LockSettingsFails(m)
      PROVE  WriterHasLock' /\ ReadIsFresh' /\ SettingsKept'
  <2>1. /\ step' = [step EXCEPT ![m] = "idle"] /\ read' = [read EXCEPT ![m] = NoSettings]
        /\ settingsLock \notin Managers
        /\ UNCHANGED <<settingsLock, settingsFile, overtaken, repeated, due, wiped>>
    BY <1>4 DEF LockSettingsFails, TaskEnds
  <2>2. WriterHasLock'
    BY <2>1, <1>t DEF WriterHasLock, SettingsTypeOK
  <2>3. ReadIsFresh' /\ SettingsKept'
    BY <2>1, <1>t DEF ReadIsFresh, SettingsTypeOK, SettingsKept
  <2> QED BY <2>2, <2>3
<1>5. ASSUME NEW m \in Managers, WriteSettings(m)
      PROVE  WriterHasLock' /\ ReadIsFresh' /\ SettingsKept'
  <2>1. /\ step' = [step EXCEPT ![m] = "idle"] /\ read' = [read EXCEPT ![m] = NoSettings]
        /\ settingsLock' = Nobody /\ step[m] = "write"
    BY <1>5 DEF WriteSettings, TaskEnds
  <2>2. \A k \in Managers : k # m => step[k] # "write"
    BY <2>1, <1>t DEF WriterHasLock
  <2>3. WriterHasLock'
    BY <2>1, <2>2, <1>t DEF WriterHasLock, SettingsTypeOK
  <2>4. ReadIsFresh'
    BY <2>1, <2>2, <1>t DEF ReadIsFresh, SettingsTypeOK
  <2> QED BY <2>3, <2>4, <1>5, MergeIsDue
<1>6. ASSUME NEW m \in Managers, DieInTask(m)
      PROVE  WriterHasLock' /\ ReadIsFresh' /\ SettingsKept'
  <2>1. /\ step' = [step EXCEPT ![m] = "dead"] /\ read' = [read EXCEPT ![m] = NoSettings]
        /\ settingsLock' = IF settingsLock = m THEN DeadManager ELSE settingsLock
        /\ UNCHANGED <<overtaken, repeated, due>>
        /\ \/ UNCHANGED <<settingsFile, wiped>>
           \/ /\ step[m] = "write"
              /\ settingsFile' \in {EmptySettings, TornSettings} /\ wiped' = Fields
    BY <1>6 DEF DieInTask, Blank
  <2>2. WriterHasLock'
    BY <2>1, <1>t DEF WriterHasLock, SettingsTypeOK
  <2>3. \A k \in Managers : k # m /\ step[k] = "write" => settingsFile' = settingsFile
    BY <2>1, <1>t DEF WriterHasLock
  <2>4. settingsFile' = settingsFile => Parsed(settingsFile') = Parsed(settingsFile)
    BY DEF Parsed
  <2>5. ReadIsFresh'
    BY <2>1, <2>3, <2>4, <1>t DEF ReadIsFresh, SettingsTypeOK
  <2>6. SettingsKept'
    <3>1. settingsFile' = EmptySettings => Parsed(settingsFile') = NoSettings
      BY DEF Parsed
    <3>2. wiped' = Fields => [f \in Fields |-> IF f \in wiped' THEN 0 ELSE due'[f]] = NoSettings
      BY DEF NoSettings
    <3>3. CASE UNCHANGED <<settingsFile, wiped>>
      BY <2>1, <2>4, <3>3, <1>t DEF SettingsKept
    <3>4. CASE settingsFile' \in {EmptySettings, TornSettings} /\ wiped' = Fields
      BY <3>1, <3>2, <3>4, FileStates DEF SettingsKept
    <3> QED BY <2>1, <3>3, <3>4
  <2> QED BY <2>2, <2>5, <2>6
<1>7. ASSUME NEW m \in Managers, NEW fallback, Load(m, fallback), step[m] \in {"idle", "dead"},
             step' = [step EXCEPT ![m] = "idle"],
             read' = [read EXCEPT ![m] = NoSettings] \/ read' = read,
             UNCHANGED <<settingsFile, due, wiped, repeated, overtaken>>
      PROVE  WriterHasLock' /\ ReadIsFresh' /\ SettingsKept'
  <2>1. settingsLock' = settingsLock \/ (settingsLock' = Nobody /\ settingsLock \notin Managers)
    BY <1>7 DEF Load, MayLockSettings
  <2>2. WriterHasLock'
    BY <2>1, <1>7, <1>t DEF WriterHasLock, SettingsTypeOK
  <2>3. Parsed(settingsFile') = Parsed(settingsFile)
    BY <1>7 DEF Parsed
  <2>4. ReadIsFresh'
    BY <2>3, <1>7, <1>t DEF ReadIsFresh, SettingsTypeOK
  <2>5. SettingsKept'
    BY <2>3, <1>7, <1>t DEF SettingsKept
  <2> QED BY <2>2, <2>4, <2>5
<1>8. ASSUME NEW m \in Managers, StartManager(m)
      PROVE  WriterHasLock' /\ ReadIsFresh' /\ SettingsKept'
  BY <1>7, <1>8 DEF StartManager, Blank
<1>9. ASSUME NEW m \in Managers, StartReload(m)
      PROVE  WriterHasLock' /\ ReadIsFresh' /\ SettingsKept'
  BY <1>9, <1>t DEF StartReload, WriterHasLock, ReadIsFresh, SettingsKept
<1>10. ASSUME NEW m \in Managers, Reload(m)
      PROVE  WriterHasLock' /\ ReadIsFresh' /\ SettingsKept'
  <2>1. step' = [step EXCEPT ![m] = "idle"]
    BY <1>10, <1>t DEF Reload, SettingsTypeOK
  <2> QED BY <1>7, <1>10, <2>1 DEF Reload
<1>11. CASE UNCHANGED settingsVars
  BY <1>11, <1>t DEF settingsVars, WriterHasLock, ReadIsFresh, SettingsKept
<1> QED BY <1>1, <1>2, <1>3, <1>4, <1>5, <1>6, <1>8, <1>9, <1>10, <1>11 DEF SettingsNext

LEMMA SettingsInvInit == SettingsInit => SettingsInv
<1> SUFFICES ASSUME SettingsInit PROVE SettingsInv
  OBVIOUS
<1>1. SettingsTyped
  BY SettingsTypedInit
<1>2. \A m \in Managers : step[m] = "idle" /\ settingsLock # m
  BY SettingsAssumption DEF SettingsInit
<1>3. Parsed(settingsFile) = due /\ wiped = {} /\ settingsFile # TornSettings
  BY FileStates DEF SettingsInit, Parsed
<1>4. due = [f \in Fields |-> IF f \in wiped THEN 0 ELSE due[f]]
  BY <1>1, <1>3 DEF SettingsTyped, SettingsTypeOK
<1> QED BY <1>1, <1>2, <1>3, <1>4 DEF SettingsInv, WriterHasLock, ReadIsFresh, SettingsKept

\* Every variable of the settings managers keeps its type (settings-manager.ts:241-545).
THEOREM SettingsTypes == SettingsSpec => []SettingsTypeOK
<1>1. SettingsTyped => SettingsTypeOK
  BY DEF SettingsTyped
<1> QED BY SettingsTypedInit, SettingsTypedNext, <1>1, PTL DEF SettingsSpec

\* A save never undoes what another process has saved, however processes, failing
\* locks, reloads and deaths interleave, except in the three ways SettingsKept names:
\* two first writers, a set written again, and a death in the middle of a write, after
\* which the file is unreadable or holds just what was written since
\* (settings-manager.ts:191-219, 485-520).
THEOREM SettingsAreKept == SettingsSpec => []SettingsKept
<1>1. SettingsInv /\ [SettingsNext]_settingsVars => SettingsInv'
  <2> SUFFICES ASSUME SettingsInv, [SettingsNext]_settingsVars PROVE SettingsInv'
    OBVIOUS
  <2>1. SettingsTyped'
    BY SettingsTypedNext DEF SettingsInv
  <2> QED BY <2>1, SettingsLockKeeps DEF SettingsInv
<1>2. SettingsInv => SettingsKept
  BY DEF SettingsInv
<1> QED BY SettingsInvInit, <1>1, <1>2, PTL DEF SettingsSpec
-----------------------------------------------------------------------------
(***************************************************************************)
(* What AuthStorage keeps for any processes and bounds: its types, and that    *)
(* nobody is logged out.  The argument is the lock: as long as none is taken    *)
(* over, whoever is about to write auth.json or waits for the provider's        *)
(* answer holds it alone, and what it has read is what the file still holds.    *)
(***************************************************************************)
\* Who is past ensureFileExists has seen the file, and nobody removes it.
FileIsThere ==
  \A p \in Processes :
    at[p] \in {"lock", "write"} \/ refresh[p] # "none" => authFile # NoFileYet

\* Who is idle is in no synchronous call; a refresh is begun when none is under way.
OneCallEach ==
  \A p \in Processes : /\ at[p] = "idle" => purpose[p] = "set"
                       /\ purpose[p] = "refresh" => refresh[p] = "none"

AuthTyped == AuthTypeOK /\ FileIsThere

\* The lock excludes nobody: it was taken over, or lock() and lockSync name it differently.
LockIsLoose == stolen \/ authSymlink

\* Who writes or waits for the provider holds the lock, and knows of no loss.
HolderHasLock ==
  \A p \in Processes :
    /\ ~compromised[p]
    /\ at[p] = "write" => locks["path"].held /\ locks["path"].by = p /\ ~locks["path"].async
    /\ refresh[p] = "asking" => locks["path"].held /\ locks["path"].by = p /\ locks["path"].async

Accepted == {NoToken, serverToken}

\* What it has read is still there, unless the file was blanked; the token is
\* one the provider accepts, and so is the one it gave.
ReadUnderLock ==
  \A p \in Processes :
    /\ at[p] = "write" => /\ blanked \/ current[p] = authFile
                          /\ lost \/ current[p].oauth \in Accepted
    /\ refresh[p] = "asking" => /\ blanked \/ base[p] = authFile
                                /\ reply[p] \in Accepted

\* The file's token is the provider's, unless the new one is still on its way to it.
TokenIsGood ==
  \/ lost \/ authFile = NoFileYet \/ authFile.oauth \in Accepted
  \/ \E p \in Processes : refresh[p] = "asking" /\ reply[p] = serverToken

KeysAreThere == blanked \/ stored \subseteq authFile.keys

\* A login stays, whatever becomes of the locks: who creates a file has seen none.
LoginStays ==
  /\ loggedIn => authFile.oauth > NoToken
  /\ \A p \in Processes : /\ at[p] = "create" => ~loggedIn
                          /\ at[p] = "write" /\ loggedIn => current[p].oauth > NoToken

LockKeeps ==
  LockIsLoose \/ (HolderHasLock /\ ReadUnderLock /\ TokenIsGood /\ KeysAreThere)

AuthInv == AuthTyped /\ OneCallEach /\ LockKeeps /\ NoSpentTokenSent /\ LoginStays
-----------------------------------------------------------------------------
(* Types.                                                                    *)

LockRecord == [held : {TRUE}, by : Processes, async : BOOLEAN, aged : BOOLEAN]
LockTable == [{"path", "real"} -> {Unlocked} \cup LockRecord]

LEMMA FileIsRead ==
  ASSUME AuthTyped, NEW p \in Processes, at[p] \in {"lock", "write"} \/ refresh[p] # "none"
  PROVE  authFile \in Credentials
BY DEF AuthTyped, AuthTypeOK, FileIsThere

LEMMA CredentialsMade ==
  /\ EmptyData \in Credentials /\ NoFileYet \notin Credentials
  /\ \A c \in Credentials, p \in Processes : [c EXCEPT !.keys = @ \cup {p}] \in Credentials
  /\ \A c \in Credentials, t \in 0..MaxTokens : [c EXCEPT !.oauth = t] \in Credentials
BY AuthAssumption DEF EmptyData, NoFileYet, Credentials, NoToken

LEMMA TypedInit == AuthInit => AuthTyped
<1> SUFFICES ASSUME AuthInit PROVE AuthTyped
  OBVIOUS
<1>1. [oauth |-> 1, keys |-> {}] \in Credentials
  BY AuthAssumption DEF Credentials
<1>2. authFile \in Credentials \cup {NoFileYet} /\ data \in [Processes -> Credentials]
  BY <1>1, CredentialsMade DEF AuthInit
<1>3. 1 \in 1..MaxTokens /\ 0 \in 0..MaxTokens /\ 0 \in 0..MaxWrites
  BY AuthAssumption
<1>4. AuthTypeOK
  BY <1>2, <1>3, CredentialsMade DEF AuthInit, AuthTypeOK, NoToken
<1> QED BY <1>4 DEF AuthInit, AuthTyped, FileIsThere

LEMMA LocksTyped ==
  ASSUME AuthTypeOK, NEW p \in Processes, NEW async \in BOOLEAN
  PROVE  /\ LockName(async) \in {"path", "real"}
         /\ Lock(p, async) \in LockTable
         /\ Released(async) \in LockTable
BY DEF AuthTypeOK, LockTable, LockRecord, LockName, Lock, Released, Held

LEMMA LockMarked ==
  ASSUME AuthTypeOK, NEW n \in {"path", "real"}, locks[n].held, NEW grew \in BOOLEAN
  PROVE  [locks EXCEPT ![n].aged = grew] \in LockTable
<1>1. locks \in LockTable
  BY DEF AuthTypeOK, LockTable, LockRecord
<1>2. locks[n] # Unlocked
  BY DEF Unlocked
<1>3. locks[n] \in LockRecord
  BY <1>1, <1>2 DEF LockTable
<1>4. [locks[n] EXCEPT !.aged = grew] \in LockRecord
  BY <1>3 DEF LockRecord
<1>5. [locks EXCEPT ![n].aged = grew] = [locks EXCEPT ![n] = [locks[n] EXCEPT !.aged = grew]]
  BY <1>1 DEF LockTable
<1> QED BY <1>1, <1>4, <1>5 DEF LockTable

LEMMA SetTyped ==
  ASSUME AuthTyped, UNCHANGED loggedIn, NEW p \in Processes, Set(p) PROVE AuthTyped'
<1>1. data' \in [Processes -> Credentials]
  <2>1. data' = [data EXCEPT ![p] = [data[p] EXCEPT !.keys = @ \cup {p}]]
    BY DEF AuthTyped, AuthTypeOK, Set
  <2>2. [data[p] EXCEPT !.keys = @ \cup {p}] \in Credentials
    BY CredentialsMade DEF AuthTyped, AuthTypeOK
  <2> QED BY <2>1, <2>2 DEF AuthTyped, AuthTypeOK
<1>2. writes' \in 0..MaxWrites
  BY AuthAssumption DEF AuthTyped, AuthTypeOK, Set
<1>3. AuthTypeOK'
  BY <1>1, <1>2 DEF AuthTyped, AuthTypeOK, Set, EnsureFileExists
<1>4. FileIsThere'
  BY DEF AuthTyped, AuthTypeOK, FileIsThere, Set, EnsureFileExists
<1> QED BY <1>3, <1>4 DEF AuthTyped

LEMMA SynchronousTyped ==
  ASSUME AuthTyped, UNCHANGED loggedIn, NEW p \in Processes,
         GetApiKey(p) \/ CreateFile(p) \/ LockSync(p) \/ LockSyncFails(p) \/ WriteSync(p)
  PROVE  AuthTyped'
<1>1. CASE GetApiKey(p)
  <2>1. AuthTypeOK'
    BY <1>1 DEF AuthTyped, AuthTypeOK, GetApiKey, EnsureFileExists
  <2>2. FileIsThere'
    BY <1>1 DEF AuthTyped, AuthTypeOK, FileIsThere, GetApiKey, EnsureFileExists
  <2> QED BY <2>1, <2>2 DEF AuthTyped
<1>2. CASE CreateFile(p)
  <2>1. AuthTypeOK'
    BY <1>2, CredentialsMade DEF AuthTyped, AuthTypeOK, CreateFile
  <2>2. FileIsThere'
    BY <1>2, CredentialsMade DEF FileIsThere, CreateFile
  <2> QED BY <2>1, <2>2 DEF AuthTyped
<1>3. CASE LockSync(p)
  <2>1. authFile \in Credentials
    BY <1>3, FileIsRead DEF LockSync
  <2>2. data' \in [Processes -> Credentials] /\ current' \in [Processes -> Credentials]
    <3>1. /\ data' \in {data, [data EXCEPT ![p] = authFile]}
          /\ current' \in {current, [current EXCEPT ![p] = authFile]}
      BY <1>3 DEF LockSync, UnderLock
    <3> QED BY <3>1, <2>1 DEF AuthTyped, AuthTypeOK
  <2>3. locks' \in LockTable
    BY <1>3, LocksTyped DEF AuthTyped, LockSync
  <2>4. /\ at' \in [Processes -> {"idle", "create", "lock", "write"}]
        /\ purpose' \in [Processes -> {"set", "reload", "refresh"}]
        /\ loadError' \in [Processes -> BOOLEAN]
    BY <1>3 DEF AuthTyped, AuthTypeOK, LockSync, Returns
  <2>5. stolen' \in BOOLEAN
    BY <1>3 DEF LockSync
  <2>6. AuthTypeOK'
    BY <1>3, <2>2, <2>3, <2>4, <2>5 DEF AuthTyped, AuthTypeOK, LockTable, LockRecord, LockSync
  <2>7. FileIsThere'
    BY <1>3, <2>1, CredentialsMade DEF FileIsThere, LockSync
  <2> QED BY <2>6, <2>7 DEF AuthTyped
<1>4. CASE LockSyncFails(p)
  <2>1. AuthTypeOK'
    BY <1>4 DEF AuthTyped, AuthTypeOK, LockSyncFails, Returns
  <2>2. FileIsThere'
    BY <1>4 DEF AuthTyped, AuthTypeOK, FileIsThere, LockSyncFails, Returns
  <2> QED BY <2>1, <2>2 DEF AuthTyped
<1>5. CASE WriteSync(p)
  <2>1. current[p] \in Credentials
    BY DEF AuthTyped, AuthTypeOK
  <2>2. authFile' \in Credentials
    BY <1>5, <2>1, CredentialsMade DEF WriteSync
  <2>3. locks' \in LockTable
    BY <1>5, LocksTyped DEF AuthTyped, WriteSync
  <2>4. AuthTypeOK'
    BY <1>5, <2>2, <2>3, CredentialsMade DEF AuthTyped, AuthTypeOK, LockTable, LockRecord, WriteSync,
    Returns
  <2>5. FileIsThere'
    BY <1>5, <2>2, CredentialsMade DEF FileIsThere, WriteSync
  <2> QED BY <2>4, <2>5 DEF AuthTyped
<1> QED BY <1>1, <1>2, <1>3, <1>4, <1>5

LEMMA RefreshTyped ==
  ASSUME AuthTyped, UNCHANGED loggedIn, NEW p \in Processes,
         StartLocking(p) \/ LockAndAsk(p) \/ LockAsyncFails(p) \/ Refreshed(p)
  PROVE  AuthTyped'
<1>1. CASE StartLocking(p)
  <2>1. AuthTypeOK'
    BY <1>1 DEF AuthTyped, AuthTypeOK, StartLocking, Returns
  <2>2. FileIsThere'
    BY <1>1 DEF AuthTyped, AuthTypeOK, FileIsThere, StartLocking, Returns
  <2> QED BY <2>1, <2>2 DEF AuthTyped
<1>2. CASE LockAndAsk(p)
  <2>1. authFile \in Credentials
    BY <1>2, FileIsRead DEF LockAndAsk
  <2>2. /\ data' \in [Processes -> Credentials] /\ base' \in [Processes -> Credentials]
        /\ loadError' \in [Processes -> BOOLEAN]
        /\ refresh' \in [Processes -> {"none", "locking", "asking"}]
    <3>1. /\ data' = [data EXCEPT ![p] = authFile]
          /\ base' \in {base, [base EXCEPT ![p] = authFile]}
          /\ loadError' = [loadError EXCEPT ![p] = FALSE]
          /\ refresh' \in {[refresh EXCEPT ![p] = "none"], [refresh EXCEPT ![p] = "asking"]}
      BY <1>2 DEF LockAndAsk, UnderLock
    <3> QED BY <3>1, <2>1 DEF AuthTyped, AuthTypeOK
  <2>3. locks' \in LockTable
    <3>1. locks' \in {locks, Lock(p, TRUE)}
      BY <1>2 DEF LockAndAsk
    <3>2. Lock(p, TRUE) \in LockTable
      BY LocksTyped DEF AuthTyped
    <3> QED BY <3>1, <3>2 DEF AuthTyped, AuthTypeOK, LockTable, LockRecord
  <2>4. serverToken' \in 1..MaxTokens /\ reply' \in [Processes -> 0..MaxTokens]
    <3>1. serverToken \in 1..MaxTokens
      BY DEF AuthTyped, AuthTypeOK
    <3>2. \/ serverToken' = serverToken
          \/ serverToken' = serverToken + 1 /\ serverToken < MaxTokens
      BY <1>2 DEF LockAndAsk
    <3>3. serverToken' \in 1..MaxTokens
      BY <3>1, <3>2, AuthAssumption
    <3>4. reply' \in {reply, [reply EXCEPT ![p] = serverToken'], [reply EXCEPT ![p] = NoToken]}
      BY <1>2 DEF LockAndAsk
    <3>5. serverToken' \in 0..MaxTokens /\ NoToken \in 0..MaxTokens
      BY <3>3, AuthAssumption DEF NoToken
    <3> QED BY <3>3, <3>4, <3>5 DEF AuthTyped, AuthTypeOK
  <2>5. spent' \in BOOLEAN /\ lost' \in BOOLEAN
    BY <1>2 DEF AuthTyped, AuthTypeOK, LockTable, LockRecord, LockAndAsk
  <2>6. AuthTypeOK'
    BY <1>2, <2>2, <2>3, <2>4, <2>5 DEF AuthTyped, AuthTypeOK, LockTable, LockRecord, LockAndAsk
  <2>7. FileIsThere'
    BY <1>2, <2>1, CredentialsMade DEF FileIsThere, LockAndAsk
  <2> QED BY <2>6, <2>7 DEF AuthTyped
<1>3. CASE LockAsyncFails(p)
  <2>1. AuthTypeOK'
    BY <1>3 DEF AuthTyped, AuthTypeOK, LockAsyncFails, Fail, EnsureFileExists
  <2>2. authFile \in Credentials
    BY <1>3, FileIsRead DEF LockAsyncFails
  <2>3. FileIsThere'
    BY <1>3, <2>2, CredentialsMade DEF FileIsThere, LockAsyncFails
  <2> QED BY <2>1, <2>3 DEF AuthTyped
<1>4. CASE Refreshed(p)
  <2> DEFINE merged == [base[p] EXCEPT !.oauth = reply[p]]
  <2>1. authFile \in Credentials /\ base[p] \in Credentials /\ reply[p] \in 0..MaxTokens
    BY <1>4, FileIsRead DEF Refreshed, AuthTyped, AuthTypeOK
  <2>2. merged \in Credentials
    BY <2>1, CredentialsMade
  <2> HIDE DEF merged
  <2>3. authFile' \in {authFile, merged} /\ data' \in {data, [data EXCEPT ![p] = merged]}
    BY <1>4 DEF Refreshed, merged
  <2>4. /\ at' \in [Processes -> {"idle", "create", "lock", "write"}]
        /\ purpose' \in [Processes -> {"set", "reload", "refresh"}]
        /\ refresh' \in [Processes -> {"none", "locking", "asking"}]
    BY <1>4 DEF AuthTyped, AuthTypeOK, Refreshed, Fail, EnsureFileExists
  <2>5. locks' \in LockTable
    BY <1>4, LocksTyped DEF AuthTyped, Refreshed
  <2>6. /\ base' \in [Processes -> Credentials] /\ reply' \in [Processes -> 0..MaxTokens]
        /\ compromised' \in [Processes -> BOOLEAN]
    BY <1>4, CredentialsMade, AuthAssumption DEF AuthTyped, AuthTypeOK, Refreshed, NoToken
  <2>7. AuthTypeOK'
    <3>1. authFile' \in Credentials /\ data' \in [Processes -> Credentials]
      BY <2>1, <2>2, <2>3 DEF AuthTyped, AuthTypeOK
    <3> QED BY <1>4, <3>1, <2>4, <2>5, <2>6 DEF AuthTyped, AuthTypeOK, LockTable, LockRecord, Refreshed
  <2>8. FileIsThere'
    BY <2>1, <2>2, <2>3, CredentialsMade DEF FileIsThere
  <2> QED BY <2>7, <2>8 DEF AuthTyped
<1> QED BY <1>1, <1>2, <1>3, <1>4

LEMMA TimeTyped ==
  ASSUME AuthTyped, UNCHANGED loggedIn,
         \/ \E p \in Processes : LockUpdate(p)
         \/ \E n \in {"path", "real"} : LockAges(n)
         \/ Expires
  PROVE  AuthTyped'
<1>1. CASE \E p \in Processes : LockUpdate(p)
  <2>1. PICK p \in Processes : LockUpdate(p)
    BY <1>1
  <2>2. AuthTypeOK'
    <3>1. /\ locks' \in {locks, [locks EXCEPT ![LockName(TRUE)].aged = FALSE]}
          /\ locks' # locks => locks[LockName(TRUE)].held
          /\ compromised' \in [Processes -> BOOLEAN]
      BY <2>1 DEF LockUpdate, AuthTyped, AuthTypeOK
    <3>2. locks' \in LockTable
      <4>1. LockName(TRUE) \in {"path", "real"} /\ locks \in LockTable
        BY LocksTyped DEF AuthTyped, AuthTypeOK, LockTable, LockRecord
      <4>2. locks[LockName(TRUE)].held
              => [locks EXCEPT ![LockName(TRUE)].aged = FALSE] \in LockTable
        BY <4>1, LockMarked DEF AuthTyped
      <4> QED BY <3>1, <4>1, <4>2
    <3> QED BY <2>1, <3>1, <3>2 DEF AuthTyped, AuthTypeOK, LockTable, LockRecord, LockUpdate
  <2> QED BY <2>1, <2>2 DEF AuthTyped, FileIsThere, LockUpdate
<1>2. CASE \E n \in {"path", "real"} : LockAges(n)
  <2>1. PICK n \in {"path", "real"} : LockAges(n)
    BY <1>2
  <2>2. AuthTypeOK'
    BY <2>1, LockMarked DEF AuthTyped, AuthTypeOK, LockTable, LockRecord, LockAges
  <2> QED BY <2>1, <2>2 DEF AuthTyped, FileIsThere, LockAges
<1>3. CASE Expires
  <2>1. expired' \in 0..MaxTokens
    BY <1>3, AuthAssumption DEF AuthTyped, AuthTypeOK, Expires
  <2> QED BY <1>3, <2>1 DEF AuthTyped, AuthTypeOK, FileIsThere, Expires
<1> QED BY <1>1, <1>2, <1>3

LEMMA TypedStep == AuthTyped /\ [AuthNext]_authVars => AuthTyped'
<1> SUFFICES ASSUME AuthTyped, [AuthNext]_authVars PROVE AuthTyped'
  OBVIOUS
<1>1. CASE UNCHANGED authVars
  BY <1>1 DEF authVars, AuthTyped, AuthTypeOK, FileIsThere
<1>2. CASE AuthNext
  BY <1>2, SetTyped, SynchronousTyped, RefreshTyped, TimeTyped DEF AuthNext
<1> QED BY <1>1, <1>2
LEMMA OneCallStep ==
  ASSUME AuthTypeOK, OneCallEach, [AuthNext]_authVars PROVE OneCallEach'
<1>1. CASE UNCHANGED authVars
  BY <1>1 DEF authVars, OneCallEach
<1>2. ASSUME NEW p \in Processes,
             \/ Set(p) \/ GetApiKey(p) \/ CreateFile(p) \/ LockSync(p) \/ LockSyncFails(p)
             \/ WriteSync(p) \/ StartLocking(p) \/ LockAsyncFails(p) \/ LockUpdate(p)
      PROVE  OneCallEach'
  <2>1. CASE Set(p) \/ GetApiKey(p)
    BY <2>1 DEF AuthTypeOK, OneCallEach, Set, GetApiKey, EnsureFileExists
  <2>2. CASE CreateFile(p)
    BY <2>2 DEF AuthTypeOK, OneCallEach, CreateFile
  <2>3. CASE LockSync(p)
    <3>1. \/ Returns(p)
          \/ at' = [at EXCEPT ![p] = "write"] /\ UNCHANGED purpose
      BY <2>3 DEF LockSync
    <3>2. at[p] = "lock" /\ UNCHANGED refresh
      BY <2>3 DEF LockSync
    <3> QED BY <3>1, <3>2 DEF AuthTypeOK, OneCallEach, Returns
  <2>4. CASE LockSyncFails(p) \/ WriteSync(p)
    BY <2>4 DEF AuthTypeOK, OneCallEach, LockSyncFails, WriteSync, Returns
  <2>5. CASE StartLocking(p)
    BY <2>5 DEF AuthTypeOK, OneCallEach, StartLocking, Returns
  <2>6. CASE LockAsyncFails(p)
    BY <2>6 DEF AuthTypeOK, OneCallEach, LockAsyncFails, Fail, EnsureFileExists
  <2>7. CASE LockUpdate(p)
    BY <2>7 DEF OneCallEach, LockUpdate
  <2> QED BY <1>2, <2>1, <2>2, <2>3, <2>4, <2>5, <2>6, <2>7
<1>3. ASSUME NEW p \in Processes, LockAndAsk(p) PROVE OneCallEach'
  <2>1. /\ at[p] = "idle" /\ UNCHANGED <<at, purpose>>
        /\ refresh' \in {[refresh EXCEPT ![p] = "none"], [refresh EXCEPT ![p] = "asking"]}
    BY <1>3 DEF LockAndAsk
  <2> QED BY <2>1 DEF AuthTypeOK, OneCallEach
<1>4. ASSUME NEW p \in Processes, Refreshed(p) PROVE OneCallEach'
  BY <1>4 DEF AuthTypeOK, OneCallEach, Refreshed, Fail, EnsureFileExists
<1>5. ASSUME NEW n \in {"path", "real"}, LockAges(n) PROVE OneCallEach'
  BY <1>5 DEF OneCallEach, LockAges
<1>6. CASE Expires
  BY <1>6 DEF OneCallEach, Expires
<1> QED BY <1>1, <1>2, <1>3, <1>4, <1>5, <1>6 DEF AuthNext

-----------------------------------------------------------------------------
(* The lock.                                                                 *)

LEMMA OneName ==
  ASSUME AuthTypeOK, ~LockIsLoose, NEW p \in Processes, NEW async \in BOOLEAN
  PROVE  /\ LockName(async) = "path"
         /\ Lock(p, async)["path"] = Held(p, async)
         /\ Released(async)["path"] = Unlocked
BY DEF AuthTypeOK, LockIsLoose, LockName, Lock, Released

LEMMA Alone ==
  ASSUME HolderHasLock, NEW p \in Processes, at[p] = "write" \/ refresh[p] = "asking"
  PROVE  \A q \in Processes :
           /\ at[q] = "write" => q = p /\ at[p] = "write"
           /\ refresh[q] = "asking" => q = p /\ refresh[p] = "asking"
BY DEF HolderHasLock

LEMMA NobodyHolds ==
  ASSUME HolderHasLock, ~locks["path"].held
  PROVE  \A q \in Processes : at[q] # "write" /\ refresh[q] # "asking"
BY DEF HolderHasLock

LEMMA NobodyLeft ==
  ASSUME AuthTypeOK, \A q \in Processes : ~compromised'[q],
         \A q \in Processes : at'[q] # "write" /\ refresh'[q] # "asking"
  PROVE  HolderHasLock' /\ ReadUnderLock'
BY DEF HolderHasLock, ReadUnderLock

LEMMA StaysLoose ==
  ASSUME NEW p \in Processes,
         \/ Set(p) \/ GetApiKey(p) \/ CreateFile(p) \/ LockSync(p) \/ LockSyncFails(p)
         \/ WriteSync(p) \/ StartLocking(p) \/ LockAsyncFails(p) \/ Refreshed(p) \/ LockUpdate(p)
  PROVE  UNCHANGED <<spent, lost, authSymlink>> /\ (stolen => stolen')
<1>1. CASE LockSync(p)
  BY <1>1 DEF LockSync
<1>2. CASE Set(p) \/ GetApiKey(p) \/ CreateFile(p) \/ LockSyncFails(p) \/ WriteSync(p)
  <2>1. UNCHANGED <<spent, lost, authSymlink, stolen>>
    BY <1>2 DEF Set, GetApiKey, CreateFile, LockSyncFails, WriteSync
  <2> QED BY <2>1
<1>3. CASE StartLocking(p) \/ LockAsyncFails(p) \/ Refreshed(p) \/ LockUpdate(p)
  <2>1. UNCHANGED <<spent, lost, authSymlink, stolen>>
    BY <1>3 DEF StartLocking, LockAsyncFails, Refreshed, LockUpdate
  <2> QED BY <2>1
<1> QED BY <1>1, <1>2, <1>3

\* A step that moves no credentials and lets nobody in.
LEMMA Untouched ==
  ASSUME AuthTypeOK, LockKeeps,
         UNCHANGED <<authFile, authSymlink, current, base, reply, serverToken, stored, stolen,
                     blanked, lost>>,
         LockIsLoose \/
           /\ UNCHANGED compromised
           /\ UNCHANGED locks["path"].held /\ UNCHANGED locks["path"].by
           /\ UNCHANGED locks["path"].async
           /\ \A q \in Processes : /\ at'[q] = "write" => at[q] = "write"
                                   /\ refresh'[q] = "asking" <=> refresh[q] = "asking"
  PROVE  LockKeeps'
<1>1. LockIsLoose' <=> LockIsLoose
  BY DEF LockIsLoose
<1> SUFFICES ASSUME ~LockIsLoose
             PROVE  HolderHasLock' /\ ReadUnderLock' /\ TokenIsGood' /\ KeysAreThere'
  BY <1>1 DEF LockKeeps
<1>2. HolderHasLock'
  BY DEF LockKeeps, HolderHasLock
<1>3. ReadUnderLock'
  BY DEF LockKeeps, ReadUnderLock, Accepted
<1>4. TokenIsGood'
  BY DEF LockKeeps, TokenIsGood, Accepted
<1>5. KeysAreThere'
  BY DEF LockKeeps, KeysAreThere
<1> QED BY <1>2, <1>3, <1>4, <1>5

LEMMA AgedOnly ==
  ASSUME AuthTypeOK, NEW n \in {"path", "real"}, locks[n].held, NEW grew \in BOOLEAN,
         locks' = [locks EXCEPT ![n].aged = grew]
  PROVE  /\ UNCHANGED locks["path"].held /\ UNCHANGED locks["path"].by
         /\ UNCHANGED locks["path"].async
<1>1. locks \in LockTable /\ locks[n] \in LockRecord
  <2>1. locks \in LockTable
    BY DEF AuthTypeOK, LockTable, LockRecord
  <2>2. locks[n] # Unlocked
    BY DEF Unlocked
  <2> QED BY <2>1, <2>2 DEF LockTable
<1>2. locks' = [locks EXCEPT ![n] = [locks[n] EXCEPT !.aged = grew]]
  BY <1>1 DEF LockTable
<1> QED BY <1>1, <1>2 DEF LockTable, LockRecord

LEMMA QuietSteps ==
  ASSUME AuthTyped, OneCallEach, LockKeeps,
         \/ \E p \in Processes : \/ Set(p) \/ GetApiKey(p) \/ LockSyncFails(p) \/ StartLocking(p)
                                 \/ LockAsyncFails(p) \/ LockUpdate(p)
         \/ \E n \in {"path", "real"} : LockAges(n)
         \/ Expires
  PROVE  LockKeeps'
<1> USE DEF AuthTyped, AuthTypeOK
<1>1. ASSUME NEW p \in Processes, Set(p) \/ GetApiKey(p) PROVE LockKeeps'
  BY <1>1, Untouched DEF Set, GetApiKey, EnsureFileExists
<1>2. ASSUME NEW p \in Processes, LockSyncFails(p) PROVE LockKeeps'
  BY <1>2, Untouched DEF LockSyncFails, Returns
<1>3. ASSUME NEW p \in Processes, StartLocking(p) PROVE LockKeeps'
  <2>1. refresh[p] = "none"
    BY <1>3 DEF StartLocking, OneCallEach
  <2> QED BY <1>3, <2>1, Untouched DEF StartLocking, Returns
<1>4. ASSUME NEW p \in Processes, LockAsyncFails(p) PROVE LockKeeps'
  BY <1>4, Untouched DEF LockAsyncFails, Fail, EnsureFileExists
<1>5. ASSUME NEW p \in Processes, LockUpdate(p) PROVE LockKeeps'
  <2>1. ASSUME ~LockIsLoose
        PROVE  /\ UNCHANGED compromised /\ locks["path"].held
               /\ locks' = [locks EXCEPT !["path"].aged = FALSE]
    <3>1. LockName(TRUE) = "path"
      BY <2>1, OneName
    <3>2. /\ locks["path"].held /\ locks["path"].async /\ locks["path"].by = p
          /\ compromised[p] = FALSE
      BY <1>5, <2>1 DEF LockUpdate, LockKeeps, HolderHasLock
    <3>3. /\ compromised' = [compromised EXCEPT ![p] = FALSE]
          /\ locks' = [locks EXCEPT ![LockName(TRUE)].aged = FALSE]
      BY <1>5, <3>1, <3>2 DEF LockUpdate
    <3>4. UNCHANGED compromised
      BY <3>2, <3>3
    <3> QED BY <3>1, <3>2, <3>3, <3>4
  <2>2. ASSUME ~LockIsLoose
        PROVE  /\ UNCHANGED locks["path"].held /\ UNCHANGED locks["path"].by
               /\ UNCHANGED locks["path"].async
    BY <2>1, <2>2, AgedOnly
  <2> QED BY <1>5, <2>1, <2>2, Untouched DEF LockUpdate
<1>6. ASSUME NEW n \in {"path", "real"}, LockAges(n) PROVE LockKeeps'
  <2>1. /\ UNCHANGED locks["path"].held /\ UNCHANGED locks["path"].by
        /\ UNCHANGED locks["path"].async
    BY <1>6, AgedOnly DEF LockAges
  <2> QED BY <1>6, <2>1, Untouched DEF LockAges
<1>7. CASE Expires
  BY <1>7, Untouched DEF Expires
<1> QED BY <1>1, <1>2, <1>3, <1>4, <1>5, <1>6, <1>7

LEMMA CreateKeeps ==
  ASSUME AuthTyped, LockKeeps, NEW p \in Processes, CreateFile(p) PROVE LockKeeps'
<1>1. LockIsLoose' <=> LockIsLoose
  BY DEF LockIsLoose, CreateFile
<1> SUFFICES ASSUME ~LockIsLoose
             PROVE  HolderHasLock' /\ ReadUnderLock' /\ TokenIsGood' /\ KeysAreThere'
  BY <1>1 DEF LockKeeps
<1>2. \A q \in Processes : at'[q] = "write" => at[q] = "write"
  BY DEF CreateFile, AuthTyped, AuthTypeOK
<1>3. \A q \in Processes : at[q] = "write" \/ refresh[q] = "asking"
                           => blanked' \/ authFile' = authFile
  BY DEF CreateFile, AuthTyped, FileIsThere
<1>4. HolderHasLock'
  BY <1>2 DEF CreateFile, LockKeeps, HolderHasLock
<1>5. ReadUnderLock'
  BY <1>2, <1>3 DEF CreateFile, LockKeeps, ReadUnderLock, Accepted
<1>6. TokenIsGood'
  BY DEF CreateFile, TokenIsGood, Accepted, EmptyData
<1>7. KeysAreThere'
  <2>1. EmptyData.keys = {} /\ NoFileYet.keys = {}
    BY DEF EmptyData, NoFileYet
  <2>2. blanked' \/ (~blanked /\ authFile \in {NoFileYet, EmptyData})
    BY DEF CreateFile
  <2> QED BY <2>1, <2>2 DEF CreateFile, LockKeeps, KeysAreThere
<1> QED BY <1>4, <1>5, <1>6, <1>7

LEMMA LockSyncKeeps ==
  ASSUME AuthTyped, LockKeeps, NEW p \in Processes, LockSync(p) PROVE LockKeeps'
<1> SUFFICES ASSUME ~LockIsLoose'
             PROVE  HolderHasLock' /\ ReadUnderLock' /\ TokenIsGood' /\ KeysAreThere'
  BY DEF LockKeeps
<1>1. ~LockIsLoose /\ ~locks["path"].held
  BY DEF LockIsLoose, LockSync, Steals
<1>2. \A q \in Processes : at[q] # "write" /\ refresh[q] # "asking" /\ ~compromised[q]
  BY <1>1, NobodyHolds DEF LockKeeps, HolderHasLock
<1>3. TokenIsGood' /\ KeysAreThere'
  BY <1>1 DEF LockKeeps, TokenIsGood, KeysAreThere, Accepted, LockSync
<1>4. CASE purpose[p] = "reload"
  <2>1. at' = [at EXCEPT ![p] = "idle"] /\ UNCHANGED <<refresh, compromised>>
    BY <1>4 DEF LockSync, Returns
  <2>2. \A q \in Processes : at'[q] # "write" /\ refresh'[q] # "asking" /\ ~compromised'[q]
    BY <1>2, <2>1 DEF AuthTyped, AuthTypeOK
  <2> QED BY <1>3, <2>2, NobodyLeft DEF AuthTyped
<1>5. CASE purpose[p] # "reload"
  <2>1. /\ locks'["path"] = Held(p, FALSE)
        /\ at' = [at EXCEPT ![p] = "write"]
        /\ current' = [current EXCEPT ![p] = authFile]
    BY <1>1, <1>5, OneName DEF LockSync, UnderLock, AuthTyped
  <2>2. lost \/ authFile.oauth \in Accepted
    BY <1>1, <1>2, CredentialsMade, FileIsRead DEF LockSync, LockKeeps, TokenIsGood
  <2>3. HolderHasLock'
    BY <1>2, <2>1 DEF HolderHasLock, LockSync, Held, AuthTyped, AuthTypeOK
  <2>4. ReadUnderLock'
    BY <1>2, <2>1, <2>2 DEF ReadUnderLock, Accepted, LockSync, AuthTyped, AuthTypeOK
  <2> QED BY <1>3, <2>3, <2>4
<1> QED BY <1>4, <1>5

LEMMA WriteKeeps ==
  ASSUME AuthTyped, LockKeeps, NEW p \in Processes, WriteSync(p) PROVE LockKeeps'
<1>1. LockIsLoose' <=> LockIsLoose
  BY DEF LockIsLoose, WriteSync
<1> SUFFICES ASSUME ~LockIsLoose
             PROVE  HolderHasLock' /\ ReadUnderLock' /\ TokenIsGood' /\ KeysAreThere'
  BY <1>1 DEF LockKeeps
<1>2. \A q \in Processes : at'[q] # "write" /\ refresh'[q] # "asking" /\ ~compromised'[q]
  BY Alone DEF WriteSync, Returns, LockKeeps, HolderHasLock, AuthTyped, AuthTypeOK
<1>3. HolderHasLock' /\ ReadUnderLock'
  BY <1>2, NobodyLeft DEF AuthTyped
<1>4. /\ lost \/ current[p].oauth \in Accepted
      /\ blanked \/ current[p] = authFile
      /\ current[p] \in Credentials
  BY DEF WriteSync, LockKeeps, ReadUnderLock, AuthTyped, AuthTypeOK
<1>5. authFile'.oauth = current[p].oauth /\ authFile'.keys = current[p].keys \cup {p}
  BY <1>4 DEF WriteSync, Credentials
<1>6. TokenIsGood'
  BY <1>4, <1>5 DEF TokenIsGood, Accepted, WriteSync
<1>7. KeysAreThere'
  BY <1>4, <1>5 DEF LockKeeps, KeysAreThere, WriteSync
<1> QED BY <1>3, <1>6, <1>7

LEMMA AskKeeps ==
  ASSUME AuthTyped, OneCallEach, LockKeeps, NoSpentTokenSent, NEW p \in Processes, LockAndAsk(p)
  PROVE  LockKeeps' /\ NoSpentTokenSent'
<1>1. LockIsLoose' <=> LockIsLoose
  BY DEF LockIsLoose, LockAndAsk
<1>2. CASE LockIsLoose
  BY <1>1, <1>2 DEF LockKeeps, NoSpentTokenSent, LockIsLoose
<1>3. CASE ~LockIsLoose
  <2>1. ~locks["path"].held
    BY <1>3, OneName DEF LockAndAsk, AuthTyped
  <2>2. \A q \in Processes : at[q] # "write" /\ refresh[q] # "asking" /\ ~compromised[q]
    BY <1>3, <2>1, NobodyHolds DEF LockKeeps, HolderHasLock
  <2>3. authFile \in Credentials /\ (lost \/ authFile.oauth \in Accepted)
    BY <1>3, <2>2, CredentialsMade, FileIsRead DEF LockAndAsk, LockKeeps, TokenIsGood
  <2>4. UNCHANGED <<authFile, at, compromised, current, stored, blanked>> /\ (lost => lost')
    BY DEF LockAndAsk
  <2>5. KeysAreThere'
    BY <1>3, <2>4 DEF LockKeeps, KeysAreThere
  <2>6. CASE authFile.oauth = NoToken \/ authFile.oauth > expired
    <3>1. refresh' = [refresh EXCEPT ![p] = "none"] /\ UNCHANGED <<spent, serverToken, lost>>
      BY <2>6 DEF LockAndAsk, UnderLock
    <3>2. HolderHasLock' /\ ReadUnderLock'
      BY <2>2, <2>4, <3>1, NobodyLeft DEF AuthTyped, AuthTypeOK
    <3>3. TokenIsGood'
      BY <2>3, <2>4, <3>1 DEF TokenIsGood, Accepted
    <3> QED BY <1>1, <1>3, <2>5, <3>1, <3>2, <3>3
            DEF LockKeeps, NoSpentTokenSent, LockIsLoose, LockAndAsk
  <2>7. CASE ~(authFile.oauth = NoToken \/ authFile.oauth > expired)
    <3>1. /\ refresh' = [refresh EXCEPT ![p] = "asking"]
          /\ base' = [base EXCEPT ![p] = authFile]
          /\ locks' = Lock(p, TRUE)
          /\ spent' = (spent \/ authFile.oauth # serverToken)
      BY <2>7 DEF LockAndAsk, UnderLock
    <3>2. \/ /\ authFile.oauth = serverToken
             /\ reply' = [reply EXCEPT ![p] = serverToken']
          \/ lost'
          \/ reply' = [reply EXCEPT ![p] = NoToken] /\ UNCHANGED serverToken
      BY <2>7 DEF LockAndAsk, UnderLock
    <3>3. reply' \in {[reply EXCEPT ![p] = serverToken'], [reply EXCEPT ![p] = NoToken]}
      BY <2>7 DEF LockAndAsk, UnderLock
    <3>4. locks'["path"] = Held(p, TRUE)
      BY <1>3, <3>1, OneName DEF AuthTyped
    <3>5. HolderHasLock'
      <4>1. locks'["path"].held /\ locks'["path"].by = p /\ locks'["path"].async
        BY <3>4 DEF Held
      <4> QED BY <2>2, <2>4, <3>1, <4>1 DEF HolderHasLock, AuthTyped, AuthTypeOK
    <3>6. ReadUnderLock'
      BY <2>2, <2>4, <3>1, <3>3 DEF ReadUnderLock, Accepted, AuthTyped, AuthTypeOK
    <3>7. TokenIsGood'
      BY <2>3, <2>4, <3>1, <3>2 DEF TokenIsGood, Accepted, AuthTyped, AuthTypeOK
    <3>8. NoSpentTokenSent'
      BY <2>3, <2>4, <2>7, <3>1 DEF NoSpentTokenSent, Accepted, LockAndAsk
    <3> QED BY <2>5, <3>5, <3>6, <3>7, <3>8 DEF LockKeeps
  <2> QED BY <2>6, <2>7
<1> QED BY <1>2, <1>3

LEMMA RefreshedKeeps ==
  ASSUME AuthTyped, OneCallEach, LockKeeps, NEW p \in Processes, Refreshed(p) PROVE LockKeeps'
<1>1. LockIsLoose' <=> LockIsLoose
  BY DEF LockIsLoose, Refreshed
<1> SUFFICES ASSUME ~LockIsLoose
             PROVE  HolderHasLock' /\ ReadUnderLock' /\ TokenIsGood' /\ KeysAreThere'
  BY <1>1 DEF LockKeeps
<1>2. \A q \in Processes : ~compromised[q]
  BY DEF LockKeeps, HolderHasLock
<1>3. \A q \in Processes \ {p} : at[q] # "write" /\ refresh[q] # "asking"
  BY Alone DEF Refreshed, LockKeeps
<1>4. /\ \A q \in Processes \ {p} : at'[q] = at[q] /\ refresh'[q] = refresh[q]
      /\ at'[p] # "write" /\ refresh'[p] # "asking"
  BY DEF Refreshed, Fail, EnsureFileExists, AuthTyped, AuthTypeOK
<1>5. HolderHasLock' /\ ReadUnderLock'
  <2>1. \A q \in Processes : ~compromised'[q]
    BY <1>2 DEF Refreshed, AuthTyped, AuthTypeOK
  <2>2. \A q \in Processes : at'[q] # "write" /\ refresh'[q] # "asking"
    BY <1>3, <1>4
  <2> QED BY <2>1, <2>2, NobodyLeft DEF AuthTyped
<1>6. /\ reply[p] \in Accepted /\ serverToken # NoToken
      /\ blanked \/ base[p] = authFile
      /\ base[p] \in Credentials
  BY DEF Refreshed, LockKeeps, ReadUnderLock, AuthTyped, AuthTypeOK, NoToken
<1>7. UNCHANGED <<lost, blanked, stored, serverToken>>
  BY DEF Refreshed
<1>8. CASE reply[p] = NoToken
  <2>1. authFile' = authFile
    BY <1>8 DEF Refreshed
  <2>2. lost \/ authFile = NoFileYet \/ authFile.oauth \in Accepted
    <3>1. \A q \in Processes : ~(refresh[q] = "asking" /\ reply[q] = serverToken)
      BY <1>3, <1>6, <1>8
    <3> QED BY <3>1 DEF LockKeeps, TokenIsGood
  <2> QED BY <1>5, <1>7, <2>1, <2>2 DEF LockKeeps, TokenIsGood, KeysAreThere, Accepted
<1>9. CASE reply[p] # NoToken
  <2>1. authFile' = [base[p] EXCEPT !.oauth = reply[p]]
    <3>1. ~compromised[p]
      BY <1>2
    <3> QED BY <1>9, <3>1 DEF Refreshed
  <2>2. authFile'.oauth = serverToken /\ authFile'.keys = base[p].keys
    BY <1>6, <1>9, <2>1 DEF Credentials, Accepted
  <2> QED BY <1>5, <1>6, <1>7, <2>2 DEF LockKeeps, TokenIsGood, KeysAreThere, Accepted
<1> QED BY <1>8, <1>9

-----------------------------------------------------------------------------
\* No step takes the login out of the file, or is about to.
LEMMA LoginStaysStep ==
  ASSUME AuthTyped, AuthTyped', LoginStays, [AuthNext]_authVars PROVE LoginStays'
<1> USE DEF AuthTyped, AuthTypeOK
<1>f. loggedIn => authFile \in Credentials /\ authFile # NoFileYet
  BY CredentialsMade DEF LoginStays, NoFileYet, NoToken
<1>1. CASE UNCHANGED authVars
  BY <1>1 DEF authVars, LoginStays
<1>2. CASE AuthNext
  <2>u. UNCHANGED loggedIn
    BY <1>2 DEF AuthNext
  <2>1. ASSUME NEW p \in Processes,
               Set(p) \/ GetApiKey(p) \/ LockSyncFails(p) \/ StartLocking(p) \/ LockAsyncFails(p)
        PROVE  LoginStays'
    <3>1. /\ UNCHANGED <<authFile, current>>
          /\ \A q \in Processes \ {p} : at'[q] = at[q]
          /\ at'[p] # "write" \/ at'[p] = at[p]
          /\ at'[p] = "create" => authFile = NoFileYet \/ at'[p] = at[p]
      BY <2>1 DEF Set, GetApiKey, LockSyncFails, StartLocking, LockAsyncFails, Fail, Returns,
                  EnsureFileExists
    <3> QED BY <2>u, <3>1, <1>f DEF LoginStays
  <2>2. ASSUME NEW p \in Processes, CreateFile(p) PROVE LoginStays'
    BY <2>u, <2>2 DEF LoginStays, CreateFile
  <2>3. ASSUME NEW p \in Processes, LockSync(p) PROVE LoginStays'
    <3>2. /\ authFile' = authFile
          /\ \/ at' = [at EXCEPT ![p] = "idle"] /\ current' = current
             \/ /\ at' = [at EXCEPT ![p] = "write"]
                /\ current' = [current EXCEPT ![p] = authFile]
      BY <2>3 DEF LockSync, Returns, UnderLock
    <3>1. /\ authFile' = authFile
          /\ \A q \in Processes \ {p} : at'[q] = at[q] /\ current'[q] = current[q]
          /\ at'[p] = "idle" \/ (at'[p] = "write" /\ current'[p] = authFile)
      BY <3>2
    <3> QED BY <2>u, <3>1 DEF LoginStays
  <2>4. ASSUME NEW p \in Processes, WriteSync(p) PROVE LoginStays'
    <3>1. /\ at[p] = "write" /\ at'[p] = "idle"
          /\ \A q \in Processes \ {p} : at'[q] = at[q] /\ current'[q] = current[q]
      BY <2>4 DEF WriteSync, Returns
    <3>2. authFile' = [current[p] EXCEPT !.keys = @ \cup {p}] /\ current[p] \in Credentials
      BY <2>4 DEF WriteSync
    <3>3. authFile'.oauth = current[p].oauth
      BY <3>2 DEF Credentials
    <3> QED BY <2>u, <3>1, <3>3 DEF LoginStays
  <2>5. ASSUME NEW p \in Processes, LockAndAsk(p) \/ LockUpdate(p) PROVE LoginStays'
    BY <2>u, <2>5 DEF LoginStays, LockAndAsk, LockUpdate
  <2>6. ASSUME NEW p \in Processes, Refreshed(p) PROVE LoginStays'
    <3>4. \/ authFile' = authFile
          \/ authFile' = [base[p] EXCEPT !.oauth = reply[p]] /\ reply[p] # NoToken
      BY <2>6 DEF Refreshed
    <3>5. [base[p] EXCEPT !.oauth = reply[p]].oauth = reply[p]
      BY DEF Credentials
    <3>1. authFile' = authFile \/ (authFile'.oauth = reply[p] /\ reply[p] # NoToken)
      BY <3>4, <3>5
    <3>6. /\ current' = current /\ at[p] = "idle"
          /\ at' = at \/ Fail(p)
      BY <2>6 DEF Refreshed
    <3>2. /\ current' = current /\ \A q \in Processes \ {p} : at'[q] = at[q]
          /\ at'[p] # "write"
          /\ at'[p] = "create" => authFile = NoFileYet
      BY <3>6 DEF Fail, EnsureFileExists
    <3>3. reply[p] # NoToken => reply[p] > NoToken
      BY AuthAssumption DEF NoToken
    <3>7. loggedIn => authFile'.oauth > NoToken /\ authFile' # NoFileYet
      BY <3>1, <3>3, <1>f DEF LoginStays, NoFileYet, NoToken
    <3> QED BY <2>u, <3>2, <3>7, <1>f DEF LoginStays
  <2>7. ASSUME NEW n \in {"path", "real"}, LockAges(n) PROVE LoginStays'
    BY <2>u, <2>7 DEF LoginStays, LockAges
  <2>8. CASE Expires
    BY <2>u, <2>8 DEF LoginStays, Expires
  <2> QED BY <1>2, <2>1, <2>2, <2>3, <2>4, <2>5, <2>6, <2>7, <2>8 DEF AuthNext
<1> QED BY <1>1, <1>2

LEMMA AuthInvInit == AuthInit => AuthInv
<1> SUFFICES ASSUME AuthInit PROVE AuthInv
  OBVIOUS
<1>1. HolderHasLock /\ ReadUnderLock /\ OneCallEach
  BY DEF AuthInit, HolderHasLock, ReadUnderLock, OneCallEach
<1>2. TokenIsGood
  BY DEF AuthInit, TokenIsGood, Accepted
<1>3. KeysAreThere /\ NoSpentTokenSent
  BY DEF AuthInit, KeysAreThere, NoSpentTokenSent
<1>4. LoginStays
  <2>1. loggedIn => authFile.oauth = 1
    <3>1. authFile \in {NoFileYet, [oauth |-> 1, keys |-> {}]} /\ loggedIn = (authFile # NoFileYet)
      BY DEF AuthInit
    <3>2. loggedIn => authFile = [oauth |-> 1, keys |-> {}]
      BY <3>1, Zenon
    <3> QED BY <3>2
  <2>2. \A p \in Processes : at[p] = "idle"
    BY DEF AuthInit
  <2> QED BY <2>1, <2>2 DEF LoginStays, NoToken
<1> QED BY <1>1, <1>2, <1>3, <1>4, TypedInit DEF AuthInv, LockKeeps

LEMMA AuthInvStep == AuthInv /\ [AuthNext]_authVars => AuthInv'
<1> SUFFICES ASSUME AuthInv, [AuthNext]_authVars PROVE AuthInv'
  OBVIOUS
<1>1. AuthTyped' /\ OneCallEach' /\ LoginStays'
  BY TypedStep, OneCallStep, LoginStaysStep DEF AuthInv, AuthTyped
<1>2. CASE UNCHANGED authVars
  <2>1. LockKeeps'
    BY <1>2, Untouched DEF AuthInv, AuthTyped, authVars
  <2> QED BY <1>1, <1>2, <2>1 DEF AuthInv, authVars, NoSpentTokenSent
<1>3. CASE AuthNext
  <2>1. CASE \E p \in Processes : LockAndAsk(p)
    BY <1>1, <2>1, AskKeeps DEF AuthInv
  <2>2. CASE ~\E p \in Processes : LockAndAsk(p)
    <3>1. LockKeeps'
      BY <1>3, <2>2, QuietSteps, CreateKeeps, LockSyncKeeps, WriteKeeps, RefreshedKeeps
         DEF AuthInv, AuthNext
    <3>2. /\ UNCHANGED <<spent, lost, authSymlink>> /\ (stolen => stolen')
      BY <1>3, <2>2, StaysLoose DEF AuthNext, LockAges, Expires
    <3> QED BY <1>1, <3>1, <3>2 DEF AuthInv, NoSpentTokenSent
  <2> QED BY <2>1, <2>2
<1> QED BY <1>2, <1>3

\* Every variable of AuthStorage keeps its type, for any processes and bounds.
THEOREM AuthTypesHold == AuthSpec => []AuthTypeOK
<1>1. AuthInv => AuthTypeOK
  BY DEF AuthInv, AuthTyped
<1> QED BY <1>1, AuthInvInit, AuthInvStep, PTL DEF AuthSpec

\* Nobody is logged out (refreshOAuthTokenWithLock, withLock): a login is never
\* dropped from auth.json; and as long as nothing takes the lock over, no process
\* sends a refresh token another has exchanged, and the file keeps every key that was
\* set and, for a login, the token the provider accepts or the lock's holder brings.
THEOREM LoginsAreKept == AuthSpec => []LoginsKept
<1>1. AuthInv => LoginsKept
  <2> SUFFICES ASSUME AuthInv, ~LockIsLoose, ~blanked, ~lost, loggedIn
               PROVE  \/ authFile.oauth = serverToken
                      \/ \E p \in Processes : refresh[p] = "asking" /\ reply[p] = serverToken
    BY DEF AuthInv, LockKeeps, LockIsLoose, LoginsKept, CredentialsKept, KeysAreThere, LoginStays
  <2>1. authFile.oauth > NoToken
    BY DEF AuthInv, LoginStays
  <2>2. authFile # NoFileYet /\ authFile.oauth # NoToken
    BY <2>1 DEF NoFileYet, NoToken
  <2> QED BY <2>2 DEF AuthInv, LockKeeps, TokenIsGood, Accepted
<1> QED BY <1>1, AuthInvInit, AuthInvStep, PTL DEF AuthSpec

-----------------------------------------------------------------------------
(***************************************************************************)
(* Where the loop's answers come from (ProviderStream).  The two streams        *)
(* between a provider and the loop implement one channel, for answers of any    *)
(* length.  Nothing is lost, doubled or reordered on the way: what was pushed   *)
(* is what the loop has seen, then what the outer stream still holds, then what *)
(* the inner one does.                                                          *)
(***************************************************************************)
StreamOfEvents == StreamType(StreamEvent)

\* A reader waits at an open, empty stream; who is told of the end has read everything.
Sane(s) ==
  /\ s.waiting => s.woken = NoEvent /\ s.queue = <<>> /\ ~s.done
  /\ s.woken = EndOfStream => s.queue = <<>> /\ s.done

StreamTyped == StreamTypeOK /\ Sane(inner) /\ Sane(outer)

\* Every event is somewhere, once and in order.
Row(a, b, c) == (a \o b) \o c
Before(e, d) == <<e>> \o d

Flow == pushed = Row(seen, Undelivered(outer), Undelivered(inner))

\* Nothing is pushed after the completing event.
LastIsLast ==
  \A i \in 1..Len(pushed) :
    pushed[i].final => /\ i = Len(pushed) /\ module # "loading"
                       /\ module = "loaded" => provider = "closed"

\* A stream is done once its producer is, and the outer one not before the inner is empty.
DoneInTurn ==
  /\ inner.done <=> provider = "closed"
  /\ module = "loading" => pushed = <<>> /\ ~outer.done
  /\ module = "loaded" /\ outer.done => inner.done /\ Undelivered(inner) = <<>>

\* The result that the loop will fetch is the completing event it has yet to read.
ResultIsFinal ==
  \A i \in 1..Len(Undelivered(outer)) :
    Undelivered(outer)[i].final => outer.done /\ outer.result = Undelivered(outer)[i]

StreamInv == StreamTyped /\ Flow /\ LastIsLast /\ DoneInTurn /\ ResultIsFinal
-----------------------------------------------------------------------------
(* The methods of EventStream.                                               *)

LEMMA EventsAreReal ==
  /\ NoEvent \notin StreamEvent /\ EndOfStream \notin StreamEvent /\ EndOfStream # NoEvent
BY StreamAssumption

LEMMA OneEvent == ASSUME NEW e \in StreamEvent PROVE <<e>> \in Seq(StreamEvent)
OBVIOUS

LEMMA HeadThenTail ==
  ASSUME NEW S, NEW q \in Seq(S), q # <<>>
  PROVE  q = <<Head(q)>> \o Tail(q)
<1>1. /\ Head(q) \in S /\ Tail(q) \in Seq(S) /\ Len(Tail(q)) = Len(q) - 1
      /\ \A i \in 1..Len(Tail(q)) : Tail(q)[i] = q[i + 1]
  BY HeadTailProperties
<1>2. <<Head(q)>> \in Seq(S) /\ Len(<<Head(q)>>) = 1 /\ <<Head(q)>>[1] = Head(q)
  BY <1>1
<1>3. Len(q) \in Nat /\ Len(q) # 0
  BY EmptySeq, LenProperties
<1> DEFINE joined == <<Head(q)>> \o Tail(q)
<1>4. /\ joined \in Seq(S) /\ Len(joined) = Len(q)
      /\ \A i \in 1..Len(q) : joined[i] = IF i <= 1 THEN Head(q) ELSE Tail(q)[i - 1]
  BY <1>1, <1>2, <1>3, ConcatProperties
<1>5. \A i \in 1..Len(q) : joined[i] = q[i]
  <2> SUFFICES ASSUME NEW i \in 1..Len(q) PROVE joined[i] = q[i]
    OBVIOUS
  <2>1. CASE i = 1
    <3>1. Head(q) = q[1]
      BY <1>3
    <3> QED BY <1>3, <1>4, <2>1, <3>1
  <2>2. CASE i # 1
    <3>1. i - 1 \in 1..Len(Tail(q)) /\ (i - 1) + 1 = i
      BY <1>1, <1>3, <2>2
    <3>2. joined[i] = Tail(q)[i - 1]
      BY <1>4, <2>2
    <3> QED BY <1>1, <3>1, <3>2
  <2> QED BY <2>1, <2>2
<1> HIDE DEF joined
<1>6. joined = q
  BY <1>4, <1>5, SeqEqual
<1> QED BY <1>6 DEF joined

LEMMA UndeliveredIs ==
  ASSUME NEW s \in StreamOfEvents
  PROVE  /\ Undelivered(s) \in Seq(StreamEvent)
         /\ s.woken \in {NoEvent, EndOfStream} => Undelivered(s) = s.queue
         /\ s.woken \in StreamEvent => Undelivered(s) = <<s.woken>> \o s.queue
<1>1. s.queue \in Seq(StreamEvent) /\ s.woken \in StreamEvent \cup {NoEvent, EndOfStream}
  BY DEF StreamOfEvents, StreamType
<1>2. CASE s.woken \in {NoEvent, EndOfStream}
  <2>1. Undelivered(s) = <<>> \o s.queue
    BY <1>2 DEF Undelivered
  <2>2. Undelivered(s) = s.queue
    BY <1>1, <2>1, ConcatEmptySeq
  <2> QED BY <1>1, <1>2, <2>2, EventsAreReal
<1>3. CASE s.woken \in StreamEvent
  <2>1. Undelivered(s) = <<s.woken>> \o s.queue
    BY <1>3, EventsAreReal DEF Undelivered
  <2>2. <<s.woken>> \in Seq(StreamEvent)
    BY <1>3, OneEvent
  <2> QED BY <1>1, <1>3, <2>1, <2>2, ConcatProperties, EventsAreReal
<1> QED BY <1>1, <1>2, <1>3

LEMMA NewStreamSane ==
  NewStream \in StreamOfEvents /\ Sane(NewStream) /\ ~NewStream.done /\ Undelivered(NewStream) = <<>>
<1>1. <<>> \in Seq(StreamEvent)
  BY EmptySeq
<1>2. NewStream \in StreamOfEvents
  BY <1>1 DEF NewStream, StreamOfEvents, StreamType
<1>3. /\ NewStream.woken = NoEvent /\ NewStream.queue = <<>> /\ ~NewStream.done
      /\ ~NewStream.waiting
  BY DEF NewStream
<1> QED BY <1>2, <1>3, UndeliveredIs, EventsAreReal DEF Sane

\* push() on a stream that is open.
LEMMA Pushed ==
  ASSUME NEW s \in StreamOfEvents, Sane(s), ~s.done, NEW e \in StreamEvent, NEW complete \in BOOLEAN
  PROVE  /\ Push(s, e, complete) \in StreamOfEvents /\ Sane(Push(s, e, complete))
         /\ Undelivered(Push(s, e, complete)) = Append(Undelivered(s), e)
         /\ Push(s, e, complete).done <=> complete
         /\ complete => Push(s, e, complete).result = e
<1> DEFINE t == Push(s, e, complete)
<1>1. /\ s.queue \in Seq(StreamEvent) /\ s.woken \in StreamEvent \cup {NoEvent, EndOfStream}
      /\ s.woken # EndOfStream
  BY DEF StreamOfEvents, StreamType, Sane
<1>2. t = [queue |-> IF s.waiting THEN s.queue ELSE Append(s.queue, e), waiting |-> FALSE,
           woken |-> IF s.waiting THEN e ELSE s.woken, done |-> complete,
           result |-> IF complete THEN e ELSE NoEvent]
  BY DEF Push, StreamOfEvents, StreamType
<1>3. Append(s.queue, e) \in Seq(StreamEvent)
  BY <1>1, AppendProperties
<1>4. /\ t.queue = IF s.waiting THEN s.queue ELSE Append(s.queue, e)
      /\ t.woken = IF s.waiting THEN e ELSE s.woken
      /\ ~t.waiting /\ t.done = complete /\ t.result = IF complete THEN e ELSE NoEvent
  BY <1>2
<1>5. t \in StreamOfEvents
  BY <1>1, <1>2, <1>3 DEF StreamOfEvents, StreamType
<1>6. t.woken # EndOfStream
  BY <1>1, <1>4, EventsAreReal
<1>7. Sane(t)
  BY <1>4, <1>6 DEF Sane
<1>8. Undelivered(t) = Append(Undelivered(s), e)
  <2> HIDE DEF t
  <2>1. CASE s.waiting
    <3>1. s.woken = NoEvent /\ s.queue = <<>>
      BY <2>1 DEF Sane
    <3>2. Undelivered(s) = <<>>
      BY <3>1, UndeliveredIs
    <3>3. Undelivered(t) = <<e>> \o <<>>
      BY <1>4, <1>5, <2>1, <3>1, UndeliveredIs
    <3> QED BY <3>2, <3>3, OneEvent, ConcatEmptySeq
  <2>2. CASE ~s.waiting
    <3>1. t.woken = s.woken /\ t.queue = Append(s.queue, e)
      BY <1>4, <2>2
    <3>2. t.queue = s.queue \o <<e>>
      BY <1>1, <3>1, AppendIsConcat
    <3>3. CASE s.woken = NoEvent
      BY <1>5, <3>1, <3>3, UndeliveredIs
    <3>4. CASE s.woken \in StreamEvent
      <4>1. /\ Undelivered(t) = <<s.woken>> \o (s.queue \o <<e>>)
            /\ Undelivered(s) = <<s.woken>> \o s.queue
        BY <1>5, <3>1, <3>2, <3>4, UndeliveredIs
      <4>2. (<<s.woken>> \o s.queue) \o <<e>> = <<s.woken>> \o (s.queue \o <<e>>)
        <5> DEFINE first == <<s.woken>>
                   last == <<e>>
        <5>1. first \in Seq(StreamEvent) /\ last \in Seq(StreamEvent)
          BY <3>4, OneEvent
        <5> HIDE DEF first, last
        <5>2. (first \o s.queue) \o last = first \o (s.queue \o last)
          <6> DEFINE rest == s.queue
          <6>1. rest \in Seq(StreamEvent)
            BY <1>1
          <6> HIDE DEF rest
          <6>2. (first \o rest) \o last = first \o (rest \o last)
            BY <5>1, <6>1, ConcatAssociative
          <6> QED BY <6>2 DEF rest
        <5> QED BY <5>2 DEF first, last
      <4>3. Append(Undelivered(s), e) = Undelivered(s) \o <<e>>
        BY UndeliveredIs, AppendIsConcat
      <4> QED BY <4>1, <4>2, <4>3
    <3> QED BY <1>1, <3>3, <3>4
  <2> QED BY <2>1, <2>2
<1> QED BY <1>4, <1>5, <1>7, <1>8

LEMMA Ended ==
  ASSUME NEW s \in StreamOfEvents, Sane(s), NEW r \in StreamEvent \cup {NoEvent}
  PROVE  /\ End(s, r) \in StreamOfEvents /\ Sane(End(s, r))
         /\ Undelivered(End(s, r)) = Undelivered(s)
         /\ End(s, r).done
         /\ s.result # NoEvent => End(s, r).result = s.result
<1> DEFINE t == End(s, r)
<1>1. DOMAIN s = {"queue", "waiting", "woken", "done", "result"}
  BY DEF StreamOfEvents, StreamType
<1>2. /\ t.queue = s.queue /\ ~t.waiting /\ t.done
      /\ t.woken = IF s.waiting THEN EndOfStream ELSE s.woken
      /\ t.result = IF s.result = NoEvent THEN r ELSE s.result
  BY <1>1 DEF End
<1>3. t \in StreamOfEvents
  BY DEF End, StreamOfEvents, StreamType
<1>4. Sane(t)
  BY <1>2 DEF Sane
<1>5. Undelivered(t) = Undelivered(s)
  <2>1. s.waiting => s.woken = NoEvent
    BY DEF Sane
  <2>2. s.woken \in StreamEvent \cup {NoEvent, EndOfStream}
    BY DEF StreamOfEvents, StreamType
  <2> HIDE DEF t
  <2> QED BY <1>2, <1>3, <2>1, <2>2, UndeliveredIs
<1> QED BY <1>2, <1>3, <1>4, <1>5

\* The reader takes the first undelivered event.
LEMMA TakenFirst ==
  ASSUME NEW s \in StreamOfEvents, Sane(s), HasEvent(s)
  PROVE  /\ NextEvent(s) \in StreamEvent /\ Taken(s) \in StreamOfEvents /\ Sane(Taken(s))
         /\ Undelivered(s) = <<NextEvent(s)>> \o Undelivered(Taken(s))
         /\ Taken(s).done = s.done /\ Taken(s).result = s.result
<1>1. /\ s.queue \in Seq(StreamEvent) /\ s.woken \in StreamEvent \cup {NoEvent}
      /\ s.woken = NoEvent => s.queue # <<>>
      /\ ~s.waiting
  BY DEF StreamOfEvents, StreamType, HasEvent
<1>2. CASE s.woken = NoEvent
  <2> DEFINE t == Taken(s)
  <2>1. t = [queue |-> Tail(s.queue), waiting |-> s.waiting, woken |-> s.woken,
             done |-> s.done, result |-> s.result]
    BY <1>2 DEF Taken, StreamOfEvents, StreamType
  <2>2. /\ t.queue = Tail(s.queue) /\ ~t.waiting /\ t.woken = NoEvent
        /\ t.done = s.done /\ t.result = s.result
    BY <1>1, <1>2, <2>1
  <2>3. Tail(s.queue) \in Seq(StreamEvent) /\ Head(s.queue) \in StreamEvent
    BY <1>1, <1>2, HeadTailProperties
  <2>4. t \in StreamOfEvents
    BY <2>1, <2>3 DEF StreamOfEvents, StreamType
  <2>5. NextEvent(s) = Head(s.queue)
    BY <1>2 DEF NextEvent
  <2>6. Undelivered(s) = s.queue /\ Undelivered(t) = Tail(s.queue)
    <3> HIDE DEF t
    <3> QED BY <1>2, <2>2, <2>4, UndeliveredIs
  <2>7. s.queue = <<Head(s.queue)>> \o Tail(s.queue)
    BY <1>1, <1>2, HeadThenTail
  <2>8. Sane(t)
    BY <2>2, EventsAreReal DEF Sane
  <2> QED BY <2>2, <2>3, <2>4, <2>5, <2>6, <2>7, <2>8
<1>3. CASE s.woken \in StreamEvent
  <2> DEFINE t == Taken(s)
  <2>1. t = [queue |-> s.queue, waiting |-> s.waiting, woken |-> NoEvent,
             done |-> s.done, result |-> s.result]
    BY <1>3, EventsAreReal DEF Taken, StreamOfEvents, StreamType
  <2>2. /\ t.queue = s.queue /\ ~t.waiting /\ t.woken = NoEvent
        /\ t.done = s.done /\ t.result = s.result
    BY <1>1, <2>1
  <2>3. t \in StreamOfEvents
    BY <2>1 DEF StreamOfEvents, StreamType
  <2>4. NextEvent(s) = s.woken
    BY <1>3, EventsAreReal DEF NextEvent
  <2>5. Undelivered(s) = <<s.woken>> \o s.queue /\ Undelivered(t) = s.queue
    <3> HIDE DEF t
    <3> QED BY <1>3, <2>2, <2>3, UndeliveredIs
  <2>6. Sane(t)
    BY <2>2, EventsAreReal DEF Sane
  <2> QED BY <1>3, <2>2, <2>3, <2>4, <2>5, <2>6
<1> QED BY <1>1, <1>2, <1>3

LEMMA EventOrWait == ASSUME NEW s, HasEvent(s) PROVE ~MustWait(s) /\ ~HasEnded(s)
BY DEF HasEvent, MustWait, HasEnded

LEMMA Waits ==
  ASSUME NEW s \in StreamOfEvents, Sane(s), MustWait(s)
  PROVE  /\ Wait(s) \in StreamOfEvents /\ Sane(Wait(s)) /\ Undelivered(Wait(s)) = Undelivered(s)
         /\ Wait(s).done = s.done /\ Wait(s).result = s.result
<1> DEFINE t == Wait(s)
<1>2. t.queue = s.queue /\ t.woken = s.woken /\ t.done = s.done /\ t.result = s.result
  BY DEF Wait, StreamOfEvents, StreamType
<1>3. t \in StreamOfEvents
  BY DEF Wait, StreamOfEvents, StreamType
<1>4. s.woken = NoEvent /\ s.queue = <<>> /\ ~s.done
  BY DEF MustWait, HasEvent, HasEnded
<1>5. Sane(t)
  BY <1>2, <1>4, EventsAreReal DEF Sane
<1>6. Undelivered(t) = Undelivered(s)
  <2> HIDE DEF t
  <2> QED BY <1>2, <1>3, <1>4, UndeliveredIs
<1> QED BY <1>2, <1>3, <1>5, <1>6

LEMMA NothingLeft ==
  ASSUME NEW s \in StreamOfEvents, Sane(s), HasEnded(s)
  PROVE  Undelivered(s) = <<>> /\ s.done
BY UndeliveredIs DEF HasEnded, Sane
-----------------------------------------------------------------------------
(* Three sequences in a row, and an event that moves along them.              *)

LEMMA RowType ==
  ASSUME NEW S, NEW a \in Seq(S), NEW b \in Seq(S), NEW c \in Seq(S)
  PROVE  (a \o b) \o c \in Seq(S) /\ Len((a \o b) \o c) = Len(a) + Len(b) + Len(c)
<1>1. a \o b \in Seq(S) /\ Len(a \o b) = Len(a) + Len(b)
  BY ConcatProperties
<1> QED BY <1>1, ConcatProperties

LEMMA EventEnters ==
  ASSUME NEW S, NEW a \in Seq(S), NEW b \in Seq(S), NEW c \in Seq(S), NEW e \in S
  PROVE  Append(Row(a, b, c), e) = Row(a, b, Append(c, e))
<1>1. a \o b \in Seq(S) /\ <<e>> \in Seq(S)
  BY ConcatProperties
<1>2. (a \o b) \o c \in Seq(S)
  BY RowType
<1>3. Append((a \o b) \o c, e) = ((a \o b) \o c) \o <<e>>
  BY <1>2, AppendIsConcat
<1>4. ((a \o b) \o c) \o <<e>> = (a \o b) \o (c \o <<e>>)
  BY <1>1, ConcatAssociative
<1>5. c \o <<e>> = Append(c, e)
  BY AppendIsConcat
<1> QED BY <1>3, <1>4, <1>5 DEF Row

LEMMA EventMovesOn ==
  ASSUME NEW S, NEW b \in Seq(S), NEW d \in Seq(S), NEW e \in S
  PROVE  b \o (<<e>> \o d) = Append(b, e) \o d
<1>1. <<e>> \in Seq(S)
  OBVIOUS
<1>2. b \o (<<e>> \o d) = (b \o <<e>>) \o d
  BY <1>1, ConcatAssociative
<1>3. b \o <<e>> = Append(b, e)
  BY AppendIsConcat
<1> QED BY <1>2, <1>3

LEMMA EventForwarded ==
  ASSUME NEW S, NEW a \in Seq(S), NEW b \in Seq(S), NEW d \in Seq(S), NEW e \in S
  PROVE  Row(a, b, Before(e, d)) = Row(a, Append(b, e), d)
<1> DEFINE front == a \o b
           one == <<e>>
<1>1. front \in Seq(S) /\ one \in Seq(S)
  BY ConcatProperties
<1>2. b \o one = Append(b, e)
  BY AppendIsConcat
<1>3. front \o one = a \o (b \o one)
  <2> HIDE DEF one
  <2> QED BY <1>1, ConcatAssociative
<1> HIDE DEF front
<1>4. front \o (one \o d) = Append(front, e) \o d
  BY <1>1, EventMovesOn
<1>5. Append(front, e) = front \o one
  BY <1>1, AppendIsConcat
<1>6. front \o (one \o d) = (a \o Append(b, e)) \o d
  BY <1>2, <1>3, <1>4, <1>5
<1> QED BY <1>6 DEF front, Row, Before

LEMMA EventHeard ==
  ASSUME NEW S, NEW a \in Seq(S), NEW c \in Seq(S), NEW d \in Seq(S), NEW e \in S
  PROVE  Row(a, Before(e, d), c) = Row(Append(a, e), d, c)
<1>1. a \o (<<e>> \o d) = Append(a, e) \o d
  BY EventMovesOn
<1> QED BY <1>1 DEF Row, Before

LEMMA FirstOf ==
  ASSUME NEW S, NEW d \in Seq(S), NEW e \in S
  PROVE  /\ Len(<<e>> \o d) = Len(d) + 1
         /\ (<<e>> \o d)[1] = e
         /\ \A i \in 1..Len(d) : (<<e>> \o d)[i + 1] = d[i]
<1>1. <<e>> \in Seq(S) /\ Len(<<e>>) = 1 /\ <<e>>[1] = e
  OBVIOUS
<1>2. Len(d) \in Nat
  BY LenProperties
<1>3. /\ Len(<<e>> \o d) = 1 + Len(d)
      /\ \A i \in 1..(1 + Len(d)) :
           (<<e>> \o d)[i] = IF i <= 1 THEN <<e>>[i] ELSE d[i - 1]
  BY <1>1, ConcatProperties
<1>4. ASSUME NEW i \in 1..Len(d) PROVE (<<e>> \o d)[i + 1] = d[i]
  <2>1. i + 1 \in 1..(1 + Len(d)) /\ ~(i + 1 <= 1) /\ (i + 1) - 1 = i
    BY <1>2
  <2> QED BY <1>3, <2>1
<1> QED BY <1>1, <1>2, <1>3, <1>4

LEMMA FirstOfSecond ==
  ASSUME NEW S, NEW s \in Seq(S), NEW t \in Seq(S), Len(t) \in Nat \ {0}
  PROVE  (s \o t)[Len(s) + 1] = t[1]
<1>1. Len(s) \in Nat
  BY LenProperties
<1>2. Len(s) + 1 \in 1..(Len(s) + Len(t))
  BY <1>1
<1>3. (s \o t)[Len(s) + 1] = IF Len(s) + 1 <= Len(s) THEN s[Len(s) + 1] ELSE t[Len(s) + 1 - Len(s)]
  BY <1>2, ConcatProperties
<1> QED BY <1>1, <1>3

\* A row starts as its first sequence does.
LEMMA StartOfTwo ==
  ASSUME NEW S, NEW a \in Seq(S), NEW b \in Seq(S), NEW i \in 1..Len(a)
  PROVE  /\ Len(a \o b) \in Nat /\ Len(a \o b) >= Len(a)
         /\ (a \o b)[i] = a[i]
<1>1. Len(a) \in Nat /\ Len(b) \in Nat /\ Len(a \o b) = Len(a) + Len(b)
  BY ConcatProperties, LenProperties
<1>2. i \in 1..(Len(a) + Len(b)) /\ i <= Len(a)
  BY <1>1
<1>3. (a \o b)[i] = IF i <= Len(a) THEN a[i] ELSE b[i - Len(a)]
  BY <1>2, ConcatProperties
<1> QED BY <1>1, <1>2, <1>3

LEMMA StartOfRow ==
  ASSUME NEW S, NEW a \in Seq(S), NEW b \in Seq(S), NEW c \in Seq(S),
         NEW i \in 1..Len(a)
  PROVE  Len((a \o b) \o c) >= Len(a) /\ ((a \o b) \o c)[i] = a[i]
<1> DEFINE front == a \o b
<1>1. front \in Seq(S)
  BY ConcatProperties
<1>2. Len(front) \in Nat /\ Len(front) >= Len(a) /\ front[i] = a[i]
  BY StartOfTwo
<1>3. Len(a) \in Nat
  BY LenProperties
<1> HIDE DEF front
<1>4. i \in 1..Len(front)
  BY <1>2, <1>3
<1>5. Len(front \o c) \in Nat /\ Len(front \o c) >= Len(front) /\ (front \o c)[i] = front[i]
  BY <1>1, <1>4, StartOfTwo
<1>6. Len(front \o c) >= Len(a) /\ (front \o c)[i] = a[i]
  BY <1>2, <1>3, <1>5
<1> QED BY <1>6 DEF front

\* Where an event on its way stands among those that were pushed.
LEMMA PlaceInRow ==
  ASSUME NEW S, NEW a \in Seq(S), NEW b \in Seq(S), NEW d \in Seq(S), NEW e \in S
  PROVE  LET row == (a \o b) \o (<<e>> \o d) IN
         /\ Len(row) = Len(a) + Len(b) + 1 + Len(d)
         /\ row[Len(a) + Len(b) + 1] = e
<1> DEFINE front == a \o b
           back == <<e>> \o d
<1>1. front \in Seq(S) /\ Len(front) = Len(a) + Len(b)
  BY ConcatProperties
<1>2. back \in Seq(S) /\ Len(back) = Len(d) + 1 /\ back[1] = e
  <2>1. <<e>> \in Seq(S)
    OBVIOUS
  <2>2. back \in Seq(S)
    BY <2>1, ConcatProperties
  <2> QED BY <2>2, FirstOf
<1>3. Len(a) \in Nat /\ Len(b) \in Nat /\ Len(d) \in Nat
  BY LenProperties
<1> HIDE DEF front, back
<1>4. Len(front \o back) = Len(front) + Len(back)
  BY <1>1, <1>2, ConcatProperties
<1>5. (front \o back)[Len(front) + 1] = back[1]
  BY <1>1, <1>2, <1>3, FirstOfSecond
<1> QED BY <1>1, <1>2, <1>3, <1>4, <1>5 DEF front, back
-----------------------------------------------------------------------------
(* The invariant.                                                            *)

LEMMA StreamsTyped ==
  ASSUME StreamInv
  PROVE  /\ inner \in StreamOfEvents /\ Sane(inner) /\ Undelivered(inner) \in Seq(StreamEvent)
         /\ outer \in StreamOfEvents /\ Sane(outer) /\ Undelivered(outer) \in Seq(StreamEvent)
         /\ seen \in Seq(StreamEvent) /\ pushed \in Seq(StreamEvent)
         /\ StreamTypeOK
BY UndeliveredIs DEF StreamInv, StreamTyped, StreamTypeOK, StreamOfEvents

LEMMA StreamInvInit == StreamInit => StreamInv
<1> SUFFICES ASSUME StreamInit PROVE StreamInv
  OBVIOUS
<1>1. <<>> \in Seq(StreamEvent) /\ Len(<<>>) = 0
  BY EmptySeq
<1>2. /\ inner \in StreamOfEvents /\ Sane(inner) /\ ~inner.done /\ Undelivered(inner) = <<>>
      /\ outer \in StreamOfEvents /\ Sane(outer) /\ ~outer.done /\ Undelivered(outer) = <<>>
  BY NewStreamSane DEF StreamInit
<1>3. StreamTyped
  BY <1>1, <1>2 DEF StreamInit, StreamTyped, StreamTypeOK, StreamOfEvents
<1>4. Flow
  BY <1>1, <1>2, ConcatEmptySeq DEF StreamInit, Flow, Row
<1>5. 1..0 = {}
  OBVIOUS
<1>6. LastIsLast /\ ResultIsFinal
  BY <1>1, <1>2, <1>5 DEF StreamInit, LastIsLast, ResultIsFinal
<1>7. DoneInTurn
  BY <1>2 DEF StreamInit, DoneInTurn
<1> QED BY <1>3, <1>4, <1>6, <1>7 DEF StreamInv

LEMMA ModuleLoadsKeeps == ASSUME StreamInv, ModuleLoads PROVE StreamInv'
<1>1. pushed = <<>> /\ ~outer.done
  BY DEF StreamInv, DoneInTurn, ModuleLoads
<1>2. StreamTyped' /\ Flow' /\ ResultIsFinal'
  BY DEF StreamInv, StreamTyped, StreamTypeOK, Flow, ResultIsFinal, ModuleLoads
<1>3. LastIsLast'
  <2>1. Len(pushed) = 0 /\ 1..0 = {}
    BY <1>1
  <2> QED BY <2>1 DEF LastIsLast, ModuleLoads
<1>4. DoneInTurn'
  BY <1>1 DEF StreamInv, DoneInTurn, ModuleLoads
<1> QED BY <1>2, <1>3, <1>4 DEF StreamInv

LEMMA NothingPushed ==
  ASSUME StreamInv, pushed = <<>>
  PROVE  seen = <<>> /\ Undelivered(outer) = <<>> /\ Undelivered(inner) = <<>>
<1> DEFINE front == seen \o Undelivered(outer)
<1>1. front \in Seq(StreamEvent)
  BY StreamsTyped, ConcatProperties
<1>2. front \o Undelivered(inner) = <<>>
  BY DEF StreamInv, Flow, Row
<1>3. front = <<>> /\ Undelivered(inner) = <<>>
  <2> HIDE DEF front
  <2> QED BY <1>1, <1>2, StreamsTyped, ConcatEqualIffEmpty
<1> QED BY <1>3, StreamsTyped, ConcatEqualIffEmpty

LEMMA ModuleFailsKeeps == ASSUME StreamInv, ModuleFails PROVE StreamInv'
<1> DEFINE e == [n |-> 1, final |-> TRUE]
           t == Push(outer, e, TRUE)
<1>1. e \in StreamEvent
  BY StreamAssumption DEF StreamEvent
<1>2. /\ module = "loading" /\ module' = "failed" /\ outer' = End(t, e) /\ pushed' = <<e>>
      /\ UNCHANGED <<provider, inner, forwarder, loop, finalMessage, seen>>
  BY DEF ModuleFails
<1>3. pushed = <<>> /\ ~outer.done
  BY <1>2 DEF StreamInv, DoneInTurn
<1>4. seen = <<>> /\ Undelivered(outer) = <<>> /\ Undelivered(inner) = <<>>
  BY <1>3, NothingPushed
<1>5. /\ t \in StreamOfEvents /\ Sane(t) /\ t.result = e
      /\ Undelivered(t) = Append(<<>>, e)
  BY <1>1, <1>3, <1>4, StreamsTyped, Pushed
<1>6. e.final
  OBVIOUS
<1> HIDE DEF e, t
<1>7. e # NoEvent
  BY <1>1, EventsAreReal
<1>8. /\ outer' \in StreamOfEvents /\ Sane(outer)' /\ Undelivered(outer)' = <<e>>
      /\ outer'.done /\ outer'.result = e
  BY <1>1, <1>2, <1>5, <1>7, Ended
<1>9. <<e>> \in Seq(StreamEvent) /\ Len(<<e>>) = 1 /\ <<e>>[1] = e
  BY <1>1
<1>10. StreamTyped'
  BY <1>2, <1>8, <1>9 DEF StreamInv, StreamTyped, StreamTypeOK, StreamOfEvents
<1>11. Flow'
  <2>1. Undelivered(inner)' = <<>> /\ seen' = <<>>
    BY <1>2, <1>4
  <2>2. (<<>> \o <<e>>) \o <<>> = <<e>>
    BY <1>9, ConcatEmptySeq
  <2> QED BY <1>2, <1>8, <2>1, <2>2 DEF Flow, Row
<1>12. LastIsLast'
  BY <1>2, <1>9 DEF LastIsLast
<1>13. DoneInTurn'
  BY <1>2 DEF StreamInv, DoneInTurn
<1>14. ResultIsFinal'
  BY <1>8, <1>9 DEF ResultIsFinal
<1> QED BY <1>10, <1>11, <1>12, <1>13, <1>14 DEF StreamInv

\* An open provider has not said its last word, and nothing keeps it from being heard.
LEMMA ProviderIsOpen ==
  ASSUME StreamInv, module = "loaded", provider = "open"
  PROVE  ~inner.done /\ ~outer.done /\ \A i \in 1..Len(pushed) : ~pushed[i].final
BY DEF StreamInv, DoneInTurn, LastIsLast

LEMMA ProviderPushesKeeps ==
  ASSUME StreamInv, NEW final \in BOOLEAN, ProviderPushes(final)
  PROVE  StreamInv'
<1> DEFINE e == [n |-> Len(pushed) + 1, final |-> final]
           t == Push(inner, e, final)
<1>1. Len(pushed) \in Nat
  BY StreamsTyped, LenProperties
<1>2. e \in StreamEvent
  BY <1>1, StreamAssumption DEF StreamEvent, ProviderPushes
<1>3. /\ module = "loaded" /\ provider = "open" /\ pushed' = Append(pushed, e)
      /\ UNCHANGED <<module, outer, forwarder, loop, finalMessage, seen>>
      /\ final => inner' = End(t, NoEvent) /\ provider' = "closed"
      /\ ~final => inner' = t /\ provider' = "open"
  BY DEF ProviderPushes
<1>4. ~inner.done /\ ~outer.done /\ \A i \in 1..Len(pushed) : ~pushed[i].final
  BY <1>3, ProviderIsOpen
<1>5. t \in StreamOfEvents /\ Sane(t) /\ Undelivered(t) = Append(Undelivered(inner), e) /\ (t.done <=> final)
  BY <1>2, <1>4, StreamsTyped, Pushed
<1>6. e.final <=> final
  OBVIOUS
<1> HIDE DEF e, t
<1>7. /\ inner' \in StreamOfEvents /\ Sane(inner)'
      /\ Undelivered(inner)' = Append(Undelivered(inner), e)
      /\ inner'.done <=> final
  <2>1. CASE final
    <3>1. /\ End(t, NoEvent) \in StreamOfEvents /\ Sane(End(t, NoEvent)) /\ End(t, NoEvent).done
          /\ Undelivered(End(t, NoEvent)) = Undelivered(t)
      BY <1>5, Ended
    <3> QED BY <1>3, <1>5, <2>1, <3>1
  <2>2. CASE ~final
    BY <1>3, <1>5, <2>2
  <2> QED BY <2>1, <2>2
<1>8. StreamTyped'
  <2>1. pushed' \in Seq(StreamEvent)
    BY <1>2, <1>3, StreamsTyped, AppendProperties
  <2>2. provider' \in {"open", "closed"}
    BY <1>3
  <2> QED BY <1>3, <1>7, <2>1, <2>2 DEF StreamInv, StreamTyped, StreamTypeOK, StreamOfEvents
<1>9. Flow'
  <2>1. Append(Row(seen, Undelivered(outer), Undelivered(inner)), e)
          = Row(seen, Undelivered(outer), Append(Undelivered(inner), e))
    <3> DEFINE b == Undelivered(outer)
               c == Undelivered(inner)
    <3>1. seen \in Seq(StreamEvent) /\ b \in Seq(StreamEvent) /\ c \in Seq(StreamEvent)
      BY StreamsTyped
    <3> HIDE DEF b, c
    <3>2. Append(Row(seen, b, c), e) = Row(seen, b, Append(c, e))
      BY <1>2, <3>1, EventEnters
    <3> QED BY <3>2 DEF b, c
  <2>2. Undelivered(outer)' = Undelivered(outer)
    BY <1>3
  <2> QED BY <1>3, <1>7, <2>1, <2>2 DEF StreamInv, Flow
<1>10. LastIsLast'
  <2>1. /\ Len(pushed') = Len(pushed) + 1
        /\ \A i \in 1..Len(pushed) : pushed'[i] = pushed[i]
        /\ pushed'[Len(pushed) + 1] = e
    BY <1>2, <1>3, StreamsTyped, AppendProperties
  <2> SUFFICES ASSUME NEW i \in 1..Len(pushed'), pushed'[i].final
               PROVE  i = Len(pushed') /\ module' # "loading" /\ provider' = "closed"
    BY DEF LastIsLast
  <2>2. i \notin 1..Len(pushed)
    BY <1>4, <2>1
  <2>3. i = Len(pushed) + 1
    BY <1>1, <2>1, <2>2
  <2>4. final
    BY <1>6, <2>1, <2>3
  <2> QED BY <1>3, <2>1, <2>3, <2>4
<1>11. DoneInTurn'
  BY <1>3, <1>4, <1>7 DEF DoneInTurn
<1>12. ResultIsFinal'
  BY <1>3 DEF StreamInv, ResultIsFinal
<1> QED BY <1>8, <1>9, <1>10, <1>11, <1>12 DEF StreamInv

LEMMA ProviderQuitsKeeps == ASSUME StreamInv, ProviderQuits PROVE StreamInv'
<1>1. /\ module = "loaded" /\ provider = "open" /\ provider' = "closed"
      /\ inner' = End(inner, NoEvent)
      /\ UNCHANGED <<module, outer, forwarder, loop, finalMessage, pushed, seen>>
  BY DEF ProviderQuits
<1>2. ~inner.done /\ ~outer.done /\ \A i \in 1..Len(pushed) : ~pushed[i].final
  BY <1>1, ProviderIsOpen
<1>3. /\ inner' \in StreamOfEvents /\ Sane(inner)' /\ Undelivered(inner)' = Undelivered(inner)
      /\ inner'.done
  BY <1>1, StreamsTyped, Ended
<1>4. StreamTyped'
  BY <1>1, <1>3 DEF StreamInv, StreamTyped, StreamTypeOK, StreamOfEvents
<1>5. Flow' /\ ResultIsFinal'
  BY <1>1, <1>3 DEF StreamInv, Flow, ResultIsFinal
<1>6. LastIsLast' /\ DoneInTurn'
  BY <1>1, <1>2, <1>3 DEF LastIsLast, DoneInTurn
<1> QED BY <1>4, <1>5, <1>6 DEF StreamInv

\* forwardStream passes an event on: if it is the completing one, it is the last.
LEMMA ForwardsEvent ==
  ASSUME StreamInv, module = "loaded", HasEvent(inner), inner' = Taken(inner),
         outer' = Push(outer, NextEvent(inner), NextEvent(inner).final),
         UNCHANGED <<module, provider, forwarder, loop, finalMessage, pushed, seen>>
  PROVE  StreamInv'
<1> DEFINE e == NextEvent(inner)
           d == Undelivered(Taken(inner))
<1>1. /\ e \in StreamEvent /\ inner' \in StreamOfEvents /\ Sane(inner)' /\ inner'.done = inner.done
      /\ Undelivered(inner) = <<e>> \o d /\ Undelivered(inner)' = d
  BY StreamsTyped, TakenFirst
<1>2. d \in Seq(StreamEvent)
  BY <1>1, UndeliveredIs
<1>3. e.final \in BOOLEAN
  BY <1>1 DEF StreamEvent
<1>4. outer' = Push(outer, e, e.final)
  OBVIOUS
<1> HIDE DEF e, d
<1>5. Len(Undelivered(inner)) = Len(d) + 1 /\ Len(d) \in Nat
  BY <1>1, <1>2, FirstOf, LenProperties
<1>6. ~outer.done
  <2>1. Undelivered(inner) # <<>>
    BY <1>5
  <2> QED BY <2>1 DEF StreamInv, DoneInTurn
<1>7. /\ outer' \in StreamOfEvents /\ Sane(outer)' /\ Undelivered(outer)' = Append(Undelivered(outer), e)
      /\ outer'.done <=> e.final
      /\ e.final => outer'.result = e
  BY <1>1, <1>3, <1>4, <1>6, StreamsTyped, Pushed
<1>8. pushed = Row(seen, Undelivered(outer), Before(e, d))
  BY <1>1 DEF StreamInv, Flow, Before
<1>9. StreamTyped'
  BY <1>1, <1>7 DEF StreamInv, StreamTyped, StreamTypeOK, StreamOfEvents
<1>10. Flow'
  <2> DEFINE b == Undelivered(outer)
  <2>1. seen \in Seq(StreamEvent) /\ b \in Seq(StreamEvent)
    BY StreamsTyped
  <2> HIDE DEF b
  <2>2. Row(seen, b, Before(e, d)) = Row(seen, Append(b, e), d)
    BY <1>1, <1>2, <2>1, EventForwarded
  <2> QED BY <1>1, <1>7, <1>8, <2>2 DEF Flow, b
<1>11. LastIsLast'
  BY DEF StreamInv, LastIsLast
<1>12. e.final => d = <<>> /\ provider = "closed"
  <2> SUFFICES ASSUME e.final PROVE d = <<>> /\ provider = "closed"
    OBVIOUS
  <2> DEFINE k == Len(seen) + Len(Undelivered(outer)) + 1
  <2>1. Len(pushed) = k + Len(d) /\ pushed[k] = e
    <3>1. /\ Len(pushed) = Len(seen) + Len(Undelivered(outer)) + 1 + Len(d)
          /\ pushed[Len(seen) + Len(Undelivered(outer)) + 1] = e
      BY <1>1, <1>2, <1>8, StreamsTyped, PlaceInRow DEF Row, Before
    <3> QED BY <3>1
  <2>2. Len(seen) \in Nat /\ Len(Undelivered(outer)) \in Nat
    BY StreamsTyped, LenProperties
  <2>3. k \in 1..Len(pushed)
    BY <1>5, <2>1, <2>2
  <2>4. k = Len(pushed) /\ provider = "closed"
    BY <2>1, <2>3 DEF StreamInv, LastIsLast
  <2>5. Len(d) = 0
    BY <1>5, <2>1, <2>2, <2>4
  <2> QED BY <1>2, <2>4, <2>5, EmptySeq
<1>13. DoneInTurn'
  BY <1>1, <1>7, <1>12 DEF StreamInv, DoneInTurn
<1>14. ResultIsFinal'
  <2> SUFFICES ASSUME NEW i \in 1..Len(Undelivered(outer)'), Undelivered(outer)'[i].final
               PROVE  outer'.done /\ outer'.result = Undelivered(outer)'[i]
    BY DEF ResultIsFinal
  <2>1. /\ Len(Undelivered(outer)') = Len(Undelivered(outer)) + 1
        /\ Len(Undelivered(outer)) \in Nat
        /\ \A j \in 1..Len(Undelivered(outer)) : Undelivered(outer)'[j] = Undelivered(outer)[j]
        /\ Undelivered(outer)'[Len(Undelivered(outer)) + 1] = e
    BY <1>1, <1>7, StreamsTyped, AppendProperties, LenProperties
  <2>2. i \notin 1..Len(Undelivered(outer))
    BY <1>6, <2>1 DEF StreamInv, ResultIsFinal
  <2>3. i = Len(Undelivered(outer)) + 1
    BY <2>1, <2>2
  <2> QED BY <1>7, <2>1, <2>3
<1> QED BY <1>9, <1>10, <1>11, <1>13, <1>14 DEF StreamInv

LEMMA OuterEnds ==
  ASSUME StreamInv, module = "loaded", HasEnded(inner), outer' = End(outer, NoEvent),
         UNCHANGED <<module, provider, inner, loop, finalMessage, pushed, seen>>,
         forwarder' = "closed"
  PROVE  StreamInv'
<1>1. Undelivered(inner) = <<>> /\ inner.done
  BY StreamsTyped, NothingLeft
<1>2. /\ outer' \in StreamOfEvents /\ Sane(outer)' /\ Undelivered(outer)' = Undelivered(outer)
      /\ outer'.done /\ (outer.result # NoEvent => outer'.result = outer.result)
  BY StreamsTyped, Ended
<1>3. StreamTyped'
  BY <1>2 DEF StreamInv, StreamTyped, StreamTypeOK, StreamOfEvents
<1>4. Flow' /\ LastIsLast'
  BY <1>2 DEF StreamInv, Flow, LastIsLast
<1>5. DoneInTurn'
  BY <1>1, <1>2 DEF StreamInv, DoneInTurn
<1>6. ResultIsFinal'
  <2> SUFFICES ASSUME NEW i \in 1..Len(Undelivered(outer)), Undelivered(outer)[i].final
               PROVE  outer'.done /\ outer'.result = Undelivered(outer)[i]
    BY <1>2 DEF ResultIsFinal
  <2>1. outer.result = Undelivered(outer)[i]
    BY DEF StreamInv, ResultIsFinal
  <2>2. outer.result # NoEvent
    BY <2>1, StreamsTyped, ElementOfSeq, EventsAreReal
  <2> QED BY <1>2, <2>1, <2>2
<1> QED BY <1>3, <1>4, <1>5, <1>6 DEF StreamInv

LEMMA ForwardKeeps == ASSUME StreamInv, Forward PROVE StreamInv'
<1>1. CASE HasEvent(inner) /\ inner' = Taken(inner)
           /\ outer' = Push(outer, NextEvent(inner), NextEvent(inner).final) /\ UNCHANGED forwarder
  BY <1>1, ForwardsEvent DEF Forward
<1>2. CASE HasEnded(inner) /\ outer' = End(outer, NoEvent) /\ forwarder' = "closed"
           /\ UNCHANGED inner
  BY <1>2, OuterEnds DEF Forward
<1>3. CASE MustWait(inner) /\ inner' = Wait(inner) /\ UNCHANGED <<outer, forwarder>>
  <2>1. /\ inner' \in StreamOfEvents /\ Sane(inner)' /\ Undelivered(inner)' = Undelivered(inner)
        /\ inner'.done = inner.done
    BY <1>3, StreamsTyped, Waits
  <2>2. UNCHANGED <<module, provider, outer, forwarder, loop, finalMessage, pushed, seen>>
    BY <1>3 DEF Forward
  <2>3. StreamTyped'
    BY <2>1, <2>2 DEF StreamInv, StreamTyped, StreamTypeOK, StreamOfEvents
  <2> QED BY <2>1, <2>2, <2>3
          DEF StreamInv, Flow, LastIsLast, DoneInTurn, ResultIsFinal
<1> QED BY <1>1, <1>2, <1>3 DEF Forward

\* What the loop hears next, and what is left for it.
LEMMA LoopHears ==
  ASSUME StreamInv, HasEvent(outer), outer' = Taken(outer), seen' = Append(seen, NextEvent(outer)),
         UNCHANGED <<module, provider, inner, forwarder, pushed>>
  PROVE  /\ NextEvent(outer) \in StreamEvent
         /\ Len(seen) < Len(pushed) /\ pushed[Len(seen) + 1] = NextEvent(outer)
         /\ NextEvent(outer).final => outer.result = NextEvent(outer)
         /\ outer' \in StreamOfEvents /\ Sane(outer)' /\ outer'.done = outer.done
         /\ Flow' /\ LastIsLast' /\ DoneInTurn' /\ ResultIsFinal'
         /\ seen' \in Seq(StreamEvent)
<1> DEFINE e == NextEvent(outer)
           d == Undelivered(Taken(outer))
<1>1. /\ e \in StreamEvent /\ outer' \in StreamOfEvents /\ Sane(outer)' /\ outer'.done = outer.done
      /\ outer'.result = outer.result
      /\ Undelivered(outer) = <<e>> \o d /\ Undelivered(outer)' = d
  BY StreamsTyped, TakenFirst
<1>2. d \in Seq(StreamEvent)
  BY <1>1, UndeliveredIs
<1>3. seen' = Append(seen, e)
  OBVIOUS
<1> HIDE DEF e, d
<1>4. pushed = Row(Append(seen, e), d, Undelivered(inner))
  <2> DEFINE c == Undelivered(inner)
  <2>1. seen \in Seq(StreamEvent) /\ c \in Seq(StreamEvent)
    BY StreamsTyped
  <2>2. pushed = Row(seen, Before(e, d), c)
    BY <1>1 DEF StreamInv, Flow, Before
  <2> HIDE DEF c
  <2>3. Row(seen, Before(e, d), c) = Row(Append(seen, e), d, c)
    BY <1>1, <1>2, <2>1, EventHeard
  <2> QED BY <2>2, <2>3 DEF c
<1>5. Flow'
  BY <1>1, <1>3, <1>4 DEF Flow
<1>6. /\ Len(<<e>> \o d) = Len(d) + 1 /\ (<<e>> \o d)[1] = e
      /\ \A i \in 1..Len(d) : (<<e>> \o d)[i + 1] = d[i]
      /\ Len(d) \in Nat
  BY <1>1, <1>2, FirstOf, LenProperties
<1>7. Len(seen) < Len(pushed) /\ pushed[Len(seen) + 1] = e
  <2> DEFINE a == Append(seen, e)
             c == Undelivered(inner)
  <2>1. pushed = (a \o d) \o c /\ c \in Seq(StreamEvent)
    BY <1>4, StreamsTyped DEF Row
  <2>2. /\ Append(seen, e) \in Seq(StreamEvent) /\ Len(Append(seen, e)) = Len(seen) + 1
        /\ Append(seen, e)[Len(seen) + 1] = e
        /\ Len(seen) \in Nat
    BY <1>1, StreamsTyped, AppendProperties, LenProperties
  <2>3. a \in Seq(StreamEvent) /\ Len(a) = Len(seen) + 1 /\ a[Len(seen) + 1] = e
    BY <2>2
  <2> HIDE DEF a, c
  <2>4. Len(seen) + 1 \in 1..Len(a)
    BY <2>2, <2>3
  <2>5. Len((a \o d) \o c) >= Len(a) /\ ((a \o d) \o c)[Len(seen) + 1] = a[Len(seen) + 1]
    BY <1>2, <2>1, <2>3, <2>4, StartOfRow
  <2>6. Len(pushed) \in Nat
    BY StreamsTyped, LenProperties
  <2> QED BY <2>1, <2>2, <2>3, <2>5, <2>6
<1>8. e.final => outer.result = e
  BY <1>1, <1>6 DEF StreamInv, ResultIsFinal
<1>9. LastIsLast' /\ DoneInTurn'
  BY <1>1 DEF StreamInv, LastIsLast, DoneInTurn
<1>10. ResultIsFinal'
  <2> SUFFICES ASSUME NEW i \in 1..Len(d), d[i].final
               PROVE  outer.done /\ outer.result = d[i]
    BY <1>1 DEF ResultIsFinal
  <2>1. i + 1 \in 1..Len(Undelivered(outer)) /\ Undelivered(outer)[i + 1] = d[i]
    BY <1>1, <1>6
  <2> QED BY <2>1 DEF StreamInv, ResultIsFinal
<1>11. seen' \in Seq(StreamEvent)
  BY <1>1, <1>3, StreamsTyped, AppendProperties
<1> QED BY <1>1, <1>5, <1>7, <1>8, <1>9, <1>10, <1>11 DEF e

LEMMA LoopReadsKeeps == ASSUME StreamInv, LoopReads PROVE StreamInv'
<1>1. CASE HasEvent(outer) /\ outer' = Taken(outer) /\ seen' = Append(seen, NextEvent(outer))
  <2>1. /\ outer' \in StreamOfEvents /\ Sane(outer)' /\ seen' \in Seq(StreamEvent)
        /\ Flow' /\ LastIsLast' /\ DoneInTurn' /\ ResultIsFinal'
    BY <1>1, LoopHears DEF LoopReads
  <2>2. /\ finalMessage' \in StreamEvent \cup {NoEvent}
        /\ loop' \in {"reading", "awaiting", "returned", "threw"}
    <3>1. outer.result \in StreamEvent \cup {NoEvent} /\ finalMessage \in StreamEvent \cup {NoEvent}
      BY StreamsTyped DEF StreamTypeOK, StreamType
    <3> QED BY <3>1, StreamsTyped DEF LoopReads, StreamTypeOK
  <2>3. StreamTyped'
    BY <2>1, <2>2 DEF LoopReads, StreamInv, StreamTyped, StreamTypeOK, StreamOfEvents
  <2> QED BY <2>1, <2>3 DEF StreamInv
<1>2. CASE HasEnded(outer) /\ loop' = "awaiting" /\ UNCHANGED <<outer, seen, finalMessage>>
  BY <1>2 DEF LoopReads, StreamInv, StreamTyped, StreamTypeOK, Flow, LastIsLast, DoneInTurn,
     ResultIsFinal
<1>3. CASE MustWait(outer) /\ outer' = Wait(outer) /\ UNCHANGED <<loop, seen, finalMessage>>
  <2>1. /\ outer' \in StreamOfEvents /\ Sane(outer)' /\ Undelivered(outer)' = Undelivered(outer)
        /\ outer'.done = outer.done /\ outer'.result = outer.result
    BY <1>3, StreamsTyped, Waits
  <2>2. UNCHANGED <<module, provider, inner, forwarder, loop, finalMessage, pushed, seen>>
    BY <1>3 DEF LoopReads
  <2>3. StreamTyped'
    BY <2>1, <2>2 DEF StreamInv, StreamTyped, StreamTypeOK, StreamOfEvents
  <2> QED BY <2>1, <2>2, <2>3
          DEF StreamInv, Flow, LastIsLast, DoneInTurn, ResultIsFinal
<1> QED BY <1>1, <1>2, <1>3 DEF LoopReads

LEMMA StreamInvStep == StreamInv /\ [StreamNext]_streamVars => StreamInv'
<1> SUFFICES ASSUME StreamInv, [StreamNext]_streamVars PROVE StreamInv'
  OBVIOUS
<1>1. CASE ListenerThrows \/ UNCHANGED streamVars
  BY <1>1 DEF ListenerThrows, streamVars, StreamInv, StreamTyped, StreamTypeOK, Flow, LastIsLast,
     DoneInTurn, ResultIsFinal
<1> QED BY <1>1, ModuleLoadsKeeps, ModuleFailsKeeps, ProviderPushesKeeps, ProviderQuitsKeeps,
           ForwardKeeps, LoopReadsKeeps DEF StreamNext

-----------------------------------------------------------------------------
(* The refinement.                                                           *)

LEMMA FirstWordAllowed == StreamInv /\ module = "loading" => ~Channel!Finished(pushed)
BY DEF StreamInv, DoneInTurn, Channel!Finished

LEMMA StreamStepRefines ==
  ASSUME StreamInv, [StreamNext]_streamVars
  PROVE  [Channel!ChannelNext]_<<pushed, seen, finalMessage>>
<1>1. CASE ModuleLoads \/ ProviderQuits \/ Forward \/ ListenerThrows \/ UNCHANGED streamVars
  BY <1>1 DEF ModuleLoads, ProviderQuits, Forward, ListenerThrows, streamVars
<1>2. CASE ModuleFails
  <2> DEFINE e == [n |-> 1, final |-> TRUE]
  <2>1. e \in StreamEvent
    BY StreamAssumption DEF StreamEvent
  <2>2. pushed = <<>> /\ pushed' = <<e>> /\ UNCHANGED <<seen, finalMessage>>
    BY <1>2 DEF ModuleFails, StreamInv, DoneInTurn
  <2>3. pushed' = Append(pushed, e)
    BY <2>2
  <2>4. Channel!Say(e)
    BY <2>2, <2>3 DEF Channel!Say, Channel!Finished
  <2> QED BY <2>1, <2>4 DEF Channel!ChannelNext
<1>3. ASSUME NEW final \in BOOLEAN, ProviderPushes(final)
      PROVE  Channel!ChannelNext
  <2> DEFINE e == [n |-> Len(pushed) + 1, final |-> final]
  <2>1. e \in StreamEvent
    <3>1. Len(pushed) \in Nat
      BY StreamsTyped, LenProperties
    <3> QED BY <1>3, <3>1, StreamAssumption DEF StreamEvent, ProviderPushes
  <2>2. pushed' = Append(pushed, e) /\ UNCHANGED <<seen, finalMessage>>
    BY <1>3 DEF ProviderPushes
  <2>3. ~Channel!Finished(pushed)
    <3>1. \A i \in 1..Len(pushed) : ~pushed[i].final
      BY <1>3, ProviderIsOpen DEF ProviderPushes
    <3>2. pushed # <<>> => Len(pushed) \in 1..Len(pushed)
      BY StreamsTyped, EmptySeq
    <3> QED BY <3>1, <3>2 DEF Channel!Finished
  <2> HIDE DEF e
  <2>4. Channel!Say(e)
    BY <2>2, <2>3 DEF Channel!Say
  <2> QED BY <2>1, <2>4 DEF Channel!ChannelNext
<1>4. CASE LoopReads
  <2>1. CASE HasEvent(outer) /\ outer' = Taken(outer) /\ seen' = Append(seen, NextEvent(outer))
    <3>1. /\ Len(seen) < Len(pushed) /\ pushed[Len(seen) + 1] = NextEvent(outer)
          /\ NextEvent(outer).final => outer.result = NextEvent(outer)
      BY <1>4, <2>1, LoopHears DEF LoopReads
    <3>2. /\ finalMessage' = IF NextEvent(outer).final THEN outer.result ELSE finalMessage
          /\ UNCHANGED pushed
      BY <1>4, <2>1, EventOrWait DEF LoopReads
    <3>3. Channel!Hear
      BY <2>1, <3>1, <3>2 DEF Channel!Hear
    <3> QED BY <3>3 DEF Channel!ChannelNext
  <2>2. CASE UNCHANGED <<seen, finalMessage>>
    BY <1>4, <2>2 DEF LoopReads
  <2> QED BY <1>4, <2>1, <2>2 DEF LoopReads
<1> QED BY <1>1, <1>2, <1>3, <1>4 DEF StreamNext

\* Every variable of the two streams and of their three tasks keeps its type.
THEOREM StreamTypes == StreamSpec => []StreamTypeOK
<1>1. StreamInv => StreamTypeOK
  BY DEF StreamInv, StreamTyped
<1> QED BY <1>1, StreamInvInit, StreamInvStep, PTL DEF StreamSpec

\* For an answer of any length, and in whatever order the tasks run, the loop hears
\* each event once and in the order they were pushed, and its final message is the
\* completing event (EventStream, forwardStream, streamAssistantResponse).
THEOREM ChannelImplemented == StreamSpec => ImplementsChannel
<1>1. StreamInit => Channel!ChannelInit
  BY DEF StreamInit, Channel!ChannelInit
<1>2. StreamInv /\ [StreamNext]_streamVars
        => [Channel!ChannelNext]_<<pushed, seen, finalMessage>>
  BY StreamStepRefines
<1>3. StreamSpec => Channel!ChannelSpec
  BY <1>1, <1>2, StreamInvInit, StreamInvStep, PTL DEF StreamSpec, Channel!ChannelSpec
<1> QED BY <1>3 DEF ImplementsChannel

-----------------------------------------------------------------------------
(* Progress: the completing event reaches the loop.                           *)

\* The provider has pushed its completing event.
LastWordSaid == pushed # <<>> /\ pushed[Len(pushed)].final

\* Until the loop has heard it, one of the two readers has an event to take.
LastWordOnItsWay ==
  LastWordSaid /\ loop = "reading" =>
    HasEvent(outer) \/ (module = "loaded" /\ forwarder = "forwarding" /\ HasEvent(inner))

\* How often an event still has to move before the loop has heard all of them.
Hops == 2 * Len(Undelivered(inner)) + Len(Undelivered(outer))

\* After the last word no task puts it further away, and each event forwarded or read brings
\* it closer.
LastWordComesCloser ==
  [][LastWordSaid =>
       /\ Hops' <= Hops
       /\ (Forward /\ HasEvent(inner)) \/ (LoopReads /\ HasEvent(outer)) => Hops' < Hops]_streamVars

\* A loop that reads has not heard the completing event.
ReadsOn == loop = "reading" => \A i \in 1..Len(seen) : ~seen[i].final

\* The forwarder stops when it has ended the outer stream; it has nothing to do before the
\* module is there.
ForwarderInTurn ==
  /\ forwarder = "closed" => module = "loaded" /\ outer.done
  /\ module # "loaded" => Undelivered(inner) = <<>>

StreamAlive == ReadsOn /\ ForwarderInTurn

LEMMA UndeliveredIsHeld ==
  ASSUME NEW s \in StreamOfEvents, Sane(s), Undelivered(s) # <<>>
  PROVE  HasEvent(s)
<1>1. s.woken \in StreamEvent \cup {NoEvent, EndOfStream}
  BY DEF StreamOfEvents, StreamType
<1>2. s.woken \in {NoEvent, EndOfStream} => s.queue # <<>>
  BY UndeliveredIs
<1>3. s.woken # EndOfStream /\ ~s.waiting
  BY <1>1, <1>2, EventsAreReal DEF Sane
<1> QED BY <1>1, <1>2, <1>3 DEF HasEvent

LEMMA StreamAliveInit == StreamInit => StreamAlive
<1> SUFFICES ASSUME StreamInit PROVE StreamAlive
  OBVIOUS
<1>1. 1..0 = {} /\ Len(<<>>) = 0
  OBVIOUS
<1> QED BY <1>1, NewStreamSane DEF StreamInit, StreamAlive, ReadsOn, ForwarderInTurn

LEMMA ReadsOnStep ==
  ASSUME StreamInv, ReadsOn, [StreamNext]_streamVars
  PROVE  ReadsOn'
<1>1. CASE seen' = seen /\ (loop' = "reading" => loop = "reading")
  BY <1>1 DEF ReadsOn
<1>2. CASE LoopReads
  <2>1. CASE HasEvent(outer) /\ outer' = Taken(outer) /\ seen' = Append(seen, NextEvent(outer))
    <3>1. /\ NextEvent(outer) \in StreamEvent /\ seen \in Seq(StreamEvent)
      BY <1>2, <2>1, LoopHears, StreamsTyped DEF LoopReads
    <3>2. /\ Len(seen') = Len(seen) + 1 /\ Len(seen) \in Nat
          /\ \A i \in 1..Len(seen) : seen'[i] = seen[i]
          /\ seen'[Len(seen) + 1] = NextEvent(outer)
      BY <2>1, <3>1, AppendProperties, LenProperties
    <3>3. loop = "reading" /\ (loop' = "reading" => ~NextEvent(outer).final)
      BY <1>2, <2>1, EventOrWait DEF LoopReads
    <3> SUFFICES ASSUME loop' = "reading", NEW i \in 1..Len(seen') PROVE ~seen'[i].final
      BY DEF ReadsOn
    <3>4. i \in 1..Len(seen) \/ i = Len(seen) + 1
      BY <3>2
    <3> QED BY <3>2, <3>3, <3>4 DEF ReadsOn
  <2> QED BY <1>1, <1>2, <2>1 DEF LoopReads
<1>3. CASE \/ ModuleLoads \/ ModuleFails \/ (\E final \in BOOLEAN : ProviderPushes(final))
           \/ ProviderQuits \/ Forward \/ ListenerThrows \/ UNCHANGED streamVars
  BY <1>1, <1>3 DEF ModuleLoads, ModuleFails, ProviderPushes, ProviderQuits, Forward,
                    ListenerThrows, streamVars
<1> QED BY <1>2, <1>3 DEF StreamNext

LEMMA ForwarderStep ==
  ASSUME StreamInv, StreamInv', ForwarderInTurn, [StreamNext]_streamVars
  PROVE  ForwarderInTurn'
<1>1. CASE ModuleLoads \/ ListenerThrows \/ UNCHANGED streamVars
  BY <1>1 DEF ModuleLoads, ListenerThrows, streamVars, ForwarderInTurn
<1>2. CASE ModuleFails
  BY <1>2 DEF ModuleFails, ForwarderInTurn
<1>3. CASE (\E final \in BOOLEAN : ProviderPushes(final)) \/ ProviderQuits
  BY <1>3 DEF ProviderPushes, ProviderQuits, ForwarderInTurn
<1>4. CASE Forward
  <2>1. CASE HasEvent(inner) /\ inner' = Taken(inner) /\ UNCHANGED <<module, forwarder>>
    <3>1. ~(forwarder = "closed") /\ module = "loaded"
      BY <1>4 DEF Forward
    <3> QED BY <2>1, <3>1 DEF ForwarderInTurn
  <2>2. CASE outer' = End(outer, NoEvent) /\ forwarder' = "closed"
    <3>1. outer'.done
      BY <2>2, StreamsTyped, Ended
    <3> QED BY <1>4, <2>2, <3>1 DEF ForwarderInTurn, Forward
  <2>3. CASE MustWait(inner) /\ UNCHANGED <<module, forwarder>>
    BY <1>4, <2>3 DEF ForwarderInTurn, Forward
  <2> QED BY <1>4, <2>1, <2>2, <2>3 DEF Forward
<1>5. CASE LoopReads
  <2>1. outer'.done = outer.done
    BY <1>5, StreamsTyped, TakenFirst, Waits DEF LoopReads
  <2> QED BY <1>5, <2>1 DEF LoopReads, ForwarderInTurn
<1> QED BY <1>1, <1>2, <1>3, <1>4, <1>5 DEF StreamNext

LEMMA LastWordIsSomewhere ==
  ASSUME StreamInv, StreamAlive
  PROVE  LastWordOnItsWay
<1> SUFFICES ASSUME LastWordSaid, loop = "reading",
                    ~HasEvent(outer)
             PROVE  module = "loaded" /\ forwarder = "forwarding" /\ HasEvent(inner)
  BY DEF LastWordOnItsWay
<1>1. Undelivered(outer) = <<>>
  BY StreamsTyped, UndeliveredIsHeld
<1>2. Undelivered(inner) # <<>>
  <2> SUFFICES ASSUME Undelivered(inner) = <<>> PROVE FALSE
    OBVIOUS
  <2>1. pushed = seen
    BY <1>1, StreamsTyped, ConcatEmptySeq DEF StreamInv, Flow, Row
  <2>2. Len(pushed) \in 1..Len(pushed)
    BY StreamsTyped, EmptySeq, LenProperties DEF LastWordSaid
  <2> QED BY <2>1, <2>2 DEF StreamAlive, ReadsOn, LastWordSaid
<1>3. HasEvent(inner)
  BY <1>2, StreamsTyped, UndeliveredIsHeld
<1>4. module = "loaded" /\ ~outer.done
  BY <1>2 DEF StreamInv, DoneInTurn, StreamAlive, ForwarderInTurn
<1>5. forwarder = "forwarding"
  BY <1>4, StreamsTyped DEF StreamAlive, ForwarderInTurn, StreamTypeOK
<1> QED BY <1>3, <1>4, <1>5

\* The loop never waits on streams that hold nothing for it while the provider has finished:
\* no event is lost between push and next() (EventStream), and forwardStream goes on reading.
THEOREM LastWordAlwaysOnItsWay == StreamSpec => []LastWordOnItsWay
<1>1. StreamInv /\ StreamInv' /\ StreamAlive /\ [StreamNext]_streamVars => StreamAlive'
  BY ReadsOnStep, ForwarderStep DEF StreamAlive
<1>2. StreamInv /\ StreamAlive => LastWordOnItsWay
  BY LastWordIsSomewhere
<1> QED
  BY <1>1, <1>2, StreamInvInit, StreamInvStep, StreamAliveInit, PTL DEF StreamSpec

LEMMA CloserToTheLoop ==
  ASSUME StreamInv, [StreamNext]_streamVars, LastWordSaid
  PROVE  /\ Hops' <= Hops
         /\ (Forward /\ HasEvent(inner)) \/ (LoopReads /\ HasEvent(outer)) => Hops' < Hops
<1> DEFINE i == Len(Undelivered(inner))
           o == Len(Undelivered(outer))
<1>1. i \in Nat /\ o \in Nat
  BY StreamsTyped, LenProperties
<1>2. module # "loading" /\ (module = "loaded" => provider = "closed")
  <2>1. Len(pushed) \in 1..Len(pushed)
    BY StreamsTyped, EmptySeq, LenProperties DEF LastWordSaid
  <2> QED BY <2>1 DEF StreamInv, LastIsLast, LastWordSaid
<1>3. ~ModuleLoads /\ ~ModuleFails /\ (\A final \in BOOLEAN : ~ProviderPushes(final)) /\ ~ProviderQuits
  BY <1>2 DEF ModuleLoads, ModuleFails, ProviderPushes, ProviderQuits
<1> DEFINE same == Undelivered(inner)' = Undelivered(inner) /\ Undelivered(outer)' = Undelivered(outer)
<1>4. ASSUME Forward
      PROVE  \/ i' = i - 1 /\ o' = o + 1
             \/ ~HasEvent(inner) /\ same
  <2>1. CASE HasEvent(inner) /\ inner' = Taken(inner)
             /\ outer' = Push(outer, NextEvent(inner), NextEvent(inner).final)
    <3> DEFINE e == NextEvent(inner)
               d == Undelivered(Taken(inner))
    <3>1. e \in StreamEvent /\ Undelivered(inner) = <<e>> \o d /\ Undelivered(inner)' = d
      BY <2>1, StreamsTyped, TakenFirst
    <3>2. d \in Seq(StreamEvent)
      <4>1. Taken(inner) \in StreamOfEvents
        BY <2>1, StreamsTyped, TakenFirst
      <4> QED BY <4>1, UndeliveredIs
    <3>3. e.final \in BOOLEAN /\ outer' = Push(outer, e, e.final)
      BY <2>1, <3>1 DEF StreamEvent
    <3> HIDE DEF e, d
    <3>4. i = Len(d) + 1 /\ Len(d) \in Nat
      BY <3>1, <3>2, FirstOf, LenProperties
    <3>5. ~outer.done
      <4>1. Undelivered(inner) # <<>>
        BY <3>4
      <4> QED BY <1>4, <4>1 DEF StreamInv, DoneInTurn, Forward
    <3>6. Undelivered(outer)' = Append(Undelivered(outer), e)
      BY <3>1, <3>3, <3>5, StreamsTyped, Pushed
    <3>7. o' = o + 1
      BY <3>1, <3>6, StreamsTyped, AppendProperties
    <3> QED BY <3>1, <3>4, <3>7
  <2>2. CASE HasEnded(inner) /\ outer' = End(outer, NoEvent) /\ UNCHANGED inner
    <3>1. Undelivered(outer)' = Undelivered(outer)
      BY <2>2, StreamsTyped, Ended
    <3> QED BY <2>2, <3>1, EventOrWait
  <2>3. CASE MustWait(inner) /\ inner' = Wait(inner) /\ UNCHANGED outer
    <3>1. Undelivered(inner)' = Undelivered(inner)
      BY <2>3, StreamsTyped, Waits
    <3> QED BY <2>3, <3>1, EventOrWait
  <2> QED BY <1>4, <2>1, <2>2, <2>3 DEF Forward
<1>5. ASSUME LoopReads
      PROVE  \/ i' = i /\ o' = o - 1
             \/ ~HasEvent(outer) /\ same
  <2>0. Undelivered(inner)' = Undelivered(inner)
    BY <1>5 DEF LoopReads
  <2>1. CASE HasEvent(outer) /\ outer' = Taken(outer)
    <3> DEFINE e == NextEvent(outer)
               d == Undelivered(Taken(outer))
    <3>1. e \in StreamEvent /\ Undelivered(outer) = <<e>> \o d /\ Undelivered(outer)' = d
      BY <2>1, StreamsTyped, TakenFirst
    <3>2. d \in Seq(StreamEvent)
      <4>1. Taken(outer) \in StreamOfEvents
        BY <2>1, StreamsTyped, TakenFirst
      <4> QED BY <4>1, UndeliveredIs
    <3> HIDE DEF e, d
    <3>3. o = Len(d) + 1 /\ Len(d) \in Nat
      BY <3>1, <3>2, FirstOf, LenProperties
    <3> QED BY <2>0, <3>1, <3>3
  <2>2. CASE HasEnded(outer) /\ UNCHANGED outer
    BY <2>0, <2>2, EventOrWait
  <2>3. CASE MustWait(outer) /\ outer' = Wait(outer)
    <3>1. Undelivered(outer)' = Undelivered(outer)
      BY <2>3, StreamsTyped, Waits
    <3> QED BY <2>0, <2>3, <3>1, EventOrWait
  <2> QED BY <1>5, <2>1, <2>2, <2>3 DEF LoopReads
<1>6. ASSUME ListenerThrows \/ UNCHANGED streamVars PROVE same
  BY <1>6 DEF ListenerThrows, streamVars
<1>7. Hops = 2 * i + o /\ Hops' = 2 * i' + o'
  BY DEF Hops
<1>8. same => i' = i /\ o' = o
  OBVIOUS
<1> HIDE DEF i, o, same
<1>9. Forward \/ LoopReads \/ same
  BY <1>3, <1>6 DEF StreamNext
<1>10. Hops' <= Hops
  BY <1>1, <1>4, <1>5, <1>7, <1>8, <1>9
<1>11. (Forward /\ HasEvent(inner)) \/ (LoopReads /\ HasEvent(outer)) => Hops' < Hops
  BY <1>1, <1>4, <1>5, <1>7, <1>8
<1> QED BY <1>10, <1>11

\* Once the provider has finished, the loop is a bounded number of moves from its last word,
\* and no task undoes one.
THEOREM LastWordAlwaysComesCloser == StreamSpec => LastWordComesCloser
<1>1. StreamInv /\ [StreamNext]_streamVars
      => [LastWordSaid =>
            /\ Hops' <= Hops
            /\ (Forward /\ HasEvent(inner)) \/ (LoopReads /\ HasEvent(outer)) => Hops' < Hops]_streamVars
  BY CloserToTheLoop
<1> QED BY <1>1, StreamInvInit, StreamInvStep, PTL DEF StreamSpec, LastWordComesCloser

-----------------------------------------------------------------------------
(***************************************************************************)
(* The composition.  While one part takes a step nothing of the others changes, *)
(* so MCServices implements the specification of every part, with the fairness   *)
(* of that part when it is the one under way, and what is proved of a part is    *)
(* proved of the composition whose runs check it.                                *)
(***************************************************************************)

\* One step of the composition is a step or a stutter of each part.
LEMMA ServicesStep ==
  ASSUME [ServicesNext]_servicesVars
  PROVE  /\ [StreamNext]_streamVars /\ [MutationNext]_mutationVars
         /\ [SessionFileNext]_sessionFileVars /\ [AuthNext]_authVars
         /\ [SettingsNext]_settingsVars /\ [CompactionNext]_compactionVars
         /\ [MomNext]_momVars /\ [RuntimeNext]_allRuntimeVars /\ [SlackNext]_channelVars
<1>1. CASE ServicesNext
  BY <1>1 DEF ServicesNext
<1>2. CASE UNCHANGED servicesVars
  BY <1>2 DEF servicesVars
<1> QED BY <1>1, <1>2

\* The nine components side by side implement each of them.
THEOREM PartsImplemented ==
  ServicesSpec => /\ StreamSpec /\ MutationSpec /\ SessionFileSpec /\ AuthSpec /\ SettingsSpec
                  /\ CompactionSpec /\ MomSpec /\ RuntimeSpec /\ SlackSpec
<1>1. ServicesInit => /\ StreamInit /\ MutationInit /\ SessionFileInit /\ AuthInit /\ SettingsInit
                      /\ CompactionInit /\ MomInit /\ RuntimeInit /\ SlackInit
  BY DEF ServicesInit
<1> QED BY <1>1, ServicesStep, PTL DEF ServicesSpec, StreamSpec, MutationSpec, SessionFileSpec,
          AuthSpec, SettingsSpec, CompactionSpec, MomSpec, RuntimeSpec, SlackSpec

\* Every variable of the part under way keeps its type.
THEOREM ServicesTypes == ServicesSpec => []ServicesTypeOK
<1> DEFINE Parts == {"stream", "mutation", "session", "auth", "settings", "compaction", "mom",
                     "runtime", "channel"}
<1>1. ServicesInit => part \in Parts
  BY DEF ServicesInit
<1>2. part \in Parts /\ [ServicesNext]_servicesVars => (part \in Parts)'
  BY DEF ServicesNext, servicesVars
<1>3. /\ part \in Parts
      /\ StreamTypeOK /\ MutationTypeOK /\ SessionFileTypeOK /\ AuthTypeOK /\ SettingsTypeOK
      /\ CompactionTypeOK /\ MomTypeOK /\ RuntimeTypeInv /\ ChannelTypeOK
      => ServicesTypeOK
  BY DEF ServicesTypeOK, RuntimeTypeInv
<1> QED BY <1>1, <1>2, <1>3, PartsImplemented, StreamTypes, MutationTypes, SessionFileTypes,
           AuthTypesHold, SettingsTypes, CompactionTypes, MomTypes, RuntimeTypes, ChannelTypes,
           PTL DEF ServicesSpec

\* What each of the nine components promises holds of the composition: one after the other what
\* the mutation queue, the credentials, the settings, compaction, the session runtime, mom's
\* channel, mom's events, the event stream and the session file are proved to keep.
THEOREM ServicesKeepPromises ==
  ServicesSpec => /\ [](MutationsQueued /\ EditsCompose) /\ []LoginsKept /\ []SettingsKept
                  /\ []CutIsSound /\ [](ClientHearsCurrent /\ OldSessionsGone /\ PromptHeard)
                  /\ [](RunsKeptApart /\ EverythingSaidIsSeenOnce) /\ []ScheduleMatchesFile
                  /\ ImplementsChannel /\ SessionFileKept
BY PartsImplemented, MutationsAreQueued, EditsAlwaysCompose, LoginsAreKept, SettingsAreKept,
   CutsAreSound, RuntimeClientHearsCurrent, OldSessionsAreGone, PromptsAreHeard,
   RunsAreKeptApart, EverythingIsSeenOnce, ScheduleAlwaysMatches, ChannelImplemented,
   SessionFileIsKept, PTL

\* And none of them gets stuck: the calls of the mutation queue go on and come closer to their
\* end, the last word of an answer is on its way, mom's events are taken up and its reads and
\* timers wind down, and the runs of its channel are attended and come to an end.
THEOREM ServicesGoOn ==
  ServicesSpec => /\ []NobodyWaitsForEver /\ CallsComeCloser
                  /\ []LastWordOnItsWay /\ LastWordComesCloser
                  /\ []QuietIsTakenUp /\ MomWindsDown
                  /\ []NothingWaitsUnattended /\ RunsWindDown
BY PartsImplemented, NobodyAlwaysWaits, CallsAlwaysComeCloser, LastWordAlwaysOnItsWay,
   LastWordAlwaysComesCloser, QuietIsAlwaysTakenUp, MomAlwaysWindsDown, NothingIsLeftWaiting,
   RunsAlwaysWindDown, PTL
=============================================================================
