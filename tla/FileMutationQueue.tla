-------------------------- MODULE FileMutationQueue --------------------------
(***************************************************************************)
(* withFileMutationQueue (packages/coding-agent/src/core/tools/               *)
(* file-mutation-queue.ts) and the calls of the edit and write tools that      *)
(* wait in it, all for one file.                                               *)
(*                                                                           *)
(* The file can be reached by its real path or through a symbolic link.  What  *)
(* it holds is the sequence of calls whose work is in it: a write starts it     *)
(* over, an edit adds to what it has read.  An abort rejects a call at once;     *)
(* the body of the call then runs on to its next check.                          *)
(***************************************************************************)
EXTENDS Integers, Sequences, FiniteSets

CONSTANT MaxMutations \* bound: calls of the two tools
ASSUME MutationAssumption == MaxMutations \in Nat

Mutations == 1..MaxMutations
NoCall == 0
Absent == <<0>>       \* there is no such file
Paths == {"real", "link"}

VARIABLES
  mutation,   \* of each call: its tool, its key and the call it queued behind
  promise,    \* of each call: "none", "waiting", "inside" (fn runs), "resolved", "rejected"
  body,       \* of each call: the step its fn awaits
  signalled,  \* calls whose signal is aborted
  fileMutationQueues, \* by key: the call whose chainedQueue is the last one
  content,    \* what the file holds
  text,       \* of each edit: what it read
  \* history, not part of the code
  expected,   \* what it held had the calls worked one after the other
  escaped     \* a call worked beside an aborted one's write, or under another key
mutationVars == <<mutation, promise, body, signalled, fileMutationQueues, content, text,
                  expected, escaped>>

Steps == {"none", "prepare", "read", "open", "fill", "over"}

MutationTypeOK ==
  /\ mutation \in [Mutations -> [tool : {"edit", "write"}, key : Paths,
                                 behind : Mutations \cup {NoCall}]]
  /\ promise \in [Mutations -> {"none", "waiting", "inside", "resolved", "rejected"}]
  /\ body \in [Mutations -> Steps]
  /\ signalled \subseteq Mutations
  /\ fileMutationQueues \in [Paths -> Mutations \cup {NoCall}]
  /\ content \in Seq(Mutations) \cup {Absent}
  /\ text \in [Mutations -> Seq(Mutations)]
  /\ expected \in Seq(Mutations) \cup {Absent}
  /\ escaped \in BOOLEAN

MutationInit ==
  /\ mutation = [c \in Mutations |-> [tool |-> "write", key |-> "real", behind |-> NoCall]]
  /\ promise = [c \in Mutations |-> "none"] /\ body = [c \in Mutations |-> "none"]
  /\ signalled = {}
  /\ fileMutationQueues = [k \in Paths |-> NoCall]
  /\ content = Absent /\ text = [c \in Mutations |-> <<>>]
  /\ expected = Absent /\ escaped = FALSE

-----------------------------------------------------------------------------
Settled(c) == promise[c] \in {"resolved", "rejected"}
Live(c) == promise[c] \in {"waiting", "inside"}
Writing(c) == body[c] \in {"open", "fill"}

\* getMutationQueueKey: realpath of a file that exists, else the path as given.
KeyOf(path) == IF content = Absent THEN path ELSE "real"

\* Mutant: the next call does not wait for the one inside.
MayEnterEarly(c) == mutation[c].behind # NoCall => promise[mutation[c].behind] # "waiting"

\* await currentQueue.
MayEnter(c) == mutation[c].behind # NoCall => Settled(mutation[c].behind)

\* Mutant: the entry is deleted although others have queued behind the call.
ForgetAlways(queues, calls) ==
  [k \in Paths |-> IF \E c \in calls : mutation[c].key = k THEN NoCall ELSE queues[k]]

\* The end of finally: a call nobody queued behind takes the queue out of the map.
Forgotten(queues, calls) ==
  [k \in Paths |-> IF queues[k] \in calls THEN NoCall ELSE queues[k]]

\* Mutant: a failing call does not release the next one.
SettleOnSuccess(c, outcome) ==
  IF outcome = "resolved"
  THEN /\ promise' = [promise EXCEPT ![c] = IF @ = "inside" THEN outcome ELSE @]
       /\ fileMutationQueues' = Forgotten(fileMutationQueues, {c})
  ELSE UNCHANGED <<promise, fileMutationQueues>>

\* fn resolves or rejects, unless it was rejected before; finally releases the queue.
Settle(c, outcome) ==
  IF promise[c] = "inside"
  THEN /\ promise' = [promise EXCEPT ![c] = outcome]
       /\ fileMutationQueues' = Forgotten(fileMutationQueues, {c})
  ELSE UNCHANGED <<promise, fileMutationQueues>>

\* A tool is called: everything before `await currentQueue`.
Mutate(c, tool, path) ==
  LET k == KeyOf(path) IN
  /\ promise[c] = "none" /\ \A d \in 1..(c - 1) : promise[d] # "none"
  /\ mutation' = [mutation EXCEPT ![c] = [tool |-> tool, key |-> k,
                                          behind |-> fileMutationQueues[k]]]
  /\ promise' = [promise EXCEPT ![c] = "waiting"]
  /\ fileMutationQueues' = [fileMutationQueues EXCEPT ![k] = c]
  /\ UNCHANGED <<body, signalled, content, text, expected, escaped>>

\* Its turn has come: fn starts, unless the signal is aborted already.
Enter(c) ==
  /\ promise[c] = "waiting" /\ MayEnter(c)
  /\ IF c \in signalled
     THEN /\ promise' = [promise EXCEPT ![c] = "rejected"]
          /\ fileMutationQueues' = Forgotten(fileMutationQueues, {c})
          /\ UNCHANGED <<body, escaped>>
     ELSE /\ promise' = [promise EXCEPT ![c] = "inside"]
          /\ body' = [body EXCEPT ![c] = "prepare"]
          /\ escaped' = (escaped \/ \E d \in Mutations \ {c} :
                            \/ Settled(d) /\ Writing(d)
                            \/ promise[d] = "inside" /\ mutation[d].key # mutation[c].key)
          /\ UNCHANGED fileMutationQueues
  /\ UNCHANGED <<mutation, signalled, content, text, expected>>

\* The user aborts the run of every call made so far.
AbortMutations ==
  LET begun == {c \in Mutations : promise[c] # "none"}
      inside == {c \in Mutations : promise[c] = "inside"}
  IN /\ \E c \in begun : Live(c)
     /\ signalled' = begun
     /\ promise' = [c \in Mutations |-> IF c \in inside THEN "rejected" ELSE promise[c]]
     /\ fileMutationQueues' = Forgotten(fileMutationQueues, inside)
     /\ UNCHANGED <<mutation, body, content, text, expected, escaped>>

-----------------------------------------------------------------------------
(* The bodies.                                                               *)

GoesOn(c, next) == body' = [body EXCEPT ![c] = next]

\* Mutant: nothing checks `aborted`.
NeverStops(c) == FALSE

\* if (aborted) return.
Stops(c) == promise[c] # "inside"

\* mkdir, or access: an edit of a file that does not exist is rejected.
Prepares(c) ==
  /\ body[c] = "prepare"
  /\ IF mutation[c].tool = "edit" /\ content = Absent
     THEN Settle(c, "rejected") /\ GoesOn(c, "over")
     ELSE /\ GoesOn(c, IF Stops(c) THEN "over"
                       ELSE IF mutation[c].tool = "edit" THEN "read" ELSE "open")
          /\ UNCHANGED <<promise, fileMutationQueues>>
  /\ UNCHANGED <<mutation, signalled, content, text, expected, escaped>>

\* readFile: the edit applies if what it replaces is in the text.
Reads(c, found) ==
  /\ body[c] = "read"
  /\ found => content # <<>>
  /\ text' = [text EXCEPT ![c] = content]
  /\ IF found /\ ~Stops(c)
     THEN GoesOn(c, "open") /\ UNCHANGED <<promise, fileMutationQueues>>
     ELSE GoesOn(c, "over") /\ Settle(c, "rejected")
  /\ UNCHANGED <<mutation, signalled, content, expected, escaped>>

\* writeFile, which truncates and then fills the file; it may fail before either.
Opens(c) ==
  /\ body[c] = "open"
  /\ content' = <<>>
  /\ GoesOn(c, "fill")
  /\ UNCHANGED <<mutation, promise, signalled, fileMutationQueues, text, expected, escaped>>

Fills(c) ==
  LET added(before) == IF mutation[c].tool = "edit" THEN Append(before, c) ELSE <<c>> IN
  /\ body[c] = "fill"
  /\ content' = added(text[c])
  /\ expected' = added(IF expected = Absent THEN <<>> ELSE expected)
  /\ GoesOn(c, "over")
  /\ Settle(c, "resolved")
  /\ UNCHANGED <<mutation, signalled, text, escaped>>

WriteFails(c) ==
  /\ Writing(c)
  /\ expected' = IF body[c] = "fill" THEN <<>> ELSE expected
  /\ GoesOn(c, "over")
  /\ Settle(c, "rejected")
  /\ UNCHANGED <<mutation, signalled, content, text, escaped>>

BodyStep(c) ==
  \/ Prepares(c)
  \/ \E found \in BOOLEAN : Reads(c, found)
  \/ Opens(c) \/ Fills(c) \/ WriteFails(c)

MutationNext ==
  \/ \E c \in Mutations, tool \in {"edit", "write"}, path \in Paths : Mutate(c, tool, path)
  \/ \E c \in Mutations : Enter(c) \/ BodyStep(c)
  \/ AbortMutations

MutationSpec == MutationInit /\ [][MutationNext]_mutationVars

\* Promises that are resolved run, and file operations end.
MutationFairness ==
  \A c \in Mutations : WF_mutationVars(Enter(c) \/ BodyStep(c))

-----------------------------------------------------------------------------
\* "Serialize file mutation operations targeting the same file"
\* (file-mutation-queue.ts:17): under one key one call at a time is inside.
OneInside ==
  \A c, d \in Mutations :
    promise[c] = "inside" /\ promise[d] = "inside" /\ mutation[c].key = mutation[d].key => c = d

\* The map has an entry for a key as long as a call under that key is unsettled,
\* so that the next one queues behind it, and no longer.
QueuesForgotten ==
  \A k \in Paths :
    (fileMutationQueues[k] # NoCall) <=> \E c \in Mutations : Live(c) /\ mutation[c].key = k

\* A queue holds back whoever has to wait, and nobody else.
MutationsQueued == OneInside /\ QueuesForgotten

\* No edit is lost: the file holds what the calls would have made of it one after
\* the other, unless a call worked beside an aborted one that still wrote, or under
\* another name of the file.
EditsCompose == (\A c \in Mutations : ~Writing(c)) /\ ~escaped => content = expected

\* "Serialize file mutation operations targeting the same file"
\* (file-mutation-queue.ts:17), of the file rather than of the key: checked by no
\* run, because an aborted call gives up its turn before its write has ended, and a
\* link to a file that does not exist yet has a queue of its own.
EachFileSerialized == (\A c \in Mutations : ~Writing(c)) => content = expected

\* Every call ends, whatever fails or is aborted before it.  (A call is made once, so
\* that none is live again and again means that each one made is settled at last.)
EveryMutationReturns == []<>(\A c \in Mutations : ~Live(c))
=============================================================================
