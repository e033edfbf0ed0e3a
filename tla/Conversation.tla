---------------------------- MODULE Conversation ----------------------------
(***************************************************************************)
(* What a provider demands of a transcript, and what AgentLoop promises:    *)
(* speakers take turns, and once the assistant has called tools nobody says *)
(* anything until every call is answered, in the order of the calls.  Only  *)
(* the failure of the run may cut the answers short, and it says so.        *)
(***************************************************************************)
EXTENDS Naturals, Sequences

CONSTANTS UserMessages,
          Batches        \* tool-call lists an assistant message may carry

VARIABLES log,  \* the transcript
          owed, \* <<turn, position>> of the tool calls still unanswered
          said  \* serial number of the last assistant message
vars == <<log, owed, said>>

Init == log = <<>> /\ owed = <<>> /\ said = 0

UserSays(m) ==
  /\ owed = <<>>
  /\ log' = Append(log, [role |-> "user", id |-> m])
  /\ UNCHANGED <<owed, said>>

AssistantSays(calls, stop) ==
  /\ owed = <<>>
  /\ said' = said + 1
  /\ log' = Append(log, [role |-> "assistant", turn |-> said + 1, calls |-> calls, stop |-> stop])
  /\ owed' = [i \in 1..(IF stop = "done" THEN Len(calls) ELSE 0) |-> <<said + 1, i>>]

ToolAnswers ==
  /\ owed # <<>>
  /\ log' = Append(log, [role |-> "toolResult", turn |-> Head(owed)[1], call |-> Head(owed)[2]])
  /\ owed' = Tail(owed)
  /\ UNCHANGED said

\* A failed run gives up on the calls it has not answered.
GiveUp(stop) ==
  /\ stop # "done"
  /\ log' = Append(log, [role |-> "assistant", turn |-> said, calls |-> <<>>, stop |-> stop])
  /\ owed' = <<>>
  /\ UNCHANGED said

\* The transcript is dropped; calls in flight are still going to be answered.
Forget == log' = <<>> /\ UNCHANGED <<owed, said>>

Next ==
  \/ \E m \in UserMessages : UserSays(m)
  \/ \E calls \in Batches, stop \in {"done", "error", "aborted"} : AssistantSays(calls, stop)
  \/ \E stop \in {"error", "aborted"} : GiveUp(stop)
  \/ ToolAnswers
  \/ Forget

Spec == Init /\ [][Next]_vars

=============================================================================
