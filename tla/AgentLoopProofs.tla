--------------------------- MODULE AgentLoopProofs ---------------------------
(***************************************************************************)
(* Proofs about AgentLoop, for every set of messages and tools, every mode  *)
(* and every bound.  The inductive invariant is TypeInv: the types, that a  *)
(* run is registered exactly while the loop is somewhere, that a batch is   *)
(* only open while tools execute or their run fails, and how many agent_end *)
(* events a run can have emitted at each of its points.  The last part is   *)
(* about progress: batches, aborted runs and steered messages go on.        *)
(***************************************************************************)
EXTENDS AgentLoop, ListProofs, SequenceTheorems, FiniteSetTheorems, FunctionTheorems, TLAPS

\* Agent.activeRun is set exactly while a run is on its way.
RunRegistered == activeRun = "none" <=> pc = "idle"

\* A tool batch is open only from a tool-calling message to its turn_end.
BatchClosed ==
  pc \notin {"tools", "failed"} => calls = <<>> /\ status = <<>> /\ results = 0

\* The first agent_end is emitted on the way to "settling", the second by
\* handleRunFailure.
EndsBounded ==
  /\ pc \in {"settling", "failed"} => agentEnds <= 1
  /\ pc \notin {"idle", "settling", "failed", "finish"} => agentEnds = 0

Shape == RunRegistered /\ BatchClosed /\ EndsBounded
TypeInv == TypeOK /\ Shape

-----------------------------------------------------------------------------
\* What drain() takes and what it leaves are queues again.
LEMMA DrainType ==
  ASSUME NEW queue \in Seq(UserMessages), NEW mode
  PROVE  /\ Drained(queue, mode) \in Seq(UserMessages)
         /\ Kept(queue, mode) \in Seq(UserMessages)
BY DEF Drained, Kept

\* Prompts become user messages.
LEMMA UsersType ==
  ASSUME NEW s \in Seq(UserMessages)
  PROVE  Users(s) \in Seq(Message) /\ Len(Users(s)) = Len(s)
BY DEF Users, User, Message

\* A batch of k results is a sequence of k messages.
LEMMA ResultsType ==
  ASSUME NEW n \in Nat, NEW k \in Nat
  PROVE  BatchResults(n, k) \in Seq(Message) /\ Len(BatchResults(n, k)) = k
BY DEF BatchResults, ToolResult, Message

\* The constructors of messages make messages.
LEMMA MessageType ==
  /\ \A m \in UserMessages : User(m) \in Message
  /\ \A n \in Nat, c \in Seq(Tools), stop \in StopReasons : Assistant(n, c, stop) \in Message
  /\ \A n \in Nat, i \in Nat : ToolResult(n, i) \in Message
BY DEF Message, User, Assistant, ToolResult

\* Queues of no and of one message.
LEMMA ShortSeqType ==
  ASSUME NEW S
  PROVE  <<>> \in Seq(S) /\ \A x \in S : <<x>> \in Seq(S)
<1>1. <<>> \in Seq(S)
  OBVIOUS
<1>2. \A x \in S : <<x>> \in Seq(S)
  OBVIOUS
<1> QED
  BY <1>1, <1>2

\* The empty batch.
LEMMA NoBatchType ==
  <<>> \in Seq(Tools) /\ <<>> \in [1..Len(<<>>) -> CallStatus] /\ 0 \in 0..Len(<<>>)
<1>1. <<>> \in Seq(Tools)
  BY ShortSeqType
<1>2. <<>> \in [1..Len(<<>>) -> CallStatus]
  OBVIOUS
<1>3. 0 \in 0..Len(<<>>)
  OBVIOUS
<1> QED
  BY <1>1, <1>2, <1>3

\* The elements of a sequence over S are in S.
LEMMA RangeType ==
  ASSUME NEW S, NEW s \in Seq(S)
  PROVE  Range(s) \subseteq S
BY DEF Range

-----------------------------------------------------------------------------
\* The start of a run, whatever its prompts.
LEMMA StartRunType ==
  ASSUME TypeInv, activeRun = "none",
         NEW p \in Seq(UserMessages), NEW skip \in BOOLEAN, StartRun(p, skip),
         steeringQueue' \in Seq(UserMessages), followUpQueue' \in Seq(UserMessages),
         fresh' \subseteq UserMessages
  PROVE  TypeInv'
<1> USE DEF TypeInv, TypeOK, Shape
<1>1. ctx' \in Seq(Message)
  BY UsersType DEF AgentTypeOK, StartRun
<1>2. AgentTypeOK'
  BY DEF AgentTypeOK, StartRun
<1>3. LoopTypeOK'
  BY <1>1 DEF StartRun, PCs, LoopTypeOK
<1>4. BatchTypeOK'
  BY DEF BatchTypeOK, StartRun, batchVars
<1>5. GhostTypeOK'
  BY DEF GhostTypeOK, StartRun
<1>6. CountTypeOK'
  BY DEF CountTypeOK, StartRun
<1>7. Shape'
  BY DEF RunRegistered, BatchClosed, EndsBounded, StartRun, batchVars
<1> QED
  BY <1>2, <1>3, <1>4, <1>5, <1>6, <1>7

\* What an action leaves alone keeps its type.
LEMMA Frames ==
  ASSUME TypeOK
  PROVE  /\ UNCHANGED loopVars => LoopTypeOK'
         /\ UNCHANGED batchVars => BatchTypeOK'
         /\ UNCHANGED <<fresh, gone, torn>> => GhostTypeOK'
         /\ UNCHANGED <<agentEnds, throws>> => CountTypeOK'
<1>1. UNCHANGED loopVars => LoopTypeOK'
  BY DEF TypeOK, LoopTypeOK, loopVars
<1>2. UNCHANGED batchVars => BatchTypeOK'
  BY DEF TypeOK, BatchTypeOK, batchVars
<1>3. UNCHANGED <<fresh, gone, torn>> => GhostTypeOK'
  BY DEF TypeOK, GhostTypeOK
<1>4. UNCHANGED <<agentEnds, throws>> => CountTypeOK'
  BY DEF TypeOK, CountTypeOK
<1> QED
  BY <1>1, <1>2, <1>3, <1>4

\* Whoever leaves pc and the batch alone keeps the shape of the run.
LEMMA ShapeFrame ==
  ASSUME Shape, UNCHANGED <<loopVars, batchVars, agentEnds>>,
         activeRun' = "none" <=> activeRun = "none"
  PROVE  Shape'
BY DEF Shape, RunRegistered, BatchClosed, EndsBounded, loopVars, batchVars

\* The calls of the API preserve the invariant.
LEMMA CallerType ==
  ASSUME TypeInv, Caller
  PROVE  TypeInv'
<1> USE DEF TypeInv, TypeOK
<1>0. <<>> \in Seq(UserMessages) /\ \A m \in UserMessages : <<m>> \in Seq(UserMessages)
  BY ShortSeqType
<1>1. ASSUME NEW m \in UserMessages, Prompt(m)
      PROVE  TypeInv'
  <2>1. StartRun(<<m>>, FALSE) /\ activeRun = "none"
    BY <1>1 DEF Prompt
  <2>2. /\ steeringQueue' \in Seq(UserMessages) /\ followUpQueue' \in Seq(UserMessages)
        /\ fresh' \subseteq UserMessages
    BY <1>1 DEF Prompt, AgentTypeOK, GhostTypeOK
  <2> QED
    BY <1>0, <2>1, <2>2, StartRunType
<1>2. ASSUME NEW m \in UserMessages, Steer(m) \/ FollowUp(m)
      PROVE  TypeInv'
  <2>1. AgentTypeOK'
    <3>1. /\ Append(steeringQueue, m) \in Seq(UserMessages)
          /\ Append(followUpQueue, m) \in Seq(UserMessages)
      BY DEF AgentTypeOK
    <3> QED
      BY <1>2, <3>1 DEF Steer, FollowUp, AgentTypeOK
  <2>2. GhostTypeOK'
    BY <1>2 DEF Steer, FollowUp, GhostTypeOK
  <2>3. UNCHANGED <<activeRun, loopVars, batchVars, agentEnds, throws>>
    BY <1>2 DEF Steer, FollowUp
  <2> QED
    BY <2>1, <2>2, <2>3, Frames, ShapeFrame
<1>3. CASE ContinueFromQueue
  <2>1. CASE steeringQueue # <<>>
    <3>1. /\ StartRun(Drained(steeringQueue, SteeringMode), TRUE) /\ activeRun = "none"
          /\ steeringQueue' = Kept(steeringQueue, SteeringMode)
          /\ UNCHANGED <<followUpQueue, fresh>>
      BY <1>3, <2>1 DEF ContinueFromQueue
    <3>2. /\ Drained(steeringQueue, SteeringMode) \in Seq(UserMessages)
          /\ steeringQueue' \in Seq(UserMessages) /\ followUpQueue' \in Seq(UserMessages)
          /\ fresh' \subseteq UserMessages
      BY <3>1, DrainType DEF AgentTypeOK, GhostTypeOK
    <3> QED
      BY <3>1, <3>2, StartRunType
  <2>2. CASE steeringQueue = <<>>
    <3>1. /\ StartRun(Drained(followUpQueue, FollowUpMode), FALSE) /\ activeRun = "none"
          /\ followUpQueue' = Kept(followUpQueue, FollowUpMode)
          /\ UNCHANGED <<steeringQueue, fresh>>
      BY <1>3, <2>2 DEF ContinueFromQueue
    <3>2. /\ Drained(followUpQueue, FollowUpMode) \in Seq(UserMessages)
          /\ steeringQueue' \in Seq(UserMessages) /\ followUpQueue' \in Seq(UserMessages)
          /\ fresh' \subseteq UserMessages
      BY <3>1, DrainType DEF AgentTypeOK, GhostTypeOK
    <3> QED
      BY <3>1, <3>2, StartRunType
  <2> QED
    BY <2>1, <2>2
<1>4. CASE ContinueFromContext
  <2>1. StartRun(<<>>, FALSE) /\ activeRun = "none"
    BY <1>4 DEF ContinueFromContext
  <2>2. /\ steeringQueue' \in Seq(UserMessages) /\ followUpQueue' \in Seq(UserMessages)
        /\ fresh' \subseteq UserMessages
    BY <1>4 DEF ContinueFromContext, AgentTypeOK, GhostTypeOK
  <2> QED
    BY <1>0, <2>1, <2>2, StartRunType
<1>5. CASE ClearSteeringQueue \/ ClearFollowUpQueue
  <2>1. AgentTypeOK'
    BY <1>0, <1>5 DEF ClearSteeringQueue, ClearFollowUpQueue, AgentTypeOK
  <2>2. Range(steeringQueue) \subseteq UserMessages /\ Range(followUpQueue) \subseteq UserMessages
    BY RangeType DEF AgentTypeOK
  <2>3. GhostTypeOK'
    BY <1>5, <2>2 DEF ClearSteeringQueue, ClearFollowUpQueue, GhostTypeOK
  <2>4. UNCHANGED <<activeRun, loopVars, batchVars, agentEnds, throws>>
    BY <1>5 DEF ClearSteeringQueue, ClearFollowUpQueue
  <2> QED
    BY <2>1, <2>3, <2>4, Frames, ShapeFrame
<1>6. CASE Abort
  <2>1. AgentTypeOK'
    BY <1>6 DEF Abort, AgentTypeOK
  <2>2. /\ UNCHANGED <<loopVars, batchVars, fresh, gone, torn, agentEnds, throws>>
        /\ activeRun' = "none" <=> activeRun = "none"
    BY <1>6 DEF Abort, ghostVars
  <2> QED
    BY <2>1, <2>2, Frames, ShapeFrame
<1>7. CASE Reset
  <2>1. /\ messages' = <<>> /\ steeringQueue' = <<>> /\ followUpQueue' = <<>>
        /\ isStreaming' = FALSE /\ pendingToolCalls' = {} /\ activeRun' = activeRun
    BY <1>7 DEF Reset
  <2>2. messages' \in Seq(Message)
    BY <2>1, ShortSeqType
  <2>3. AgentTypeOK'
    BY <1>0, <2>1, <2>2 DEF AgentTypeOK
  <2>4. Range(steeringQueue) \subseteq UserMessages /\ Range(followUpQueue) \subseteq UserMessages
    BY RangeType DEF AgentTypeOK
  <2>5. GhostTypeOK'
    BY <1>7, <2>4 DEF Reset, GhostTypeOK
  <2>6. UNCHANGED <<activeRun, loopVars, batchVars, agentEnds, throws>>
    BY <1>7 DEF Reset
  <2> QED
    BY <2>3, <2>5, <2>6, Frames, ShapeFrame
<1> QED
  BY <1>1, <1>2, <1>3, <1>4, <1>5, <1>6, <1>7 DEF Caller

-----------------------------------------------------------------------------
\* The polls, announcements and injections of runLoop preserve the invariant.
LEMMA QueueType ==
  ASSUME TypeInv, AnnouncePrompt \/ PollSteering \/ PollFollowUp \/ InjectMessage
  PROVE  TypeInv'
<1> USE DEF TypeInv, TypeOK
<1>1. CASE AnnouncePrompt
  <2>1. Head(prompts) \in UserMessages /\ Tail(prompts) \in Seq(UserMessages)
    BY <1>1 DEF AnnouncePrompt, LoopTypeOK
  <2>2. Append(messages, User(Head(prompts))) \in Seq(Message)
    BY <2>1, MessageType DEF AgentTypeOK
  <2>3. AgentTypeOK'
    BY <1>1, <2>2 DEF AnnouncePrompt, AgentTypeOK
  <2>4. LoopTypeOK'
    BY <1>1, <2>1 DEF AnnouncePrompt, LoopTypeOK
  <2>5. UNCHANGED <<activeRun, pc, batchVars, fresh, gone, torn, agentEnds, throws>>
    BY <1>1 DEF AnnouncePrompt, ghostVars
  <2>6. Shape'
    BY <2>5 DEF Shape, RunRegistered, BatchClosed, EndsBounded, batchVars
  <2> QED
    BY <2>3, <2>4, <2>5, <2>6, Frames
<1>2. CASE PollSteering
  <2>1. /\ Drained(steeringQueue, SteeringMode) \in Seq(UserMessages)
        /\ Kept(steeringQueue, SteeringMode) \in Seq(UserMessages)
        /\ <<>> \in Seq(UserMessages)
    BY DrainType, ShortSeqType DEF AgentTypeOK
  <2>2. AgentTypeOK'
    BY <1>2, <2>1 DEF PollSteering, AgentTypeOK
  <2>3. LoopTypeOK'
    BY <1>2, <2>1 DEF PollSteering, LoopTypeOK, PCs
  <2>4. UNCHANGED <<activeRun, batchVars, fresh, gone, torn, agentEnds, throws>>
    BY <1>2 DEF PollSteering, ghostVars
  <2>5. pc \in {"turnEnd", "start"} /\ pc' \in {"inject", "followUp"}
    BY <1>2 DEF PollSteering
  <2>6. Shape'
    BY <2>4, <2>5 DEF Shape, RunRegistered, BatchClosed, EndsBounded, batchVars
  <2> QED
    BY <2>2, <2>3, <2>4, <2>6, Frames
<1>3. CASE PollFollowUp
  <2>1. /\ Drained(followUpQueue, FollowUpMode) \in Seq(UserMessages)
        /\ Kept(followUpQueue, FollowUpMode) \in Seq(UserMessages)
    BY DrainType DEF AgentTypeOK
  <2>2. AgentTypeOK'
    BY <1>3, <2>1 DEF PollFollowUp, AgentTypeOK
  <2>3. LoopTypeOK'
    BY <1>3, <2>1 DEF PollFollowUp, LoopTypeOK, PCs
  <2>4. UNCHANGED <<activeRun, batchVars, fresh, gone, torn, agentEnds, throws>>
    BY <1>3 DEF PollFollowUp, ghostVars
  <2>5. pc = "followUp" /\ pc' \in {"inject", "agentEnd"}
    BY <1>3 DEF PollFollowUp
  <2>6. Shape'
    BY <2>4, <2>5 DEF Shape, RunRegistered, BatchClosed, EndsBounded, batchVars
  <2> QED
    BY <2>2, <2>3, <2>4, <2>6, Frames
<1>4. CASE InjectMessage
  <2>1. Head(pendingMessages) \in UserMessages /\ Tail(pendingMessages) \in Seq(UserMessages)
    BY <1>4 DEF InjectMessage, LoopTypeOK
  <2>2. /\ Append(messages, User(Head(pendingMessages))) \in Seq(Message)
        /\ Append(ctx, User(Head(pendingMessages))) \in Seq(Message)
    BY <2>1, MessageType DEF AgentTypeOK, LoopTypeOK
  <2>3. AgentTypeOK'
    BY <1>4, <2>2 DEF InjectMessage, AgentTypeOK
  <2>4. LoopTypeOK'
    BY <1>4, <2>1, <2>2 DEF InjectMessage, LoopTypeOK
  <2>5. UNCHANGED <<activeRun, pc, batchVars, fresh, gone, torn, agentEnds, throws>>
    BY <1>4 DEF InjectMessage, ghostVars
  <2>6. Shape'
    BY <2>5 DEF Shape, RunRegistered, BatchClosed, EndsBounded, batchVars
  <2> QED
    BY <2>3, <2>4, <2>5, <2>6, Frames
<1> QED
  BY <1>1, <1>2, <1>3, <1>4

\* So does an assistant message, from its request to its stop reason.
LEMMA StreamStepType ==
  ASSUME TypeInv,
         RequestStream \/ \E c \in Batches, stop \in StopReasons : StreamEnds(c, stop)
  PROVE  TypeInv'
<1> USE DEF TypeInv, TypeOK
<1>1. CASE RequestStream
  <2>1. AgentTypeOK'
    BY <1>1 DEF RequestStream, AgentTypeOK, agentVars
  <2>2. LoopTypeOK'
    BY <1>1 DEF RequestStream, LoopTypeOK, PCs
  <2>3. /\ UNCHANGED <<activeRun, batchVars, fresh, gone, torn, agentEnds, throws>>
        /\ pc = "inject" /\ pc' \in {"stream", "doomed"}
    BY <1>1 DEF RequestStream, agentVars, ghostVars
  <2>4. Shape'
    BY <2>3 DEF Shape, RunRegistered, BatchClosed, EndsBounded, batchVars
  <2> QED
    BY <2>1, <2>2, <2>3, <2>4, Frames
<1>2. ASSUME NEW c \in Batches, NEW stop \in StopReasons, StreamEnds(c, stop)
      PROVE  TypeInv'
  <2>1. c \in Seq(Tools) /\ turns + 1 \in Nat
    BY ToolsAssumption DEF BatchTypeOK
  <2>2. Assistant(turns + 1, c, stop) \in Message
    BY <2>1, MessageType
  <2>3. /\ Append(messages, Assistant(turns + 1, c, stop)) \in Seq(Message)
        /\ Append(ctx, Assistant(turns + 1, c, stop)) \in Seq(Message)
    BY <2>2 DEF AgentTypeOK, LoopTypeOK
  <2>4. AgentTypeOK'
    BY <1>2, <2>3 DEF StreamEnds, AgentTypeOK
  <2>5. LoopTypeOK'
    BY <1>2, <2>3 DEF StreamEnds, LoopTypeOK, PCs
  <2>6. pc \in {"stream", "doomed"} /\ calls = <<>> /\ status = <<>> /\ results = 0
    BY <1>2 DEF StreamEnds, Shape, BatchClosed
  <2>7. BatchTypeOK' /\ BatchClosed'
    <3>1. CASE stop = "done" /\ c # <<>>
      <4>1. /\ pc' = "tools" /\ calls' = c /\ terminate' = TRUE /\ turns' = turns + 1
            /\ status' = [i \in 1..Len(c) |-> "todo"] /\ UNCHANGED <<results, zombies>>
        BY <1>2, <3>1 DEF StreamEnds
      <4>2. status' \in [1..Len(calls') -> CallStatus]
        BY <4>1 DEF CallStatus
      <4>3. results' \in 0..Len(calls')
        BY <4>1, <2>1, <2>6
      <4> QED
        BY <2>1, <4>1, <4>2, <4>3 DEF BatchTypeOK, BatchClosed
    <3>2. CASE ~(stop = "done" /\ c # <<>>)
      <4>1. turns' = turns + 1 /\ UNCHANGED <<calls, status, terminate, results, zombies>>
        BY <1>2, <3>2 DEF StreamEnds
      <4> QED
        BY <2>1, <2>6, <4>1 DEF BatchTypeOK, BatchClosed
    <3> QED
      BY <3>1, <3>2
  <2>8. /\ UNCHANGED <<activeRun, fresh, gone, torn, agentEnds, throws>>
        /\ pc' \in {"tools", "turnEnd", "agentEnd"}
    BY <1>2 DEF StreamEnds, ghostVars
  <2>9. RunRegistered' /\ EndsBounded'
    BY <2>6, <2>8 DEF Shape, RunRegistered, EndsBounded
  <2> QED
    BY <2>4, <2>5, <2>7, <2>8, <2>9, Frames DEF Shape
<1> QED
  BY <1>1, <1>2

\* So do the preflight, the execution and the results of a tool batch.
LEMMA BatchType ==
  ASSUME TypeInv,
         \/ \E i \in DOMAIN status : PrepareCall(i) \/ RejectCall(i) \/ ToolReturns(i)
         \/ Launch \/ EmitResult \/ EndBatch
         \/ \E z \in zombies : ZombieEnds(z)
  PROVE  TypeInv'
<1> USE DEF TypeInv, TypeOK
<1>1. ASSUME NEW i \in DOMAIN status, PrepareCall(i) \/ RejectCall(i)
      PROVE  TypeInv'
  <2>1. i \in Nat /\ i \in 1..Len(calls)
    BY DEF BatchTypeOK
  <2>2. CallId(i) \in Nat \X Nat
    BY <2>1 DEF CallId, BatchTypeOK
  <2>3. AgentTypeOK'
    BY <1>1, <2>2 DEF PrepareCall, RejectCall, AgentTypeOK
  <2>4. BatchTypeOK'
    BY <1>1, <2>1 DEF PrepareCall, RejectCall, BatchTypeOK, CallStatus
  <2>5. /\ UNCHANGED <<activeRun, loopVars, fresh, gone, torn, agentEnds, throws>>
        /\ pc = "tools"
    BY <1>1 DEF PrepareCall, RejectCall, MayPreflight, ghostVars
  <2>6. Shape'
    BY <2>5 DEF Shape, RunRegistered, BatchClosed, EndsBounded, loopVars
  <2> QED
    BY <2>3, <2>4, <2>5, <2>6, Frames
<1>2. ASSUME NEW i \in DOMAIN status, ToolReturns(i)
      PROVE  TypeInv'
  <2>1. PICK t \in BOOLEAN : ToolEnds(i, t)
    BY <1>2 DEF ToolReturns
  <2>2. AgentTypeOK'
    BY <2>1 DEF ToolEnds, AgentTypeOK
  <2>3. LoopTypeOK' /\ pc \in {"tools", "failed"} /\ pc' \in {"tools", "failed"}
    BY <2>1 DEF ToolEnds, LoopTypeOK, PCs
  <2>4. BatchTypeOK'
    <3>1. status' \in [1..Len(calls) -> CallStatus]
      BY <2>1 DEF ToolEnds, BatchTypeOK, CallStatus
    <3>2. terminate' \in BOOLEAN
      BY <2>1 DEF ToolEnds, BatchTypeOK
    <3> QED
      BY <2>1, <3>1, <3>2 DEF ToolEnds, BatchTypeOK
  <2>5. UNCHANGED <<activeRun, fresh, gone, torn, agentEnds>>
    BY <2>1 DEF ToolEnds
  <2>6. CountTypeOK'
    BY <2>1, BoundsAssumption DEF ToolEnds, CountTypeOK
  <2>7. pc = "failed" => pc' = "failed"
    BY <2>1 DEF ToolEnds
  <2>8. Shape'
    BY <2>3, <2>5, <2>7 DEF Shape, RunRegistered, BatchClosed, EndsBounded
  <2> QED
    BY <2>2, <2>3, <2>4, <2>5, <2>6, <2>8, Frames
<1>3. CASE Launch
  <2>1. AgentTypeOK'
    BY <1>3 DEF Launch, AgentTypeOK, agentVars
  <2>2. BatchTypeOK'
    BY <1>3 DEF Launch, BatchTypeOK, CallStatus
  <2>3. /\ UNCHANGED <<activeRun, loopVars, fresh, gone, torn, agentEnds, throws>>
        /\ pc = "tools"
    BY <1>3 DEF Launch, agentVars, ghostVars
  <2>4. Shape'
    BY <2>3 DEF Shape, RunRegistered, BatchClosed, EndsBounded, loopVars
  <2> QED
    BY <2>1, <2>2, <2>3, <2>4, Frames
<1>4. CASE EmitResult
  <2>1. turns \in Nat /\ results + 1 \in Nat /\ results + 1 \in 0..Len(calls)
    BY <1>4 DEF EmitResult, BatchTypeOK
  <2>2. Append(messages, ToolResult(turns, results + 1)) \in Seq(Message)
    BY <2>1, MessageType DEF AgentTypeOK
  <2>3. AgentTypeOK'
    BY <1>4, <2>2 DEF EmitResult, AgentTypeOK
  <2>4. BatchTypeOK'
    BY <1>4, <2>1 DEF EmitResult, BatchTypeOK
  <2>5. /\ UNCHANGED <<activeRun, loopVars, fresh, gone, torn, agentEnds, throws>>
        /\ pc = "tools"
    BY <1>4 DEF EmitResult, ghostVars
  <2>6. Shape'
    BY <2>5 DEF Shape, RunRegistered, BatchClosed, EndsBounded, loopVars
  <2> QED
    BY <2>3, <2>4, <2>5, <2>6, Frames
<1>5. CASE EndBatch
  <2>1. Len(calls) \in Nat /\ turns \in Nat
    BY DEF BatchTypeOK
  <2>2. ctx \o BatchResults(turns, Len(calls)) \in Seq(Message)
    BY <2>1, ResultsType DEF LoopTypeOK
  <2>3. AgentTypeOK'
    BY <1>5 DEF EndBatch, AgentTypeOK, agentVars
  <2>4. hasMoreToolCalls' \in BOOLEAN
    BY <1>5 DEF EndBatch, BatchTypeOK
  <2>5. LoopTypeOK'
    BY <1>5, <2>2, <2>4 DEF EndBatch, LoopTypeOK, PCs
  <2>6. /\ calls' = <<>> /\ status' = <<>> /\ results' = 0 /\ terminate' = FALSE
        /\ UNCHANGED <<activeRun, turns, zombies, fresh, gone, torn, agentEnds, throws>>
        /\ pc = "tools" /\ pc' = "turnEnd"
    BY <1>5 DEF EndBatch, agentVars, ghostVars
  <2>7. BatchTypeOK'
    BY <2>6, NoBatchType DEF BatchTypeOK
  <2>8. Shape'
    BY <2>6 DEF Shape, RunRegistered, BatchClosed, EndsBounded
  <2> QED
    BY <2>3, <2>5, <2>6, <2>7, <2>8, Frames
<1>6. ASSUME NEW z \in zombies, ZombieEnds(z)
      PROVE  TypeInv'
  <2>1. AgentTypeOK'
    BY <1>6 DEF ZombieEnds, AgentTypeOK
  <2>2. BatchTypeOK'
    BY <1>6 DEF ZombieEnds, BatchTypeOK
  <2>3. UNCHANGED <<activeRun, loopVars, turns, calls, status, results, terminate,
                    fresh, gone, torn, agentEnds, throws>>
    BY <1>6 DEF ZombieEnds, ghostVars
  <2>4. Shape'
    BY <2>3 DEF Shape, RunRegistered, BatchClosed, EndsBounded, loopVars
  <2> QED
    BY <2>1, <2>2, <2>3, <2>4, Frames
<1> QED
  BY <1>1, <1>2, <1>3, <1>4, <1>5, <1>6

\* So does the end of a run, in success and in failure.
LEMMA EndType ==
  ASSUME TypeInv, EmitAgentEnd \/ RunThrows \/ HandleRunFailure \/ FinishRun
  PROVE  TypeInv'
<1> USE DEF TypeInv, TypeOK
<1>1. CASE EmitAgentEnd \/ RunThrows
  <2>1. AgentTypeOK'
    BY <1>1 DEF EmitAgentEnd, RunThrows, AgentTypeOK, agentVars
  <2>2. LoopTypeOK'
    BY <1>1 DEF EmitAgentEnd, RunThrows, LoopTypeOK, PCs
  <2>3. UNCHANGED <<activeRun, batchVars, fresh, gone, torn>>
    BY <1>1 DEF EmitAgentEnd, RunThrows, agentVars
  <2>4. CountTypeOK' /\ EndsBounded'
    BY <1>1, BoundsAssumption DEF EmitAgentEnd, RunThrows, CountTypeOK, Shape, EndsBounded, PCs
  <2>5. BatchClosed' /\ RunRegistered'
    BY <1>1, <2>3 DEF EmitAgentEnd, RunThrows, Shape, BatchClosed, RunRegistered, batchVars
  <2> QED
    BY <2>1, <2>2, <2>3, <2>4, <2>5, Frames DEF Shape
<1>2. CASE HandleRunFailure
  <2>1. turns \in Nat /\ <<>> \in Seq(Tools) /\ <<>> \in Seq(UserMessages)
    BY ShortSeqType DEF BatchTypeOK
  <2>2. ASSUME NEW stop \in StopReasons
        PROVE  Append(messages, Assistant(turns, <<>>, stop)) \in Seq(Message)
    <3>1. Assistant(turns, <<>>, stop) \in Message
      BY <2>1, MessageType
    <3> QED
      BY <3>1 DEF AgentTypeOK
  <2>3. AgentTypeOK'
    BY <1>2, <2>2 DEF HandleRunFailure, AgentTypeOK, StopReasons
  <2>4. LoopTypeOK'
    BY <1>2, <2>1 DEF HandleRunFailure, LoopTypeOK, PCs
  <2>5. {<<turns, i, calls[i]>> : i \in Running} \subseteq Nat \X Nat \X Tools
    BY DEF Running, BatchTypeOK
  <2>6. /\ calls' = <<>> /\ status' = <<>> /\ results' = 0 /\ terminate' = FALSE
        /\ zombies' = zombies \cup {<<turns, i, calls[i]>> : i \in Running}
        /\ UNCHANGED <<activeRun, turns, fresh, torn, throws>>
        /\ pc = "failed" /\ pc' = "finish" /\ agentEnds' = agentEnds + 1
    BY <1>2 DEF HandleRunFailure
  <2>7. BatchTypeOK'
    BY <2>5, <2>6, NoBatchType DEF BatchTypeOK
  <2>8. Range(pendingMessages) \subseteq UserMessages /\ Range(prompts) \subseteq UserMessages
    BY RangeType DEF LoopTypeOK
  <2>9. GhostTypeOK'
    BY <1>2, <2>8 DEF HandleRunFailure, GhostTypeOK
  <2>10. CountTypeOK'
    BY <2>6 DEF CountTypeOK, Shape, EndsBounded
  <2>11. Shape'
    BY <2>6 DEF Shape, RunRegistered, BatchClosed, EndsBounded
  <2> QED
    BY <2>3, <2>4, <2>7, <2>9, <2>10, <2>11
<1>3. CASE FinishRun
  <2>1. AgentTypeOK'
    BY <1>3 DEF FinishRun, AgentTypeOK
  <2>2. <<>> \in Seq(Message)
    BY ShortSeqType
  <2>3. LoopTypeOK'
    BY <1>3, <2>2 DEF FinishRun, LoopTypeOK, PCs
  <2>4. /\ UNCHANGED <<batchVars, fresh, gone, torn, agentEnds, throws>>
        /\ pc \in {"settling", "finish"} /\ pc' = "idle" /\ activeRun' = "none"
    BY <1>3 DEF FinishRun, ghostVars
  <2>5. Shape'
    BY <2>4 DEF Shape, RunRegistered, BatchClosed, EndsBounded, batchVars
  <2> QED
    BY <2>1, <2>3, <2>4, <2>5, Frames
<1> QED
  BY <1>1, <1>2, <1>3

-----------------------------------------------------------------------------
\* The initial state is well typed.
LEMMA TypeInit == Init => TypeInv
<1> SUFFICES ASSUME Init PROVE TypeInv
  OBVIOUS
<1>1. <<>> \in Seq(Message) /\ <<>> \in Seq(UserMessages) /\ <<>> \in Seq(Tools)
  BY ShortSeqType
<1>2. AgentTypeOK
  BY <1>1 DEF Init, AgentTypeOK
<1>3. LoopTypeOK
  BY <1>1 DEF Init, LoopTypeOK, PCs
<1>4. BatchTypeOK
  BY NoBatchType DEF Init, BatchTypeOK
<1>5. GhostTypeOK
  BY DEF Init, GhostTypeOK
<1>6. CountTypeOK
  BY BoundsAssumption DEF Init, CountTypeOK
<1>7. Shape
  BY DEF Init, Shape, RunRegistered, BatchClosed, EndsBounded
<1> QED
  BY <1>2, <1>3, <1>4, <1>5, <1>6, <1>7 DEF TypeInv, TypeOK

\* Every step of the program keeps it so.
LEMMA TypeStep == TypeInv /\ [Next]_vars => TypeInv'
<1> SUFFICES ASSUME TypeInv, [Next]_vars PROVE TypeInv'
  OBVIOUS
<1>1. CASE Caller
  BY <1>1, CallerType
<1>2. CASE LoopStep
  BY <1>2, QueueType, StreamStepType, BatchType, EndType DEF LoopStep
<1>3. CASE Stream
  BY <1>3, StreamStepType DEF Stream
<1>4. CASE \/ \E i \in DOMAIN status : ToolReturns(i)
           \/ \E z \in zombies : ZombieEnds(z)
  BY <1>4, BatchType
<1>5. CASE RunThrows
  BY <1>5, EndType
<1>6. CASE UNCHANGED vars
  <2>1. AgentTypeOK'
    BY <1>6 DEF vars, agentVars, TypeInv, TypeOK, AgentTypeOK
  <2>2. UNCHANGED <<activeRun, loopVars, batchVars, fresh, gone, torn, agentEnds, throws>>
    BY <1>6 DEF vars, agentVars, ghostVars
  <2> QED
    BY <2>1, <2>2, Frames, ShapeFrame DEF TypeInv, TypeOK
<1> QED
  BY <1>1, <1>2, <1>3, <1>4, <1>5, <1>6 DEF Next

\* The inductive invariant holds in every reachable state.
THEOREM TypeInvariant == Spec => []TypeInv
<1> QED
  BY TypeInit, TypeStep, PTL DEF Spec

\* Every variable of the runtime keeps its type.
THEOREM TypeCorrect == Spec => []TypeOK
<1>1. TypeInv => TypeOK
  BY DEF TypeInv
<1> QED
  BY <1>1, TypeInvariant, PTL

-----------------------------------------------------------------------------
(* The refinement of Conversation: whatever is steered, queued, aborted,     *)
(* reset or thrown, every step of the runtime is one of Conversation or       *)
(* leaves the transcript, the calls still owed an answer and the serial       *)
(* number of the last assistant message alone.                                *)

\* The calls of the open batch that have no tool-result message yet.
Owed == [i \in 1..(Len(calls) - results) |-> <<turns, results + i>>]

\* Nothing is owed outside a batch, nor once all its results are out.
LEMMA NothingOwed ==
  ASSUME results = Len(calls), calls \in Seq(Tools)
  PROVE  Owed = <<>>
<1>1. Len(calls) - results = 0
  OBVIOUS
<1> QED
  BY <1>1 DEF Owed

\* The same of the next state.
LEMMA NothingOwedNext ==
  ASSUME calls' = <<>>, results' = 0
  PROVE  Owed' = <<>>
<1>1. Len(calls') - results' = 0
  OBVIOUS
<1> QED
  BY <1>1 DEF Owed

\* Outside a batch there are no calls and no results.
LEMMA ClosedBatch ==
  ASSUME TypeInv, pc \notin {"tools", "failed"}
  PROVE  calls = <<>> /\ results = 0 /\ Owed = <<>>
<1>1. calls = <<>> /\ results \in 0..Len(calls) /\ calls \in Seq(Tools)
  BY DEF TypeInv, TypeOK, BatchTypeOK, Shape, BatchClosed
<1>2. results = Len(calls) /\ Len(calls) = 0
  BY <1>1
<1> QED
  BY <1>1, <1>2, NothingOwed

\* A step that changes neither transcript nor batch stutters.
LEMMA Stutters ==
  ASSUME UNCHANGED <<messages, calls, results, turns>>
  PROVE  UNCHANGED C!vars
BY DEF C!vars

-----------------------------------------------------------------------------
\* The calls of the API leave the conversation alone, except reset().
LEMMA CallerRefines ==
  ASSUME TypeInv, Caller
  PROVE  [C!Next]_C!vars
<1>1. CASE Reset
  <2>1. messages' = <<>> /\ UNCHANGED <<Owed, turns>>
    BY <1>1 DEF Reset, batchVars, Owed
  <2>2. C!Forget
    BY <2>1 DEF C!Forget, Owed
  <2> QED
    BY <2>2 DEF C!Next
<1>2. CASE UNCHANGED <<messages, calls, results, turns>>
  BY <1>2, Stutters
<1>3. Reset \/ UNCHANGED <<messages, calls, results, turns>>
  <2>1. ASSUME NEW m \in UserMessages, Prompt(m) \/ Steer(m) \/ FollowUp(m)
        PROVE  UNCHANGED <<messages, calls, results, turns>>
    BY <2>1 DEF Prompt, StartRun, Steer, FollowUp, batchVars
  <2>2. CASE ContinueFromQueue \/ ContinueFromContext
    BY <2>2 DEF ContinueFromQueue, ContinueFromContext, StartRun, batchVars
  <2>3. CASE ClearSteeringQueue \/ ClearFollowUpQueue \/ Abort
    BY <2>3 DEF ClearSteeringQueue, ClearFollowUpQueue, Abort, batchVars
  <2> QED
    BY <2>1, <2>2, <2>3 DEF Caller
<1> QED
  BY <1>1, <1>2, <1>3

\* A user message is announced or injected only while nothing is owed.
LEMMA UserRefines ==
  ASSUME TypeInv, AnnouncePrompt \/ InjectMessage
  PROVE  C!Next
<1>1. PICK m \in UserMessages : messages' = Append(messages, User(m))
  <2>1. CASE AnnouncePrompt
    <3>1. Head(prompts) \in UserMessages
      BY <2>1 DEF AnnouncePrompt, TypeInv, TypeOK, LoopTypeOK
    <3> QED
      BY <2>1, <3>1 DEF AnnouncePrompt
  <2>2. CASE InjectMessage
    <3>1. Head(pendingMessages) \in UserMessages
      BY <2>2 DEF InjectMessage, TypeInv, TypeOK, LoopTypeOK
    <3> QED
      BY <2>2, <3>1 DEF InjectMessage
  <2> QED
    BY <2>1, <2>2
<1>2. pc \notin {"tools", "failed"} /\ UNCHANGED <<calls, results, turns>>
  BY DEF AnnouncePrompt, InjectMessage, batchVars
<1>3. Owed = <<>> /\ UNCHANGED Owed
  BY <1>2, ClosedBatch DEF Owed
<1>4. C!UserSays(m)
  BY <1>1, <1>2, <1>3 DEF C!UserSays, User, Owed
<1> QED
  BY <1>4 DEF C!Next

\* An assistant message comes while nothing is owed, and owes an answer to each
\* of its calls if it ended well.
LEMMA AssistantRefines ==
  ASSUME TypeInv, Stream
  PROVE  C!Next
<1>1. PICK c \in Batches, stop \in StopReasons : StreamEnds(c, stop)
  BY DEF Stream
<1>2. calls = <<>> /\ results = 0 /\ Owed = <<>> /\ results' = results
  <2>1. pc \notin {"tools", "failed"}
    BY <1>1 DEF StreamEnds
  <2> QED
    BY <1>1, <2>1, ClosedBatch DEF StreamEnds
<1>3. turns \in Nat /\ turns' = turns + 1 /\ c \in Seq(Tools)
  BY <1>1, ToolsAssumption DEF StreamEnds, TypeInv, TypeOK, BatchTypeOK
<1>4. calls' = IF stop = "done" /\ c # <<>> THEN c ELSE <<>>
  BY <1>1, <1>2 DEF StreamEnds
<1>5. Owed' = [i \in 1..(IF stop = "done" THEN Len(c) ELSE 0) |-> <<turns + 1, i>>]
  <2>1. Len(calls') = IF stop = "done" THEN Len(c) ELSE 0
    BY <1>3, <1>4
  <2>2. Len(calls') \in Nat
    BY <1>3, <2>1
  <2>3. Owed' = [i \in 1..Len(calls') |-> <<turns + 1, i>>]
    BY <1>2, <1>3, <2>2 DEF Owed
  <2> QED
    BY <2>1, <2>3
<1>6. messages' = Append(messages, Assistant(turns + 1, c, stop))
  BY <1>1 DEF StreamEnds
<1>7. C!AssistantSays(c, stop)
  BY <1>2, <1>3, <1>5, <1>6 DEF C!AssistantSays, Assistant, Owed
<1> QED
  BY <1>7 DEF C!Next, StopReasons

\* The calls after the k-th: the first of them, and what remains once it is answered.
LEMMA FirstAnswered ==
  ASSUME NEW t \in Nat, NEW k \in Nat, NEW n \in Nat, k < n
  PROVE  LET s == [i \in 1..(n - k) |-> <<t, k + i>>]
         IN  /\ s # <<>> /\ Head(s) = <<t, k + 1>>
             /\ Tail(s) = [i \in 1..(n - (k + 1)) |-> <<t, (k + 1) + i>>]
<1> DEFINE s == [i \in 1..(n - k) |-> <<t, k + i>>]
           r == [i \in 1..(n - (k + 1)) |-> <<t, (k + 1) + i>>]
<1>1. n - k \in Nat /\ n - k >= 1 /\ n - (k + 1) \in Nat /\ n - (k + 1) = n - k - 1
  OBVIOUS
<1>2. s \in Seq(Nat \X Nat) /\ Len(s) = n - k
  <2>1. \A i \in 1..(n - k) : <<t, k + i>> \in Nat \X Nat
    BY <1>1
  <2> QED
    BY <1>1, <2>1
<1>3. r \in Seq(Nat \X Nat) /\ Len(r) = n - k - 1
  <2>1. \A i \in 1..(n - (k + 1)) : <<t, (k + 1) + i>> \in Nat \X Nat
    BY <1>1
  <2> QED
    BY <1>1, <2>1
<1>4. \A i \in 1..(n - k) : s[i] = <<t, k + i>>
  OBVIOUS
<1>5. \A i \in 1..(n - k - 1) : r[i] = s[i + 1]
  BY <1>1
<1> HIDE DEF s, r
<1>6. s # <<>>
  BY <1>1, <1>2, EmptySeq
<1>7. Head(s) = <<t, k + 1>>
  BY <1>1, <1>2, <1>4, <1>6
<1>8. /\ Tail(s) \in Seq(Nat \X Nat) /\ Len(Tail(s)) = n - k - 1
      /\ \A i \in 1..(n - k - 1) : Tail(s)[i] = s[i + 1]
  BY <1>1, <1>2, <1>6, HeadTailProperties
<1>9. Tail(s) = r
  BY <1>1, <1>3, <1>5, <1>8, SeqEqual
<1> QED
  BY <1>6, <1>7, <1>9 DEF s, r

\* A tool result answers the first call still owed one.
LEMMA ResultRefines ==
  ASSUME TypeInv, EmitResult
  PROVE  C!Next
<1>1. /\ results < Len(calls) /\ results' = results + 1 /\ UNCHANGED <<turns, calls>>
      /\ messages' = Append(messages, ToolResult(turns, results + 1))
  BY DEF EmitResult
<1>2. results \in Nat /\ Len(calls) \in Nat
  BY DEF TypeInv, TypeOK, BatchTypeOK
<1>3. Owed # <<>> /\ Head(Owed) = <<turns, results + 1>>
  BY <1>1, <1>2, FirstAnswered DEF Owed, TypeInv, TypeOK, BatchTypeOK
<1>4. Owed' = Tail(Owed)
  BY <1>1, <1>2, FirstAnswered DEF Owed, TypeInv, TypeOK, BatchTypeOK
<1>5. Head(Owed)[1] = turns /\ Head(Owed)[2] = results + 1
  BY <1>3
<1>6. messages' = Append(messages, [role |-> "toolResult", turn |-> Head(Owed)[1],
                                    call |-> Head(Owed)[2]])
  BY <1>1, <1>5 DEF ToolResult
<1>7. C!ToolAnswers
  BY <1>1, <1>3, <1>4, <1>6 DEF C!ToolAnswers, Owed
<1> QED
  BY <1>7 DEF C!Next

\* A failure gives up on what is still owed.
LEMMA FailureRefines ==
  ASSUME TypeInv, HandleRunFailure
  PROVE  C!Next
<1>1. PICK stop \in {"aborted", "error"} :
        messages' = Append(messages, Assistant(turns, <<>>, stop))
  BY DEF HandleRunFailure
<1>2. Owed' = <<>> /\ turns' = turns
  BY NothingOwedNext DEF HandleRunFailure
<1>3. C!GiveUp(stop)
  BY <1>1, <1>2 DEF C!GiveUp, Assistant, Owed
<1> QED
  BY <1>3 DEF C!Next

\* The batch is closed once nothing is owed.
LEMMA EndBatchRefines ==
  ASSUME TypeInv, EndBatch
  PROVE  UNCHANGED C!vars
<1>1. Owed = <<>>
  BY NothingOwed DEF EndBatch, TypeInv, TypeOK, BatchTypeOK
<1>2. Owed' = <<>>
  BY NothingOwedNext DEF EndBatch
<1>3. UNCHANGED <<messages, turns>>
  BY DEF EndBatch, agentVars
<1> QED
  BY <1>1, <1>2, <1>3 DEF C!vars, Owed

-----------------------------------------------------------------------------
\* The initial transcript is empty and owes nothing.
LEMMA InitRefines == Init => C!Init
<1>1. Init => Owed = <<>>
  BY NothingOwed DEF Init
<1> QED
  BY <1>1 DEF Init, C!Init, Owed

\* Every step of the runtime is a step of the conversation, or a stutter.
LEMMA StepRefines == TypeInv /\ [Next]_vars => [C!Next]_C!vars
<1> SUFFICES ASSUME TypeInv, [Next]_vars
             PROVE  [C!Next]_C!vars
  OBVIOUS
<1>1. CASE UNCHANGED vars
  BY <1>1, Stutters DEF vars, agentVars, batchVars
<1>2. CASE Caller
  BY <1>2, CallerRefines
<1>3. CASE AnnouncePrompt \/ InjectMessage
  BY <1>3, UserRefines
<1>4. CASE PollSteering \/ PollFollowUp \/ RequestStream \/ Launch \/ EmitAgentEnd
           \/ RunThrows \/ FinishRun
  BY <1>4, Stutters
     DEF PollSteering, PollFollowUp, RequestStream, Launch, EmitAgentEnd, RunThrows,
         FinishRun, agentVars, batchVars
<1>5. ASSUME NEW i \in DOMAIN status, PrepareCall(i) \/ RejectCall(i) \/ ToolReturns(i)
      PROVE  [C!Next]_C!vars
  BY <1>5, Stutters DEF PrepareCall, RejectCall, ToolReturns, ToolEnds
<1>6. ASSUME NEW z \in zombies, ZombieEnds(z)
      PROVE  [C!Next]_C!vars
  BY <1>6, Stutters DEF ZombieEnds
<1>7. CASE Stream
  BY <1>7, AssistantRefines
<1>8. CASE EmitResult
  BY <1>8, ResultRefines
<1>9. CASE EndBatch
  BY <1>9, EndBatchRefines
<1>10. CASE HandleRunFailure
  BY <1>10, FailureRefines
<1> QED
  BY <1>1, <1>2, <1>3, <1>4, <1>5, <1>6, <1>7, <1>8, <1>9, <1>10 DEF Next, LoopStep

\* The runtime implements the conversation protocol: between a message with tool
\* calls and its last result nobody else speaks, results come in the order of the
\* calls, and only the failure of the run cuts them short.
THEOREM ConversationImplemented == Spec => ImplementsConversation
<1>1. Spec => C!Init /\ [][C!Next]_C!vars
  BY InitRefines, StepRefines, TypeInvariant, PTL DEF Spec
<1> QED
  BY <1>1 DEF ImplementsConversation, C!Spec
-----------------------------------------------------------------------------
(***************************************************************************)
(* Safety, on top of the types: the tool batch keeps its order and its      *)
(* concurrency limit, pendingToolCalls is exact, and the loop's own context *)
(* is the transcript.                                                       *)
(***************************************************************************)
\* Calls are announced in order, and results are of finished calls.
BatchOrdered ==
  /\ \A j \in 1..results : status[j] = "ended"
  /\ \A i, j \in DOMAIN status : i < j /\ status[j] # "todo" => status[i] # "todo"

\* In a sequential batch at most one call is past its announcement.
OneAtATime ==
  IsSequential =>
    \A i, j \in DOMAIN status :
      status[i] \in {"prepared", "running"} /\ status[j] \in {"prepared", "running"} => i = j

\* Tools left behind by dead runs belong to earlier assistant messages than the
\* batch that is open.
ZombiesOlder ==
  \A z \in zombies : z[1] <= turns /\ (calls # <<>> => z[1] < turns)

BatchInv == BatchOrdered /\ OneAtATime /\ ZombiesOlder

\* Where the context stands to the transcript, at every point of a run.
ContextCopied ==
  ~torn =>
    /\ pc = "start" => ctx = messages \o Users(prompts)
    /\ pc \in {"inject", "stream", "doomed", "turnEnd", "followUp"} => ctx = messages
    /\ pc = "tools" => messages = ctx \o BatchResults(turns, results)

OpenCalls == {i \in DOMAIN status : status[i] \in {"prepared", "running"}}

\* PendingCallsExact, and between runs it holds even of a torn one.
PendingExact ==
  pc = "idle" \/ (~torn /\ pc \notin {"failed", "finish"}) =>
    pendingToolCalls = {CallId(i) : i \in OpenCalls}

-----------------------------------------------------------------------------
\* Actions that touch no part of the batch.
LEMMA BatchFrame ==
  ASSUME BatchInv, UNCHANGED batchVars
  PROVE  BatchInv'
BY DEF BatchInv, BatchOrdered, OneAtATime, IsSequential, ZombiesOlder, batchVars

\* Nor do the API, the polls and the end of a successful run.
LEMMA BatchUntouched ==
  ASSUME \/ Caller \/ AnnouncePrompt \/ PollSteering \/ PollFollowUp \/ InjectMessage
         \/ RequestStream \/ EmitAgentEnd \/ RunThrows \/ FinishRun \/ UNCHANGED vars
  PROVE  UNCHANGED batchVars
<1>1. CASE Caller
  BY <1>1 DEF Caller, Prompt, ContinueFromQueue, ContinueFromContext, StartRun, Steer, FollowUp,
              ClearSteeringQueue, ClearFollowUpQueue, Abort, Reset
<1>2. CASE \/ AnnouncePrompt \/ PollSteering \/ PollFollowUp \/ InjectMessage
           \/ RequestStream \/ EmitAgentEnd \/ RunThrows \/ FinishRun
  BY <1>2 DEF AnnouncePrompt, PollSteering, PollFollowUp, InjectMessage, RequestStream,
              EmitAgentEnd, RunThrows, FinishRun
<1>3. CASE UNCHANGED vars
  BY <1>3 DEF vars
<1> QED
  BY <1>1, <1>2, <1>3

\* A step that neither announces a call nor forgets an end keeps the order.
LEMMA OrderKept ==
  ASSUME BatchTypeOK, BatchOrdered, UNCHANGED results, DOMAIN status' = DOMAIN status,
         \A j \in DOMAIN status : (status'[j] = "todo" <=> status[j] = "todo")
                                 /\ (status[j] = "ended" => status'[j] = "ended")
  PROVE  BatchOrdered'
<1>1. 1..results \subseteq DOMAIN status
  BY DEF BatchTypeOK
<1>2. ASSUME NEW j \in 1..results'
      PROVE  status'[j] = "ended"
  <2>1. j \in 1..results /\ j \in DOMAIN status
    BY <1>1, <1>2
  <2> QED
    BY <2>1 DEF BatchOrdered
<1>3. ASSUME NEW i \in DOMAIN status', NEW j \in DOMAIN status', i < j, status'[j] # "todo"
      PROVE  status'[i] # "todo"
  BY <1>3 DEF BatchOrdered
<1> QED
  BY <1>2, <1>3 DEF BatchOrdered

\* Every step keeps the batch in order and within its concurrency limit.
LEMMA BatchStep ==
  ASSUME TypeInv, BatchInv, [Next]_vars
  PROVE  BatchInv'
<1> USE DEF BatchInv
<1>0. BatchTypeOK /\ BatchClosed
  BY DEF TypeInv, TypeOK, Shape
<1>1. CASE \/ Caller \/ AnnouncePrompt \/ PollSteering \/ PollFollowUp \/ InjectMessage
           \/ RequestStream \/ EmitAgentEnd \/ RunThrows \/ FinishRun \/ UNCHANGED vars
  BY <1>1, BatchUntouched, BatchFrame
<1>2. ASSUME NEW c \in Batches, NEW stop \in StopReasons, StreamEnds(c, stop)
      PROVE  BatchInv'
  <2>1. calls = <<>> /\ status = <<>> /\ results = 0 /\ turns \in Nat
    BY <1>0, <1>2 DEF StreamEnds, BatchClosed, BatchTypeOK
  <2>2. turns' = turns + 1 /\ results' = 0 /\ zombies' = zombies
    BY <1>2, <2>1 DEF StreamEnds
  <2>3. \A i \in DOMAIN status' : status'[i] = "todo"
    BY <1>2, <2>1 DEF StreamEnds
  <2>4. BatchOrdered' /\ OneAtATime'
    BY <2>2, <2>3 DEF BatchOrdered, OneAtATime
  <2>5. ZombiesOlder'
    BY <1>0, <2>1, <2>2 DEF ZombiesOlder, BatchTypeOK
  <2> QED
    BY <2>4, <2>5
<1>3. ASSUME NEW i \in DOMAIN status, PrepareCall(i) \/ RejectCall(i)
      PROVE  BatchInv'
  <2>1. PICK s \in {"prepared", "ended"} :
          status' = [status EXCEPT ![i] = s] /\ UNCHANGED <<turns, calls, results, zombies>>
    BY <1>3 DEF PrepareCall, RejectCall
  <2>2. /\ status[i] = "todo" /\ \A j \in 1..(i - 1) : status[j] # "todo"
        /\ IsSequential => results = i - 1
    BY <1>3 DEF PrepareCall, RejectCall, MayPreflight
  <2>3. i \in 1..Len(calls) /\ DOMAIN status = 1..Len(calls) /\ DOMAIN status' = 1..Len(calls)
    BY <1>0, <2>1 DEF BatchTypeOK
  <2>4. BatchOrdered'
    BY <1>0, <2>1, <2>2, <2>3 DEF BatchOrdered, BatchTypeOK
  <2>5. ASSUME IsSequential, NEW j \in DOMAIN status, j # i
        PROVE  status[j] \in {"todo", "ended"}
    <3>1. CASE j < i
      BY <2>2, <2>3, <2>5, <3>1 DEF BatchOrdered
    <3>2. CASE j > i
      BY <2>2, <2>3, <3>2 DEF BatchOrdered
    <3> QED
      BY <2>3, <2>5, <3>1, <3>2
  <2>6. OneAtATime'
    BY <2>1, <2>3, <2>5 DEF OneAtATime, IsSequential
  <2>7. ZombiesOlder'
    BY <2>1 DEF ZombiesOlder
  <2> QED
    BY <2>4, <2>6, <2>7
<1>4. CASE Launch
  <2>1. /\ status' = [i \in DOMAIN status |->
                         IF status[i] = "prepared" THEN "running" ELSE status[i]]
        /\ UNCHANGED <<turns, calls, results, zombies>>
    BY <1>4 DEF Launch
  <2>2. DOMAIN status = 1..Len(calls) /\ DOMAIN status' = DOMAIN status
    BY <1>0, <2>1 DEF BatchTypeOK
  <2>3. \A j \in DOMAIN status : (status'[j] = "todo" <=> status[j] = "todo")
                               /\ (status[j] = "ended" => status'[j] = "ended")
    BY <2>1
  <2>4. BatchOrdered'
    BY <1>0, <2>1, <2>2, <2>3, OrderKept
  <2>6. OneAtATime'
    BY <2>1, <2>2 DEF OneAtATime, IsSequential
  <2>7. ZombiesOlder'
    BY <2>1 DEF ZombiesOlder
  <2> QED
    BY <2>4, <2>6, <2>7
<1>5. ASSUME NEW i \in DOMAIN status, ToolReturns(i)
      PROVE  BatchInv'
  <2>1. status' = [status EXCEPT ![i] = "ended"] /\ UNCHANGED <<turns, calls, results, zombies>>
    BY <1>5 DEF ToolReturns, ToolEnds
  <2>2. DOMAIN status = 1..Len(calls) /\ DOMAIN status' = DOMAIN status
    BY <1>0, <2>1 DEF BatchTypeOK
  <2>3. status[i] = "running"
    BY <1>5 DEF ToolReturns, ToolEnds, Running
  <2>6. \A j \in DOMAIN status : (status'[j] = "todo" <=> status[j] = "todo")
                               /\ (status[j] = "ended" => status'[j] = "ended")
    BY <2>1, <2>3
  <2>7. BatchOrdered'
    BY <1>0, <2>1, <2>2, <2>6, OrderKept
  <2>4. OneAtATime'
    BY <2>1, <2>2 DEF OneAtATime, IsSequential
  <2>5. ZombiesOlder'
    BY <2>1 DEF ZombiesOlder
  <2> QED
    BY <2>4, <2>5, <2>7
<1>6. CASE EmitResult
  <2>1. /\ results' = results + 1 /\ results < Len(calls)
        /\ UNCHANGED <<turns, calls, status, zombies>>
    BY <1>6 DEF EmitResult
  <2>2. results + 1 \in DOMAIN status
    BY <1>0, <2>1 DEF BatchTypeOK
  <2>3. status[results + 1] = "ended"
    BY <1>6, <2>2 DEF EmitResult
  <2>4. BatchOrdered'
    BY <1>0, <2>1, <2>3 DEF BatchOrdered, BatchTypeOK
  <2>5. OneAtATime' /\ ZombiesOlder'
    BY <2>1 DEF OneAtATime, IsSequential, ZombiesOlder
  <2> QED
    BY <2>4, <2>5
<1>7. CASE EndBatch
  <2>1. calls' = <<>> /\ status' = <<>> /\ results' = 0 /\ UNCHANGED <<turns, zombies>>
    BY <1>7 DEF EndBatch
  <2>2. BatchOrdered' /\ OneAtATime'
    BY <2>1 DEF BatchOrdered, OneAtATime
  <2>3. ZombiesOlder'
    BY <2>1 DEF ZombiesOlder
  <2> QED
    BY <2>2, <2>3
<1>8. CASE HandleRunFailure
  <2>1. /\ calls' = <<>> /\ status' = <<>> /\ results' = 0 /\ turns' = turns
        /\ zombies' = zombies \cup {<<turns, i, calls[i]>> : i \in Running}
    BY <1>8 DEF HandleRunFailure
  <2>2. BatchOrdered' /\ OneAtATime'
    BY <2>1 DEF BatchOrdered, OneAtATime
  <2>3. ZombiesOlder'
    BY <1>0, <2>1 DEF ZombiesOlder, BatchTypeOK
  <2> QED
    BY <2>2, <2>3
<1>9. ASSUME NEW z \in zombies, ZombieEnds(z)
      PROVE  BatchInv'
  BY <1>9 DEF ZombieEnds, BatchOrdered, OneAtATime, IsSequential, ZombiesOlder
<1> QED
  BY <1>1, <1>2, <1>3, <1>4, <1>5, <1>6, <1>7, <1>8, <1>9 DEF Next, LoopStep, Stream

\* No batch is open at first.
LEMMA BatchInit == Init => BatchInv
BY DEF Init, BatchInv, BatchOrdered, OneAtATime, ZombiesOlder

\* Every batch is in order, and a sequential one runs one call at a time.
THEOREM BatchInvariant == Spec => []BatchInv
<1>1. TypeInv /\ BatchInv /\ [Next]_vars => BatchInv'
  BY BatchStep
<1> QED
  BY <1>1, BatchInit, TypeInvariant, PTL DEF Spec

\* A tool declared "sequential" never runs next to another of its own batch.
THEOREM SequentialToolsAlone == Spec => []SequentialToolRunsAlone
<1>1. TypeInv /\ BatchInv => SequentialToolRunsAlone
  <2> SUFFICES ASSUME TypeInv, BatchInv, NEW i \in Running, calls[i] \in SequentialTools
               PROVE  Running = {i}
    BY DEF SequentialToolRunsAlone
  <2>1. DOMAIN status = DOMAIN calls
    BY DEF TypeInv, TypeOK, BatchTypeOK
  <2>2. IsSequential
    BY <2>1 DEF IsSequential, Running
  <2> QED
    BY <2>2 DEF BatchInv, OneAtATime, Running
<1> QED
  BY <1>1, TypeInvariant, BatchInvariant, PTL

-----------------------------------------------------------------------------
\* Appending after a concatenation.
LEMMA SnocConcat ==
  ASSUME NEW t \in Seq(Message), NEW u \in Seq(Message), NEW x \in Message
  PROVE  Append(t \o u, x) = t \o Append(u, x)
BY ConcatProperties, ConcatAssociative, AppendIsConcat, AppendProperties

\* Moving the head of what follows to the end of what precedes.
LEMMA ConsConcat ==
  ASSUME NEW t \in Seq(Message), NEW u \in Seq(Message), NEW x \in Message
  PROVE  /\ <<x>> \o u \in Seq(Message) /\ Len(<<x>> \o u) = Len(u) + 1
         /\ t \o (<<x>> \o u) = Append(t, x) \o u
<1>1. <<x>> \in Seq(Message)
  BY ShortSeqType
<1>2. <<x>> \o u \in Seq(Message) /\ Len(<<x>> \o u) = Len(u) + 1
  BY <1>1, ConcatProperties
<1>3. t \o (<<x>> \o u) = Append(t, x) \o u
  BY <1>1, ConcatAssociative, AppendIsConcat
<1> QED
  BY <1>2, <1>3

\* The first prompt becomes the first message.
LEMMA UsersCons ==
  ASSUME NEW s \in Seq(UserMessages), s # <<>>
  PROVE  Users(s) = <<User(Head(s))>> \o Users(Tail(s))
<1> DEFINE x == User(Head(s))
           u == Users(Tail(s))
<1>1. /\ Tail(s) \in Seq(UserMessages) /\ Len(Tail(s)) = Len(s) - 1
      /\ Head(s) \in UserMessages /\ Head(s) = s[1]
  OBVIOUS
<1>2. x \in Message
  BY <1>1, MessageType
<1>3. u \in Seq(Message) /\ Len(u) = Len(s) - 1
  BY <1>1, UsersType
<1>4. Users(s) \in Seq(Message) /\ Len(Users(s)) = Len(s)
  BY UsersType
<1> DEFINE w == <<x>> \o u
<1>5. Len(w) = Len(s) /\ w \in Seq(Message) /\ w[1] = x /\ \A i \in 2..Len(s) : w[i] = u[i - 1]
  <2> HIDE DEF x, u
  <2> QED
    BY <1>2, <1>3, <1>4, ConsConcat
<1>6. ASSUME NEW i \in 2..Len(s)
      PROVE  u[i - 1] = User(s[i])
  <2>1. i - 1 \in 1..Len(Tail(s)) /\ Tail(s)[i - 1] = s[i]
    BY <1>1
  <2> QED
    BY <2>1 DEF Users
<1> HIDE DEF w, u
<1>7. ASSUME NEW i \in 1..Len(s)
      PROVE  Users(s)[i] = w[i]
  <2>1. Users(s)[i] = User(s[i])
    BY DEF Users
  <2>2. CASE i = 1
    BY <1>1, <1>5, <2>1, <2>2
  <2>3. CASE i \in 2..Len(s)
    BY <1>5, <1>6, <2>1, <2>3
  <2> QED
    BY <2>2, <2>3
<1>8. Users(s) = w
  BY <1>4, <1>5, <1>7, SeqEqual
<1> QED
  BY <1>8 DEF w, u

\* Announcing a prompt moves it from the prompts to the transcript.
LEMMA UsersUnfold ==
  ASSUME NEW s \in Seq(UserMessages), NEW t \in Seq(Message), s # <<>>
  PROVE  t \o Users(s) = Append(t, User(Head(s))) \o Users(Tail(s))
<1>1. Head(s) \in UserMessages /\ Tail(s) \in Seq(UserMessages)
  OBVIOUS
<1>2. User(Head(s)) \in Message /\ Users(Tail(s)) \in Seq(Message)
  BY <1>1, MessageType, UsersType
<1>3. Users(s) = <<User(Head(s))>> \o Users(Tail(s))
  BY UsersCons
<1>4. t \o (<<User(Head(s))>> \o Users(Tail(s))) = Append(t, User(Head(s))) \o Users(Tail(s))
  BY <1>2, ConsConcat
<1> QED
  BY <1>3, <1>4

\* Without prompts and without results there is nothing to add.
LEMMA NothingToAdd ==
  ASSUME NEW t \in Seq(Message), NEW n \in Nat
  PROVE  t \o Users(<<>>) = t /\ t \o BatchResults(n, 0) = t
<1>1. Users(<<>>) = <<>>
  BY DEF Users
<1>2. BatchResults(n, 0) = <<>>
  BY DEF BatchResults
<1> QED
  BY <1>1, <1>2, ConcatEmptySeq

\* Emitting a result adds it to the results the context still lacks.
LEMMA ResultsUnfold ==
  ASSUME NEW t \in Seq(Message), NEW n \in Nat, NEW k \in Nat
  PROVE  Append(t \o BatchResults(n, k), ToolResult(n, k + 1)) = t \o BatchResults(n, k + 1)
<1>1. BatchResults(n, k) \in Seq(Message)
  BY ResultsType
<1>2. ToolResult(n, k + 1) \in Message
  BY MessageType
<1>3. Append(BatchResults(n, k), ToolResult(n, k + 1)) = BatchResults(n, k + 1)
  BY DEF BatchResults
<1> QED
  BY <1>1, <1>2, <1>3, SnocConcat

-----------------------------------------------------------------------------
\* Steps that neither grow the transcript nor move the loop.
LEMMA ContextFrame ==
  ASSUME ContextCopied, torn' = torn,
         UNCHANGED <<pc, prompts, ctx, messages, turns, results>>
  PROVE  ContextCopied'
BY DEF ContextCopied

\* Every step keeps the loop's context where it belongs.
LEMMA ContextStep ==
  ASSUME TypeInv, ContextCopied, [Next]_vars
  PROVE  ContextCopied'
<1>0. /\ messages \in Seq(Message) /\ ctx \in Seq(Message) /\ prompts \in Seq(UserMessages)
      /\ turns \in Nat /\ results \in Nat /\ Len(calls) \in Nat /\ BatchClosed /\ RunRegistered
  BY DEF TypeInv, TypeOK, AgentTypeOK, LoopTypeOK, BatchTypeOK, Shape
<1>1. ASSUME NEW p, NEW skip, StartRun(p, skip)
      PROVE  ContextCopied'
  BY <1>1 DEF StartRun, ContextCopied
<1>2. CASE \/ \E m \in UserMessages : Prompt(m)
           \/ ContinueFromQueue \/ ContinueFromContext
  BY <1>1, <1>2 DEF Prompt, ContinueFromQueue, ContinueFromContext
<1>3. CASE \/ \E m \in UserMessages : Steer(m) \/ FollowUp(m)
           \/ ClearSteeringQueue \/ ClearFollowUpQueue \/ Abort
  BY <1>3, ContextFrame DEF Steer, FollowUp, ClearSteeringQueue, ClearFollowUpQueue, Abort,
                            loopVars, batchVars, ghostVars
<1>4. CASE Reset
  <2>1. torn' = (activeRun # "none") /\ pc' = pc
    BY <1>4 DEF Reset, loopVars
  <2> QED
    BY <1>0, <2>1 DEF ContextCopied, RunRegistered
<1>5. CASE AnnouncePrompt
  <2>1. /\ pc = "start" /\ prompts # <<>> /\ messages' = Append(messages, User(Head(prompts)))
        /\ prompts' = Tail(prompts) /\ UNCHANGED <<pc, ctx, torn>>
    BY <1>5 DEF AnnouncePrompt, ghostVars
  <2>2. messages \o Users(prompts) = messages' \o Users(prompts')
    BY <1>0, <2>1, UsersUnfold
  <2> QED
    BY <2>1, <2>2 DEF ContextCopied
<1>6. CASE PollSteering
  <2>1. /\ pc = "turnEnd" \/ (pc = "start" /\ prompts = <<>>)
        /\ UNCHANGED <<messages, ctx, torn>>
    BY <1>6 DEF PollSteering, ghostVars
  <2>2. ~torn => ctx = messages
    BY <1>0, <1>6, <2>1, NothingToAdd DEF PollSteering, ContextCopied
  <2>3. pc' \in {"inject", "followUp"}
    BY <1>6 DEF PollSteering
  <2> QED
    BY <2>1, <2>2, <2>3 DEF ContextCopied
<1>7. CASE PollFollowUp \/ RequestStream \/ EmitAgentEnd \/ RunThrows
  BY <1>7 DEF PollFollowUp, RequestStream, EmitAgentEnd, RunThrows, ContextCopied,
              agentVars, ghostVars
<1>8. CASE InjectMessage
  BY <1>8 DEF InjectMessage, ContextCopied, ghostVars
<1>9. ASSUME NEW c \in Batches, NEW stop \in StopReasons, StreamEnds(c, stop)
      PROVE  ContextCopied'
  <2>1. /\ pc \in {"stream", "doomed"} /\ pc' \in {"tools", "turnEnd", "agentEnd"}
        /\ messages' = Append(messages, Assistant(turns + 1, c, stop))
        /\ ctx' = Append(ctx, Assistant(turns + 1, c, stop))
        /\ turns' = turns + 1 /\ UNCHANGED <<torn, results>>
    BY <1>9 DEF StreamEnds, ghostVars
  <2>2. ~torn => ctx' = messages'
    BY <2>1 DEF ContextCopied
  <2>3. results' = 0 /\ turns' \in Nat
    BY <1>0, <2>1 DEF BatchClosed
  <2>4. messages' \in Seq(Message) /\ ctx' \in Seq(Message)
    BY <1>9, StreamStepType DEF TypeInv, TypeOK, AgentTypeOK, LoopTypeOK
  <2>5. ctx' \o BatchResults(turns', results') = ctx'
    BY <2>3, <2>4, NothingToAdd
  <2> QED
    BY <2>1, <2>2, <2>5 DEF ContextCopied
<1>10. ASSUME NEW i \in DOMAIN status, PrepareCall(i) \/ RejectCall(i) \/ ToolReturns(i)
       PROVE  ContextCopied'
  BY <1>10 DEF PrepareCall, RejectCall, ToolReturns, ToolEnds, ContextCopied, loopVars, ghostVars
<1>11. CASE Launch \/ \E z \in zombies : ZombieEnds(z)
  BY <1>11, ContextFrame DEF Launch, ZombieEnds, agentVars, loopVars, ghostVars
<1>12. CASE EmitResult
  <2>1. /\ pc = "tools" /\ messages' = Append(messages, ToolResult(turns, results + 1))
        /\ results' = results + 1 /\ UNCHANGED <<pc, ctx, turns, torn>>
    BY <1>12 DEF EmitResult, loopVars, ghostVars
  <2>2. Append(ctx \o BatchResults(turns, results), ToolResult(turns, results + 1))
          = ctx \o BatchResults(turns, results + 1)
    BY <1>0, ResultsUnfold
  <2> QED
    BY <2>1, <2>2 DEF ContextCopied
<1>13. CASE EndBatch
  BY <1>13 DEF EndBatch, ContextCopied, agentVars, ghostVars
<1>14. CASE HandleRunFailure \/ FinishRun
  BY <1>14 DEF HandleRunFailure, FinishRun, ContextCopied, ghostVars
<1>15. CASE UNCHANGED vars
  BY <1>15, ContextFrame DEF vars, agentVars, loopVars, batchVars, ghostVars
<1> QED
  BY <1>2, <1>3, <1>4, <1>5, <1>6, <1>7, <1>8, <1>9, <1>10, <1>11, <1>12, <1>13, <1>14, <1>15
     DEF Next, Caller, LoopStep, Stream

\* The context the model is about to be sent is the transcript the API shows,
\* whatever was steered, queued, aborted or thrown before, unless reset() was
\* called in the middle of this run.
THEOREM ContextAlwaysInSync == Spec => []ContextInSync
<1>1. Init => ContextCopied
  BY DEF Init, ContextCopied
<1>2. TypeInv /\ ContextCopied /\ [Next]_vars => ContextCopied'
  BY ContextStep
<1>3. ContextCopied => ContextInSync
  BY DEF ContextCopied, ContextInSync
<1> QED
  BY <1>1, <1>2, <1>3, TypeInvariant, PTL DEF Spec

-----------------------------------------------------------------------------
\* Steps that touch neither the pending ids nor the batch, and that do not bring
\* a run out of its failure.
LEMMA PendingFrame ==
  ASSUME PendingExact, UNCHANGED <<pendingToolCalls, status, turns>>,
         \/ pc' \in {"failed", "finish"}
         \/ pc = "idle"
         \/ torn' = torn /\ pc \notin {"failed", "finish"} /\ pc' # "idle"
         \/ torn' /\ pc' # "idle"
  PROVE  PendingExact'
<1>1. {CallId(i) : i \in OpenCalls}' = {CallId(i) : i \in OpenCalls}
  BY DEF OpenCalls, CallId
<1> QED
  BY <1>1 DEF PendingExact

\* Without an open batch no call is pending.
LEMMA NothingOpen ==
  ASSUME status = <<>>
  PROVE  {CallId(i) : i \in OpenCalls} = {}
BY DEF OpenCalls

\* Every step keeps the pending ids exact.
LEMMA PendingStep ==
  ASSUME TypeInv, BatchInv, PendingExact, [Next]_vars
  PROVE  PendingExact'
<1>0. BatchTypeOK /\ BatchClosed /\ RunRegistered
  BY DEF TypeInv, TypeOK, Shape
<1>1. CASE \/ \E m \in UserMessages : Prompt(m)
           \/ ContinueFromQueue \/ ContinueFromContext
  <2>1. pc = "idle" /\ UNCHANGED <<pendingToolCalls, status, turns>>
    BY <1>0, <1>1 DEF Prompt, ContinueFromQueue, ContinueFromContext, StartRun, RunRegistered,
                      batchVars
  <2> QED
    BY <2>1, PendingFrame
<1>2. CASE \/ \E m \in UserMessages : Steer(m) \/ FollowUp(m)
           \/ ClearSteeringQueue \/ ClearFollowUpQueue \/ Abort \/ UNCHANGED vars
  <2>1. UNCHANGED <<pendingToolCalls, status, turns, pc, torn>>
    BY <1>2 DEF Steer, FollowUp, ClearSteeringQueue, ClearFollowUpQueue, Abort, vars, agentVars,
                loopVars, batchVars, ghostVars
  <2> QED
    BY <2>1, PendingFrame
<1>3. CASE Reset
  <2>1. /\ pendingToolCalls' = {} /\ torn' = (activeRun # "none")
        /\ UNCHANGED <<pc, status, turns>>
    BY <1>3 DEF Reset, loopVars, batchVars
  <2>2. CASE pc = "idle"
    <3>1. status' = <<>>
      BY <1>0, <2>1, <2>2 DEF BatchClosed
    <3>2. {CallId(i) : i \in OpenCalls}' = {}
      BY <3>1 DEF OpenCalls
    <3> QED
      BY <2>1, <3>2 DEF PendingExact
  <2>3. CASE pc # "idle"
    BY <1>0, <2>1, <2>3 DEF PendingExact, RunRegistered
  <2> QED
    BY <2>2, <2>3
<1>4. CASE \/ AnnouncePrompt \/ PollSteering \/ PollFollowUp \/ InjectMessage \/ RequestStream
           \/ EmitAgentEnd
  <2>1. /\ UNCHANGED <<pendingToolCalls, status, turns, torn>>
        /\ pc \notin {"failed", "finish"} /\ pc' # "idle"
    BY <1>4 DEF AnnouncePrompt, PollSteering, PollFollowUp, InjectMessage, RequestStream,
                EmitAgentEnd, agentVars, batchVars, ghostVars
  <2> QED
    BY <2>1, PendingFrame
<1>5. ASSUME NEW c \in Batches, NEW stop \in StopReasons, StreamEnds(c, stop)
      PROVE  PendingExact'
  <2>1. /\ pc \in {"stream", "doomed"} /\ pc' \in {"tools", "turnEnd", "agentEnd"}
        /\ UNCHANGED <<pendingToolCalls, torn>>
    BY <1>5 DEF StreamEnds, ghostVars
  <2>2. status = <<>>
    BY <1>0, <2>1 DEF BatchClosed
  <2>3. \A i \in DOMAIN status' : status'[i] = "todo"
    BY <1>5, <2>2 DEF StreamEnds
  <2>4. {CallId(i) : i \in OpenCalls}' = {}
    BY <2>3 DEF OpenCalls
  <2> QED
    BY <2>1, <2>2, <2>4, NothingOpen DEF PendingExact
<1>6. ASSUME NEW i \in DOMAIN status, PrepareCall(i) \/ RejectCall(i)
      PROVE  PendingExact'
  <2>1. status[i] = "todo" /\ UNCHANGED <<turns, torn, pc>> /\ pc = "tools"
    BY <1>6 DEF PrepareCall, RejectCall, MayPreflight, loopVars, ghostVars
  <2>2. CASE PrepareCall(i)
    <3>1. OpenCalls' = OpenCalls \cup {i}
      BY <2>2 DEF PrepareCall, OpenCalls
    <3>2. {CallId(j) : j \in OpenCalls}' = {CallId(j) : j \in OpenCalls} \cup {CallId(i)}
      BY <2>1, <3>1 DEF CallId
    <3> QED
      BY <2>1, <2>2, <3>2 DEF PendingExact, PrepareCall
  <2>3. CASE RejectCall(i)
    <3>1. OpenCalls' = OpenCalls /\ i \notin OpenCalls
      BY <2>1, <2>3 DEF RejectCall, OpenCalls
    <3>2. {CallId(j) : j \in OpenCalls}' = {CallId(j) : j \in OpenCalls} \ {CallId(i)}
      BY <2>1, <3>1 DEF CallId
    <3> QED
      BY <2>1, <2>3, <3>2 DEF PendingExact, RejectCall
  <2> QED
    BY <1>6, <2>2, <2>3
<1>7. CASE Launch
  <2>1. OpenCalls' = OpenCalls
    BY <1>7 DEF Launch, OpenCalls
  <2>2. {CallId(j) : j \in OpenCalls}' = {CallId(j) : j \in OpenCalls}
    BY <1>7, <2>1 DEF CallId, Launch
  <2> QED
    BY <1>7, <2>2 DEF Launch, PendingExact, agentVars, loopVars, ghostVars
<1>8. ASSUME NEW i \in DOMAIN status, ToolReturns(i)
      PROVE  PendingExact'
  <2>1. /\ pc \in {"tools", "failed"} /\ pc' \in {pc, "failed"} /\ UNCHANGED <<turns, torn>>
        /\ status[i] = "running" /\ status' = [status EXCEPT ![i] = "ended"]
        /\ pc' = "failed" \/ pendingToolCalls' = pendingToolCalls \ {CallId(i)}
    BY <1>8 DEF ToolReturns, ToolEnds, Running
  <2>2. OpenCalls' = OpenCalls \ {i}
    BY <2>1 DEF OpenCalls
  <2>3. {CallId(j) : j \in OpenCalls}' = {CallId(j) : j \in OpenCalls} \ {CallId(i)}
    BY <2>1, <2>2 DEF CallId
  <2> QED
    BY <2>1, <2>3 DEF PendingExact
<1>9. CASE EmitResult
  <2>1. /\ UNCHANGED <<pendingToolCalls, status, turns, torn, pc>>
        /\ pc = "tools"
    BY <1>9 DEF EmitResult, loopVars, ghostVars
  <2> QED
    BY <2>1, PendingFrame
<1>10. CASE EndBatch
  <2>1. /\ pc = "tools" /\ pc' = "turnEnd" /\ results = Len(calls) /\ status' = <<>>
        /\ UNCHANGED <<pendingToolCalls, torn>>
    BY <1>10 DEF EndBatch, agentVars, ghostVars
  <2>2. \A i \in DOMAIN status : status[i] = "ended"
    BY <1>0, <2>1 DEF BatchTypeOK, BatchInv, BatchOrdered
  <2>3. {CallId(i) : i \in OpenCalls} = {}
    BY <2>2 DEF OpenCalls
  <2>4. {CallId(i) : i \in OpenCalls}' = {}
    BY <2>1 DEF OpenCalls
  <2> QED
    BY <2>1, <2>3, <2>4 DEF PendingExact
<1>11. CASE RunThrows \/ HandleRunFailure
  BY <1>11 DEF RunThrows, HandleRunFailure, PendingExact
<1>12. CASE FinishRun
  <2>1. pendingToolCalls' = {} /\ status' = status /\ pc \in {"settling", "finish"}
    BY <1>12 DEF FinishRun, batchVars
  <2>2. status' = <<>>
    BY <1>0, <2>1 DEF BatchClosed
  <2>3. {CallId(i) : i \in OpenCalls}' = {}
    BY <2>2 DEF OpenCalls
  <2> QED
    BY <2>1, <2>3 DEF PendingExact
<1>13. ASSUME NEW z \in zombies, ZombieEnds(z)
       PROVE  PendingExact'
  <2>1. /\ pendingToolCalls' = pendingToolCalls \ {<<z[1], z[2]>>}
        /\ UNCHANGED <<turns, calls, status, pc, torn>>
    BY <1>13 DEF ZombieEnds, loopVars, ghostVars
  <2>2. ASSUME NEW i \in OpenCalls
        PROVE  CallId(i) # <<z[1], z[2]>>
    <3>1. calls # <<>>
      BY <1>0 DEF OpenCalls, BatchTypeOK
    <3>2. z[1] < turns /\ turns \in Nat
      BY <1>0, <3>1 DEF BatchInv, ZombiesOlder, BatchTypeOK
    <3>3. z[1] # turns
      BY <1>0, <3>2 DEF BatchTypeOK
    <3> QED
      BY <3>3 DEF CallId
  <2>3. {CallId(i) : i \in OpenCalls}' = {CallId(i) : i \in OpenCalls}
    BY <2>1 DEF OpenCalls, CallId
  <2> QED
    BY <2>1, <2>2, <2>3 DEF PendingExact
<1> QED
  BY <1>1, <1>2, <1>3, <1>4, <1>5, <1>6, <1>7, <1>8, <1>9, <1>10, <1>11, <1>12, <1>13
     DEF Next, Caller, LoopStep, Stream

\* pendingToolCalls is exactly the set of announced and unfinished calls: no
\* abort, failure, or late end of a tool of a dead run makes it wrong.
THEOREM PendingCallsAlwaysExact == Spec => []PendingCallsExact
<1>1. Init => PendingExact
  BY DEF Init, PendingExact, OpenCalls
<1>2. TypeInv /\ BatchInv /\ PendingExact /\ [Next]_vars => PendingExact'
  BY PendingStep
<1>3. PendingExact => PendingCallsExact
  BY DEF PendingExact, PendingCallsExact, OpenCalls
<1> QED
  BY <1>1, <1>2, <1>3, TypeInvariant, BatchInvariant, PTL DEF Spec

-----------------------------------------------------------------------------
(***************************************************************************)
(* EachMessageOnce, by counting: the occurrences of a message in the queues, *)
(* the locals, the transcript and gone always add up to one.                 *)
(***************************************************************************)

\* How often an element occurs in a sequence, and how that changes.
LEMMA CountType ==
  ASSUME NEW S, NEW s \in Seq(S), NEW x
  PROVE  /\ IsFiniteSet({i \in DOMAIN s : s[i] = x})
         /\ Count(s, x) \in Nat
         /\ Count(s, x) = 0 <=> x \notin Range(s)
<1> DEFINE at == {i \in DOMAIN s : s[i] = x}
<1>1. DOMAIN s = 1..Len(s) /\ Len(s) \in Nat
  BY LenProperties
<1>2. IsFiniteSet(DOMAIN s)
  BY <1>1, FS_Interval
<1>3. at \in SUBSET DOMAIN s
  OBVIOUS
<1> HIDE DEF at
<1>4. IsFiniteSet(at)
  BY <1>2, <1>3, FS_Subset
<1>5. Cardinality(at) \in Nat /\ (Cardinality(at) = 0 <=> at = {})
  BY <1>4, FS_CardinalityType, FS_EmptySet
<1>6. at = {} <=> x \notin Range(s)
  BY DEF at, Range
<1> QED BY <1>4, <1>5, <1>6 DEF Count, at

LEMMA CountNone == \A x : Count(<<>>, x) = 0
<1> SUFFICES ASSUME NEW x PROVE Count(<<>>, x) = 0
  OBVIOUS
<1>1. {i \in DOMAIN <<>> : <<>>[i] = x} = {}
  OBVIOUS
<1> QED BY <1>1, FS_EmptySet DEF Count

LEMMA CountAppend ==
  ASSUME NEW S, NEW s \in Seq(S), NEW y \in S, NEW x
  PROVE  /\ y = x => Count(Append(s, y), x) = Count(s, x) + 1
         /\ y # x => Count(Append(s, y), x) = Count(s, x)
<1> DEFINE t == Append(s, y)
           at == {i \in DOMAIN s : s[i] = x}
           then == {i \in DOMAIN t : t[i] = x}
           n == Len(s) + 1
<1>1. /\ DOMAIN s = 1..Len(s) /\ Len(s) \in Nat
      /\ t \in Seq(S) /\ Len(t) = n /\ t[n] = y
      /\ \A i \in 1..Len(s) : t[i] = s[i]
  BY LenProperties, AppendProperties
<1>2. DOMAIN t = 1..n
  BY <1>1, LenProperties
<1>7. Count(s, x) = Cardinality(at) /\ Count(t, x) = Cardinality(then)
  BY DEF Count
<1> HIDE DEF t
<1>3. 1..n = 1..Len(s) \cup {n} /\ n \notin 1..Len(s)
  BY <1>1
<1>4. IsFiniteSet(at) /\ Cardinality(at) \in Nat
  BY CountType, FS_CardinalityType
<1>5. CASE y = x
  <2>1. then = at \cup {n} /\ n \notin at
    BY <1>1, <1>2, <1>3, <1>5
  <2> HIDE DEF then, at, n
  <2>2. Cardinality(then) = Cardinality(at) + 1
    BY <1>4, <2>1, FS_AddElement
  <2> QED BY <1>5, <1>7, <2>2 DEF t
<1>6. CASE y # x
  <2>1. then = at
    BY <1>1, <1>2, <1>3, <1>6
  <2> HIDE DEF then, at
  <2> QED BY <1>6, <1>7, <2>1 DEF t
<1> QED BY <1>5, <1>6

LEMMA CountOne ==
  ASSUME NEW S, NEW y \in S, NEW x
  PROVE  /\ y = x => Count(<<y>>, x) = 1
         /\ y # x => Count(<<y>>, x) = 0
<1> DEFINE none == <<>>
<1>1. none \in Seq(S) /\ Append(none, y) = <<y>>
  OBVIOUS
<1>2. Count(none, x) = 0
  BY CountNone
<1> HIDE DEF none
<1>3. /\ y = x => Count(Append(none, y), x) = Count(none, x) + 1
      /\ y # x => Count(Append(none, y), x) = Count(none, x)
  BY <1>1, CountAppend
<1> QED BY <1>1, <1>2, <1>3

\* Without its first element the occurrences move up by one.
LEMMA CountTail ==
  ASSUME NEW S, NEW s \in Seq(S), s # <<>>, NEW x
  PROVE  /\ Head(s) = x => Count(s, x) = Count(Tail(s), x) + 1
         /\ Head(s) # x => Count(s, x) = Count(Tail(s), x)
<1> DEFINE t == Tail(s)
           at == {i \in DOMAIN t : t[i] = x}
           moved == {i \in 2..Len(s) : s[i] = x}
           before == {i \in DOMAIN s : s[i] = x}
           shift == [i \in at |-> i + 1]
<1>1. DOMAIN s = 1..Len(s) /\ Len(s) \in Nat /\ Len(s) # 0
  BY LenProperties, EmptySeq
<1>2. /\ t \in Seq(S) /\ Len(t) = Len(s) - 1
      /\ \A i \in 1..Len(t) : t[i] = s[i + 1]
      /\ Head(s) = s[1]
  BY HeadTailProperties
<1>3. DOMAIN t = 1..Len(t)
  BY <1>2, LenProperties
<1>9. Count(s, x) = Cardinality(before) /\ Count(t, x) = Cardinality(at)
  BY DEF Count
<1> HIDE DEF t
<1>4. IsFiniteSet(at) /\ Cardinality(at) \in Nat
  <2>1. IsFiniteSet(at)
    BY <1>2, CountType
  <2> HIDE DEF at
  <2> QED BY <2>1, FS_CardinalityType
<1>5. shift \in Bijection(at, moved)
  <2>1. ASSUME NEW i \in at PROVE i + 1 \in moved /\ i \in Nat
    BY <1>1, <1>2, <1>3, <2>1
  <2>2. shift \in [at -> moved]
    BY <2>1
  <2>3. \A i, j \in at : shift[i] = shift[j] => i = j
    <3> SUFFICES ASSUME NEW i \in at, NEW j \in at, shift[i] = shift[j] PROVE i = j
      OBVIOUS
    <3>1. i + 1 = j + 1 /\ i \in Nat /\ j \in Nat
      BY <2>1
    <3> QED BY <3>1
  <2>4. \A k \in moved : \E i \in at : shift[i] = k
    <3> SUFFICES ASSUME NEW k \in moved PROVE \E i \in at : shift[i] = k
      OBVIOUS
    <3>1. k - 1 \in 1..Len(t) /\ (k - 1) + 1 = k
      BY <1>1, <1>2
    <3>2. k - 1 \in at
      BY <1>2, <1>3, <3>1
    <3> QED BY <3>1, <3>2
  <2> HIDE DEF shift
  <2>5. shift \in Injection(at, moved)
    BY <2>2, <2>3, Fun_IsInj
  <2>6. shift \in Surjection(at, moved)
    BY <2>2, <2>4, Fun_IsSurj
  <2> QED BY <2>5, <2>6 DEF Bijection
<1>6. IsFiniteSet(moved) /\ Cardinality(moved) = Cardinality(at)
  <2> HIDE DEF at, moved, shift
  <2>1. ExistsBijection(at, moved)
    BY <1>5 DEF ExistsBijection
  <2> QED BY <1>4, <2>1, FS_Bijection
<1>7. CASE Head(s) = x
  <2>1. before = moved \cup {1} /\ 1 \notin moved
    BY <1>1, <1>2, <1>7
  <2> HIDE DEF before, moved
  <2>2. Cardinality(before) = Cardinality(moved) + 1
    BY <1>6, <2>1, FS_AddElement
  <2> QED BY <1>6, <1>7, <1>9, <2>2 DEF t
<1>8. CASE Head(s) # x
  <2>1. before = moved
    BY <1>1, <1>2, <1>8
  <2> HIDE DEF before, moved, at
  <2> QED BY <1>6, <1>8, <1>9, <2>1 DEF t
<1> QED BY <1>7, <1>8

\* drain() splits a queue: a message is in what it takes or in what it leaves.
LEMMA CountDrain ==
  ASSUME NEW S, NEW s \in Seq(S), NEW mode, NEW x
  PROVE  Count(s, x) = Count(Drained(s, mode), x) + Count(Kept(s, mode), x)
<1>1. Count(s, x) \in Nat /\ Count(<<>>, x) = 0
  BY CountType, CountNone
<1>2. CASE mode = "all"
  BY <1>1, <1>2 DEF Drained, Kept
<1>3. CASE mode # "all" /\ s = <<>>
  <2>1. Drained(s, mode) = <<>> /\ Kept(s, mode) = <<>>
    BY <1>3 DEF Drained, Kept
  <2> QED BY <1>1, <1>3, <2>1
<1>4. CASE mode # "all" /\ s # <<>>
  <2> DEFINE h == Head(s)
  <2>1. Drained(s, mode) = <<h>> /\ Kept(s, mode) = Tail(s) /\ h \in S /\ Tail(s) \in Seq(S)
    <3>1. Len(s) \in Nat /\ Len(s) >= 1
      BY <1>4, LenProperties, EmptySeq
    <3>2. SubSeq(s, 1, 1) = <<h>>
      <4> DEFINE first == SubSeq(s, 1, 1)
                 only == <<h>>
      <4>1. h = s[1] /\ h \in S
        BY <1>4, HeadTailProperties
      <4>2. \A i \in 1..1 : s[i] \in S
        BY <3>1, ElementOfSeq
      <4>3. first \in Seq(S) /\ Len(first) = 1 /\ first[1] = s[1]
        BY <4>2, SubSeqProperties
      <4>4. only \in Seq(S) /\ Len(only) = 1 /\ only[1] = h
        BY <4>1
      <4> HIDE DEF first, only, h
      <4>5. \A i \in 1..Len(first) : first[i] = only[i]
        BY <4>1, <4>3, <4>4
      <4>6. first = only
        BY <4>3, <4>4, <4>5, SeqEqual
      <4> QED BY <4>6 DEF first, only
    <3>3. h \in S /\ Tail(s) \in Seq(S)
      BY <1>4
    <3>4. Drained(s, mode) = SubSeq(s, 1, 1) /\ Kept(s, mode) = Tail(s)
      BY <1>4 DEF Drained, Kept
    <3> QED BY <3>2, <3>3, <3>4
  <2>2. /\ h = x => Count(s, x) = Count(Tail(s), x) + 1
        /\ h # x => Count(s, x) = Count(Tail(s), x)
    BY <1>4, CountTail
  <2> HIDE DEF h
  <2>3. /\ h = x => Count(<<h>>, x) = 1
        /\ h # x => Count(<<h>>, x) = 0
    BY <2>1, CountOne
  <2>4. Count(Tail(s), x) \in Nat
    BY <2>1, CountType
  <2> QED BY <2>1, <2>2, <2>3, <2>4
<1> QED BY <1>2, <1>3, <1>4

\* The counts of EachMessageOnce are numbers, and zero is absence.
LEMMA CountsType ==
  ASSUME TypeOK, NEW m \in UserMessages
  PROVE  /\ Count(steeringQueue, m) \in Nat /\ Count(followUpQueue, m) \in Nat
         /\ Count(prompts, m) \in Nat /\ Count(pendingMessages, m) \in Nat
         /\ Count(messages, User(m)) \in Nat
         /\ Count(steeringQueue, m) = 0 <=> m \notin Range(steeringQueue)
         /\ Count(followUpQueue, m) = 0 <=> m \notin Range(followUpQueue)
         /\ Count(prompts, m) = 0 <=> m \notin Range(prompts)
         /\ Count(pendingMessages, m) = 0 <=> m \notin Range(pendingMessages)
         /\ Count(messages, User(m)) = 0 <=> User(m) \notin Range(messages)
<1>1. /\ steeringQueue \in Seq(UserMessages) /\ followUpQueue \in Seq(UserMessages)
      /\ prompts \in Seq(UserMessages) /\ pendingMessages \in Seq(UserMessages)
      /\ messages \in Seq(Message)
  BY DEF TypeOK, AgentTypeOK, LoopTypeOK
<1> QED BY <1>1, CountType

\* A user message is announced once; what the model and the tools say is none.
LEMMA CountMessages ==
  ASSUME messages \in Seq(Message), NEW m \in UserMessages
  PROVE  /\ \A k \in UserMessages :
              /\ k = m => Count(Append(messages, User(k)), User(m)) = Count(messages, User(m)) + 1
              /\ k # m => Count(Append(messages, User(k)), User(m)) = Count(messages, User(m))
         /\ \A x \in Message : x.role # "user" =>
              Count(Append(messages, x), User(m)) = Count(messages, User(m))
<1>1. ASSUME NEW k \in UserMessages
      PROVE  /\ k = m => Count(Append(messages, User(k)), User(m)) = Count(messages, User(m)) + 1
             /\ k # m => Count(Append(messages, User(k)), User(m)) = Count(messages, User(m))
  <2>1. User(k) \in Message /\ (k = m <=> User(k) = User(m))
    BY DEF User, Message
  <2> DEFINE y == User(k)
             x == User(m)
  <2> HIDE DEF x, y
  <2>2. /\ y = x => Count(Append(messages, y), x) = Count(messages, x) + 1
        /\ y # x => Count(Append(messages, y), x) = Count(messages, x)
    BY <2>1, CountAppend DEF y
  <2> QED BY <2>1, <2>2 DEF x, y
<1>2. ASSUME NEW y \in Message, y.role # "user"
      PROVE  Count(Append(messages, y), User(m)) = Count(messages, User(m))
  <2> DEFINE x == User(m)
  <2>1. y # x
    BY <1>2 DEF User
  <2> HIDE DEF x
  <2>2. y # x => Count(Append(messages, y), x) = Count(messages, x)
    BY CountAppend
  <2> QED BY <2>1, <2>2 DEF x
<1> QED BY <1>1, <1>2

\* The prompts of a run are gone from its locals once they are announced, and so
\* are the messages a poll has drained.
LocalsEmpty ==
  /\ pc \notin {"start", "failed"} => prompts = <<>>
  /\ pc \notin {"inject", "failed"} => pendingMessages = <<>>

OnceInv == EachMessageOnce /\ LocalsEmpty

\* Where a message may be, in the next state.
LEMMA OnceNext ==
  ASSUME \A m \in UserMessages :
           Count(steeringQueue', m) + Count(followUpQueue', m) + Count(prompts', m)
             + Count(pendingMessages', m) + Count(messages', User(m))
             + (IF m \in gone' THEN 1 ELSE 0)
             = IF m \in fresh' THEN 0 ELSE 1
  PROVE  EachMessageOnce'
BY DEF EachMessageOnce, Count, User

\* Whoever moves no message keeps every message in its place.
LEMMA OnceFrame ==
  ASSUME EachMessageOnce,
         UNCHANGED <<steeringQueue, followUpQueue, prompts, pendingMessages, gone, fresh>>,
         \A m \in UserMessages : Count(messages', User(m)) = Count(messages, User(m))
  PROVE  EachMessageOnce'
<1>1. \A m \in UserMessages :
           Count(steeringQueue', m) + Count(followUpQueue', m) + Count(prompts', m)
             + Count(pendingMessages', m) + Count(messages', User(m))
             + (IF m \in gone' THEN 1 ELSE 0)
             = IF m \in fresh' THEN 0 ELSE 1
  BY DEF EachMessageOnce
<1> QED BY <1>1, OnceNext

LEMMA LocalsStep ==
  ASSUME TypeInv, LocalsEmpty, [Next]_vars
  PROVE  LocalsEmpty'
<1> USE DEF LocalsEmpty
<1>0. steeringQueue \in Seq(UserMessages) /\ followUpQueue \in Seq(UserMessages) /\ RunRegistered
  BY DEF TypeInv, TypeOK, AgentTypeOK, Shape
<1>1. CASE UNCHANGED vars
  BY <1>1 DEF vars, loopVars
<1>2. ASSUME NEW p, NEW skip, StartRun(p, skip)
      PROVE  LocalsEmpty'
  BY <1>2 DEF StartRun
<1>3. CASE \/ \E m \in UserMessages : Prompt(m)
           \/ ContinueFromQueue \/ ContinueFromContext
  BY <1>2, <1>3 DEF Prompt, ContinueFromQueue, ContinueFromContext
<1>4. CASE \/ \E m \in UserMessages : Steer(m) \/ FollowUp(m)
           \/ ClearSteeringQueue \/ ClearFollowUpQueue \/ Abort \/ Reset
  BY <1>4 DEF Steer, FollowUp, ClearSteeringQueue, ClearFollowUpQueue, Abort, Reset, loopVars
<1>5. CASE AnnouncePrompt \/ InjectMessage
  BY <1>5 DEF AnnouncePrompt, InjectMessage
<1>6. CASE PollSteering
  <2>1. /\ pc \in {"turnEnd", "start"} /\ (pc = "start" => prompts = <<>>)
        /\ pc' \in {"inject", "followUp"} /\ prompts' = prompts
        /\ pc' = "followUp" => pendingMessages' = <<>>
    BY <1>6 DEF PollSteering
  <2> QED BY <2>1
<1>7. CASE PollFollowUp
  <2>1. /\ pc = "followUp" /\ pc' \in {"inject", "agentEnd"} /\ prompts' = prompts
        /\ pc' = "agentEnd" => followUpQueue = <<>>
        /\ pendingMessages' = Drained(followUpQueue, FollowUpMode)
    BY <1>7 DEF PollFollowUp
  <2>2. followUpQueue = <<>> => Drained(followUpQueue, FollowUpMode) = <<>>
    BY DEF Drained
  <2> QED BY <2>1, <2>2
<1>8. CASE RequestStream \/ EmitResult \/ EndBatch \/ Launch \/ EmitAgentEnd
           \/ RunThrows \/ HandleRunFailure \/ FinishRun
  BY <1>8 DEF RequestStream, EmitResult, EndBatch, Launch, EmitAgentEnd, RunThrows,
              HandleRunFailure, FinishRun, loopVars
<1>9. ASSUME NEW c \in Batches, NEW stop \in StopReasons, StreamEnds(c, stop)
      PROVE  LocalsEmpty'
  <2>1. /\ pc \in {"stream", "doomed"} /\ pc' \in {"tools", "turnEnd", "agentEnd"}
        /\ UNCHANGED <<prompts, pendingMessages>>
    BY <1>9 DEF StreamEnds
  <2> QED BY <2>1
<1>10. ASSUME NEW i \in DOMAIN status, PrepareCall(i) \/ RejectCall(i)
       PROVE  LocalsEmpty'
  BY <1>10 DEF PrepareCall, RejectCall, loopVars
<1>11. ASSUME NEW i \in DOMAIN status, ToolReturns(i)
       PROVE  LocalsEmpty'
  <2>1. pc' \in {pc, "failed"} /\ UNCHANGED <<prompts, pendingMessages>>
    BY <1>11 DEF ToolReturns, ToolEnds
  <2> QED BY <2>1
<1>12. ASSUME NEW z \in zombies, ZombieEnds(z)
       PROVE  LocalsEmpty'
  BY <1>12 DEF ZombieEnds, loopVars
<1> QED
  BY <1>1, <1>3, <1>4, <1>5, <1>6, <1>7, <1>8, <1>9, <1>10, <1>11, <1>12
     DEF Next, Caller, LoopStep, Stream

\* A run that starts takes its prompts from where they were.
LEMMA OnceStart ==
  ASSUME TypeInv, LocalsEmpty, EachMessageOnce, activeRun = "none",
         NEW p \in Seq(UserMessages), NEW skip, StartRun(p, skip),
         \A m \in UserMessages :
           Count(steeringQueue', m) + Count(followUpQueue', m) + Count(p, m)
             - (IF m \in fresh' THEN 0 ELSE 1)
           = Count(steeringQueue, m) + Count(followUpQueue, m)
             - (IF m \in fresh THEN 0 ELSE 1),
         steeringQueue' \in Seq(UserMessages), followUpQueue' \in Seq(UserMessages)
  PROVE  EachMessageOnce'
<1>1. prompts = <<>> /\ pendingMessages = <<>>
  BY DEF TypeInv, Shape, RunRegistered, LocalsEmpty
<1>2. prompts' = p /\ pendingMessages' = <<>> /\ UNCHANGED <<messages, gone>>
  BY DEF StartRun
<1>3. ASSUME NEW m \in UserMessages
      PROVE  Count(steeringQueue', m) + Count(followUpQueue', m) + Count(prompts', m)
               + Count(pendingMessages', m) + Count(messages', User(m))
               + (IF m \in gone' THEN 1 ELSE 0)
               = IF m \in fresh' THEN 0 ELSE 1
  <2>1. /\ Count(steeringQueue, m) \in Nat /\ Count(followUpQueue, m) \in Nat
        /\ Count(messages, User(m)) \in Nat
    BY CountsType DEF TypeInv
  <2>2. /\ Count(steeringQueue', m) \in Nat /\ Count(followUpQueue', m) \in Nat
        /\ Count(p, m) \in Nat
    BY CountType
  <2>3. Count(<<>>, m) = 0
    BY CountNone
  <2>4. Count(steeringQueue, m) + Count(followUpQueue, m) + 0 + 0 + Count(messages, User(m))
          + (IF m \in gone THEN 1 ELSE 0)
          = IF m \in fresh THEN 0 ELSE 1
    BY <1>1, <2>3 DEF EachMessageOnce
  <2>5. Count(steeringQueue', m) + Count(followUpQueue', m) + Count(p, m)
          - (IF m \in fresh' THEN 0 ELSE 1)
          = Count(steeringQueue, m) + Count(followUpQueue, m)
            - (IF m \in fresh THEN 0 ELSE 1)
    OBVIOUS
  <2>6. /\ Count(prompts', m) = Count(p, m) /\ Count(pendingMessages', m) = 0
        /\ Count(messages', User(m)) = Count(messages, User(m)) /\ gone' = gone
    BY <1>2, <2>3
  <2> DEFINE lost == IF m \in gone THEN 1 ELSE 0
             sent == IF m \in fresh THEN 0 ELSE 1
             sentNow == IF m \in fresh' THEN 0 ELSE 1
  <2>7. lost \in Nat /\ sent \in Nat /\ sentNow \in Nat
    OBVIOUS
  <2>8. (IF m \in gone' THEN 1 ELSE 0) = lost
    BY <2>6
  <2> HIDE DEF lost, sent, sentNow
  <2>9. Count(steeringQueue', m) + Count(followUpQueue', m) + Count(p, m) + 0
          + Count(messages, User(m)) + lost = sentNow
    <3>1. Count(steeringQueue, m) + Count(followUpQueue, m) + 0 + 0 + Count(messages, User(m))
            + lost = sent
      BY <2>4 DEF lost, sent
    <3>2. Count(steeringQueue', m) + Count(followUpQueue', m) + Count(p, m) - sentNow
            = Count(steeringQueue, m) + Count(followUpQueue, m) - sent
      BY <2>5 DEF sent, sentNow
    <3> DEFINE a == Count(steeringQueue, m)
               b == Count(followUpQueue, m)
               c == Count(messages, User(m))
               d == Count(p, m)
               e == Count(steeringQueue', m)
               f == Count(followUpQueue', m)
    <3>3. /\ a \in Nat /\ b \in Nat /\ c \in Nat /\ d \in Nat /\ e \in Nat /\ f \in Nat
          /\ a + b + 0 + 0 + c + lost = sent /\ e + f + d - sentNow = a + b - sent
      BY <2>1, <2>2, <3>1, <3>2
    <3> HIDE DEF a, b, c, d, e, f
    <3>4. e + f + d + 0 + c + lost = sentNow
      BY <2>7, <3>3
    <3> QED BY <3>4 DEF a, b, c, d, e, f
  <2>10. Count(steeringQueue', m) + Count(followUpQueue', m) + Count(prompts', m)
           + Count(pendingMessages', m) + Count(messages', User(m)) + lost = sentNow
    BY <2>6, <2>9
  <2> QED BY <2>8, <2>10 DEF sentNow
<1> QED BY <1>3, OnceNext

LEMMA OnceStep ==
  ASSUME TypeInv, TypeInv', LocalsEmpty, EachMessageOnce, [Next]_vars
  PROVE  EachMessageOnce'
<1>0. /\ steeringQueue \in Seq(UserMessages) /\ followUpQueue \in Seq(UserMessages)
      /\ prompts \in Seq(UserMessages) /\ pendingMessages \in Seq(UserMessages)
      /\ messages \in Seq(Message) /\ turns \in Nat /\ results \in Nat
      /\ steeringQueue' \in Seq(UserMessages) /\ followUpQueue' \in Seq(UserMessages)
      /\ prompts' \in Seq(UserMessages) /\ pendingMessages' \in Seq(UserMessages)
      /\ messages' \in Seq(Message)
  BY DEF TypeInv, TypeOK, AgentTypeOK, LoopTypeOK, BatchTypeOK
<1>1. ASSUME \/ UNCHANGED vars
             \/ Abort \/ RequestStream \/ Launch \/ EndBatch \/ EmitAgentEnd \/ RunThrows
             \/ FinishRun
             \/ \E i \in DOMAIN status : PrepareCall(i) \/ RejectCall(i) \/ ToolReturns(i)
             \/ \E z \in zombies : ZombieEnds(z)
      PROVE  EachMessageOnce'
  <2>1. UNCHANGED <<steeringQueue, followUpQueue, prompts, pendingMessages, messages, gone, fresh>>
    BY <1>1 DEF vars, agentVars, loopVars, ghostVars, Abort, RequestStream, Launch, EndBatch,
                EmitAgentEnd, RunThrows, FinishRun, PrepareCall, RejectCall, ToolReturns,
                ToolEnds, ZombieEnds
  <2>2. \A m \in UserMessages : Count(messages', User(m)) = Count(messages, User(m))
    BY <2>1
  <2> QED BY <2>1, <2>2, OnceFrame
<1>2. ASSUME NEW x \in Message, x.role # "user", messages' = Append(messages, x),
             UNCHANGED <<steeringQueue, followUpQueue, prompts, pendingMessages, gone, fresh>>
      PROVE  EachMessageOnce'
  <2>1. \A m \in UserMessages : Count(messages', User(m)) = Count(messages, User(m))
    BY <1>0, <1>2, CountMessages
  <2> QED BY <1>2, <2>1, OnceFrame
<1>3. ASSUME NEW c \in Batches, NEW stop \in StopReasons, StreamEnds(c, stop)
      PROVE  EachMessageOnce'
  <2> DEFINE x == Assistant(turns + 1, c, stop)
  <2>0. turns + 1 \in Nat /\ c \in Seq(Tools)
    BY <1>0, ToolsAssumption
  <2>1. x \in Message /\ x.role # "user"
    <3>1. Assistant(turns + 1, c, stop) \in Message
      BY <2>0, MessageType
    <3>2. Assistant(turns + 1, c, stop).role = "assistant"
      BY DEF Assistant
    <3> QED BY <3>1, <3>2
  <2>2. /\ messages' = Append(messages, x)
        /\ UNCHANGED <<steeringQueue, followUpQueue, prompts, pendingMessages, gone, fresh>>
    BY <1>3 DEF StreamEnds, ghostVars
  <2> HIDE DEF x
  <2> QED BY <1>2, <2>1, <2>2
<1>4. ASSUME EmitResult
      PROVE  EachMessageOnce'
  <2> DEFINE x == ToolResult(turns, results + 1)
  <2>1. x \in Message /\ x.role # "user"
    BY <1>0, MessageType DEF ToolResult
  <2>2. /\ messages' = Append(messages, x)
        /\ UNCHANGED <<steeringQueue, followUpQueue, prompts, pendingMessages, gone, fresh>>
    BY <1>4 DEF EmitResult, ghostVars, loopVars
  <2> HIDE DEF x
  <2> QED BY <1>2, <2>1, <2>2
<1>5. ASSUME NEW m \in UserMessages, Prompt(m)
      PROVE  EachMessageOnce'
  <2> DEFINE p == <<m>>
  <2>1. p \in Seq(UserMessages) /\ activeRun = "none" /\ m \in fresh
    BY <1>5 DEF Prompt
  <2>2. /\ StartRun(p, FALSE) /\ fresh' = fresh \ {m}
        /\ UNCHANGED <<steeringQueue, followUpQueue>>
    BY <1>5 DEF Prompt
  <2>3. ASSUME NEW k \in UserMessages
        PROVE  Count(steeringQueue', k) + Count(followUpQueue', k) + Count(p, k)
                 - (IF k \in fresh' THEN 0 ELSE 1)
               = Count(steeringQueue, k) + Count(followUpQueue, k)
                 - (IF k \in fresh THEN 0 ELSE 1)
    <3> DEFINE a == Count(steeringQueue, k)
               b == Count(followUpQueue, k)
               c == Count(p, k)
    <3>1. a \in Nat /\ b \in Nat
      BY <1>0, CountType
    <3>2. /\ m = k => c = 1
          /\ m # k => c = 0
      BY CountOne
    <3>3. Count(steeringQueue', k) = a /\ Count(followUpQueue', k) = b
      BY <2>2
    <3> HIDE DEF a, b, c
    <3>4. a + b + c - (IF k \in fresh' THEN 0 ELSE 1) = a + b - (IF k \in fresh THEN 0 ELSE 1)
      BY <2>1, <2>2, <3>1, <3>2
    <3> QED BY <3>3, <3>4 DEF a, b, c
  <2> HIDE DEF p
  <2> QED BY <1>0, <2>1, <2>2, <2>3, OnceStart
<1>6. CASE ContinueFromContext
  <2> DEFINE p == <<>>
  <2>1. p \in Seq(UserMessages) /\ \A k \in UserMessages : Count(p, k) = 0
    BY CountNone
  <2>2. /\ StartRun(p, FALSE) /\ UNCHANGED <<steeringQueue, followUpQueue, fresh>>
        /\ activeRun = "none"
    BY <1>6 DEF ContinueFromContext
  <2>3. ASSUME NEW k \in UserMessages
        PROVE  Count(steeringQueue', k) + Count(followUpQueue', k) + Count(p, k)
                 - (IF k \in fresh' THEN 0 ELSE 1)
               = Count(steeringQueue, k) + Count(followUpQueue, k)
                 - (IF k \in fresh THEN 0 ELSE 1)
    <3>1. Count(steeringQueue, k) \in Nat /\ Count(followUpQueue, k) \in Nat
      BY <1>0, CountType
    <3>2. /\ Count(steeringQueue', k) = Count(steeringQueue, k) /\ fresh' = fresh
          /\ Count(followUpQueue', k) = Count(followUpQueue, k) /\ Count(p, k) = 0
      BY <2>1, <2>2
    <3> QED BY <3>1, <3>2
  <2> HIDE DEF p
  <2> QED BY <1>0, <2>1, <2>2, <2>3, OnceStart
<1>7. CASE ContinueFromQueue
  <2>1. CASE /\ steeringQueue' = Kept(steeringQueue, SteeringMode)
             /\ StartRun(Drained(steeringQueue, SteeringMode), TRUE)
             /\ UNCHANGED <<followUpQueue, fresh>>
             /\ activeRun = "none"
    <3> DEFINE p == Drained(steeringQueue, SteeringMode)
    <3>1. p \in Seq(UserMessages)
      BY <1>0, DrainType
    <3>2. ASSUME NEW k \in UserMessages
          PROVE  Count(steeringQueue', k) + Count(followUpQueue', k) + Count(p, k)
                   - (IF k \in fresh' THEN 0 ELSE 1)
                 = Count(steeringQueue, k) + Count(followUpQueue, k)
                   - (IF k \in fresh THEN 0 ELSE 1)
      <4> DEFINE a == Count(steeringQueue, k)
                 a1 == Count(steeringQueue', k)
                 b == Count(followUpQueue, k)
                 c == Count(p, k)
      <4>1. a \in Nat /\ b \in Nat /\ a1 \in Nat /\ c \in Nat
        BY <1>0, <3>1, CountType
      <4>2. a = c + a1
        BY <1>0, <2>1, CountDrain
      <4>3. Count(followUpQueue', k) = b /\ fresh' = fresh
        BY <2>1
      <4> HIDE DEF a, a1, b, c
      <4>4. a1 + b + c - (IF k \in fresh THEN 0 ELSE 1) = a + b - (IF k \in fresh THEN 0 ELSE 1)
        BY <4>1, <4>2
      <4> QED BY <4>3, <4>4 DEF a, a1, b, c
    <3>3. StartRun(p, TRUE)
      BY <2>1
    <3> HIDE DEF p
    <3> QED BY <1>0, <2>1, <3>1, <3>2, <3>3, OnceStart
  <2>2. CASE /\ followUpQueue' = Kept(followUpQueue, FollowUpMode)
             /\ StartRun(Drained(followUpQueue, FollowUpMode), FALSE)
             /\ UNCHANGED <<steeringQueue, fresh>>
             /\ activeRun = "none"
    <3> DEFINE p == Drained(followUpQueue, FollowUpMode)
    <3>1. p \in Seq(UserMessages)
      BY <1>0, DrainType
    <3>2. ASSUME NEW k \in UserMessages
          PROVE  Count(steeringQueue', k) + Count(followUpQueue', k) + Count(p, k)
                   - (IF k \in fresh' THEN 0 ELSE 1)
                 = Count(steeringQueue, k) + Count(followUpQueue, k)
                   - (IF k \in fresh THEN 0 ELSE 1)
      <4> DEFINE a == Count(steeringQueue, k)
                 b == Count(followUpQueue, k)
                 b1 == Count(followUpQueue', k)
                 c == Count(p, k)
      <4>1. a \in Nat /\ b \in Nat /\ b1 \in Nat /\ c \in Nat
        BY <1>0, <3>1, CountType
      <4>2. b = c + b1
        BY <1>0, <2>2, CountDrain
      <4>3. Count(steeringQueue', k) = a /\ fresh' = fresh
        BY <2>2
      <4> HIDE DEF a, b, b1, c
      <4>4. a + b1 + c - (IF k \in fresh THEN 0 ELSE 1) = a + b - (IF k \in fresh THEN 0 ELSE 1)
        BY <4>1, <4>2
      <4> QED BY <4>3, <4>4 DEF a, b, b1, c
    <3>3. StartRun(p, FALSE)
      BY <2>2
    <3> HIDE DEF p
    <3> QED BY <1>0, <2>2, <3>1, <3>2, <3>3, OnceStart
  <2> QED BY <1>7, <2>1, <2>2 DEF ContinueFromQueue
<1>8. ASSUME NEW m \in UserMessages, Steer(m)
      PROVE  EachMessageOnce'
  <2>1. /\ m \in fresh /\ fresh' = fresh \ {m} /\ steeringQueue' = Append(steeringQueue, m)
        /\ UNCHANGED <<followUpQueue, prompts, pendingMessages, messages, gone>>
    BY <1>8 DEF Steer, loopVars
  <2>9. ASSUME NEW k \in UserMessages
        PROVE  Count(steeringQueue', k) + Count(followUpQueue', k) + Count(prompts', k)
                 + Count(pendingMessages', k) + Count(messages', User(k))
                 + (IF k \in gone' THEN 1 ELSE 0)
                 = IF k \in fresh' THEN 0 ELSE 1
    <3> DEFINE a == Count(steeringQueue, k)
               b == Count(followUpQueue, k)
               c == Count(prompts, k)
               d == Count(pendingMessages, k)
               e == Count(messages, User(k))
               l == IF k \in gone THEN 1 ELSE 0
               t == IF k \in fresh THEN 0 ELSE 1
    <3>1. /\ a \in Nat /\ b \in Nat /\ c \in Nat /\ d \in Nat /\ e \in Nat
          /\ l \in {0, 1} /\ t \in {0, 1}
          /\ (k \in gone <=> l = 1) /\ (k \in fresh <=> t = 0)
      BY CountsType DEF TypeInv
    <3>2. a + b + c + d + e + l = t
      BY DEF EachMessageOnce
    <3> DEFINE x == Count(steeringQueue', k)
    <3>3. /\ m = k => x = a + 1
          /\ m # k => x = a
      BY <1>0, <2>1, CountAppend
    <3>4. k \in fresh' <=> k \in fresh /\ k # m
      BY <2>1
    <3>5. /\ Count(followUpQueue', k) = b /\ Count(prompts', k) = c
          /\ Count(pendingMessages', k) = d /\ Count(messages', User(k)) = e /\ gone' = gone
      BY <2>1
    <3> HIDE DEF a, b, c, d, e, l, t, x
    <3>6. x + b + c + d + e + l = IF k \in fresh' THEN 0 ELSE 1
      BY <2>1, <3>1, <3>2, <3>3, <3>4
    <3> QED BY <3>5, <3>6 DEF l, x
  <2> QED BY <2>9, OnceNext
<1>9. ASSUME NEW m \in UserMessages, FollowUp(m)
      PROVE  EachMessageOnce'
  <2>1. /\ m \in fresh /\ fresh' = fresh \ {m} /\ followUpQueue' = Append(followUpQueue, m)
        /\ UNCHANGED <<steeringQueue, prompts, pendingMessages, messages, gone>>
    BY <1>9 DEF FollowUp, loopVars
  <2>9. ASSUME NEW k \in UserMessages
        PROVE  Count(steeringQueue', k) + Count(followUpQueue', k) + Count(prompts', k)
                 + Count(pendingMessages', k) + Count(messages', User(k))
                 + (IF k \in gone' THEN 1 ELSE 0)
                 = IF k \in fresh' THEN 0 ELSE 1
    <3> DEFINE a == Count(steeringQueue, k)
               b == Count(followUpQueue, k)
               c == Count(prompts, k)
               d == Count(pendingMessages, k)
               e == Count(messages, User(k))
               l == IF k \in gone THEN 1 ELSE 0
               t == IF k \in fresh THEN 0 ELSE 1
    <3>1. /\ a \in Nat /\ b \in Nat /\ c \in Nat /\ d \in Nat /\ e \in Nat
          /\ l \in {0, 1} /\ t \in {0, 1}
          /\ (k \in gone <=> l = 1) /\ (k \in fresh <=> t = 0)
      BY CountsType DEF TypeInv
    <3>2. a + b + c + d + e + l = t
      BY DEF EachMessageOnce
    <3> DEFINE x == Count(followUpQueue', k)
    <3>3. /\ m = k => x = b + 1
          /\ m # k => x = b
      BY <1>0, <2>1, CountAppend
    <3>4. k \in fresh' <=> k \in fresh /\ k # m
      BY <2>1
    <3>5. /\ Count(steeringQueue', k) = a /\ Count(prompts', k) = c
          /\ Count(pendingMessages', k) = d /\ Count(messages', User(k)) = e /\ gone' = gone
      BY <2>1
    <3> HIDE DEF a, b, c, d, e, l, t, x
    <3>6. a + x + c + d + e + l = IF k \in fresh' THEN 0 ELSE 1
      BY <2>1, <3>1, <3>2, <3>3, <3>4
    <3> QED BY <3>5, <3>6 DEF l, x
  <2> QED BY <2>9, OnceNext
<1>10. CASE ClearSteeringQueue
  <2>1. /\ steeringQueue' = <<>> /\ gone' = gone \cup Range(steeringQueue)
        /\ UNCHANGED <<followUpQueue, prompts, pendingMessages, messages, fresh>>
    BY <1>10 DEF ClearSteeringQueue, loopVars
  <2>9. ASSUME NEW k \in UserMessages
        PROVE  Count(steeringQueue', k) + Count(followUpQueue', k) + Count(prompts', k)
                 + Count(pendingMessages', k) + Count(messages', User(k))
                 + (IF k \in gone' THEN 1 ELSE 0)
                 = IF k \in fresh' THEN 0 ELSE 1
    <3> DEFINE a == Count(steeringQueue, k)
               b == Count(followUpQueue, k)
               c == Count(prompts, k)
               d == Count(pendingMessages, k)
               e == Count(messages, User(k))
               l == IF k \in gone THEN 1 ELSE 0
               t == IF k \in fresh THEN 0 ELSE 1
    <3>1. /\ a \in Nat /\ b \in Nat /\ c \in Nat /\ d \in Nat /\ e \in Nat
          /\ l \in {0, 1} /\ t \in {0, 1}
          /\ (k \in gone <=> l = 1) /\ (k \in fresh <=> t = 0)
      BY CountsType DEF TypeInv
    <3>2. a + b + c + d + e + l = t
      BY DEF EachMessageOnce
    <3>3. a = 0 <=> k \notin Range(steeringQueue)
      BY CountsType DEF TypeInv
    <3>4. k \in gone' <=> k \in gone \/ k \in Range(steeringQueue)
      BY <2>1
    <3>5. /\ Count(steeringQueue', k) = 0 /\ Count(followUpQueue', k) = b /\ Count(prompts', k) = c
          /\ Count(pendingMessages', k) = d /\ Count(messages', User(k)) = e
          /\ fresh' = fresh
      BY <2>1, CountNone
    <3> HIDE DEF a, b, c, d, e, l, t
    <3>6. 0 + b + c + d + e + (IF k \in gone' THEN 1 ELSE 0) = t
      BY <3>1, <3>2, <3>3, <3>4
    <3> QED BY <3>5, <3>6 DEF t
  <2> QED BY <2>9, OnceNext
<1>11. CASE ClearFollowUpQueue
  <2>1. /\ followUpQueue' = <<>> /\ gone' = gone \cup Range(followUpQueue)
        /\ UNCHANGED <<steeringQueue, prompts, pendingMessages, messages, fresh>>
    BY <1>11 DEF ClearFollowUpQueue, loopVars
  <2>9. ASSUME NEW k \in UserMessages
        PROVE  Count(steeringQueue', k) + Count(followUpQueue', k) + Count(prompts', k)
                 + Count(pendingMessages', k) + Count(messages', User(k))
                 + (IF k \in gone' THEN 1 ELSE 0)
                 = IF k \in fresh' THEN 0 ELSE 1
    <3> DEFINE a == Count(steeringQueue, k)
               b == Count(followUpQueue, k)
               c == Count(prompts, k)
               d == Count(pendingMessages, k)
               e == Count(messages, User(k))
               l == IF k \in gone THEN 1 ELSE 0
               t == IF k \in fresh THEN 0 ELSE 1
    <3>1. /\ a \in Nat /\ b \in Nat /\ c \in Nat /\ d \in Nat /\ e \in Nat
          /\ l \in {0, 1} /\ t \in {0, 1}
          /\ (k \in gone <=> l = 1) /\ (k \in fresh <=> t = 0)
      BY CountsType DEF TypeInv
    <3>2. a + b + c + d + e + l = t
      BY DEF EachMessageOnce
    <3>3. b = 0 <=> k \notin Range(followUpQueue)
      BY CountsType DEF TypeInv
    <3>4. k \in gone' <=> k \in gone \/ k \in Range(followUpQueue)
      BY <2>1
    <3>5. /\ Count(followUpQueue', k) = 0 /\ Count(steeringQueue', k) = a /\ Count(prompts', k) = c
          /\ Count(pendingMessages', k) = d /\ Count(messages', User(k)) = e
          /\ fresh' = fresh
      BY <2>1, CountNone
    <3> HIDE DEF a, b, c, d, e, l, t
    <3>6. a + 0 + c + d + e + (IF k \in gone' THEN 1 ELSE 0) = t
      BY <3>1, <3>2, <3>3, <3>4
    <3> QED BY <3>5, <3>6 DEF t
  <2> QED BY <2>9, OnceNext
<1>12. CASE Reset
  <2>1. /\ steeringQueue' = <<>> /\ followUpQueue' = <<>> /\ messages' = <<>>
        /\ gone' = gone \cup Range(steeringQueue) \cup Range(followUpQueue)
                        \cup {m \in UserMessages : User(m) \in Range(messages)}
        /\ UNCHANGED <<prompts, pendingMessages, fresh>>
    BY <1>12 DEF Reset, loopVars
  <2>9. ASSUME NEW k \in UserMessages
        PROVE  Count(steeringQueue', k) + Count(followUpQueue', k) + Count(prompts', k)
                 + Count(pendingMessages', k) + Count(messages', User(k))
                 + (IF k \in gone' THEN 1 ELSE 0)
                 = IF k \in fresh' THEN 0 ELSE 1
    <3> DEFINE a == Count(steeringQueue, k)
               b == Count(followUpQueue, k)
               c == Count(prompts, k)
               d == Count(pendingMessages, k)
               e == Count(messages, User(k))
               l == IF k \in gone THEN 1 ELSE 0
               t == IF k \in fresh THEN 0 ELSE 1
    <3>1. /\ a \in Nat /\ b \in Nat /\ c \in Nat /\ d \in Nat /\ e \in Nat
          /\ l \in {0, 1} /\ t \in {0, 1}
          /\ (k \in gone <=> l = 1) /\ (k \in fresh <=> t = 0)
      BY CountsType DEF TypeInv
    <3>2. a + b + c + d + e + l = t
      BY DEF EachMessageOnce
    <3>3. /\ a = 0 <=> k \notin Range(steeringQueue)
          /\ b = 0 <=> k \notin Range(followUpQueue)
          /\ e = 0 <=> User(k) \notin Range(messages)
      BY CountsType DEF TypeInv
    <3>4. k \in gone' <=> \/ k \in gone \/ k \in Range(steeringQueue)
                          \/ k \in Range(followUpQueue) \/ User(k) \in Range(messages)
      BY <2>1
    <3>5. /\ Count(steeringQueue', k) = 0 /\ Count(followUpQueue', k) = 0
          /\ Count(prompts', k) = c /\ Count(pendingMessages', k) = d
          /\ Count(messages', User(k)) = 0 /\ fresh' = fresh
      BY <2>1, CountNone
    <3> HIDE DEF a, b, c, d, e, l, t
    <3>6. 0 + 0 + c + d + 0 + (IF k \in gone' THEN 1 ELSE 0) = t
      BY <3>1, <3>2, <3>3, <3>4
    <3> QED BY <3>5, <3>6 DEF t
  <2> QED BY <2>9, OnceNext
<1>13. CASE AnnouncePrompt
  <2> DEFINE h == Head(prompts)
  <2>1. /\ prompts # <<>> /\ prompts' = Tail(prompts) /\ messages' = Append(messages, User(h))
        /\ UNCHANGED <<steeringQueue, followUpQueue, pendingMessages, gone, fresh>>
    BY <1>13 DEF AnnouncePrompt, ghostVars
  <2>2. h \in UserMessages
    BY <1>0, <2>1, HeadTailProperties
  <2>9. ASSUME NEW k \in UserMessages
        PROVE  Count(steeringQueue', k) + Count(followUpQueue', k) + Count(prompts', k)
                 + Count(pendingMessages', k) + Count(messages', User(k))
                 + (IF k \in gone' THEN 1 ELSE 0)
                 = IF k \in fresh' THEN 0 ELSE 1
    <3> DEFINE a == Count(steeringQueue, k)
               b == Count(followUpQueue, k)
               c == Count(prompts, k)
               d == Count(pendingMessages, k)
               e == Count(messages, User(k))
               l == IF k \in gone THEN 1 ELSE 0
               t == IF k \in fresh THEN 0 ELSE 1
    <3>1. /\ a \in Nat /\ b \in Nat /\ c \in Nat /\ d \in Nat /\ e \in Nat
          /\ l \in {0, 1} /\ t \in {0, 1}
          /\ (k \in gone <=> l = 1) /\ (k \in fresh <=> t = 0)
      BY CountsType DEF TypeInv
    <3>2. a + b + c + d + e + l = t
      BY DEF EachMessageOnce
    <3> DEFINE x == Count(prompts', k)
               y == Count(messages', User(k))
    <3>3. /\ h = k => c = x + 1
          /\ h # k => c = x
      BY <1>0, <2>1, CountTail
    <3>4. /\ h = k => y = e + 1
          /\ h # k => y = e
      BY <1>0, <2>1, <2>2, CountMessages
    <3>5. /\ Count(steeringQueue', k) = a /\ Count(followUpQueue', k) = b
          /\ Count(pendingMessages', k) = d /\ gone' = gone /\ fresh' = fresh
      BY <2>1
    <3>6. x \in Nat
      BY <1>0, CountType
    <3> HIDE DEF a, b, c, d, e, l, t, x, y, h
    <3>7. a + b + x + d + y + l = t
      BY <3>1, <3>2, <3>3, <3>4, <3>6
    <3> QED BY <3>5, <3>7 DEF l, t, x, y
  <2> QED BY <2>9, OnceNext
<1>14. CASE InjectMessage
  <2> DEFINE h == Head(pendingMessages)
  <2>1. /\ pendingMessages # <<>> /\ pendingMessages' = Tail(pendingMessages) /\ messages' = Append(messages, User(h))
        /\ UNCHANGED <<steeringQueue, followUpQueue, prompts, gone, fresh>>
    BY <1>14 DEF InjectMessage, ghostVars
  <2>2. h \in UserMessages
    BY <1>0, <2>1, HeadTailProperties
  <2>9. ASSUME NEW k \in UserMessages
        PROVE  Count(steeringQueue', k) + Count(followUpQueue', k) + Count(prompts', k)
                 + Count(pendingMessages', k) + Count(messages', User(k))
                 + (IF k \in gone' THEN 1 ELSE 0)
                 = IF k \in fresh' THEN 0 ELSE 1
    <3> DEFINE a == Count(steeringQueue, k)
               b == Count(followUpQueue, k)
               c == Count(prompts, k)
               d == Count(pendingMessages, k)
               e == Count(messages, User(k))
               l == IF k \in gone THEN 1 ELSE 0
               t == IF k \in fresh THEN 0 ELSE 1
    <3>1. /\ a \in Nat /\ b \in Nat /\ c \in Nat /\ d \in Nat /\ e \in Nat
          /\ l \in {0, 1} /\ t \in {0, 1}
          /\ (k \in gone <=> l = 1) /\ (k \in fresh <=> t = 0)
      BY CountsType DEF TypeInv
    <3>2. a + b + c + d + e + l = t
      BY DEF EachMessageOnce
    <3> DEFINE x == Count(pendingMessages', k)
               y == Count(messages', User(k))
    <3>3. /\ h = k => d = x + 1
          /\ h # k => d = x
      BY <1>0, <2>1, CountTail
    <3>4. /\ h = k => y = e + 1
          /\ h # k => y = e
      BY <1>0, <2>1, <2>2, CountMessages
    <3>5. /\ Count(steeringQueue', k) = a /\ Count(followUpQueue', k) = b
          /\ Count(prompts', k) = c /\ gone' = gone /\ fresh' = fresh
      BY <2>1
    <3>6. x \in Nat
      BY <1>0, CountType
    <3> HIDE DEF a, b, c, d, e, l, t, x, y, h
    <3>7. a + b + c + x + y + l = t
      BY <3>1, <3>2, <3>3, <3>4, <3>6
    <3> QED BY <3>5, <3>7 DEF l, t, x, y
  <2> QED BY <2>9, OnceNext
<1>15. CASE PollSteering
  <2>1. UNCHANGED <<followUpQueue, prompts, messages, gone, fresh>> /\ pendingMessages = <<>>
    BY <1>15 DEF PollSteering, LocalsEmpty, ghostVars
  <2>2. \/ pendingMessages' = <<>> /\ steeringQueue' = steeringQueue
        \/ /\ pendingMessages' = Drained(steeringQueue, SteeringMode)
           /\ steeringQueue' = Kept(steeringQueue, SteeringMode)
    BY <1>15 DEF PollSteering
  <2>9. ASSUME NEW k \in UserMessages
        PROVE  Count(steeringQueue', k) + Count(followUpQueue', k) + Count(prompts', k)
                 + Count(pendingMessages', k) + Count(messages', User(k))
                 + (IF k \in gone' THEN 1 ELSE 0)
                 = IF k \in fresh' THEN 0 ELSE 1
    <3> DEFINE a == Count(steeringQueue, k)
               b == Count(followUpQueue, k)
               c == Count(prompts, k)
               d == Count(pendingMessages, k)
               e == Count(messages, User(k))
               l == IF k \in gone THEN 1 ELSE 0
               t == IF k \in fresh THEN 0 ELSE 1
    <3>1. /\ a \in Nat /\ b \in Nat /\ c \in Nat /\ d \in Nat /\ e \in Nat
          /\ l \in {0, 1} /\ t \in {0, 1}
          /\ (k \in gone <=> l = 1) /\ (k \in fresh <=> t = 0)
      BY CountsType DEF TypeInv
    <3>2. a + b + c + d + e + l = t
      BY DEF EachMessageOnce
    <3> DEFINE x == Count(steeringQueue', k)
               y == Count(pendingMessages', k)
    <3>3. a = y + x
      <4>1. CASE pendingMessages' = <<>> /\ steeringQueue' = steeringQueue
        <5>1. y = 0 /\ x = a
          BY <4>1, CountNone
        <5> HIDE DEF a, x, y
        <5> QED BY <3>1, <5>1
      <4>2. CASE /\ pendingMessages' = Drained(steeringQueue, SteeringMode)
                 /\ steeringQueue' = Kept(steeringQueue, SteeringMode)
        BY <1>0, <4>2, CountDrain
      <4> QED BY <2>2, <4>1, <4>2
    <3>4. d = 0
      BY <2>1, CountNone
    <3>5. /\ Count(followUpQueue', k) = b /\ Count(prompts', k) = c
          /\ Count(messages', User(k)) = e /\ gone' = gone /\ fresh' = fresh
      BY <2>1
    <3>6. x \in Nat /\ y \in Nat
      BY <1>0, CountType
    <3> HIDE DEF a, b, c, d, e, l, t, x, y
    <3>7. x + b + c + y + e + l = t
      BY <3>1, <3>2, <3>3, <3>4, <3>6
    <3> QED BY <3>5, <3>7 DEF l, t, x, y
  <2> QED BY <2>9, OnceNext
<1>16. CASE PollFollowUp
  <2>1. /\ UNCHANGED <<steeringQueue, prompts, messages, gone, fresh>> /\ pendingMessages = <<>>
        /\ pendingMessages' = Drained(followUpQueue, FollowUpMode)
        /\ followUpQueue' = Kept(followUpQueue, FollowUpMode)
    BY <1>16 DEF PollFollowUp, LocalsEmpty, ghostVars
  <2>9. ASSUME NEW k \in UserMessages
        PROVE  Count(steeringQueue', k) + Count(followUpQueue', k) + Count(prompts', k)
                 + Count(pendingMessages', k) + Count(messages', User(k))
                 + (IF k \in gone' THEN 1 ELSE 0)
                 = IF k \in fresh' THEN 0 ELSE 1
    <3> DEFINE a == Count(steeringQueue, k)
               b == Count(followUpQueue, k)
               c == Count(prompts, k)
               d == Count(pendingMessages, k)
               e == Count(messages, User(k))
               l == IF k \in gone THEN 1 ELSE 0
               t == IF k \in fresh THEN 0 ELSE 1
    <3>1. /\ a \in Nat /\ b \in Nat /\ c \in Nat /\ d \in Nat /\ e \in Nat
          /\ l \in {0, 1} /\ t \in {0, 1}
          /\ (k \in gone <=> l = 1) /\ (k \in fresh <=> t = 0)
      BY CountsType DEF TypeInv
    <3>2. a + b + c + d + e + l = t
      BY DEF EachMessageOnce
    <3> DEFINE x == Count(followUpQueue', k)
               y == Count(pendingMessages', k)
    <3>3. b = y + x
      BY <1>0, <2>1, CountDrain
    <3>4. d = 0
      BY <2>1, CountNone
    <3>5. /\ Count(steeringQueue', k) = a /\ Count(prompts', k) = c
          /\ Count(messages', User(k)) = e /\ gone' = gone /\ fresh' = fresh
      BY <2>1
    <3>6. x \in Nat /\ y \in Nat
      BY <1>0, CountType
    <3> HIDE DEF a, b, c, d, e, l, t, x, y
    <3>7. a + x + c + y + e + l = t
      BY <3>1, <3>2, <3>3, <3>4, <3>6
    <3> QED BY <3>5, <3>7 DEF l, t, x, y
  <2> QED BY <2>9, OnceNext
<1>17. CASE HandleRunFailure
  <2> DEFINE x == Assistant(turns, <<>>, IF activeRun = "aborted" THEN "aborted" ELSE "error")
  <2>1. /\ pendingMessages' = <<>> /\ prompts' = <<>> /\ messages' = Append(messages, x)
        /\ gone' = gone \cup Range(pendingMessages) \cup Range(prompts)
        /\ UNCHANGED <<steeringQueue, followUpQueue, fresh>>
    BY <1>17 DEF HandleRunFailure
  <2>2. x \in Message /\ x.role # "user"
    <3> DEFINE stop == IF activeRun = "aborted" THEN "aborted" ELSE "error"
    <3>1. stop \in StopReasons /\ <<>> \in Seq(Tools)
      BY NoBatchType DEF StopReasons
    <3>2. x = Assistant(turns, <<>>, stop) /\ x.role = "assistant"
      BY DEF Assistant
    <3> HIDE DEF stop, x
    <3>3. x \in Message
      BY <1>0, <3>1, <3>2, MessageType
    <3> QED BY <3>2, <3>3
  <2> HIDE DEF x
  <2>9. ASSUME NEW k \in UserMessages
        PROVE  Count(steeringQueue', k) + Count(followUpQueue', k) + Count(prompts', k)
                 + Count(pendingMessages', k) + Count(messages', User(k))
                 + (IF k \in gone' THEN 1 ELSE 0)
                 = IF k \in fresh' THEN 0 ELSE 1
    <3> DEFINE a == Count(steeringQueue, k)
               b == Count(followUpQueue, k)
               c == Count(prompts, k)
               d == Count(pendingMessages, k)
               e == Count(messages, User(k))
               l == IF k \in gone THEN 1 ELSE 0
               t == IF k \in fresh THEN 0 ELSE 1
    <3>1. /\ a \in Nat /\ b \in Nat /\ c \in Nat /\ d \in Nat /\ e \in Nat
          /\ l \in {0, 1} /\ t \in {0, 1}
          /\ (k \in gone <=> l = 1) /\ (k \in fresh <=> t = 0)
      BY CountsType DEF TypeInv
    <3>2. a + b + c + d + e + l = t
      BY DEF EachMessageOnce
    <3>3. /\ c = 0 <=> k \notin Range(prompts)
          /\ d = 0 <=> k \notin Range(pendingMessages)
      BY CountsType DEF TypeInv
    <3>4. k \in gone' <=> k \in gone \/ k \in Range(pendingMessages) \/ k \in Range(prompts)
      BY <2>1
    <3>5. /\ Count(steeringQueue', k) = a /\ Count(followUpQueue', k) = b
          /\ Count(prompts', k) = 0 /\ Count(pendingMessages', k) = 0
          /\ fresh' = fresh
      BY <2>1, CountNone
    <3>6. Count(messages', User(k)) = e
      BY <1>0, <2>1, <2>2, CountMessages
    <3> HIDE DEF a, b, c, d, e, l, t
    <3>7. a + b + 0 + 0 + e + (IF k \in gone' THEN 1 ELSE 0) = t
      BY <3>1, <3>2, <3>3, <3>4
    <3> QED BY <3>5, <3>6, <3>7 DEF t
  <2> QED BY <2>9, OnceNext
<1> QED
  BY <1>1, <1>3, <1>4, <1>5, <1>6, <1>7, <1>8, <1>9, <1>10, <1>11, <1>12, <1>13, <1>14,
     <1>15, <1>16, <1>17
     DEF Next, Caller, LoopStep, Stream

\* Every message handed to the agent is in exactly one place: a queue, the run's
\* locals, the transcript or gone, whatever is polled, aborted, reset or fails.
THEOREM EachMessageIsOnce == Spec => []EachMessageOnce
<1>1. Init => OnceInv
  <2> SUFFICES ASSUME Init PROVE OnceInv
    OBVIOUS
  <2>1. LocalsEmpty
    BY DEF Init, LocalsEmpty
  <2>2. ASSUME NEW x PROVE /\ Count(steeringQueue, x) = 0 /\ Count(followUpQueue, x) = 0
                          /\ Count(prompts, x) = 0 /\ Count(pendingMessages, x) = 0
                          /\ Count(messages, x) = 0
    BY CountNone DEF Init
  <2>3. gone = {} /\ fresh = UserMessages
    BY DEF Init
  <2>4. EachMessageOnce
    BY <2>2, <2>3 DEF EachMessageOnce
  <2> QED BY <2>1, <2>4 DEF OnceInv
<1>2. TypeInv /\ TypeInv' /\ OnceInv /\ [Next]_vars => OnceInv'
  BY LocalsStep, OnceStep DEF OnceInv
<1>3. OnceInv => EachMessageOnce
  BY DEF OnceInv
<1> QED
  BY <1>1, <1>2, <1>3, TypeInvariant, PTL DEF Spec

-----------------------------------------------------------------------------
(***************************************************************************)
(* What AbortSettles and SteeringTakenUp rest on, without fairness: a batch *)
(* always has a way on, every step an aborted run takes leaves less of it,  *)
(* and a steered message stays in the way of the next poll.                 *)
(***************************************************************************)
\* An open batch of executeToolCalls always has a way on: a call it may announce,
\* calls to launch, a tool executing, a result to emit, or its end.
BatchNeverStuck ==
  pc = "tools" =>
    \/ \E i \in DOMAIN status : MayPreflight(i)
    \/ /\ \E i \in DOMAIN status : status[i] = "prepared"
       /\ IsSequential \/ \A i \in DOMAIN status : status[i] # "todo"
    \/ Running # {}
    \/ /\ results < Len(calls)
       /\ IF IsSequential THEN status[results + 1] = "ended"
                          ELSE \A i \in DOMAIN status : status[i] = "ended"
    \/ results = Len(calls)

\* executeToolCalls never hangs on its own bookkeeping, whatever the mix of parallel
\* and sequential calls, rejections and ends: only a tool can keep a batch open.
THEOREM BatchIsNeverStuck == Spec => []BatchNeverStuck
<1>1. TypeInv /\ BatchInv => BatchNeverStuck
  <2> SUFFICES ASSUME TypeInv, BatchInv, pc = "tools"
               PROVE  BatchNeverStuck
    BY DEF BatchNeverStuck
  <2> DEFINE todo == {i \in DOMAIN status : status[i] = "todo"}
  <2>1. /\ DOMAIN status = 1..Len(calls) /\ results \in 0..Len(calls) /\ Len(calls) \in Nat
        /\ \A i \in DOMAIN status : status[i] \in CallStatus
    BY DEF TypeInv, TypeOK, BatchTypeOK
  <2>2. CASE todo = {}
    <3>1. \A i \in DOMAIN status : status[i] \in {"prepared", "running", "ended"}
      BY <2>1, <2>2 DEF CallStatus
    <3>2. CASE \E i \in DOMAIN status : status[i] # "ended"
      BY <2>2, <3>1, <3>2 DEF BatchNeverStuck, Running
    <3>3. CASE \A i \in DOMAIN status : status[i] = "ended"
      <4>1. results < Len(calls) => results + 1 \in DOMAIN status
        BY <2>1
      <4>2. results < Len(calls) \/ results = Len(calls)
        BY <2>1
      <4> QED BY <3>3, <4>1, <4>2 DEF BatchNeverStuck
    <3> QED BY <3>2, <3>3
  <2>3. CASE todo # {}
    <3>0. todo \subseteq Nat
      BY <2>1
    <3>1. PICK i \in todo : \A j \in todo : i <= j
      <4> HIDE DEF todo
      <4> QED BY <2>3, <3>0, LeastExists
    <3>2. i \in 1..Len(calls) /\ status[i] = "todo"
      BY <2>1
    <3>3. \A j \in 1..(i - 1) : status[j] # "todo"
      BY <2>1, <3>1, <3>2
    <3>4. ~IsSequential \/ results = i - 1 => MayPreflight(i)
      BY <3>2, <3>3 DEF MayPreflight
    <3>5. CASE IsSequential /\ results # i - 1
      <4>1. \A j \in 1..results : status[j] = "ended"
        BY DEF BatchInv, BatchOrdered
      <4>2. results < i
        BY <2>1, <3>2, <4>1
      <4>3. results + 1 \in 1..(i - 1) /\ results + 1 \in DOMAIN status /\ results < Len(calls)
        BY <2>1, <3>2, <3>5, <4>2
      <4>4. status[results + 1] \in {"prepared", "running", "ended"}
        BY <2>1, <3>3, <4>3 DEF CallStatus
      <4> QED BY <3>5, <4>3, <4>4 DEF BatchNeverStuck, Running
    <3> QED BY <2>1, <3>2, <3>4, <3>5 DEF BatchNeverStuck
  <2> QED BY <2>2, <2>3
<1> QED
  BY <1>1, TypeInvariant, BatchInvariant, PTL

\* The points of a run in the order an aborted one passes them, from the last to the first.
Phase == [idle |-> 0, finish |-> 1, failed |-> 2, settling |-> 3, agentEnd |-> 4, doomed |-> 5,
          inject |-> 6, followUp |-> 7, turnEnd |-> 8, tools |-> 9, stream |-> 10, start |-> 11]
With(s) == {i \in DOMAIN status : status[i] = s}

\* What is left of a run, the point it stands at first.
Left == <<Phase[pc], Len(prompts), Len(pendingMessages), Cardinality(With("todo")),
          Cardinality(With("prepared")), Cardinality(With("running")), Len(calls) - results>>

\* A step of the run itself: of the loop, the provider, a tool, or an exception.
Own == LoopStep \/ Stream \/ (\E i \in DOMAIN status : ToolReturns(i)) \/ RunThrows

\* Every step an aborted run takes leaves less of it, and no caller puts more in its way.
AbortWindsDown ==
  [][activeRun = "aborted" => IF Own THEN Below(Left', Left) ELSE Left' = Left]_vars

\* One component smaller and those before it equal is below.
LEMMA LeftBelow ==
  ASSUME \/ Phase[pc'] < Phase[pc]
         \/ /\ pc' = pc
            /\ \/ Len(prompts') < Len(prompts)
               \/ prompts' = prompts /\ Len(pendingMessages') < Len(pendingMessages)
               \/ /\ prompts' = prompts /\ pendingMessages' = pendingMessages
                  /\ \/ Cardinality(With("todo")') < Cardinality(With("todo"))
                     \/ /\ With("todo")' = With("todo")
                        /\ \/ Cardinality(With("prepared")') < Cardinality(With("prepared"))
                           \/ /\ With("prepared")' = With("prepared")
                              /\ \/ Cardinality(With("running")') < Cardinality(With("running"))
                                 \/ /\ With("running")' = With("running")
                                    /\ Len(calls') - results' < Len(calls) - results
  PROVE  Below(Left', Left)
<1> DEFINE s == Left'
           t == Left
<1>0. DOMAIN s = 1..7
  BY DEF Left
<1>1. /\ s[1] = Phase[pc'] /\ t[1] = Phase[pc]
      /\ s[2] = Len(prompts') /\ t[2] = Len(prompts)
      /\ s[3] = Len(pendingMessages') /\ t[3] = Len(pendingMessages)
      /\ s[4] = Cardinality(With("todo")') /\ t[4] = Cardinality(With("todo"))
      /\ s[5] = Cardinality(With("prepared")') /\ t[5] = Cardinality(With("prepared"))
      /\ s[6] = Cardinality(With("running")') /\ t[6] = Cardinality(With("running"))
      /\ s[7] = Len(calls') - results' /\ t[7] = Len(calls) - results
  BY DEF Left
<1> HIDE DEF s, t
<1>2. ASSUME \A j \in 1..0 : s[j] = t[j], s[1] < t[1] PROVE Below(s, t)
  <2>1. 0 = 1 - 1 /\ 1 \in DOMAIN s
    BY <1>0
  <2> QED BY <1>2, <2>1, BelowAt
<1>3. ASSUME \A j \in 1..1 : s[j] = t[j], s[2] < t[2] PROVE Below(s, t)
  <2>1. 1 = 2 - 1 /\ 2 \in DOMAIN s
    BY <1>0
  <2> QED BY <1>3, <2>1, BelowAt
<1>4. ASSUME \A j \in 1..2 : s[j] = t[j], s[3] < t[3] PROVE Below(s, t)
  <2>1. 2 = 3 - 1 /\ 3 \in DOMAIN s
    BY <1>0
  <2> QED BY <1>4, <2>1, BelowAt
<1>5. ASSUME \A j \in 1..3 : s[j] = t[j], s[4] < t[4] PROVE Below(s, t)
  <2>1. 3 = 4 - 1 /\ 4 \in DOMAIN s
    BY <1>0
  <2> QED BY <1>5, <2>1, BelowAt
<1>6. ASSUME \A j \in 1..4 : s[j] = t[j], s[5] < t[5] PROVE Below(s, t)
  <2>1. 4 = 5 - 1 /\ 5 \in DOMAIN s
    BY <1>0
  <2> QED BY <1>6, <2>1, BelowAt
<1>7. ASSUME \A j \in 1..5 : s[j] = t[j], s[6] < t[6] PROVE Below(s, t)
  <2>1. 5 = 6 - 1 /\ 6 \in DOMAIN s
    BY <1>0
  <2> QED BY <1>7, <2>1, BelowAt
<1>8. ASSUME \A j \in 1..6 : s[j] = t[j], s[7] < t[7] PROVE Below(s, t)
  <2>1. 6 = 7 - 1 /\ 7 \in DOMAIN s
    BY <1>0
  <2> QED BY <1>8, <2>1, BelowAt
<1>9. \/ (\A j \in 1..0 : s[j] = t[j]) /\ s[1] < t[1]
      \/ (\A j \in 1..1 : s[j] = t[j]) /\ s[2] < t[2]
      \/ (\A j \in 1..2 : s[j] = t[j]) /\ s[3] < t[3]
      \/ (\A j \in 1..3 : s[j] = t[j]) /\ s[4] < t[4]
      \/ (\A j \in 1..4 : s[j] = t[j]) /\ s[5] < t[5]
      \/ (\A j \in 1..5 : s[j] = t[j]) /\ s[6] < t[6]
      \/ (\A j \in 1..6 : s[j] = t[j]) /\ s[7] < t[7]
  BY <1>1
<1>10. Below(s, t)
  BY <1>2, <1>3, <1>4, <1>5, <1>6, <1>7, <1>8, <1>9
<1> QED BY <1>10 DEF s, t

\* One call fewer of a status.
LEMMA OneFewer ==
  ASSUME BatchTypeOK, NEW i \in DOMAIN status, NEW r \in CallStatus, status[i] = r,
         NEW s \in CallStatus, r # s, status' = [status EXCEPT ![i] = s]
  PROVE  /\ Cardinality(With(r)') < Cardinality(With(r))
         /\ \A q \in CallStatus \ {s, r} : With(q)' = With(q)
<1>1. DOMAIN status = 1..Len(calls) /\ Len(calls) \in Nat
  BY DEF BatchTypeOK
<1>2. \A j \in DOMAIN status : status'[j] = IF j = i THEN s ELSE status[j]
  OBVIOUS
<1>3. DOMAIN status' = DOMAIN status
  OBVIOUS
<1>4. With(r)' = With(r) \ {i}
  BY <1>2, <1>3 DEF With
<1>5. IsFiniteSet(DOMAIN status)
  BY <1>1, FS_Interval
<1>6. IsFiniteSet(With(r)) /\ i \in With(r)
  BY <1>5, FS_Subset DEF With
<1>7. Cardinality(With(r)) \in Nat /\ Cardinality(With(r) \ {i}) = Cardinality(With(r)) - 1
  BY <1>6, FS_RemoveElement, FS_CardinalityType
<1>8. \A q \in CallStatus \ {s, r} : With(q)' = With(q)
  BY <1>2, <1>3 DEF With
<1>9. Cardinality(With(r)') < Cardinality(With(r))
  BY <1>4, <1>7
<1> QED BY <1>8, <1>9

\* What is left of a run is a list of seven numbers.
LEMMA LeftType ==
  ASSUME TypeInv
  PROVE  Left \in [1..7 -> Nat]
<1>1. Phase[pc] \in Nat
  BY DEF TypeInv, TypeOK, LoopTypeOK, PCs, Phase
<1>2. Len(prompts) \in Nat /\ Len(pendingMessages) \in Nat /\ Len(calls) - results \in Nat
  BY DEF TypeInv, TypeOK, LoopTypeOK, BatchTypeOK
<1>3. ASSUME NEW r PROVE Cardinality(With(r)) \in Nat
  <2>1. IsFiniteSet(DOMAIN status)
    BY FS_Interval DEF TypeInv, TypeOK, BatchTypeOK
  <2> QED BY <2>1, FS_Subset, FS_CardinalityType DEF With
<1>4. /\ Cardinality(With("todo")) \in Nat /\ Cardinality(With("prepared")) \in Nat
      /\ Cardinality(With("running")) \in Nat
  BY <1>3
<1> QED BY <1>1, <1>2, <1>4 DEF Left

\* Each of the run's own steps leaves less of it.
LEMMA OwnStepsWindDown ==
  ASSUME TypeInv, activeRun = "aborted", Own
  PROVE  Below(Left', Left)
<1>0. BatchTypeOK /\ prompts \in Seq(UserMessages) /\ pendingMessages \in Seq(UserMessages)
  BY DEF TypeInv, TypeOK, LoopTypeOK
<1>1. CASE AnnouncePrompt
  <2>1. pc' = pc /\ prompts # <<>> /\ prompts' = Tail(prompts)
    BY <1>1 DEF AnnouncePrompt
  <2>2. Len(prompts') < Len(prompts)
    BY <1>0, <2>1
  <2> QED BY <2>1, <2>2, LeftBelow
<1>2. CASE InjectMessage
  <2>1. /\ pc' = pc /\ prompts' = prompts
        /\ pendingMessages # <<>> /\ pendingMessages' = Tail(pendingMessages)
    BY <1>2 DEF InjectMessage
  <2>2. Len(pendingMessages') < Len(pendingMessages)
    BY <1>0, <2>1
  <2> QED BY <2>1, <2>2, LeftBelow
<1>3. CASE PollSteering \/ PollFollowUp \/ RequestStream \/ EndBatch \/ EmitAgentEnd
           \/ HandleRunFailure \/ FinishRun
  <2>1. Phase[pc'] < Phase[pc]
    BY <1>3 DEF PollSteering, PollFollowUp, RequestStream, EndBatch, EmitAgentEnd,
                HandleRunFailure, FinishRun, Phase
  <2> QED BY <2>1, LeftBelow
<1>4. CASE RunThrows
  <2>1. pc \in PCs \ {"idle", "failed", "finish"} /\ pc' = "failed"
    BY <1>4 DEF RunThrows, TypeInv, TypeOK, LoopTypeOK
  <2>2. Phase[pc'] < Phase[pc]
    BY <2>1 DEF PCs, Phase
  <2> QED BY <2>2, LeftBelow
<1>5. CASE Stream
  <2>1. PICK c \in Batches, stop \in StopReasons : StreamEnds(c, stop)
    BY <1>5 DEF Stream
  <2>2. \/ pc = "stream" /\ pc' \in {"tools", "turnEnd", "agentEnd"}
        \/ pc = "doomed" /\ pc' = "agentEnd"
    BY <2>1 DEF StreamEnds
  <2>3. Phase[pc'] < Phase[pc]
    BY <2>2 DEF Phase
  <2> QED BY <2>3, LeftBelow
<1>6. ASSUME NEW i \in DOMAIN status, PrepareCall(i) \/ RejectCall(i)
      PROVE  Below(Left', Left)
  <2>1. /\ pc' = pc /\ prompts' = prompts /\ pendingMessages' = pendingMessages
        /\ status[i] = "todo"
    BY <1>6 DEF PrepareCall, RejectCall, MayPreflight, loopVars
  <2>2. PICK s \in {"prepared", "ended"} : status' = [status EXCEPT ![i] = s]
    BY <1>6 DEF PrepareCall, RejectCall
  <2>3. Cardinality(With("todo")') < Cardinality(With("todo"))
    BY <1>0, <2>1, <2>2, OneFewer DEF CallStatus
  <2> QED BY <2>1, <2>3, LeftBelow
<1>7. CASE Launch
  <2>1. /\ pc' = pc /\ prompts' = prompts /\ pendingMessages' = pendingMessages
        /\ \E i \in DOMAIN status : status[i] = "prepared"
        /\ status' = [i \in DOMAIN status |->
                        IF status[i] = "prepared" THEN "running" ELSE status[i]]
    BY <1>7 DEF Launch, loopVars
  <2>2. With("todo")' = With("todo") /\ With("prepared")' = {} /\ With("prepared") # {}
    BY <2>1 DEF With
  <2>3. IsFiniteSet(With("prepared"))
    <3>1. IsFiniteSet(DOMAIN status)
      BY <1>0, FS_Interval DEF BatchTypeOK
    <3> QED BY <3>1, FS_Subset DEF With
  <2>4. Cardinality(With("prepared")') < Cardinality(With("prepared"))
    <3>1. Cardinality(With("prepared")') = 0
      BY <2>2, FS_EmptySet
    <3>2. Cardinality(With("prepared")) \in Nat /\ Cardinality(With("prepared")) # 0
      BY <2>2, <2>3, FS_EmptySet, FS_CardinalityType
    <3> QED BY <3>1, <3>2
  <2> QED BY <2>1, <2>2, <2>4, LeftBelow
<1>8. CASE EmitResult
  <2>1. /\ pc' = pc /\ prompts' = prompts /\ pendingMessages' = pendingMessages
        /\ status' = status /\ calls' = calls /\ results' = results + 1
    BY <1>8 DEF EmitResult, loopVars
  <2>2. Len(calls') - results' < Len(calls) - results
    BY <1>0, <2>1 DEF BatchTypeOK
  <2>3. \A s \in CallStatus : With(s)' = With(s)
    BY <2>1 DEF With
  <2> QED BY <2>1, <2>2, <2>3, LeftBelow DEF CallStatus
<1>9. ASSUME NEW i \in DOMAIN status, ToolReturns(i)
      PROVE  Below(Left', Left)
  <2>1. PICK t \in BOOLEAN : ToolEnds(i, t)
    BY <1>9 DEF ToolReturns
  <2>2. /\ prompts' = prompts /\ pendingMessages' = pendingMessages
        /\ status[i] = "running" /\ status' = [status EXCEPT ![i] = "ended"]
        /\ pc' = pc \/ (pc = "tools" /\ pc' = "failed")
    BY <2>1 DEF ToolEnds, Running
  <2>3. /\ Cardinality(With("running")') < Cardinality(With("running"))
        /\ With("todo")' = With("todo") /\ With("prepared")' = With("prepared")
    BY <1>0, <2>2, OneFewer DEF CallStatus
  <2>4. CASE pc' = pc
    BY <2>2, <2>3, <2>4, LeftBelow
  <2>5. CASE pc = "tools" /\ pc' = "failed"
    <3>1. Phase[pc'] < Phase[pc]
      BY <2>5 DEF Phase
    <3> QED BY <3>1, LeftBelow
  <2> QED BY <2>2, <2>4, <2>5
<1> QED
  BY <1>1, <1>2, <1>3, <1>4, <1>5, <1>6, <1>7, <1>8, <1>9 DEF Own, LoopStep

\* Neither a caller of the API nor a tool of a dead run touches what is left.
LEMMA OthersLeaveIt ==
  ASSUME activeRun = "aborted",
         \/ Caller \/ \E z \in zombies : ZombieEnds(z)
         \/ UNCHANGED vars
  PROVE  Left' = Left
<1>1. CASE Caller
  <2>1. UNCHANGED <<loopVars, batchVars>>
    BY <1>1 DEF Caller, Prompt, ContinueFromQueue, ContinueFromContext, Steer, FollowUp,
                ClearSteeringQueue, ClearFollowUpQueue, Abort, Reset
  <2> QED BY <2>1 DEF Left, With, loopVars, batchVars
<1>2. CASE (\E z \in zombies : ZombieEnds(z)) \/ UNCHANGED vars
  <2>1. UNCHANGED <<loopVars, status, calls, results>>
    BY <1>2 DEF ZombieEnds, vars, batchVars
  <2> QED BY <2>1 DEF Left, With, loopVars
<1> QED BY <1>1, <1>2

\* An aborted run winds down: each step of the loop, the provider or a tool brings it
\* lower in a well-founded order (NoEndlessDescent), and steer(), followUp(), reset()
\* and tools of dead runs cannot bring it up again.
THEOREM AbortAlwaysWindsDown == Spec => [](Left \in [1..7 -> Nat]) /\ AbortWindsDown
<1>1. ASSUME TypeInv, [Next]_vars, activeRun = "aborted"
      PROVE  IF Own THEN Below(Left', Left) ELSE Left' = Left
  <2>1. CASE Own
    BY <1>1, <2>1, OwnStepsWindDown
  <2>2. CASE ~Own
    <3>1. Caller \/ (\E z \in zombies : ZombieEnds(z)) \/ UNCHANGED vars
      BY <1>1, <2>2 DEF Next, Own
    <3>2. Left' = Left
      BY <1>1, <3>1, OthersLeaveIt
    <3> QED BY <2>2, <3>2
  <2> QED BY <2>1, <2>2
<1>2. TypeInv /\ [Next]_vars
        => [activeRun = "aborted" => IF Own THEN Below(Left', Left) ELSE Left' = Left]_vars
  BY <1>1
<1>3. TypeInv => Left \in [1..7 -> Nat]
  BY LeftType
<1> QED
  BY <1>2, <1>3, TypeInvariant, PTL DEF Spec, AbortWindsDown

-----------------------------------------------------------------------------
\* The initial poll is skipped at the start of a run or never.
SkippedOnlyAtTheStart == skipPoll => pc \in {"start", "failed", "finish"}

\* A queued message that a poll still to come in this run will take.
Carried(m) ==
  m \in Range(steeringQueue) /\ pc \in {"tools", "turnEnd", "inject", "stream", "doomed"}

\* Such a message stays in the way of that poll until it is taken or cleared, or the run
\* fails: runLoop has no way from a turn to the end of the run that passes it by.
SteeringHeld ==
  [][\A m \in UserMessages :
       Carried(m) => Carried(m)' \/ m \notin Range(steeringQueue') \/ RunFailed']_vars

\* Only a run that starts skips a poll.
LEMMA SkipStep ==
  ASSUME TypeInv, SkippedOnlyAtTheStart, [Next]_vars
  PROVE  SkippedOnlyAtTheStart'
<1> USE DEF SkippedOnlyAtTheStart
<1>1. CASE \/ Caller \/ (\E z \in zombies : ZombieEnds(z)) \/ UNCHANGED vars
  BY <1>1 DEF Caller, Prompt, ContinueFromQueue, ContinueFromContext, StartRun, Steer, FollowUp,
              ClearSteeringQueue, ClearFollowUpQueue, Abort, Reset, ZombieEnds, vars, loopVars
<1>2. CASE \/ AnnouncePrompt \/ PollSteering \/ PollFollowUp \/ InjectMessage \/ RequestStream
           \/ Launch \/ EmitResult \/ EndBatch
           \/ EmitAgentEnd \/ HandleRunFailure \/ FinishRun \/ RunThrows
  BY <1>2 DEF AnnouncePrompt, PollSteering, PollFollowUp, InjectMessage, RequestStream, Launch,
              EmitResult, EndBatch, EmitAgentEnd, HandleRunFailure, FinishRun, RunThrows, loopVars
<1>3. CASE Stream
  BY <1>3 DEF Stream, StreamEnds
<1>4. ASSUME NEW i \in DOMAIN status, PrepareCall(i) \/ RejectCall(i) \/ ToolReturns(i)
      PROVE  SkippedOnlyAtTheStart'
  BY <1>4 DEF PrepareCall, RejectCall, MayPreflight, ToolReturns, ToolEnds, loopVars
<1> QED BY <1>1, <1>2, <1>3, <1>4 DEF Next, LoopStep

\* No step of a run leaves a steered message behind.
LEMMA SteeringKept ==
  ASSUME TypeInv, SkippedOnlyAtTheStart, [Next]_vars, NEW m \in UserMessages, Carried(m)
  PROVE  Carried(m)' \/ m \notin Range(steeringQueue') \/ RunFailed'
<1>0. /\ pc \in {"tools", "turnEnd", "inject", "stream", "doomed"} /\ m \in Range(steeringQueue)
      /\ ~skipPoll /\ activeRun # "none" /\ steeringQueue \in Seq(UserMessages)
      /\ ctx \in Seq(Message)
  BY DEF Carried, SkippedOnlyAtTheStart, TypeInv, TypeOK, AgentTypeOK, LoopTypeOK, Shape,
         RunRegistered
<1>1. CASE UNCHANGED <<pc, steeringQueue>>
  BY <1>1 DEF Carried
<1>2. CASE Caller
  <2>1. CASE \/ \E n \in UserMessages : Prompt(n)
             \/ ContinueFromQueue \/ ContinueFromContext
    BY <1>0, <2>1 DEF Prompt, ContinueFromQueue, ContinueFromContext
  <2>2. ASSUME NEW n \in UserMessages, Steer(n)
        PROVE  Carried(m)'
    <3>1. steeringQueue' = Append(steeringQueue, n) /\ pc' = pc
      BY <2>2 DEF Steer, loopVars
    <3>2. m \in Range(steeringQueue')
      <4>1. PICK k \in DOMAIN steeringQueue : steeringQueue[k] = m
        BY <1>0 DEF Range
      <4>2. k \in DOMAIN steeringQueue' /\ steeringQueue'[k] = m
        BY <1>0, <3>1, <4>1
      <4> QED BY <4>2 DEF Range
    <3> QED BY <1>0, <3>1, <3>2 DEF Carried
  <2>3. CASE ClearSteeringQueue \/ Reset
    <3>1. steeringQueue' = <<>>
      BY <2>3 DEF ClearSteeringQueue, Reset
    <3>2. m \notin Range(steeringQueue')
      BY <3>1 DEF Range
    <3> QED BY <3>2
  <2>4. CASE (\E n \in UserMessages : FollowUp(n)) \/ ClearFollowUpQueue \/ Abort
    BY <1>1, <2>4 DEF FollowUp, ClearFollowUpQueue, Abort, loopVars
  <2> QED BY <1>2, <2>1, <2>2, <2>3, <2>4 DEF Caller
<1>3. CASE PollSteering
  <2>1. /\ pc = "turnEnd" /\ ~skipPoll
        /\ pc' = IF hasMoreToolCalls \/ Drained(steeringQueue, SteeringMode) # <<>>
                  THEN "inject" ELSE "followUp"
    BY <1>0, <1>3 DEF PollSteering
  <2>2. Drained(steeringQueue, SteeringMode) # <<>>
    BY <1>0 DEF Drained, Range
  <2> QED BY <2>1, <2>2 DEF Carried
<1>4. CASE RequestStream \/ EndBatch
  BY <1>0, <1>4 DEF RequestStream, EndBatch, agentVars, Carried
<1>5. CASE RunThrows
  BY <1>5 DEF RunThrows, RunFailed
<1>6. CASE Stream
  <2>1. PICK c \in Batches, stop \in StopReasons : StreamEnds(c, stop)
    BY <1>6 DEF Stream
  <2>2. CASE stop = "done"
    BY <1>0, <2>1, <2>2 DEF StreamEnds, Carried
  <2>3. CASE stop # "done"
    <3>1. pc' = "agentEnd" /\ ctx' = Append(ctx, Assistant(turns + 1, c, stop))
      BY <2>1, <2>3 DEF StreamEnds
    <3>2. ctx' # <<>> /\ Last(ctx') = Assistant(turns + 1, c, stop)
      BY <1>0, <3>1 DEF Last
    <3> QED BY <2>3, <3>1, <3>2 DEF RunFailed, Assistant
  <2> QED BY <2>2, <2>3
<1>7. ASSUME NEW i \in DOMAIN status, ToolReturns(i)
      PROVE  Carried(m)' \/ RunFailed'
  <2>1. pc' \in {pc, "failed"} /\ UNCHANGED steeringQueue
    BY <1>7 DEF ToolReturns, ToolEnds
  <2> QED BY <1>0, <2>1 DEF Carried, RunFailed
<1>8. CASE InjectMessage \/ EmitResult \/ Launch
  BY <1>1, <1>8 DEF InjectMessage, EmitResult, Launch, agentVars, loopVars
<1>9. ASSUME NEW i \in DOMAIN status, PrepareCall(i) \/ RejectCall(i)
      PROVE  Carried(m)'
  <2>1. UNCHANGED <<pc, steeringQueue>>
    BY <1>9 DEF PrepareCall, RejectCall, loopVars
  <2> QED BY <1>1, <2>1 DEF Carried
<1>10. CASE AnnouncePrompt \/ PollFollowUp \/ EmitAgentEnd \/ HandleRunFailure \/ FinishRun
  BY <1>0, <1>10 DEF AnnouncePrompt, PollFollowUp, EmitAgentEnd, HandleRunFailure, FinishRun
<1>11. CASE (\E z \in zombies : ZombieEnds(z)) \/ UNCHANGED vars
  BY <1>1, <1>11 DEF ZombieEnds, vars, agentVars, loopVars
<1> QED
  BY <1>2, <1>3, <1>4, <1>5, <1>6, <1>7, <1>8, <1>9, <1>10, <1>11 DEF Next, LoopStep

\* What steer() queues during a turn is never passed by, not after a batch that asks to
\* terminate and not behind other messages in one-at-a-time mode; only a turn that fails
\* or is aborted leaves it queued.
THEOREM SteeringAlwaysHeld == Spec => SteeringHeld
<1>1. Init => SkippedOnlyAtTheStart
  BY DEF Init, SkippedOnlyAtTheStart
<1>2. TypeInv /\ SkippedOnlyAtTheStart /\ [Next]_vars => SkippedOnlyAtTheStart'
  BY SkipStep
<1>3. TypeInv /\ SkippedOnlyAtTheStart /\ [Next]_vars
        => [\A m \in UserMessages :
              Carried(m) => Carried(m)' \/ m \notin Range(steeringQueue') \/ RunFailed']_vars
  BY SteeringKept
<1> QED
  BY <1>1, <1>2, <1>3, TypeInvariant, PTL DEF Spec, SteeringHeld
=============================================================================
