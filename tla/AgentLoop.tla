------------------------------ MODULE AgentLoop ------------------------------
(***************************************************************************)
(* The agent runtime: class Agent (packages/agent/src/agent.ts) driving the *)
(* low-level loop (packages/agent/src/agent-loop.ts).                       *)
(*                                                                          *)
(* One variable group belongs to Agent (what the API exposes), one to the   *)
(* local variables of runLoop, one to the tool batch.  Each action is the   *)
(* code between two awaits at which another caller of the API can run.      *)
(* A listener that throws, or a stream function that rejects, is RunThrows. *)
(***************************************************************************)
EXTENDS Naturals, Sequences, FiniteSets, SequencesExt

CONSTANTS UserMessages,    \* identities of user messages; each is sent once
          Tools,           \* tool names
          SequentialTools, \* tools whose executionMode is "sequential"
          ToolExecution,   \* config.toolExecution: "parallel" | "sequential"
          SteeringMode,    \* "all" | "one-at-a-time"
          FollowUpMode,    \* "all" | "one-at-a-time"
          Batches,         \* tool-call lists an assistant message may carry
          MaxTurns,        \* bound: assistant messages that are not failures
          MaxThrows        \* bound: exceptions out of listeners and streams

ASSUME ToolsAssumption ==
  /\ SequentialTools \subseteq Tools
  /\ Batches \subseteq Seq(Tools)
  /\ ToolExecution \in {"parallel", "sequential"}

ASSUME BoundsAssumption == MaxTurns \in Nat /\ MaxThrows \in Nat

VARIABLES
  activeRun,        \* Agent.activeRun: "none", "active", or its signal "aborted"
  isStreaming,      \* AgentState.isStreaming
  messages,         \* AgentState.messages
  steeringQueue, followUpQueue,
  pendingToolCalls  \* AgentState.pendingToolCalls, ids <<turn, position>>
agentVars == <<activeRun, isStreaming, messages, steeringQueue, followUpQueue,
               pendingToolCalls>>

VARIABLES
  pc,               \* where the run stands
  prompts,          \* prompts of the run not yet announced
  skipPoll,         \* skipInitialSteeringPoll
  ctx,              \* currentContext.messages, what the model is sent
  pendingMessages, hasMoreToolCalls
loopVars == <<pc, prompts, skipPoll, ctx, pendingMessages, hasMoreToolCalls>>

VARIABLES
  turns,            \* serial number of the last assistant message
  calls,            \* tool calls of that message while its batch is open
  status,           \* one of CallStatus for every call of the batch
  results,          \* tool-result messages of the batch already emitted
  terminate,        \* every finalized result so far said terminate
  zombies           \* <<turn, position, tool>> still executing for a dead run
batchVars == <<turns, calls, status, results, terminate, zombies>>

VARIABLES           \* history and bounds, not part of the code
  fresh,            \* user messages not sent yet
  gone,             \* user messages cleared, reset away or lost with a run
  torn,             \* reset() ran in the middle of the current run
  agentEnds,        \* agent_end events of the current run
  throws
ghostVars == <<fresh, gone, torn, agentEnds, throws>>

vars == <<agentVars, loopVars, batchVars, ghostVars>>

-----------------------------------------------------------------------------
PCs == {"idle", "start", "inject", "stream", "doomed", "tools", "turnEnd",
        "followUp", "agentEnd", "settling", "failed", "finish"}
CallStatus == {"todo", "prepared", "running", "ended"}
StopReasons == {"done", "error", "aborted"}

User(m) == [role |-> "user", id |-> m]
Assistant(n, c, stop) == [role |-> "assistant", turn |-> n, calls |-> c, stop |-> stop]
ToolResult(n, i) == [role |-> "toolResult", turn |-> n, call |-> i]

Message ==
  [role : {"user"}, id : UserMessages]
    \cup [role : {"assistant"}, turn : Nat, calls : Seq(Tools), stop : StopReasons]
    \cup [role : {"toolResult"}, turn : Nat, call : Nat]

\* Mutant: the text is pushed, not the message made of it.
Unwrapped(s) == [i \in 1..Len(s) |-> s[i]]

Users(s) == [i \in 1..Len(s) |-> User(s[i])]
\* Mutant: the last result of a batch never reaches the context.
AllButLastResult(n, k) == [i \in 1..(IF k = 0 THEN 0 ELSE k - 1) |-> ToolResult(n, i)]
BatchResults(n, k) == [i \in 1..k |-> ToolResult(n, i)]

\* PendingMessageQueue.drain: what is taken and what stays.
Drained(queue, mode) ==
  IF mode = "all" THEN queue ELSE SubSeq(queue, 1, IF queue = <<>> THEN 0 ELSE 1)
\* Mutant: one-at-a-time mode takes the first message and leaves it queued.
Peeked(queue, mode) == IF mode = "all" THEN <<>> ELSE queue
Kept(queue, mode) ==
  IF mode = "all" \/ queue = <<>> THEN <<>> ELSE Tail(queue)

Init ==
  /\ activeRun = "none" /\ isStreaming = FALSE /\ messages = <<>>
  /\ steeringQueue = <<>> /\ followUpQueue = <<>> /\ pendingToolCalls = {}
  /\ pc = "idle" /\ prompts = <<>> /\ skipPoll = FALSE /\ ctx = <<>>
  /\ pendingMessages = <<>> /\ hasMoreToolCalls = FALSE
  /\ turns = 0 /\ calls = <<>> /\ status = <<>> /\ results = 0
  /\ terminate = FALSE /\ zombies = {}
  /\ fresh = UserMessages /\ gone = {} /\ torn = FALSE /\ agentEnds = 0 /\ throws = 0

-----------------------------------------------------------------------------
(***************************************************************************)
(* The API: any caller, at any await of the run.                            *)
(***************************************************************************)

\* runWithLifecycle up to the first await: open the run and snapshot the state.
StartRun(newPrompts, skip) ==
  /\ activeRun' = "active" /\ isStreaming' = TRUE
  /\ pc' = "start" /\ prompts' = newPrompts /\ skipPoll' = skip
  /\ ctx' = messages \o Users(newPrompts)
  /\ pendingMessages' = <<>> /\ hasMoreToolCalls' = TRUE
  /\ agentEnds' = 0 /\ torn' = FALSE
  /\ UNCHANGED <<messages, pendingToolCalls, batchVars, gone, throws>>

Prompt(m) ==
  /\ activeRun = "none" /\ m \in fresh
  /\ fresh' = fresh \ {m}
  /\ StartRun(<<m>>, FALSE)
  /\ UNCHANGED <<steeringQueue, followUpQueue>>

\* continue() with an assistant message last: queued messages become the prompts.
ContinueFromQueue ==
  /\ activeRun = "none"
  /\ messages # <<>> /\ Last(messages).role = "assistant"
  /\ \/ /\ steeringQueue # <<>>
        /\ steeringQueue' = Kept(steeringQueue, SteeringMode)
        /\ StartRun(Drained(steeringQueue, SteeringMode), TRUE)
        /\ UNCHANGED followUpQueue
     \/ /\ steeringQueue = <<>> /\ followUpQueue # <<>>
        /\ followUpQueue' = Kept(followUpQueue, FollowUpMode)
        /\ StartRun(Drained(followUpQueue, FollowUpMode), FALSE)
        /\ UNCHANGED steeringQueue
  /\ UNCHANGED fresh

\* continue() with a user message or a tool result last: no prompt is added.
ContinueFromContext ==
  /\ activeRun = "none"
  /\ messages # <<>> /\ Last(messages).role # "assistant"
  /\ StartRun(<<>>, FALSE)
  /\ UNCHANGED <<steeringQueue, followUpQueue, fresh>>

Steer(m) ==
  /\ m \in fresh
  /\ steeringQueue' = Append(steeringQueue, m)
  /\ fresh' = fresh \ {m}
  /\ UNCHANGED <<activeRun, isStreaming, messages, followUpQueue, pendingToolCalls,
                 loopVars, batchVars, gone, torn, agentEnds, throws>>

FollowUp(m) ==
  /\ m \in fresh
  /\ followUpQueue' = Append(followUpQueue, m)
  /\ fresh' = fresh \ {m}
  /\ UNCHANGED <<activeRun, isStreaming, messages, steeringQueue, pendingToolCalls,
                 loopVars, batchVars, gone, torn, agentEnds, throws>>

ClearSteeringQueue ==
  /\ steeringQueue # <<>>
  /\ steeringQueue' = <<>>
  /\ gone' = gone \cup Range(steeringQueue)
  /\ UNCHANGED <<activeRun, isStreaming, messages, followUpQueue, pendingToolCalls,
                 loopVars, batchVars, fresh, torn, agentEnds, throws>>

ClearFollowUpQueue ==
  /\ followUpQueue # <<>>
  /\ followUpQueue' = <<>>
  /\ gone' = gone \cup Range(followUpQueue)
  /\ UNCHANGED <<activeRun, isStreaming, messages, steeringQueue, pendingToolCalls,
                 loopVars, batchVars, fresh, torn, agentEnds, throws>>

Abort ==
  /\ activeRun = "active"
  /\ activeRun' = "aborted"
  /\ UNCHANGED <<isStreaming, messages, steeringQueue, followUpQueue, pendingToolCalls,
                 loopVars, batchVars, ghostVars>>

\* reset() asks nothing about the run: in the middle of one it tears the transcript.
Reset ==
  /\ messages' = <<>> /\ isStreaming' = FALSE /\ pendingToolCalls' = {}
  /\ steeringQueue' = <<>> /\ followUpQueue' = <<>>
  /\ gone' = gone \cup Range(steeringQueue) \cup Range(followUpQueue)
                  \cup {m \in UserMessages : User(m) \in Range(messages)}
  /\ torn' = (activeRun # "none")
  /\ UNCHANGED <<activeRun, loopVars, batchVars, fresh, agentEnds, throws>>

-----------------------------------------------------------------------------
(***************************************************************************)
(* The run: runAgentLoop / runAgentLoopContinue and runLoop.                *)
(***************************************************************************)

\* message_start/message_end of one prompt; processEvents appends it.
AnnouncePrompt ==
  /\ pc = "start" /\ prompts # <<>>
  /\ messages' = Append(messages, User(Head(prompts)))
  /\ prompts' = Tail(prompts)
  /\ UNCHANGED <<activeRun, isStreaming, steeringQueue, followUpQueue, pendingToolCalls,
                 pc, skipPoll, ctx, pendingMessages, hasMoreToolCalls, batchVars, ghostVars>>

\* getSteeringMessages, before the first turn and after every turn_end.
PollSteering ==
  /\ pc = "turnEnd" \/ (pc = "start" /\ prompts = <<>>)
  /\ LET drained == IF skipPoll THEN <<>> ELSE Drained(steeringQueue, SteeringMode)
     IN  /\ pendingMessages' = drained
         /\ pc' = IF hasMoreToolCalls \/ drained # <<>> THEN "inject" ELSE "followUp"
  /\ steeringQueue' = IF skipPoll THEN steeringQueue ELSE Kept(steeringQueue, SteeringMode)
  /\ skipPoll' = FALSE
  /\ UNCHANGED <<activeRun, isStreaming, messages, followUpQueue, pendingToolCalls,
                 prompts, ctx, hasMoreToolCalls, batchVars, ghostVars>>

\* getFollowUpMessages: the outer loop goes round again, or the run ends.
PollFollowUp ==
  /\ pc = "followUp"
  /\ pendingMessages' = Drained(followUpQueue, FollowUpMode)
  /\ followUpQueue' = Kept(followUpQueue, FollowUpMode)
  /\ hasMoreToolCalls' = (followUpQueue # <<>>)
  /\ pc' = IF followUpQueue # <<>> THEN "inject" ELSE "agentEnd"
  /\ UNCHANGED <<activeRun, isStreaming, messages, steeringQueue, pendingToolCalls,
                 prompts, skipPoll, ctx, batchVars, ghostVars>>

InjectMessage ==
  /\ pc = "inject" /\ pendingMessages # <<>>
  /\ messages' = Append(messages, User(Head(pendingMessages)))
  /\ ctx' = Append(ctx, User(Head(pendingMessages)))
  /\ pendingMessages' = Tail(pendingMessages)
  /\ UNCHANGED <<activeRun, isStreaming, steeringQueue, followUpQueue, pendingToolCalls,
                 pc, prompts, skipPoll, hasMoreToolCalls, batchVars, ghostVars>>

\* streamAssistantResponse calls the provider: under an aborted signal the
\* provider can only answer "aborted".
RequestStream ==
  /\ pc = "inject" /\ pendingMessages = <<>>
  /\ pc' = IF activeRun = "aborted" THEN "doomed" ELSE "stream"
  /\ UNCHANGED <<agentVars, prompts, skipPoll, ctx, pendingMessages, hasMoreToolCalls,
                 batchVars, ghostVars>>

\* The final assistant message: message_end, then the branch on its stop reason
\* and on its tool calls.
StreamEnds(c, stop) ==
  /\ pc = "stream" \/ (pc = "doomed" /\ stop = "aborted")
  /\ stop = "aborted" => activeRun = "aborted"
  /\ stop = "done" => turns < MaxTurns
  /\ messages' = Append(messages, Assistant(turns + 1, c, stop))
  /\ ctx' = Append(ctx, Assistant(turns + 1, c, stop))
  /\ turns' = turns + 1
  /\ hasMoreToolCalls' = FALSE
  /\ IF stop = "done" /\ c # <<>>
     THEN /\ pc' = "tools" /\ calls' = c /\ terminate' = TRUE
          /\ status' = [i \in 1..Len(c) |-> "todo"]
     ELSE /\ pc' = IF stop = "done" THEN "turnEnd" ELSE "agentEnd"
          /\ UNCHANGED <<calls, status, terminate>>
  /\ UNCHANGED <<activeRun, isStreaming, steeringQueue, followUpQueue, pendingToolCalls,
                 prompts, skipPoll, pendingMessages, results, zombies, ghostVars>>

-----------------------------------------------------------------------------
(***************************************************************************)
(* executeToolCalls: one batch, sequential or parallel.                     *)
(***************************************************************************)
\* Mutant: only the global setting counts, not the tools of the batch.
IsSequentialByConfig == ToolExecution = "sequential"

IsSequential ==
  ToolExecution = "sequential" \/ \E i \in DOMAIN calls : calls[i] \in SequentialTools

Running == {i \in DOMAIN status : status[i] = "running"}

CallId(i) == <<turns, i>>

\* The next call may be announced: in order, and in sequential mode only once
\* the result of the one before is out.
MayPreflight(i) ==
  /\ pc = "tools" /\ status[i] = "todo"
  /\ \A j \in 1..(i - 1) : status[j] # "todo"
  /\ IsSequential => results = i - 1

\* prepareToolCall finds, validates and is allowed to run the tool.
PrepareCall(i) ==
  /\ MayPreflight(i)
  /\ pendingToolCalls' = pendingToolCalls \cup {CallId(i)}
  /\ status' = [status EXCEPT ![i] = "prepared"]
  /\ UNCHANGED <<activeRun, isStreaming, messages, steeringQueue, followUpQueue, loopVars,
                 turns, calls, results, terminate, zombies, ghostVars>>

\* Mutant: the immediate error forgets its tool_execution_end.
RejectCallSilently(i) ==
  /\ MayPreflight(i)
  /\ pendingToolCalls' = pendingToolCalls \cup {CallId(i)}
  /\ status' = [status EXCEPT ![i] = "ended"] /\ terminate' = FALSE
  /\ UNCHANGED <<activeRun, isStreaming, messages, steeringQueue, followUpQueue, loopVars,
                 turns, calls, results, zombies, ghostVars>>

\* Unknown tool, invalid arguments, blocked or a hook that threw: an immediate
\* error result, which never asks to terminate.
RejectCall(i) ==
  /\ MayPreflight(i)
  /\ pendingToolCalls' = pendingToolCalls \ {CallId(i)}
  /\ status' = [status EXCEPT ![i] = "ended"]
  /\ terminate' = FALSE
  /\ UNCHANGED <<activeRun, isStreaming, messages, steeringQueue, followUpQueue, loopVars,
                 turns, calls, results, zombies, ghostVars>>

\* Parallel: Promise.all starts every prepared call once all are prepared.
Launch ==
  /\ pc = "tools"
  /\ \E i \in DOMAIN status : status[i] = "prepared"
  /\ IsSequential \/ \A i \in DOMAIN status : status[i] # "todo"
  /\ status' = [i \in DOMAIN status |->
                   IF status[i] = "prepared" THEN "running" ELSE status[i]]
  /\ UNCHANGED <<agentVars, loopVars, turns, calls, results, terminate, zombies, ghostVars>>

\* A tool returns or throws; afterToolCall decides its terminate hint and
\* tool_execution_end is emitted.  Its listener may fail the run; so may a listener
\* of the tool's updates, and then tool_execution_end is never emitted.
ToolEnds(i, asksToStop) ==
  /\ pc \in {"tools", "failed"} /\ i \in Running
  /\ status' = [status EXCEPT ![i] = "ended"]
  /\ terminate' = (terminate /\ asksToStop)
  /\ \/ /\ pendingToolCalls' = pendingToolCalls \ {CallId(i)}
        /\ UNCHANGED <<pc, throws>>
     \/ /\ pc = "tools" /\ throws < MaxThrows
        /\ pc' = "failed" /\ throws' = throws + 1
        /\ pendingToolCalls' \in {pendingToolCalls, pendingToolCalls \ {CallId(i)}}
  /\ UNCHANGED <<activeRun, isStreaming, messages, steeringQueue, followUpQueue, prompts,
                 skipPoll, ctx, pendingMessages, hasMoreToolCalls, turns, calls, results,
                 zombies, fresh, gone, torn, agentEnds>>

\* Tool-result messages, in the order of the calls.
EmitResult ==
  /\ pc = "tools" /\ results < Len(calls)
  /\ IF IsSequential THEN status[results + 1] = "ended"
                     ELSE \A i \in DOMAIN status : status[i] = "ended"
  /\ messages' = Append(messages, ToolResult(turns, results + 1))
  /\ results' = results + 1
  /\ UNCHANGED <<activeRun, isStreaming, steeringQueue, followUpQueue, pendingToolCalls,
                 loopVars, turns, calls, status, terminate, zombies, ghostVars>>

\* Mutant: queued steering cuts the batch short, results still owed.
EndBatchOnSteering ==
  /\ pc = "tools" /\ (results = Len(calls) \/ steeringQueue # <<>>)
  /\ ctx' = ctx \o BatchResults(turns, results) /\ hasMoreToolCalls' = ~terminate
  /\ calls' = <<>> /\ status' = <<>> /\ results' = 0 /\ terminate' = FALSE
  /\ pc' = "turnEnd"
  /\ UNCHANGED <<agentVars, prompts, skipPoll, pendingMessages, turns, zombies, ghostVars>>

\* Mutant: a batch that asks to terminate ends the run before steering is polled.
EndBatchAndRun ==
  /\ pc = "tools" /\ results = Len(calls)
  /\ ctx' = ctx \o BatchResults(turns, results) /\ hasMoreToolCalls' = ~terminate
  /\ calls' = <<>> /\ status' = <<>> /\ results' = 0 /\ terminate' = FALSE
  /\ pc' = IF terminate THEN "agentEnd" ELSE "turnEnd"
  /\ UNCHANGED <<agentVars, prompts, skipPoll, pendingMessages, turns, zombies, ghostVars>>

\* The batch joins the context; the loop goes on unless every call said terminate.
EndBatch ==
  /\ pc = "tools" /\ results = Len(calls)
  /\ ctx' = ctx \o BatchResults(turns, Len(calls))
  /\ hasMoreToolCalls' = ~terminate
  /\ calls' = <<>> /\ status' = <<>> /\ results' = 0 /\ terminate' = FALSE
  /\ pc' = "turnEnd"
  /\ UNCHANGED <<agentVars, prompts, skipPoll, pendingMessages, turns, zombies, ghostVars>>

\* A tool of a run that failed meanwhile: its end reaches whoever is running now.
ZombieEnds(z) ==
  /\ z \in zombies
  /\ zombies' = zombies \ {z}
  /\ pendingToolCalls' = pendingToolCalls \ {<<z[1], z[2]>>}
  /\ UNCHANGED <<activeRun, isStreaming, messages, steeringQueue, followUpQueue, loopVars,
                 turns, calls, status, results, terminate, ghostVars>>

-----------------------------------------------------------------------------
(***************************************************************************)
(* The end of a run.                                                        *)
(***************************************************************************)
EmitAgentEnd ==
  /\ pc = "agentEnd"
  /\ pc' = "settling" /\ agentEnds' = agentEnds + 1
  /\ UNCHANGED <<agentVars, prompts, skipPoll, ctx, pendingMessages, hasMoreToolCalls,
                 batchVars, fresh, gone, torn, throws>>

\* An exception between two awaits.  While tools execute, the only events are
\* theirs, and those are in ToolEnds.
RunThrows ==
  /\ pc \notin {"idle", "failed", "finish"} /\ Running = {}
  /\ throws < MaxThrows /\ throws' = throws + 1
  /\ pc' = "failed"
  /\ UNCHANGED <<agentVars, prompts, skipPoll, ctx, pendingMessages, hasMoreToolCalls,
                 batchVars, fresh, gone, torn, agentEnds>>

\* Nobody waits any more for the tools still executing, and what the loop had
\* drained but not announced dies with its local variables.
HandleRunFailure ==
  /\ pc = "failed"
  /\ messages' = Append(messages, Assistant(turns, <<>>,
                     IF activeRun = "aborted" THEN "aborted" ELSE "error"))
  /\ zombies' = zombies \cup {<<turns, i, calls[i]>> : i \in Running}
  /\ calls' = <<>> /\ status' = <<>> /\ results' = 0 /\ terminate' = FALSE
  /\ gone' = gone \cup Range(pendingMessages) \cup Range(prompts)
  /\ pendingMessages' = <<>> /\ prompts' = <<>>
  /\ agentEnds' = agentEnds + 1
  /\ pc' = "finish"
  /\ UNCHANGED <<activeRun, isStreaming, steeringQueue, followUpQueue, pendingToolCalls,
                 skipPoll, ctx, hasMoreToolCalls, turns, fresh, torn, throws>>

\* Mutant: the clean-up is not in the finally block.
FinishUnlessFailed ==
  /\ pc = "settling"
  /\ activeRun' = "none" /\ isStreaming' = FALSE /\ pendingToolCalls' = {}
  /\ pc' = "idle" /\ ctx' = <<>> /\ skipPoll' = FALSE /\ hasMoreToolCalls' = FALSE
  /\ UNCHANGED <<messages, steeringQueue, followUpQueue, prompts, pendingMessages,
                 batchVars, ghostVars>>

FinishRun ==
  /\ pc \in {"settling", "finish"}
  /\ activeRun' = "none" /\ isStreaming' = FALSE /\ pendingToolCalls' = {}
  /\ pc' = "idle" /\ ctx' = <<>> /\ skipPoll' = FALSE /\ hasMoreToolCalls' = FALSE
  /\ UNCHANGED <<messages, steeringQueue, followUpQueue, prompts, pendingMessages,
                 batchVars, ghostVars>>

-----------------------------------------------------------------------------
\* Steps the event loop takes by itself once the awaited work is there.
LoopStep ==
  \/ AnnouncePrompt \/ PollSteering \/ PollFollowUp \/ InjectMessage \/ RequestStream
  \/ \E i \in DOMAIN status : PrepareCall(i) \/ RejectCall(i)
  \/ Launch \/ EmitResult \/ EndBatch
  \/ EmitAgentEnd \/ HandleRunFailure \/ FinishRun

Stream == \E c \in Batches, stop \in StopReasons : StreamEnds(c, stop)
ToolReturns(i) == i \in DOMAIN status /\ \E t \in BOOLEAN : ToolEnds(i, t)

Caller ==
  \/ \E m \in UserMessages : Prompt(m) \/ Steer(m) \/ FollowUp(m)
  \/ ContinueFromQueue \/ ContinueFromContext
  \/ ClearSteeringQueue \/ ClearFollowUpQueue \/ Abort \/ Reset

Next ==
  \/ Caller
  \/ LoopStep
  \/ Stream
  \/ \E i \in DOMAIN status : ToolReturns(i)
  \/ \E z \in zombies : ZombieEnds(z)
  \/ RunThrows

Spec == Init /\ [][Next]_vars

\* Providers end their streams, tools return, and the event loop runs on.
Fairness ==
  /\ WF_vars(LoopStep) /\ WF_vars(Stream)
  /\ WF_vars(\E i \in DOMAIN status : ToolReturns(i))

FairSpec == Spec /\ Fairness

-----------------------------------------------------------------------------
(***************************************************************************)
(* Properties.                                                              *)
(***************************************************************************)

\* Every variable keeps its type.
AgentTypeOK ==
  /\ activeRun \in {"none", "active", "aborted"} /\ isStreaming \in BOOLEAN
  /\ messages \in Seq(Message)
  /\ steeringQueue \in Seq(UserMessages) /\ followUpQueue \in Seq(UserMessages)
  /\ pendingToolCalls \subseteq Nat \X Nat
LoopTypeOK ==
  /\ pc \in PCs /\ prompts \in Seq(UserMessages) /\ skipPoll \in BOOLEAN
  /\ ctx \in Seq(Message) /\ pendingMessages \in Seq(UserMessages)
  /\ hasMoreToolCalls \in BOOLEAN
BatchTypeOK ==
  /\ turns \in Nat /\ calls \in Seq(Tools) /\ status \in [1..Len(calls) -> CallStatus]
  /\ results \in 0..Len(calls) /\ terminate \in BOOLEAN
  /\ zombies \subseteq Nat \X Nat \X Tools
GhostTypeOK ==
  fresh \subseteq UserMessages /\ gone \subseteq UserMessages /\ torn \in BOOLEAN
CountTypeOK == agentEnds \in 0..2 /\ throws \in 0..MaxThrows
TypeOK == AgentTypeOK /\ LoopTypeOK /\ BatchTypeOK /\ GhostTypeOK /\ CountTypeOK

\* What the model is about to be sent is the transcript the API shows, although
\* runLoop keeps a copy of its own and the two are appended to at different
\* times; only a reset() in the middle of a run separates them.
ContextInSync ==
  ~torn /\ pc \in {"inject", "stream", "doomed"} => ctx = messages

Count(s, x) == Cardinality({i \in DOMAIN s : s[i] = x})

\* A message handed to prompt(), steer() or followUp() is in exactly one place:
\* a queue, the loop's locals, the transcript, or gone.  No interleaving of
\* polls, aborts, errors and failures delivers it twice or mislays it.
EachMessageOnce ==
  \A m \in UserMessages :
    Count(steeringQueue, m) + Count(followUpQueue, m) + Count(prompts, m)
      + Count(pendingMessages, m) + Count(messages, User(m))
      + (IF m \in gone THEN 1 ELSE 0)
      = IF m \in fresh THEN 0 ELSE 1

\* pendingToolCalls, which the UI and abort logic read, is exactly the set of
\* announced and unfinished calls of the open batch, and empty between batches.
PendingCallsExact ==
  ~torn /\ pc \notin {"failed", "finish"} =>
    pendingToolCalls =
      {CallId(i) : i \in {j \in DOMAIN status : status[j] \in {"prepared", "running"}}}

\* A tool declared "sequential" never shares the machine with another tool of
\* its own batch.
SequentialToolRunsAlone ==
  \A i \in Running : calls[i] \in SequentialTools => Running = {i}

\* ... nor with any other tool at all (types.ts: "this tool must execute one at a
\* time with other tool calls").  A tool left behind by a failed run breaks this.
SequentialToolRunsAloneAlways ==
  \A i \in Running : calls[i] \in SequentialTools => Running = {i} /\ zombies = {}

\* agent_end is the last event of a run, so there is one.
AgentEndIsLast == agentEnds <= 1

\* An aborted run settles, whatever is queued behind it.
AbortSettles == activeRun = "aborted" ~> activeRun = "none"

RunFailed ==
  pc = "failed" \/ (pc = "agentEnd" /\ ctx # <<>> /\ Last(ctx).role = "assistant"
                                    /\ Last(ctx).stop # "done")

\* A message steered while tools execute is taken up before the run ends, even
\* when the batch asks to terminate; only a failed or aborted turn leaves it queued.
SteeringTakenUp ==
  \A m \in UserMessages :
    (pc = "tools" /\ m \in Range(steeringQueue))
      ~> (m \notin Range(steeringQueue) \/ RunFailed)
-----------------------------------------------------------------------------
\* The runtime implements the conversation protocol, resets and failures included.
C == INSTANCE Conversation WITH
       log <- messages,
       said <- turns,
       owed <- [i \in 1..(Len(calls) - results) |-> <<turns, results + i>>]

ImplementsConversation == C!Spec

=============================================================================
