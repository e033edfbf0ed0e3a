---------------------------- MODULE AgentSession ----------------------------
(***************************************************************************)
(* class AgentSession (packages/coding-agent/src/core/agent-session.ts)     *)
(* around one Agent: queues mirrored for the UI, persistence, retry,        *)
(* compaction and the output of bash commands.                              *)
(*                                                                          *)
(* The agent's listener only appends to a queue of events; the session      *)
(* works through that queue behind the loop, waiting for extensions.  An    *)
(* action is what runs between two points where a timer, the network, an    *)
(* extension or the user can come in.  The agent is AgentLoop at that       *)
(* grain: since the listener returns at once, everything between a model's   *)
(* answer (or the end of its tools) and the next request is one step.       *)
(***************************************************************************)
EXTENDS Integers, Sequences, FiniteSets, FiniteSetsExt, SequencesExt, Lists

CONSTANTS MaxTexts,       \* bound: user messages, numbered in the order they are sent
          MaxRetries,     \* retry.maxRetries
          Scripts,        \* how the model's answers end, one after the other; an
                          \* answer beyond the script just stops
          StreamMayThrow, \* BOOLEAN: the stream function may reject
          ListenerMayThrow, \* BOOLEAN: so may a listener of the session
          MaxCalls,       \* bound: clearQueue, abort, compact and bash commands, together
          MaxThrows       \* bound: rejections and errors of listeners, together

\* How an answer ends: with "large" it is over the threshold of compaction; a "silent"
\* one stops as if nothing were wrong, but the window has overflowed.
AllStops == {"stop", "large", "silent", "toolUse", "retryable", "overflow"}
Ended == {"stop", "large", "silent"}

ASSUME SessionAssumption ==
  /\ Scripts \subseteq Seq(AllStops)
  /\ MaxRetries \in Nat /\ {StreamMayThrow, ListenerMayThrow} \subseteq BOOLEAN
  /\ MaxTexts \in Nat

VARIABLES           \* of the agent
  run,              \* "none", "turn" (a request is out) or "tools"
  aborted,          \* signal of the run
  messages,         \* state.messages
  steeringQueue, followUpQueue
agentVars == <<run, aborted, messages, steeringQueue, followUpQueue>>

VARIABLES           \* of the session
  connected,        \* _unsubscribeAgent is defined
  agentEventQueue,  \* events _processAgentEvent has not finished
  steeringMessages, followUpMessages,
  lastAssistantMessage,
  retryAttempt, retryPromise,
  backoff,          \* the error whose retry sleeps, or None
  overflowRecoveryAttempted,
  timers,           \* setTimeout callbacks that will call agent.continue()
  jobs,             \* compactions under way, by who waits for them
  compacting,       \* compact(): "no", "aborting" or "summarising"
  pendingBashMessages,
  entries           \* the session's entries, root to leaf
sessionVars == <<connected, agentEventQueue, steeringMessages, followUpMessages,
                 lastAssistantMessage, retryAttempt, retryPromise, backoff,
                 overflowRecoveryAttempted, timers, jobs, compacting,
                 pendingBashMessages, entries>>

VARIABLE prompts    \* where the call that sends each text stands

VARIABLES           \* history and bounds, not part of the code
  script,           \* the script the model follows
  answers, calls, throws,
  removed,          \* answers taken out of messages for a retry
  budget,           \* failed answers to expect before the user acts again
  missed,           \* an event fell into the gap compact() leaves
  outOfStep,        \* events still waited when a run began, a compaction ended or
                    \* bash output was recorded, or a listener threw an error
  displaced         \* a compaction replaced messages under a run or its retry
ghostVars == <<script, answers, calls, throws, removed, budget,
               missed, outOfStep, displaced>>

vars == <<agentVars, sessionVars, prompts, ghostVars>>

-----------------------------------------------------------------------------
None == [kind |-> "none"]
Texts == 1..MaxTexts
\* Who may wait for a compaction: the handler of agent_end, a call of prompt(), compact().
Handler == 0
Manual == MaxTexts + 1
Owners == 0..MaxTexts + 1

User(t) == [kind |-> "user", text |-> t]
Assistant(n, stop) == [kind |-> "assistant", id |-> n, stop |-> stop]
ToolResult(n) == [kind |-> "toolResult", id |-> n]
Bash(n) == [kind |-> "bash", id |-> n]
Failure(n) == [kind |-> "failure", id |-> n]
Summary == [kind |-> "summary"]
\* A compaction entry: first kept entry, and the last answer begun before it.
CompactionEntry(keep, at) == [kind |-> "compaction", keep |-> keep, at |-> at]
AgentEnd == [kind |-> "agentEnd"]

Answer == [kind : {"assistant"}, id : Nat, stop : AllStops \cup {"aborted"}]
Message == [kind : {"user"}, text : Texts] \cup Answer
             \cup [kind : {"toolResult", "bash", "failure"}, id : Nat] \cup {Summary}
CompactionEntries == [kind : {"compaction"}, keep : Nat \ {0}, at : Nat]
Entry == Message \cup CompactionEntries

ErrorStops == {"retryable", "overflow"}
RemovedStops == ErrorStops \cup {"silent"}
IsError(m) == m.kind = "assistant" /\ m.stop \in ErrorStops
IsAssistant(m) == m.kind \in {"assistant", "failure"}
Drained(q) == IF q = <<>> THEN <<>> ELSE <<User(Head(q))>>
Rest(q) == IF q = <<>> THEN <<>> ELSE Tail(q)
Waiting == {"compacting", "ready", "running", "waitRetry", "waitIdle"}
Busy == backoff # None \/ jobs[Handler] # None

TypeOK ==
  /\ run \in {"none", "turn", "tools"} /\ aborted \in BOOLEAN
  /\ messages \in Seq(Message)
  /\ steeringQueue \in Seq(Texts) /\ followUpQueue \in Seq(Texts)
  /\ connected \in BOOLEAN
  /\ agentEventQueue \in Seq(Message \cup {AgentEnd})
  /\ steeringMessages \in Seq(Texts) /\ followUpMessages \in Seq(Texts)
  /\ lastAssistantMessage \in Answer \cup {None}
  /\ retryAttempt \in 0..MaxRetries /\ retryPromise \in BOOLEAN
  /\ backoff \in Answer \cup {None}
  /\ overflowRecoveryAttempted \in BOOLEAN
  /\ timers \in Nat
  /\ jobs \in [Owners -> {None} \cup
                [kind : {"overflow", "threshold", "manual"}, keep : Nat \ {0}]]
  /\ compacting \in {"no", "aborting", "summarising"}
  /\ pendingBashMessages \in Seq(Message)
  /\ entries \in Seq(Entry)
  /\ prompts \in [Texts -> {"unsent", "queued", "returned"} \cup Waiting]
  /\ removed \subseteq Nat
  /\ script \in Scripts
  /\ {answers, calls, throws} \subseteq Nat /\ budget \in Int
  /\ missed \in BOOLEAN /\ outOfStep \in BOOLEAN /\ displaced \in BOOLEAN

Init ==
  /\ run = "none" /\ aborted = FALSE /\ messages = <<>>
  /\ steeringQueue = <<>> /\ followUpQueue = <<>>
  /\ connected = TRUE /\ agentEventQueue = <<>>
  /\ steeringMessages = <<>> /\ followUpMessages = <<>>
  /\ lastAssistantMessage = None /\ retryAttempt = 0 /\ retryPromise = FALSE
  /\ backoff = None /\ overflowRecoveryAttempted = FALSE /\ timers = 0
  /\ jobs = [o \in Owners |-> None] /\ compacting = "no"
  /\ pendingBashMessages = <<>> /\ entries = <<>>
  /\ prompts = [t \in Texts |-> "unsent"]
  /\ script \in Scripts /\ answers = 0 /\ calls = 0 /\ throws = 0
  /\ removed = {} /\ budget = MaxRetries + 2 /\ missed = FALSE
  /\ outOfStep = FALSE /\ displaced = FALSE

-----------------------------------------------------------------------------
(* What a reload of the session, or a compaction, makes the agent's messages. *)
Compactions(es) == {i \in DOMAIN es : es[i].kind = "compaction"}

Context(es) ==
  IF Compactions(es) = {} THEN es
  ELSE LET c == Max(Compactions(es)) IN
       <<Summary>> \o Without(SubSeq(es, es[c].keep, c - 1), CompactionEntries)
                   \o SubSeq(es, c + 1, Len(es))

(* Where prepareCompaction may cut: nowhere before the last kept part, and    *)
(* never at a tool result.  How much is kept depends on sizes: any cut.       *)
CutPoints(es) ==
  LET c == Compactions(es)
      boundaryStart == IF c = {} THEN 1 ELSE es[Max(c)].keep
  IN IF Len(es) \in c THEN {}
     ELSE {i \in boundaryStart..Len(es) : es[i].kind \notin {"toolResult", "compaction"}}

\* An answer older than the last compaction says nothing about the context now.
Stale(m) ==
  LET c == Compactions(entries) IN c # {} /\ m.kind = "assistant" /\ m.id <= entries[Max(c)].at

IsLarge(m) == m.kind = "assistant" /\ m.stop \in {"large", "silent"}
Due(ms) == \E i \in DOMAIN ms : IsLarge(ms[i]) /\ ~Stale(ms[i])

\* Whatever can ask the provider again uses up all retries at worst: the run or its end,
\* a timer, a retry that sleeps, a compaction after which the run goes on, one that is
\* due.  Besides there is one recovery from an overflow.
Continues(o) == jobs[o].kind \in {"overflow", "threshold"}
Continuations(ms) ==
  1 + timers + Cardinality({o \in Owners : Continues(o)})
    + (IF backoff = None THEN 0 ELSE 1) + (IF Due(ms) THEN 1 ELSE 0)
Budget(ms) == (MaxRetries + 1) * Continuations(ms) + 1

(* What the agent tells its listener; nobody listens while compact() runs.    *)
Emit(events) ==
  /\ agentEventQueue' = IF connected THEN agentEventQueue \o events ELSE agentEventQueue
  /\ missed' = (missed \/ (~connected /\ events # <<>>))

(* runWithLifecycle up to the first request: ms are the prompts, sq and fq    *)
(* the queues the caller left.                                                *)
StartRun(ms, skipInitialSteeringPoll, sq, fq) ==
  LET polled == IF skipInitialSteeringPoll THEN <<>> ELSE Drained(sq)
      announced == ms \o polled
  IN /\ run = "none"
     /\ run' = "turn" /\ aborted' = FALSE
     /\ messages' = messages \o announced
     /\ steeringQueue' = IF skipInitialSteeringPoll THEN sq ELSE Rest(sq)
     /\ followUpQueue' = fq
     /\ Emit(announced)
     /\ budget' = IF announced = <<>> THEN budget ELSE Budget(messages)
     /\ outOfStep' = (outOfStep \/ agentEventQueue # <<>>)

(* agent_end, the listener's synchronous part, finishRun, and the callers of  *)
(* prompt() and waitForIdle that were waiting for it.                         *)
EndRun(events, retryable) ==
  LET promise == retryPromise \/ (connected /\ retryable) IN
  /\ run' = "none" /\ aborted' = FALSE
  /\ Emit(events \o <<AgentEnd>>)
  /\ retryPromise' = promise
  /\ prompts' = [t \in Texts |->
                   CASE prompts[t] = "running" -> IF promise THEN "waitRetry" ELSE "returned"
                     [] prompts[t] = "waitIdle" -> "returned"
                     [] OTHER -> prompts[t]]

\* Mutant: the promise is dropped unresolved.
ForgetRetry == retryPromise' = FALSE /\ UNCHANGED prompts

(* _resolveRetry: waitForRetry goes on to wait for the agent to be idle.      *)
ResolveRetry ==
  /\ retryPromise' = FALSE
  /\ prompts' = [t \in Texts |->
                   IF prompts[t] # "waitRetry" THEN prompts[t]
                   ELSE IF run = "none" THEN "returned" ELSE "waitIdle"]

-----------------------------------------------------------------------------
(* The agent's run.                                                          *)

\* The model's answer, and then a poll of the steering queue, and of the
\* follow-up queue if the run would end.
Answers(stop) ==
  LET msg == Assistant(answers + 1, stop)
      polled == IF stop \notin Ended THEN <<>>
                ELSE Drained(IF steeringQueue # <<>> THEN steeringQueue ELSE followUpQueue)
  IN /\ run = "turn"
     /\ stop = IF aborted THEN "aborted"
               ELSE IF answers < Len(script) THEN script[answers + 1] ELSE "stop"
     /\ answers' = answers + 1
     /\ messages' = messages \o <<msg>> \o polled
     /\ budget' = IF IsError(msg) THEN budget - 1 ELSE Budget(messages')
     /\ IF stop \in Ended /\ steeringQueue # <<>>
        THEN steeringQueue' = Tail(steeringQueue) /\ UNCHANGED followUpQueue
        ELSE UNCHANGED steeringQueue /\ followUpQueue' = IF polled = <<>> THEN followUpQueue
                                                        ELSE Tail(followUpQueue)
     /\ IF stop = "toolUse" \/ polled # <<>>
        THEN /\ run' = IF stop = "toolUse" THEN "tools" ELSE "turn"
             /\ Emit(<<msg>> \o polled)
             /\ UNCHANGED <<aborted, retryPromise, prompts>>
        ELSE EndRun(<<msg>>, stop = "retryable")
     /\ UNCHANGED <<script, connected, steeringMessages, followUpMessages, lastAssistantMessage,
                    retryAttempt, backoff, overflowRecoveryAttempted, timers, jobs,
                    compacting, pendingBashMessages, entries, calls,
                    throws, removed, outOfStep, displaced>>

ToolsEnd ==
  LET announced == <<ToolResult(answers)>> \o Drained(steeringQueue) IN
  /\ run = "tools"
  /\ run' = "turn"
  /\ messages' = messages \o announced
  /\ steeringQueue' = Rest(steeringQueue)
  /\ Emit(announced)
  /\ budget' = Budget(messages)
  /\ UNCHANGED <<script, aborted, followUpQueue, connected, steeringMessages, followUpMessages,
                 lastAssistantMessage, retryAttempt, retryPromise, backoff,
                 overflowRecoveryAttempted, timers, jobs, compacting,
                 pendingBashMessages, entries, prompts, answers, calls,
                 throws, removed, outOfStep, displaced>>

\* The stream function rejects (no usable credentials): handleRunFailure puts a
\* message into the transcript and announces agent_end alone.
StreamThrows(retryable) ==
  /\ run = "turn" /\ StreamMayThrow /\ throws < MaxThrows
  /\ throws' = throws + 1
  /\ messages' = Append(messages, Failure(throws'))
  /\ EndRun(<<>>, retryable /\ ~aborted)
  /\ UNCHANGED <<script, steeringQueue, followUpQueue, connected, steeringMessages,
                 followUpMessages, lastAssistantMessage, retryAttempt, backoff,
                 overflowRecoveryAttempted, timers, jobs, compacting,
                 pendingBashMessages, entries, answers, calls,
                 removed, budget, outOfStep, displaced>>

\* setTimeout(() => agent.continue().catch(() => {})).
TimerFires ==
  LET last == IF messages = <<>> THEN None ELSE Last(messages) IN
  /\ timers > 0
  /\ timers' = timers - 1
  /\ \/ /\ ~IsAssistant(last) /\ last # None
        /\ StartRun(<<>>, FALSE, steeringQueue, followUpQueue)
     \/ /\ IsAssistant(last) /\ steeringQueue # <<>>
        /\ StartRun(Drained(steeringQueue), TRUE, Tail(steeringQueue), followUpQueue)
     \/ /\ IsAssistant(last) /\ steeringQueue = <<>> /\ followUpQueue # <<>>
        /\ StartRun(Drained(followUpQueue), FALSE, steeringQueue, Tail(followUpQueue))
     \/ /\ \/ run # "none" \/ last = None
           \/ IsAssistant(last) /\ steeringQueue = <<>> /\ followUpQueue = <<>>
        /\ UNCHANGED <<agentVars, agentEventQueue, missed, budget, outOfStep>>
  /\ UNCHANGED <<script, connected, steeringMessages, followUpMessages, lastAssistantMessage,
                 retryAttempt, retryPromise, backoff, overflowRecoveryAttempted, jobs,
                 compacting, pendingBashMessages, entries, prompts, answers, calls, throws,
                 removed, displaced>>

-----------------------------------------------------------------------------
(* Compaction.                                                               *)

\* The last answer with usage data: errors and aborted answers have none.
LastUsage(ms) ==
  LET U == {i \in DOMAIN ms : ms[i].kind = "assistant" /\ ms[i].stop \notin
                                {"retryable", "overflow", "aborted"}}
  IN IF U = {} THEN None ELSE ms[Max(U)]

\* Mutant: every overflow is recovered from.
RecoverAlways(o, m, ms) ==
  IF m = None \/ Stale(m) THEN {"no"}
  ELSE IF m.kind = "assistant" /\ m.stop \in {"overflow", "silent"} THEN {"overflow"}
  ELSE IF IsLarge(m) THEN {"threshold"} ELSE {"no"}

\* What _checkCompaction may decide about m for owner o; ms are the agent's messages.  Of an
\* aborted answer, or a run that was aborted as it failed, only prompt() asks: what is
\* known of its size is whatever had come.
CompactionReasons(o, m, ms) ==
  LET cutOff == m.kind = "assistant" /\ m.stop = "aborted"
      overflow == m.kind = "assistant" /\ m.stop \in {"overflow", "silent"}
      usage == IF m.kind = "failure" \/ IsError(m) THEN LastUsage(ms) ELSE m
  IN IF m = None \/ Stale(m) \/ (cutOff /\ o = Handler) THEN {"no"}
     ELSE IF cutOff THEN {"no", "threshold"}
     ELSE IF overflow THEN {IF overflowRecoveryAttempted THEN "no" ELSE "overflow"}
     ELSE IF IsLarge(usage) /\ ~Stale(usage)
          THEN {"threshold"} \cup (IF m.kind = "failure" THEN {"no"} ELSE {})
     ELSE {"no"}

\* Mutant: the error stays in the transcript the retry sends.
KeepLastAnswer(ms) == ms

WithoutLastAnswer(ms) ==
  IF ms # <<>> /\ IsAssistant(Last(ms)) THEN Front(ms) ELSE ms

\* _checkCompaction, and _runAutoCompaction up to the summarising request, for
\* owner o; es are the session's entries, gone the answers already taken out.
CheckCompaction(o, m, ms, es, gone) ==
  \E reason \in CompactionReasons(o, m, ms) :
  /\ overflowRecoveryAttempted' = (overflowRecoveryAttempted \/ reason = "overflow")
  /\ messages' = IF reason = "overflow" THEN WithoutLastAnswer(ms) ELSE ms
  /\ removed' = IF reason = "overflow" /\ ms # <<>> /\ Last(ms) = m
                THEN gone \cup {m.id} ELSE gone
  /\ IF reason = "no" \/ CutPoints(es) = {}
     THEN UNCHANGED jobs
     ELSE \E keep \in CutPoints(es) :
            jobs' = [jobs EXCEPT ![o] = [kind |-> reason, keep |-> keep]]

\* Whoever waited for the compaction of owner o goes on.
Released(o) ==
  /\ jobs' = [jobs EXCEPT ![o] = None]
  /\ prompts' = IF o \in Texts THEN [prompts EXCEPT ![o] = "ready"] ELSE prompts
  /\ connected' = (connected \/ o = Manual)
  /\ compacting' = IF o = Manual THEN "no" ELSE compacting

\* The summary arrives: the session's entries replace the agent's messages.
CompactionEnds(o) ==
  LET job == jobs[o]
      context == Context(entries')
      retried == job.kind = "overflow" /\ IsError(Last(context))
  IN /\ job # None
     /\ entries' = Append(entries, CompactionEntry(job.keep,
                                      answers + IF run = "turn" THEN 1 ELSE 0))
     /\ messages' = IF retried THEN Front(context) ELSE context
     /\ removed' = IF retried THEN {Last(context).id} ELSE {}
     /\ timers' = IF job.kind = "overflow"
                     \/ (job.kind = "threshold" /\ steeringQueue \o followUpQueue # <<>>)
                  THEN timers + 1 ELSE timers
     /\ Released(o)
     /\ outOfStep' = (outOfStep \/ agentEventQueue # <<>>)
     /\ displaced' = (displaced \/ run # "none" \/ retryPromise)
     /\ UNCHANGED <<script, run, aborted, steeringQueue, followUpQueue, agentEventQueue,
                    steeringMessages, followUpMessages, lastAssistantMessage, retryAttempt,
                    retryPromise, backoff, overflowRecoveryAttempted, pendingBashMessages,
                    answers, calls, throws, budget, missed>>

\* The request fails, or abortCompaction() cancels it.
CompactionFails(o) ==
  /\ jobs[o] # None
  /\ Released(o)
  /\ UNCHANGED <<agentVars, agentEventQueue, steeringMessages, followUpMessages,
                 lastAssistantMessage, retryAttempt, retryPromise, backoff,
                 overflowRecoveryAttempted, timers, pendingBashMessages, entries, ghostVars>>

-----------------------------------------------------------------------------
(* _processAgentEvent.                                                       *)

\* Mutant: a delivered message stays on display.
StillShown(q, e) == q

Shown(q, e) == IF e.kind = "user" THEN RemoveFirst(q, e.text) ELSE q

\* The text of a user message leaves the mirrored queue it is found in.
Mirrored(e) ==
  /\ steeringMessages' = Shown(steeringMessages, e)
  /\ followUpMessages' = IF steeringMessages' # steeringMessages THEN followUpMessages
                         ELSE Shown(followUpMessages, e)

\* A message, which is appended to the session.
ProcessMessage ==
  LET e == Head(agentEventQueue) IN
  /\ agentEventQueue # <<>> /\ ~Busy /\ e # AgentEnd
  /\ agentEventQueue' = Tail(agentEventQueue)
  /\ entries' = Append(entries, e)
  /\ Mirrored(e)
  /\ lastAssistantMessage' = IF e.kind = "assistant" THEN e ELSE lastAssistantMessage
  /\ LET success == e.kind = "assistant" /\ ~IsError(e) IN
     /\ overflowRecoveryAttempted' =
          (overflowRecoveryAttempted /\ e.kind # "user" /\ ~success)
     /\ retryAttempt' = IF success THEN 0 ELSE retryAttempt
  /\ UNCHANGED <<agentVars, connected, retryPromise, backoff, timers, jobs, compacting,
                 pendingBashMessages, prompts, ghostVars>>

\* A listener throws an error at an event: what was to follow for it, the entry of a
\* message or the end of a run, is dropped, and the queue goes on with the next.
ListenerThrows ==
  LET e == Head(agentEventQueue) IN
  /\ ListenerMayThrow /\ throws < MaxThrows
  /\ agentEventQueue # <<>> /\ ~Busy
  /\ throws' = throws + 1
  /\ agentEventQueue' = Tail(agentEventQueue)
  /\ Mirrored(e)
  /\ overflowRecoveryAttempted' = (overflowRecoveryAttempted /\ e.kind # "user")
  /\ outOfStep' = TRUE
  /\ UNCHANGED <<agentVars, connected, lastAssistantMessage, retryAttempt, retryPromise,
                 backoff, timers, jobs, compacting, pendingBashMessages, entries, prompts,
                 script, answers, calls, removed, budget, missed, displaced>>

\* Mutant: one retry too many.
MayRetryOnceMore(m) == m # None /\ m.stop = "retryable" /\ retryAttempt <= MaxRetries

MayRetry(m) == m # None /\ m.stop = "retryable" /\ retryAttempt < MaxRetries

\* agent_end after an error worth a retry: back off first.
ProcessRetry ==
  LET m == lastAssistantMessage IN
  /\ agentEventQueue # <<>> /\ ~Busy /\ Head(agentEventQueue) = AgentEnd
  /\ MayRetry(m)
  /\ agentEventQueue' = Tail(agentEventQueue)
  /\ lastAssistantMessage' = None
  /\ retryPromise' = TRUE /\ retryAttempt' = retryAttempt + 1
  /\ messages' = WithoutLastAnswer(messages)
  /\ removed' = removed \cup {m.id}
  /\ backoff' = m
  /\ UNCHANGED <<script, run, aborted, steeringQueue, followUpQueue, connected, steeringMessages,
                 followUpMessages, overflowRecoveryAttempted, timers, jobs, compacting,
                 pendingBashMessages, entries, prompts, answers, calls,
                 throws, budget, missed, outOfStep, displaced>>

\* agent_end otherwise: no (further) retry, perhaps a compaction.
ProcessEnd ==
  LET m == lastAssistantMessage IN
  /\ agentEventQueue # <<>> /\ ~Busy /\ Head(agentEventQueue) = AgentEnd
  /\ ~MayRetry(m)
  /\ agentEventQueue' = Tail(agentEventQueue)
  /\ lastAssistantMessage' = None
  /\ IF m = None
     THEN UNCHANGED <<messages, retryAttempt, retryPromise, overflowRecoveryAttempted, jobs,
                      prompts, removed>>
     ELSE /\ retryAttempt' = IF m.stop = "retryable" THEN 0 ELSE retryAttempt
          /\ ResolveRetry
          /\ CheckCompaction(Handler, m, messages, entries, removed)
  /\ UNCHANGED <<script, run, aborted, steeringQueue, followUpQueue, connected, steeringMessages,
                 followUpMessages, backoff, timers, compacting, pendingBashMessages,
                 entries, answers, calls, throws, budget, missed,
                 outOfStep, displaced>>

\* The sleep of the back-off is over: a timer will continue the run.
BackoffEnds ==
  /\ backoff # None
  /\ backoff' = None
  /\ timers' = timers + 1
  /\ UNCHANGED <<agentVars, connected, agentEventQueue, steeringMessages, followUpMessages,
                 lastAssistantMessage, retryAttempt, retryPromise,
                 overflowRecoveryAttempted, jobs, compacting, pendingBashMessages, entries,
                 prompts, ghostVars>>

-----------------------------------------------------------------------------
(* The user, and whoever else calls the session.                             *)

IsNew(t) == prompts[t] = "unsent" /\ \A u \in 1..(t - 1) : prompts[u] # "unsent"

\* prompt() of an idle session up to its checks: flush what bash left, compact if due.
Prompt(t) ==
  LET ms == messages \o pendingBashMessages
      es == entries \o pendingBashMessages
      lasts == {i \in DOMAIN ms : IsAssistant(ms[i])}
      lastAssistant == IF lasts = {} THEN None ELSE ms[Max(lasts)]
  IN /\ IsNew(t) /\ run = "none"
     /\ pendingBashMessages' = <<>>
     /\ entries' = es
     /\ CheckCompaction(t, lastAssistant, ms, es, removed)
     /\ prompts' = [prompts EXCEPT ![t] = IF jobs'[t] = None THEN "ready" ELSE "compacting"]
     /\ budget' = Budget(ms) + IF jobs'[t] = None THEN 0 ELSE MaxRetries + 1
     /\ outOfStep' = (outOfStep \/ (pendingBashMessages # <<>> /\ agentEventQueue # <<>>))
     /\ UNCHANGED <<script, run, aborted, steeringQueue, followUpQueue, connected, agentEventQueue,
                    steeringMessages, followUpMessages, lastAssistantMessage, retryAttempt,
                    retryPromise, backoff, timers, compacting, answers, calls,
                    throws, missed, displaced>>

\* ... and, after the extensions have seen it, agent.prompt(), which throws if
\* another run has begun meanwhile.
SendPrompt(t) ==
  /\ prompts[t] = "ready"
  /\ IF run = "none"
     THEN /\ StartRun(<<User(t)>>, FALSE, steeringQueue, followUpQueue)
          /\ prompts' = [prompts EXCEPT ![t] = "running"]
     ELSE /\ prompts' = [prompts EXCEPT ![t] = "returned"]
          /\ UNCHANGED <<agentVars, agentEventQueue, missed, budget, outOfStep>>
  /\ UNCHANGED <<script, connected, steeringMessages, followUpMessages, lastAssistantMessage,
                 retryAttempt, retryPromise, backoff, overflowRecoveryAttempted, timers, jobs,
                 compacting, pendingBashMessages, entries, answers, calls,
                 throws, removed, displaced>>

Steer(t) ==
  /\ IsNew(t)
  /\ prompts' = [prompts EXCEPT ![t] = "queued"]
  /\ steeringMessages' = Append(steeringMessages, t)
  /\ steeringQueue' = Append(steeringQueue, t)
  /\ UNCHANGED <<script, run, aborted, messages, followUpQueue, connected, agentEventQueue,
                 followUpMessages, lastAssistantMessage, retryAttempt, retryPromise, backoff,
                 overflowRecoveryAttempted, timers, jobs, compacting, pendingBashMessages,
                 entries, answers, calls, throws, removed, budget, missed,
                 outOfStep, displaced>>

FollowUp(t) ==
  /\ IsNew(t)
  /\ prompts' = [prompts EXCEPT ![t] = "queued"]
  /\ followUpMessages' = Append(followUpMessages, t)
  /\ followUpQueue' = Append(followUpQueue, t)
  /\ UNCHANGED <<script, run, aborted, messages, steeringQueue, connected, agentEventQueue,
                 steeringMessages, lastAssistantMessage, retryAttempt, retryPromise, backoff,
                 overflowRecoveryAttempted, timers, jobs, compacting, pendingBashMessages,
                 entries, answers, calls, throws, removed, budget, missed,
                 outOfStep, displaced>>

ClearQueue ==
  /\ calls < MaxCalls /\ steeringMessages \o followUpMessages # <<>>
  /\ calls' = calls + 1
  /\ steeringMessages' = <<>> /\ followUpMessages' = <<>>
  /\ steeringQueue' = <<>> /\ followUpQueue' = <<>>
  /\ UNCHANGED <<script, run, aborted, messages, connected, agentEventQueue, lastAssistantMessage,
                 retryAttempt, retryPromise, backoff, overflowRecoveryAttempted, timers, jobs,
                 compacting, pendingBashMessages, entries, prompts, answers, throws, removed,
                 budget, missed, outOfStep, displaced>>

\* abortRetry() and agent.abort().  A sleeping retry gives up and its handler
\* goes on to the compaction check.
AbortEffects ==
  /\ aborted' = (run # "none")
  /\ ResolveRetry
  /\ backoff' = None
  /\ IF backoff = None
     THEN UNCHANGED <<messages, retryAttempt, overflowRecoveryAttempted, jobs, removed>>
     ELSE retryAttempt' = 0 /\ CheckCompaction(Handler, backoff, messages, entries, removed)
  /\ calls < MaxCalls /\ calls' = calls + 1
  /\ UNCHANGED <<script, run, steeringQueue, followUpQueue, agentEventQueue, steeringMessages,
                 followUpMessages, lastAssistantMessage, timers, pendingBashMessages, entries,
                 answers, throws, budget, missed, outOfStep, displaced>>

Abort ==
  /\ run # "none" \/ retryPromise \/ backoff # None
  /\ AbortEffects
  /\ UNCHANGED <<connected, compacting>>

\* compact() stops listening, aborts, and waits for the agent to be idle.
Compact ==
  /\ compacting = "no"
  /\ AbortEffects
  /\ connected' = FALSE /\ compacting' = "aborting"

CompactBegins ==
  /\ compacting = "aborting" /\ run = "none"
  /\ IF CutPoints(entries) = {}
     THEN connected' = TRUE /\ compacting' = "no" /\ UNCHANGED jobs
     ELSE /\ \E keep \in CutPoints(entries) :
               jobs' = [jobs EXCEPT ![Manual] = [kind |-> "manual", keep |-> keep]]
          /\ compacting' = "summarising" /\ UNCHANGED connected
  /\ UNCHANGED <<agentVars, agentEventQueue, steeringMessages, followUpMessages,
                 lastAssistantMessage, retryAttempt, retryPromise, backoff,
                 overflowRecoveryAttempted, timers, pendingBashMessages, entries, prompts,
                 ghostVars>>

\* recordBashResult.
RecordBash ==
  LET b == <<Bash(calls + 1)>> IN
  /\ calls < MaxCalls
  /\ calls' = calls + 1
  /\ budget' = Budget(messages)
  /\ IF run # "none"
     THEN /\ pendingBashMessages' = pendingBashMessages \o b
          /\ UNCHANGED <<messages, entries, outOfStep>>
     ELSE /\ messages' = messages \o b /\ entries' = entries \o b
          /\ outOfStep' = (outOfStep \/ agentEventQueue # <<>>)
          /\ UNCHANGED pendingBashMessages
  /\ UNCHANGED <<script, run, aborted, steeringQueue, followUpQueue, connected, agentEventQueue,
                 steeringMessages, followUpMessages, lastAssistantMessage, retryAttempt,
                 retryPromise, backoff, overflowRecoveryAttempted, timers, jobs, compacting,
                 prompts, answers, throws, removed, missed, displaced>>

\* What the event loop does of itself: a request or a tool ends, a handler goes
\* on, a timer fires, a summary comes or fails.
SystemStep ==
  \/ \E stop \in AllStops \cup {"aborted"} : Answers(stop)
  \/ ToolsEnd
  \/ ProcessMessage \/ ProcessRetry \/ ProcessEnd
  \/ BackoffEnds \/ TimerFires
  \/ \E o \in Owners : CompactionEnds(o) \/ CompactionFails(o)
  \/ CompactBegins
  \/ \E t \in Texts : SendPrompt(t)

UserStep ==
  \/ \E t \in Texts : Prompt(t) \/ Steer(t) \/ FollowUp(t)
  \/ ClearQueue \/ Abort \/ Compact \/ RecordBash

Next ==
  \/ SystemStep
  \/ \E retryable \in BOOLEAN : StreamThrows(retryable)
  \/ ListenerThrows
  \/ UserStep

Spec == Init /\ [][Next]_vars

\* While anything of it is left to do the event loop does something.  Users owe
\* nothing, and nothing need go wrong.
Fairness == WF_vars(SystemStep)
FairSpec == Spec /\ Fairness

-----------------------------------------------------------------------------
(* What should hold.                                                         *)

\* The queues shown to the user are the agent's, behind messages the loop has
\* taken and the session not yet seen: the user is never shown less than will
\* still be sent, nor, unless compact() missed an event, a message that stays for ever.
MirrorShowsQueue ==
  \A p \in {<<steeringMessages, steeringQueue>>, <<followUpMessages, followUpQueue>>} :
    LET taken == Len(p[1]) - Len(p[2]) IN
    /\ taken >= 0 /\ SubSeq(p[1], taken + 1, Len(p[1])) = p[2]
    /\ missed \/ \A i \in 1..taken : Contains(agentEventQueue, User(p[1][i]))

\* At rest, a reload of the session gives the agent's messages, except answers taken out
\* for a retry and failures the session never hears of.  An answer taken out is an error,
\* or an overflow that went unsaid: a good answer, which the agent lacks from then on if
\* the compaction fails or is cancelled.  Nothing is promised once compact() missed an event,
\* or one was handled out of step: a listener threw at it, or a run, a compaction or bash
\* output came in front of it.
ReloadIsFaithful ==
  run = "none" /\ agentEventQueue = <<>> /\ ~Busy /\ ~missed /\ ~outOfStep
    => Without(Context(entries), [kind : {"assistant"}, id : removed, stop : RemovedStops])
         = Without(messages, [kind : {"failure"}, id : Nat])

\* "Remove the error message from agent state (it IS saved to session for history, but we
\* don't want it in context for the retry)" (agent-session.ts:1797): of nothing but errors;
\* checked by no run.
OnlyErrorsTakenOut ==
  run = "none" /\ agentEventQueue = <<>> /\ ~Busy /\ ~missed /\ ~outOfStep
    => Without(Context(entries), [kind : {"assistant"}, id : removed, stop : ErrorStops])
         = Without(messages, [kind : {"failure"}, id : Nat])

\* A provider that keeps failing is asked a bounded number of times before the user
\* speaks or runs a command again, whatever retry and overflow recovery do together; as
\* long as events are handled in step.
FailuresBounded == outOfStep \/ budget >= 0

\* A call of prompt() returns, whatever retries its run needs.
PromptReturns == \A t \in Texts : prompts[t] \in Waiting ~> prompts[t] = "returned"

\* It does, unless the stream function rejected, a listener threw, the session was still
\* busy with an earlier run, compact() stopped listening, or a compaction ended under a run or its
\* retry, which may bring back the very error that is retried: then the run may have lost
\* what its retry would go on from.  (A text is sent once: if again and again no
\* call is waiting, each one has returned.)
PromptReturnsUndisturbed ==
  []<>\/ throws > 0 \/ missed \/ outOfStep \/ displaced
      \/ \A t \in Texts : prompts[t] \notin Waiting
=============================================================================
