---------------------------- MODULE SessionRuntime ---------------------------
(***************************************************************************)
(* class AgentSessionRuntime (packages/coding-agent/src/core/                *)
(* agent-session-runtime.ts) under runRpcMode (src/modes/rpc/rpc-mode.ts):    *)
(* the client's lines are handled as they come, each up to its first wait,    *)
(* so commands that replace the session and prompts overlap.  An action is     *)
(* what runs between two waits for handlers of extensions, for the creation   *)
(* of a session, or for the agent.  A session is replaced alike by new,         *)
(* resume, fork, clone and import; what is in its file is SessionFile.         *)
(***************************************************************************)
EXTENDS Integers, FiniteSets

CONSTANTS MaxCommands, \* bound: commands that replace the session
          MaxPrompts,  \* bound: prompts
          MaxRequests  \* bound: both together
ASSUME RuntimeAssumption == {MaxCommands, MaxPrompts, MaxRequests} \subseteq Nat

VARIABLES
  session,    \* _session of the runtime
  rpcSession, \* the variable session of runRpcMode
  listening,  \* the session unsubscribe belongs to, or NoSession
  created,    \* sessions are numbered in the order they are created
  disposed,
  stage,      \* of each command: what it waits for
  byClient,   \* the command is a line of the client; else an extension's
  prompt,     \* of each prompt: what it waits for, or how it ended
  target,     \* the session it was given to
  continueTimers, \* sessions whose compaction has set a timer that calls agent.continue()
  continued,  \* sessions whose agent runs because of it
  quitting    \* shutdown(): "no", "handlers" or "exited"
runtimeVars == <<session, rpcSession, listening, created, disposed, stage, byClient,
                 prompt, target, continueTimers, continued, quitting>>

VARIABLES   \* history
  starts, shutdowns, \* of each session: session_start, session_shutdown it was told
  overlapped,        \* a session was replaced or closed while another command did so
  failed,            \* runtime's sessions at which a replacement stopped after its teardown
  heardOut,          \* prompts whose end the client was told of
  disturbed          \* prompts next to which something else was under way, or sent to
                     \* what a failed replacement had left
historyVars == <<starts, shutdowns, overlapped, failed, heardOut, disturbed>>

allRuntimeVars == <<runtimeVars, historyVars>>

Commands == 1..MaxCommands
Prompts == 1..MaxPrompts
Sessions == 1..MaxCommands + 1
NoSession == 0

Under == {"before", "shutdown", "creating", "setup", "rebinding", "rebinding again"}
UnderWay == {c \in Commands : stage[c] \in Under}
Open == {p \in Prompts : prompt[p] \in {"input", "preflight", "running"}}
MoreMayBeAsked ==
  Cardinality({c \in Commands : stage[c] # "unsent"})
  + Cardinality({p \in Prompts : prompt[p] # "unsent"}) < MaxRequests

Streaming(s) ==
  s \in continued \/ \E p \in Prompts : prompt[p] = "running" /\ target[p] = s

RuntimeTypeOK ==
  /\ session \in Sessions /\ rpcSession \in Sessions
  /\ listening \in Sessions \cup {NoSession}
  /\ created \in Sessions /\ disposed \subseteq 1..created
  /\ stage \in [Commands -> {"unsent", "answered"} \cup Under]
  /\ byClient \in [Commands -> BOOLEAN]
  /\ prompt \in [Prompts -> {"unsent", "input", "preflight", "running", "ended", "handled",
                             "refused", "rejected", "dropped"}]
  /\ target \in [Prompts -> Sessions \cup {NoSession}]
  /\ continueTimers \subseteq Sessions /\ continued \subseteq Sessions
  /\ quitting \in {"no", "handlers", "exited"}
  /\ starts \in [Sessions -> Nat] /\ shutdowns \in [Sessions -> Nat]
  /\ overlapped \in BOOLEAN /\ failed \subseteq Sessions
  /\ heardOut \subseteq Prompts /\ disturbed \subseteq Prompts

\* runRpcMode has bound the first session.
RuntimeInit ==
  /\ session = 1 /\ rpcSession = 1 /\ listening = 1 /\ created = 1 /\ disposed = {}
  /\ stage = [c \in Commands |-> "unsent"] /\ byClient \in [Commands -> BOOLEAN]
  /\ prompt = [p \in Prompts |-> "unsent"] /\ target = [p \in Prompts |-> NoSession]
  /\ continueTimers = {} /\ continued = {} /\ quitting = "no"
  /\ starts = [s \in Sessions |-> IF s = 1 THEN 1 ELSE 0]
  /\ shutdowns = [s \in Sessions |-> 0]
  /\ overlapped = FALSE /\ failed = {} /\ heardOut = {} /\ disturbed = {}

Alive == quitting # "exited"
Goes(c, from, to) == stage[c] = from /\ stage' = [stage EXCEPT ![c] = to]

-----------------------------------------------------------------------------
(* Replacing the session.                                                    *)

\* The command arrives; session_before_switch or session_before_fork is emitted.
SendCommand(c) ==
  /\ Alive /\ MoreMayBeAsked /\ Goes(c, "unsent", "before")
  /\ overlapped' = (overlapped \/ UnderWay # {} \/ quitting # "no")
  /\ disturbed' = disturbed \cup Open
  /\ UNCHANGED <<session, rpcSession, listening, created, disposed, byClient, prompt, target,
                 continueTimers, continued, quitting, starts, shutdowns, failed, heardOut>>

\* A handler cancels, or the target cannot be used: a missing working directory, an
\* entry that cannot be forked.
Refuse(c) ==
  /\ Alive /\ Goes(c, "before", "answered")
  /\ UNCHANGED <<session, rpcSession, listening, created, disposed, byClient, prompt, target,
                 continueTimers, continued, quitting, historyVars>>

TellShutdown(s) == shutdowns' = [shutdowns EXCEPT ![s] = @ + 1]

\* teardownCurrent up to its wait.
TearDown(c) ==
  /\ Alive /\ Goes(c, "before", "shutdown")
  /\ TellShutdown(session)
  /\ UNCHANGED <<session, rpcSession, listening, created, disposed, byClient, prompt, target,
                 continueTimers, continued, quitting, starts, overlapped, failed, heardOut,
                 disturbed>>

\* Mutant: the old session stays connected.
LeaveConnected == UNCHANGED disposed

\* Mutant: it is the session to come that is disposed of.
DisposeNext == disposed' = disposed \cup {created + 1}

\* dispose() of what is the runtime's session by now.
Dispose == disposed' = disposed \cup {session}

\* The rest of teardownCurrent; createRuntime begins.
DisposeCurrent(c) ==
  /\ Alive /\ Goes(c, "shutdown", "creating")
  /\ Dispose
  /\ UNCHANGED <<session, rpcSession, listening, created, byClient, prompt, target,
                 continueTimers, continued, quitting, historyVars>>

\* createRuntime throws, or the caller's setup does, or bindExtensions: the command is
\* answered with the error, and that is all.
ReplacementFails(c) ==
  /\ Alive /\ stage[c] \in {"creating", "setup", "rebinding", "rebinding again"}
  /\ Goes(c, stage[c], "answered")
  /\ failed' = IF stage[c] = "rebinding again" THEN failed ELSE failed \cup {session}
  /\ UNCHANGED <<session, rpcSession, listening, created, disposed, byClient, prompt, target,
                 continueTimers, continued, quitting, starts, shutdowns, overlapped, heardOut,
                 disturbed>>

\* Mutant: the client's lines go on to the session it had.
StartOnly(s) == UNCHANGED rpcSession /\ starts' = [starts EXCEPT ![s] = @ + 1]

\* rebindSession up to its wait, with s the runtime's session.
Rebind(s) ==
  /\ rpcSession' = s
  /\ starts' = [starts EXCEPT ![s] = @ + 1]

\* apply; then finishSessionReplacement calls the hook, unless an extension has asked
\* for a new session with a setup of its own, which is waited for first.
Apply(c) ==
  /\ Alive
  /\ created' = created + 1 /\ session' = created + 1
  /\ \/ Goes(c, "creating", "rebinding") /\ Rebind(created + 1)
     \/ ~byClient[c] /\ Goes(c, "creating", "setup") /\ UNCHANGED <<rpcSession, starts>>
  /\ UNCHANGED <<listening, disposed, byClient, prompt, target, continueTimers, continued,
                 quitting, shutdowns, overlapped, failed, heardOut, disturbed>>

SetupDone(c) ==
  /\ Alive /\ Goes(c, "setup", "rebinding")
  /\ Rebind(session)
  /\ UNCHANGED <<session, listening, created, disposed, byClient, prompt, target,
                 continueTimers, continued, quitting, shutdowns, overlapped, failed, heardOut,
                 disturbed>>

\* Mutant: the client goes on listening to the session it had.
KeepListening == UNCHANGED listening

\* The rest of rebindSession.
Subscribe == listening' = rpcSession

\* A line of the client calls rebindSession once more; an extension's withSession is left
\* out.
HookDone(c) ==
  /\ Alive /\ stage[c] = "rebinding"
  /\ Subscribe
  /\ IF byClient[c]
     THEN Goes(c, "rebinding", "rebinding again") /\ Rebind(session)
     ELSE Goes(c, "rebinding", "answered") /\ UNCHANGED <<rpcSession, starts>>
  /\ UNCHANGED <<session, created, disposed, byClient, prompt, target, continueTimers,
                 continued, quitting, shutdowns, overlapped, failed, heardOut, disturbed>>

HandlerDone(c) ==
  /\ Alive /\ Goes(c, "rebinding again", "answered")
  /\ Subscribe
  /\ UNCHANGED <<session, rpcSession, created, disposed, byClient, prompt, target,
                 continueTimers, continued, quitting, historyVars>>

-----------------------------------------------------------------------------
(* Prompts, without streamingBehavior.                                       *)

\* An extension's command is executed, or handlers of input events are asked.
SendPrompt(p) ==
  /\ Alive /\ MoreMayBeAsked /\ prompt[p] = "unsent"
  /\ prompt' = [prompt EXCEPT ![p] = "input"]
  /\ target' = [target EXCEPT ![p] = rpcSession]
  /\ disturbed' = disturbed
       \cup (IF UnderWay \cup Open \cup continued # {} \/ quitting # "no" THEN Open \cup {p}
             ELSE IF session \in failed THEN {p} ELSE {})
  /\ UNCHANGED <<session, rpcSession, listening, created, disposed, stage, byClient,
                 continueTimers, continued, quitting, starts, shutdowns, overlapped, failed,
                 heardOut>>

\* The text was a command's, or a handler took it: answered with success.
Handled(p) ==
  /\ Alive /\ prompt[p] = "input"
  /\ prompt' = [prompt EXCEPT ![p] = "handled"]
  /\ UNCHANGED <<session, rpcSession, listening, created, disposed, stage, byClient, target,
                 continueTimers, continued, quitting, historyVars>>

\* An error if the agent is streaming, or there is no model or no key for it; else a
\* compaction, which may set a timer, and the handlers of before_agent_start may take
\* their time.
CheckStreaming(p) ==
  /\ Alive /\ prompt[p] = "input"
  /\ IF Streaming(target[p])
     THEN prompt' = [prompt EXCEPT ![p] = "rejected"] /\ UNCHANGED continueTimers
     ELSE \/ prompt' = [prompt EXCEPT ![p] = "refused"] /\ UNCHANGED continueTimers
          \/ /\ prompt' = [prompt EXCEPT ![p] = "preflight"]
             /\ continueTimers' \in {continueTimers, continueTimers \cup {target[p]}}
  /\ UNCHANGED <<session, rpcSession, listening, created, disposed, stage, byClient, target,
                 continued, quitting, historyVars>>

\* The prompt is answered with success, and the agent called: its refusal, if it runs
\* already, is not reported.
Accept(p) ==
  /\ Alive /\ prompt[p] = "preflight"
  /\ prompt' = [prompt EXCEPT ![p] =
                  IF Streaming(target[p]) THEN "dropped" ELSE "running"]
  /\ UNCHANGED <<session, rpcSession, listening, created, disposed, stage, byClient, target,
                 continueTimers, continued, quitting, historyVars>>

\* agent_end, which reaches the client if its session is connected and listened to; a
\* compaction that follows may set the timer.
RunEnds(p) ==
  /\ Alive /\ prompt[p] = "running"
  /\ prompt' = [prompt EXCEPT ![p] = "ended"]
  /\ continueTimers' \in {continueTimers, continueTimers \cup {target[p]}}
  /\ heardOut' = IF target[p] = listening /\ target[p] \notin disposed
                 THEN heardOut \cup {p} ELSE heardOut
  /\ UNCHANGED <<session, rpcSession, listening, created, disposed, stage, byClient, target,
                 continued, quitting, starts, shutdowns, overlapped, failed, disturbed>>

\* The timer: continue() starts a run unless the agent is busy or has nothing to go on from.
TimerContinues(s) ==
  /\ Alive /\ s \in continueTimers
  /\ continueTimers' = continueTimers \ {s}
  /\ IF Streaming(s) THEN UNCHANGED <<continued, disturbed>>
     ELSE /\ continued' \in {continued, continued \cup {s}}
          /\ disturbed' = disturbed \cup Open
  /\ UNCHANGED <<session, rpcSession, listening, created, disposed, stage, byClient, prompt,
                 target, quitting, starts, shutdowns, overlapped, failed, heardOut>>

ContinuationEnds(s) ==
  /\ Alive /\ s \in continued
  /\ continued' = continued \ {s}
  /\ UNCHANGED <<session, rpcSession, listening, created, disposed, stage, byClient, prompt,
                 target, continueTimers, quitting, historyVars>>

-----------------------------------------------------------------------------
(* shutdown().                                                               *)

Shutdown ==
  /\ quitting = "no" /\ quitting' = "handlers"
  /\ listening' = NoSession
  /\ TellShutdown(session)
  /\ overlapped' = (overlapped \/ UnderWay # {})
  /\ disturbed' = disturbed \cup Open
  /\ UNCHANGED <<session, rpcSession, created, disposed, stage, byClient, prompt, target,
                 continueTimers, continued, starts, failed, heardOut>>

\* A second request exits without waiting for the handlers.
Exit ==
  /\ quitting = "handlers" /\ quitting' = "exited"
  /\ Dispose \/ UNCHANGED disposed
  /\ UNCHANGED <<session, rpcSession, listening, created, stage, byClient, prompt, target,
                 continueTimers, continued, historyVars>>

RuntimeNext ==
  \/ \E c \in Commands :
       \/ SendCommand(c) \/ Refuse(c) \/ TearDown(c) \/ DisposeCurrent(c)
       \/ ReplacementFails(c) \/ Apply(c) \/ SetupDone(c) \/ HookDone(c) \/ HandlerDone(c)
  \/ \E p \in Prompts :
       SendPrompt(p) \/ Handled(p) \/ CheckStreaming(p) \/ Accept(p) \/ RunEnds(p)
  \/ \E s \in Sessions : TimerContinues(s) \/ ContinuationEnds(s)
  \/ Shutdown \/ Exit

RuntimeSpec == RuntimeInit /\ [][RuntimeNext]_allRuntimeVars

-----------------------------------------------------------------------------
\* "Event subscriptions are attached to a specific AgentSession" (docs/sdk.md:168):
\* however commands overlap, once none is under way the client's commands and its
\* subscription go to the runtime's session, and that one is alive; unless that is the
\* session at which a replacement stopped: its creation, an extension's setup or the
\* binding of its extensions threw, after the old one was torn down.  The next
\* replacement that succeeds mends even that.
ClientHearsCurrent ==
  UnderWay = {} /\ quitting = "no" /\ session \notin failed
  => /\ rpcSession = session /\ listening = session
     /\ session \notin disposed

\* "Fired before an extension runtime is torn down" (session_shutdown,
\* docs/extensions.md:449), while commands come one after the other: of all sessions
\* ever made only the current one is left, and every other was told of its end before it
\* came, and only once unless a replacement stopped at it.
OldSessionsGone ==
  ~overlapped =>
    /\ UnderWay = {} /\ session \notin failed /\ quitting = "no"
       => disposed = (1..created) \ {session}
    /\ \A s \in disposed : shutdowns[s] >= 1 /\ (s \notin failed => shutdowns[s] = 1)
    /\ \A s \in 1..created : s # session => s \in disposed

\* A prompt the client sends while nothing else is under way, and during which nothing
\* else comes and no timer of a compaction fires, is never turned away as busy, nor
\* accepted and dropped; if it runs (an extension may handle it, and without a model or
\* its key it is refused, and the client is told) it is heard to its end: through
\* replacements before it and whatever they left behind, unless the last had failed.
PromptHeard ==
  \A p \in Prompts \ disturbed :
    /\ prompt[p] \notin {"rejected", "dropped"}
    /\ prompt[p] = "ended" => p \in heardOut

\* "After a successful switch or new-session action, pi emits session_shutdown for the
\* old extension instance, ..., then emits session_start" (docs/extensions.md:383).
StartedOnce == \A s \in Sessions : starts[s] <= 1

\* "Fired before an extension runtime is torn down" (docs/extensions.md:449): also of
\* commands that overlap.
ShutdownComesFirst == \A s \in disposed : shutdowns[s] >= 1

\* "Failures after acceptance are reported through the normal event and message
\* stream" (docs/rpc.md:75): what has been accepted is at least run.
AcceptedPromptRuns == \A p \in Prompts : prompt[p] # "dropped"

\* "Events continue streaming asynchronously after acceptance" (docs/rpc.md:44): no
\* session that is disposed of accepts a prompt.
DisposedAcceptsNone ==
  [][\A p \in Prompts :
       prompt[p] = "preflight" /\ prompt'[p] = "running"
       => target[p] \notin disposed]_allRuntimeVars
=============================================================================
