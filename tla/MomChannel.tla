------------------------------ MODULE MomChannel -----------------------------
(***************************************************************************)
(* One Slack channel of mom (packages/mom/src): class SlackBot and its        *)
(* ChannelQueue (slack.ts), the handler of main.ts, run() of agent.ts, and     *)
(* syncLogToSessionManager (context.ts), from a message posted to the answer.  *)
(* A run's steps lie between its waits for Slack, files and the agent.  Slack   *)
(* delivers in any order, again if the acknowledgement is lost, and what was     *)
(* posted while mom was away perhaps; the answer to one overflow of the context   *)
(* comes from AgentSession's recovery, after prompt() has returned.  A backfill,   *)
(* with its reading of the log before and its writing after, is one step.           *)
(***************************************************************************)
EXTENDS Integers, Sequences, FiniteSets, FiniteSetsExt, SequencesExt

CONSTANTS Remarks,        \* what users post: [kind, words], the sender's name in the words
          Strangers,      \* words of users who were not there when mom fetched the users
          QueueLimit,     \* events a queue holds
          BackfillLimit,  \* messages three pages hold
          MaxPosts,       \* bound: messages of users
          MaxSlackEvents, \* bound: events
          MaxArrivals,    \* bound: both together
          MaxMishaps      \* bound: deaths, lost acknowledgements, failed prompts and
                          \* overflows
Words == {remark.words : remark \in Remarks}
ASSUME ChannelAssumption ==
  /\ \A remark \in Remarks : remark.kind \in {"ask", "chat", "stop"}
  /\ Strangers \subseteq Words
  /\ {QueueLimit, BackfillLimit, MaxPosts, MaxSlackEvents, MaxArrivals, MaxMishaps} \subseteq Nat

VARIABLES     \* Slack
  posted,     \* the channel: ts is the place of a message
  inflight    \* messages Slack has still to deliver
VARIABLES     \* files
  channelLog, \* log.jsonl: the ts of its lines
  context,    \* the user messages of context.jsonl
  answered    \* it has an answer: before that, nothing of it is on the disk
VARIABLES     \* mom
  bot,        \* start(): "starting", "backfilled", "connected" or "up"
  startupTs,  \* null is 0
  queue, processing,  \* ChannelQueue
  active,     \* calls of handleEvent
  channelRunning, stopRequested,
  ctx,        \* runState.ctx: whom the answers of the agent go to
  agent,      \* what the agent works on
  recovering  \* what AgentSession will let the agent continue with
slackVars == <<posted, inflight>>
fileVars == <<channelLog, context, answered>>
runVars == <<processing, active, channelRunning, stopRequested, ctx, agent, recovering>>
VARIABLES     \* history and bounds
  events, mishaps,
  fetched,    \* what had been posted when mom last looked at the history
  passedOver, \* messages an earlier look should have found behind a later one
  delivered,  \* messages delivered
  again,      \* ... to a mom that had them
  mustKnow,   \* what the run has to know of
  answers     \* [of, for, background]: the agent's answers and where they were posted
ghostVars == <<events, mishaps, fetched, passedOver, delivered, again, mustKnow, answers>>
channelVars == <<slackVars, fileVars, bot, startupTs, queue, runVars, ghostVars>>

AnEvent == 0
Nothing == -1
Timestamps == 1..2 * MaxPosts + MaxSlackEvents + MaxMishaps
Items == {AnEvent} \cup Timestamps

Message == Remarks \cup {[kind |-> "mom"]}
Posted == 1..Len(posted)
UsersOnly(S) == {ts \in S : posted[ts].kind # "mom"}
MoreMayCome == Cardinality(UsersOnly(Posted)) + events < MaxArrivals
Spent == mishaps < MaxMishaps /\ mishaps' = mishaps + 1

ChannelTypeOK ==
  /\ posted \in Seq(Message) /\ inflight \subseteq Posted
  /\ channelLog \in Seq(Posted)
  /\ context \in Seq([ts : Items, words : Words \cup {"event"}, named : BOOLEAN])
  /\ bot \in {"starting", "backfilled", "connected", "up"} /\ startupTs \in Nat
  /\ queue \in Seq(Items) /\ Len(queue) <= QueueLimit
  /\ active \in Seq([item : Items, status : Timestamps \cup {Nothing},
                     step : {"typing", "prepared", "agent", "replying"}])
  /\ {answered, processing, channelRunning, stopRequested} \subseteq BOOLEAN
  /\ {ctx, recovering} \subseteq Items \cup {Nothing}
  /\ agent \in [item : Items \cup {Nothing}, background : BOOLEAN, aborted : BOOLEAN]
  /\ passedOver \cup delivered \cup again \cup mustKnow \subseteq Posted
  /\ answers \subseteq [of : Items, for : Items \cup {Nothing}, background : BOOLEAN]

Idle == [item |-> Nothing, background |-> FALSE, aborted |-> FALSE]

\* start() has found a channel in which nothing was said yet.
SlackInit ==
  /\ posted = <<>> /\ inflight = {} /\ channelLog = <<>> /\ context = <<>> /\ answered = FALSE
  /\ bot = "up" /\ startupTs = 0
  /\ queue = <<>> /\ processing = FALSE /\ active = <<>>
  /\ channelRunning = FALSE /\ stopRequested = FALSE
  /\ ctx = Nothing /\ agent = Idle /\ recovering = Nothing
  /\ events = 0 /\ mishaps = 0 /\ fetched = 0
  /\ passedOver = {} /\ delivered = {} /\ again = {} /\ mustKnow = {} /\ answers = {}

-----------------------------------------------------------------------------
(* Slack.                                                                    *)

Post(remark) ==
  /\ Cardinality(UsersOnly(Posted)) < MaxPosts /\ MoreMayCome
  /\ posted' = Append(posted, remark)
  /\ inflight' = inflight \cup {Len(posted) + 1}
  /\ UNCHANGED <<fileVars, bot, startupTs, queue, runVars, ghostVars>>

\* Taken off the channel for good, or sent again.
Acknowledged(ts) ==
  \/ inflight' = inflight \ {ts} /\ UNCHANGED mishaps
  \/ Spent /\ UNCHANGED inflight

-----------------------------------------------------------------------------
(* ChannelQueue.                                                             *)

\* handleEvent up to its first wait.
Call(item) ==
  /\ processing' = TRUE
  /\ active' = Append(active, [item |-> item, status |-> Nothing, step |-> "typing"])
  /\ channelRunning' = TRUE /\ stopRequested' = FALSE

\* Mutant: a second call is not held back.
EnqueueAndCall(item) == queue' = queue /\ Call(item)

Enqueue(item) ==
  IF processing
  THEN /\ queue' = Append(queue, item)
       /\ UNCHANGED <<processing, active, channelRunning, stopRequested>>
  ELSE queue' = queue /\ Call(item)

\* Mutant: the queue stands still.
LeaveTheQueue ==
  /\ processing' = TRUE /\ active' = Tail(active) /\ channelRunning' = FALSE
  /\ UNCHANGED <<queue, stopRequested>>

\* The call ends, well or not, and the next is taken from the queue.
ProcessNext ==
  IF queue = <<>>
  THEN /\ processing' = FALSE /\ active' = Tail(active) /\ channelRunning' = FALSE
       /\ UNCHANGED <<queue, stopRequested>>
  ELSE /\ queue' = Tail(queue) /\ processing' = TRUE
       /\ active' = <<[item |-> Head(queue), status |-> Nothing, step |-> "typing"]>>
       /\ channelRunning' = TRUE /\ stopRequested' = FALSE

\* Mutant: one event too many.
Overfull == Len(queue) > QueueLimit

Full == Len(queue) >= QueueLimit

\* enqueueEvent, which turns an event away if the queue is full.  The watcher of events
\* starts before the bot.
EventComes ==
  /\ events < MaxSlackEvents /\ MoreMayCome /\ events' = events + 1
  /\ IF Full
     THEN UNCHANGED <<queue, processing, active, channelRunning, stopRequested>>
     ELSE Enqueue(AnEvent)
  /\ UNCHANGED <<slackVars, fileVars, bot, startupTs, ctx, agent, recovering, mishaps,
                 fetched, passedOver, delivered, again, mustKnow, answers>>

-----------------------------------------------------------------------------
(* The handlers of app_mention and message.                                  *)

\* handleStop: session.abort() gives up a retry and aborts what the agent runs.
HandleStop ==
  /\ stopRequested' = TRUE
  /\ agent' = IF agent.item = Nothing THEN agent ELSE [agent EXCEPT !.aborted = TRUE]

Triggers(ts) == ts > startupTs

\* Mutant: only what is asked of mom is logged.
LogAsked(ts) ==
  channelLog' = IF posted[ts].kind = "ask" THEN Append(channelLog, ts) ELSE channelLog

LogUserMessage(ts) == channelLog' = Append(channelLog, ts)

Deliver(ts) ==
  LET kind == posted[ts].kind IN
  /\ bot \in {"connected", "up"} /\ ts \in inflight
  /\ Acknowledged(ts)
  /\ LogUserMessage(ts)
  /\ delivered' = delivered \cup {ts}
  /\ again' = IF Contains(channelLog, ts) THEN again \cup {ts} ELSE again
  /\ \/ /\ Triggers(ts) /\ kind = "stop" /\ channelRunning
        /\ HandleStop
        /\ UNCHANGED <<queue, processing, active, channelRunning>>
     \/ /\ Triggers(ts) /\ kind = "ask" /\ ~channelRunning
        /\ Enqueue(ts)
        /\ UNCHANGED agent
     \/ /\ ~Triggers(ts) \/ kind = "chat" \/ (kind = "stop" /\ ~channelRunning)
                         \/ (kind = "ask" /\ channelRunning)
        /\ UNCHANGED <<queue, processing, active, channelRunning, stopRequested, agent>>
  /\ UNCHANGED <<posted, context, answered, bot, startupTs, ctx, recovering, events, fetched,
                 passedOver, mustKnow, answers>>

-----------------------------------------------------------------------------
(* A run.                                                                    *)

CallGoes(i, from, to) == active[i].step = from /\ active' = [active EXCEPT ![i].step = to]

\* setTyping: the status message, which is to become the answer.
PostStatus(i) ==
  /\ active[i].step = "typing" /\ active[i].status = Nothing
  /\ posted' = Append(posted, [kind |-> "mom"])
  /\ active' = [active EXCEPT ![i].status = Len(posted) + 1]
  /\ UNCHANGED <<inflight, fileVars, bot, startupTs, queue, processing,
                 channelRunning, stopRequested, ctx, agent, recovering, ghostVars>>

InContext(words) == \E k \in DOMAIN context : context[k].words = words /\ context[k].named

\* Mutant: the message that is asked about is taken over too.
WithTheCurrent(item) ==
  {ts \in UsersOnly(ToSet(channelLog)) : ~InContext(posted[ts].words)}

\* The lines of the log that are not in the context yet, going by their text.
Unseen(item) ==
  {ts \in UsersOnly(ToSet(channelLog)) : ts # item /\ ~InContext(posted[ts].words)}

\* Of lines that say the same, the first is taken.
Firsts(S) == {ts \in S : ~\E other \in S : other < ts /\ posted[other].words = posted[ts].words}

\* syncLogToSessionManager, in the order of time.
Sync(item) ==
  LET S == Firsts(Unseen(item))
  IN \E new \in [1..Cardinality(S) -> S] :
       /\ \A j, k \in DOMAIN new : j < k => new[j] < new[k]
       /\ context' = context \o [k \in DOMAIN new |->
                       [ts |-> new[k], words |-> posted[new[k]].words, named |-> TRUE]]

\* Mutant: what a run that failed has left is kept.
KeepContext(item) == ctx' = IF ctx = Nothing THEN item ELSE ctx

SetContext(item) == ctx' = item

\* run() up to the prompt.
Prepare(i) ==
  /\ active[i].status # Nothing /\ CallGoes(i, "typing", "prepared")
  /\ Sync(active[i].item)
  /\ SetContext(active[i].item)
  /\ mustKnow' = UsersOnly((1..fetched \ passedOver) \cup delivered)
  /\ UNCHANGED <<slackVars, channelLog, answered, bot, startupTs, queue, processing,
                 channelRunning, stopRequested, agent, recovering, events, mishaps, fetched, passedOver,
                 delivered, again, answers>>

Prompted(item) ==
  IF item = AnEvent THEN [ts |-> AnEvent, words |-> "event", named |-> TRUE]
  ELSE [ts |-> item, words |-> posted[item].words, named |-> posted[item].words \notin Strangers]

\* session.prompt(), which throws if the agent is streaming.
Prompt(i) ==
  /\ agent.item = Nothing
  /\ CallGoes(i, "prepared", "agent")
  /\ context' = Append(context, Prompted(active[i].item))
  /\ agent' = [Idle EXCEPT !.item = active[i].item]
  /\ UNCHANGED <<slackVars, channelLog, answered, bot, startupTs, queue, processing,
                 channelRunning, stopRequested, ctx, recovering, ghostVars>>

\* It throws then, or for want of credentials; runState stays as it is.
PromptThrows(i) ==
  /\ active[i].step = "prepared"
  /\ \/ agent.item # Nothing /\ UNCHANGED mishaps
     \/ Spent
  /\ ProcessNext
  /\ UNCHANGED <<slackVars, fileVars, bot, startupTs, ctx, agent, recovering, events, fetched,
                 passedOver, delivered, again, mustKnow, answers>>

Answer(background) == answers \cup {[of |-> agent.item, for |-> ctx, background |-> background]}

\* The run of the agent ends: it has answered, was aborted, or did not fit into the
\* context; the session recovers from the latter on its own.
AgentEnds(i) ==
  /\ CallGoes(i, "agent", "replying")
  /\ agent' = Idle /\ answered' = TRUE
  /\ \/ /\ ~agent.aborted
        /\ answers' = Answer(FALSE) /\ channelLog' = Append(channelLog, active[i].status)
        /\ UNCHANGED <<recovering, mishaps>>
     \/ /\ agent.aborted
        /\ UNCHANGED <<answers, channelLog, recovering, mishaps>>
     \/ /\ ~agent.aborted /\ Spent
        /\ recovering' = agent.item
        /\ UNCHANGED <<answers, channelLog>>
  /\ UNCHANGED <<slackVars, context, bot, startupTs, queue, processing, channelRunning, stopRequested,
                 ctx, events, fetched, passedOver, delivered, again, mustKnow>>

\* The rest of run() and of handleEvent.
HandleEventEnds(i) ==
  /\ active[i].step = "replying"
  /\ ctx' = Nothing
  /\ ProcessNext
  /\ UNCHANGED <<slackVars, fileVars, bot, startupTs, agent, recovering, ghostVars>>

\* agent.continue() after the compaction; it throws if the agent is busy.
Recover ==
  /\ recovering # Nothing /\ recovering' = Nothing
  /\ agent' = IF agent.item = Nothing
              THEN [item |-> recovering, background |-> TRUE, aborted |-> FALSE] ELSE agent
  /\ UNCHANGED <<slackVars, fileVars, bot, startupTs, queue, processing, active, channelRunning,
                 stopRequested, ctx, ghostVars>>

\* Its answer goes to whoever runState.ctx belongs to.
RecoveryEnds ==
  /\ agent.background /\ agent' = Idle
  /\ answers' = IF agent.aborted THEN answers ELSE Answer(TRUE)
  /\ UNCHANGED <<slackVars, fileVars, bot, startupTs, queue, processing, active, channelRunning,
                 stopRequested, ctx, recovering, events, mishaps, fetched, passedOver,
                 delivered, again, mustKnow>>

-----------------------------------------------------------------------------
(* Death and start.                                                          *)

\* The process dies and is started again.
BotDies ==
  /\ Spent /\ bot' = "starting" /\ startupTs' = 0
  /\ context' = IF answered THEN context ELSE <<>>
  /\ queue' = <<>> /\ processing' = FALSE /\ active' = <<>>
  /\ channelRunning' = FALSE /\ stopRequested' = FALSE
  /\ ctx' = Nothing /\ agent' = Idle /\ recovering' = Nothing
  /\ UNCHANGED <<slackVars, channelLog, answered, events, fetched, passedOver, delivered,
                 again, mustKnow, answers>>

Latest == Max({0} \cup ToSet(channelLog))

\* Three pages, the newest first, of what came after the latest line.
BeforePages == Max({Latest, Len(posted) - BackfillLimit})

\* backfillAllChannels: a channel without a log is left out, and a failure only logged.
Backfill ==
  /\ bot = "starting" /\ bot' = "backfilled"
  /\ \/ /\ channelLog # <<>>
        /\ channelLog' = channelLog \o [k \in 1..Len(posted) - BeforePages |-> BeforePages + k]
        /\ fetched' = Len(posted)
        /\ passedOver' = passedOver \cup {ts \in 1..BeforePages : ~Contains(channelLog, ts)}
     \/ UNCHANGED <<channelLog, fetched, passedOver>>
  /\ UNCHANGED <<slackVars, context, answered, startupTs, queue, runVars, events, mishaps,
                 delivered, again, mustKnow, answers>>

\* socketClient.start(); Slack has kept some of what it did not deliver.
Connect ==
  /\ bot = "backfilled" /\ bot' = "connected"
  /\ inflight' \in SUBSET inflight
  /\ UNCHANGED <<posted, fileVars, startupTs, queue, runVars, ghostVars>>

RecordStartup ==
  /\ bot = "connected" /\ bot' = "up"
  /\ startupTs' = Len(posted)
  /\ UNCHANGED <<slackVars, fileVars, queue, runVars, ghostVars>>

RunStep ==
  \E i \in DOMAIN active :
    \/ PostStatus(i) \/ Prepare(i) \/ Prompt(i) \/ PromptThrows(i)
    \/ AgentEnds(i) \/ HandleEventEnds(i)

SlackNext ==
  \/ \E remark \in Remarks : Post(remark)
  \/ \E ts \in inflight : Deliver(ts)
  \/ EventComes
  \/ RunStep \/ Recover \/ RecoveryEnds
  \/ BotDies \/ Backfill \/ Connect \/ RecordStartup

SlackSpec == SlackInit /\ [][SlackNext]_channelVars

\* Slack answers, files are written and the agent comes to an end.
SlackFairness == WF_channelVars(RunStep) /\ WF_channelVars(RecoveryEnds)

-----------------------------------------------------------------------------
\* "Called only when isRunning() returned false for user messages. Events always
\* queue" (slack.ts:76): two flags set in two files keep the runs of a channel apart,
\* and a message of a user never waits behind another (the sync of a run before it
\* would give it to the agent a second time); so an answer is posted where the question
\* came from, whatever happened to the runs before, but for those of a recovery in
\* the background.
RunsKeptApart ==
  /\ Len(active) <= 1
  /\ channelRunning <=> active # <<>>
  /\ processing <=> active # <<>>
  /\ \A k \in DOMAIN queue : queue[k] = AnEvent
  /\ \A a \in answers : a.background \/ a.for = a.of

\* When the agent works on a message it has been told that one, and everything else that
\* was said before the last backfill or has been delivered since, whoever was away or busy
\* then; or else something that says the same in the same words, by the same sender, as the
\* sync goes by the text.  Nobody speaks of what a backfill passed over: beyond its pages,
\* or behind a later line, which an event's run may have written before the backfill, or
\* a message delivered after one that failed.  And it is told so once: unless Slack
\* delivers the message to a mom that has it already, or its sender has joined since mom
\* started and goes by two names.
EverythingSaidIsSeenOnce ==
  /\ \A i \in DOMAIN active : active[i].step = "agent" =>
       \A ts \in mustKnow :
         \E k \in DOMAIN context :
           \/ context[k].ts = ts
           \/ ts # active[i].item /\ context[k].words = posted[ts].words
  /\ \A j, k \in DOMAIN context :
       context[j].ts = context[k].ts /\ j # k
       => \/ context[j].ts = AnEvent
          \/ context[j].ts \in again
          \/ context[j].words \in Strangers

\* Whatever fails, the channel comes to rest: events that wait are taken up, and mom
\* is free for the next message.
ChannelComesToRest == []<>(queue = <<>> /\ ~channelRunning)

\* "Syncs all unseen messages from log.jsonl" (README.md:129): also one that says again
\* what was said before.
EveryMessageIsTold ==
  \A i \in DOMAIN active : active[i].step = "agent" =>
    \A ts \in mustKnow : \E k \in DOMAIN context : context[k].ts = ts

\* "Responds to your request" (README.md:131), "when the context exceeds the LLM's
\* context window size, mom compacts the context" (README.md:141).
EveryAnswerIsPosted == \A a \in answers : a.for = a.of

\* "Stop command executes immediately (not queued), can interrupt running tasks"
\* (CHANGELOG.md:402): a run that was told to stop does not begin with the agent.
StopIsKept ==
  [][\A i \in DOMAIN active :
       active[i].step = "prepared" /\ Len(active') = Len(active) /\ active'[i].step = "agent"
       => ~stopRequested]_channelVars
=============================================================================
