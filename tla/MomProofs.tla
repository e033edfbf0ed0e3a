------------------------------ MODULE MomProofs ------------------------------
(***************************************************************************)
(* Proofs about mom: the runs of a channel are kept apart, the agent is told     *)
(* everything once (MomChannel), what EventsWatcher has scheduled is what the      *)
(* event file says (MomEvents), and both come to rest with nothing left undone.    *)
(***************************************************************************)
EXTENDS MomEvents, MomChannel, ListProofs, SequenceTheorems, FiniteSetTheorems,
        FunctionTheorems, WellFoundedInduction, TLAPS

-----------------------------------------------------------------------------
(* MomChannel: two flags agree, one call is under way at a time, and an answer  *)
(* goes to whoever asked, for any messages, events and mishaps.                  *)

ACall == [item : Nat, status : Int,
          step : {"typing", "prepared", "agent", "replying"}]

\* What the proof needs to know of the values.
Shape ==
  /\ posted \in Seq(Message) /\ inflight \subseteq 1..Len(posted)
  /\ active \in Seq(ACall) /\ queue \in Seq(Int)
  /\ recovering \in Int
  /\ agent \in [item : Int, background : BOOLEAN, aborted : BOOLEAN]

\* ChannelQueue.processing, the flag of main.ts and the call under way say the same, and
\* only events wait.
OneCall ==
  /\ Len(active) <= 1
  /\ channelRunning <=> active # <<>>
  /\ processing <=> active # <<>>
  /\ \A k \in DOMAIN queue : queue[k] = AnEvent

\* From the beginning of its run on, runState belongs to the call; once it has prompted the
\* agent, the agent is at work for it.
CtxIsCurrent ==
  \A i \in DOMAIN active :
    /\ active[i].step \in {"prepared", "agent"} => ctx = active[i].item
    /\ active[i].step = "agent" => agent.item = active[i].item /\ ~agent.background

Answered == \A a \in answers : a.background \/ a.for = a.of

ApartInv == Shape /\ OneCall /\ CtxIsCurrent /\ Answered

LEMMA ApartInitially == ASSUME SlackInit PROVE ApartInv
BY DEF SlackInit, ApartInv, Shape, OneCall, CtxIsCurrent, Answered, Idle, Nothing, ACall

-----------------------------------------------------------------------------
(* How the calls change.                                                     *)

LEMMA TheOnlyCall ==
  ASSUME ApartInv, NEW i \in DOMAIN active
  PROVE  /\ i = 1 /\ Len(active) = 1 /\ active # <<>> /\ active[1] \in ACall
         /\ DOMAIN active = {1}
         /\ Tail(active) = <<>>
<1>1. active \in Seq(ACall) /\ Len(active) <= 1 /\ i \in 1..Len(active)
  BY DEF ApartInv, Shape, OneCall
<1>2. i = 1 /\ Len(active) = 1 /\ active # <<>> /\ active[1] \in ACall
  <2>1. Len(active) \in Nat /\ DOMAIN active = 1..Len(active)
    BY <1>1, LenProperties
  <2>2. i = 1 /\ Len(active) = 1
    BY <1>1, <2>1
  <2>3. active[1] \in ACall
    BY <1>1, <2>2, ElementOfSeq
  <2> QED BY <2>2, <2>3, EmptySeq
<1>3. Tail(active) \in Seq(ACall) /\ Len(Tail(active)) = 0
  BY <1>1, <1>2, HeadTailProperties
<1>4. Tail(active) = <<>>
  BY <1>3, EmptySeq
<1>5. DOMAIN active = {1}
  BY <1>1, <1>2, LenProperties
<1> QED BY <1>2, <1>4, <1>5

LEMMA CallChanges ==
  ASSUME ApartInv, NEW i \in DOMAIN active, NEW call \in ACall,
         active' = [active EXCEPT ![1] = call]
  PROVE  /\ active' \in Seq(ACall) /\ Len(active') = 1 /\ active' # <<>>
         /\ DOMAIN active' = {1} /\ active'[1] = call
<1>1. Len(active) = 1 /\ active \in Seq(ACall) /\ DOMAIN active = {1}
  BY TheOnlyCall DEF ApartInv, Shape
<1>2. active' \in Seq(ACall) /\ Len(active') = 1 /\ active'[1] = call
  <2>1. 1 \in 1..Len(active) /\ \A k \in 1..Len(active) : k = 1
    BY <1>1
  <2> QED BY <1>1, <2>1, ExceptSeq
<1>3. DOMAIN active' = {1} /\ active' # <<>>
  BY <1>2, LenProperties, EmptySeq
<1> QED BY <1>2, <1>3

\* A call goes on to its next step.
LEMMA CallGoesOn ==
  ASSUME ApartInv, NEW i \in DOMAIN active, NEW from,
         NEW to \in {"typing", "prepared", "agent", "replying"}, CallGoes(i, from, to)
  PROVE  /\ i = 1 /\ active[1] \in ACall /\ active[1].step = from
         /\ active' \in Seq(ACall) /\ Len(active') = 1 /\ active' # <<>> /\ active # <<>>
         /\ DOMAIN active' = {1} /\ active'[1] = [active[1] EXCEPT !.step = to]
<1>1. i = 1 /\ Len(active) = 1 /\ active # <<>> /\ active[1] \in ACall /\ active \in Seq(ACall)
  BY TheOnlyCall DEF ApartInv, Shape
<1>2. active' = [active EXCEPT ![1] = [active[1] EXCEPT !.step = to]] /\ active[1].step = from
  BY <1>1 DEF CallGoes
<1>3. [active[1] EXCEPT !.step = to] \in ACall
  BY <1>1 DEF ACall
<1> QED BY <1>1, <1>2, <1>3, CallChanges

LEMMA CtxOfTheCall ==
  ASSUME DOMAIN active' = {1},
         active'[1].step \in {"prepared", "agent"} => ctx' = active'[1].item,
         active'[1].step = "agent" => agent'.item = active'[1].item /\ ~agent'.background
  PROVE  CtxIsCurrent'
BY DEF CtxIsCurrent

\* A new call, of which nothing is under way: one of the steps Call and ProcessNext make.
LEMMA CallBegins ==
  ASSUME NEW item \in Nat,
         active' = <<[item |-> item, status |-> Nothing, step |-> "typing"]>>,
         channelRunning' = TRUE, processing' = TRUE,
         \A k \in DOMAIN queue' : queue'[k] = AnEvent
  PROVE  active' \in Seq(ACall) /\ OneCall' /\ CtxIsCurrent'
<1>1. [item |-> item, status |-> Nothing, step |-> "typing"] \in ACall
  BY DEF ACall, Nothing
<1>2. active' \in Seq(ACall) /\ Len(active') = 1 /\ active' # <<>>
  BY <1>1
<1>3. DOMAIN active' = {1} /\ active'[1].step = "typing"
  BY <1>2
<1> QED BY <1>2, <1>3 DEF OneCall, CtxIsCurrent

LEMMA EnqueueKeeps ==
  ASSUME ApartInv, NEW item \in Nat, Enqueue(item), item = AnEvent \/ ~processing,
         UNCHANGED <<ctx, agent>>
  PROVE  active' \in Seq(ACall) /\ queue' \in Seq(Int) /\ OneCall' /\ CtxIsCurrent'
<1>1. CASE processing
  <2>1. queue' = Append(queue, item) /\ UNCHANGED <<processing, active, channelRunning>>
    BY <1>1 DEF Enqueue
  <2>2. \A k \in DOMAIN queue' : queue'[k] = AnEvent
    BY <1>1, <2>1 DEF ApartInv, Shape, OneCall
  <2>3. queue' \in Seq(Int)
    BY <2>1 DEF ApartInv, Shape
  <2> QED BY <2>1, <2>2, <2>3 DEF ApartInv, Shape, OneCall, CtxIsCurrent
<1>2. CASE ~processing
  <2>1. active = <<>>
    BY <1>2 DEF ApartInv, OneCall
  <2>2. /\ queue' = queue /\ processing' = TRUE /\ channelRunning' = TRUE
        /\ active' = <<[item |-> item, status |-> Nothing, step |-> "typing"]>>
    BY <1>2, <2>1 DEF Enqueue, Call
  <2> QED BY <2>2, CallBegins DEF ApartInv, Shape, OneCall
<1> QED BY <1>1, <1>2

\* The call is over, and the next event, if there is one, begins.
LEMMA ProcessNextKeeps ==
  ASSUME ApartInv, NEW i \in DOMAIN active, ProcessNext
  PROVE  active' \in Seq(ACall) /\ queue' \in Seq(Int) /\ OneCall' /\ CtxIsCurrent'
<1>1. CASE queue = <<>>
  <2>1. active' = <<>> /\ ~processing' /\ ~channelRunning' /\ queue' = <<>>
    BY <1>1, TheOnlyCall DEF ProcessNext
  <2> QED BY <2>1 DEF ApartInv, Shape, OneCall, CtxIsCurrent
<1>2. CASE queue # <<>>
  <2>1. /\ Head(queue) = AnEvent
        /\ \A k \in DOMAIN Tail(queue) : Tail(queue)[k] = AnEvent
        /\ Tail(queue) \in Seq(Int)
    BY <1>2, HeadTailProperties DEF ApartInv, Shape, OneCall
  <2>2. /\ queue' = Tail(queue) /\ processing' = TRUE /\ channelRunning' = TRUE
        /\ active' = <<[item |-> Head(queue), status |-> Nothing, step |-> "typing"]>>
    BY <1>2 DEF ProcessNext
  <2> QED BY <2>1, <2>2, CallBegins DEF AnEvent
<1> QED BY <1>1, <1>2

-----------------------------------------------------------------------------
(* The steps.                                                                *)

\* What ApartInv speaks of, apart from the place messages are posted to.
apartVars == <<active, queue, processing, channelRunning, ctx, agent, recovering, answers>>

LEMMA ChannelIdles ==
  ASSUME ApartInv, UNCHANGED apartVars, posted' \in Seq(Message), inflight' \subseteq 1..Len(posted')
  PROVE  ApartInv'
BY DEF apartVars, ApartInv, Shape, OneCall, CtxIsCurrent, Answered

LEMMA SlackKeeps ==
  ASSUME ApartInv,
         \/ \E remark \in Remarks : Post(remark)
         \/ Backfill \/ Connect \/ RecordStartup
  PROVE  ApartInv'
<1>1. UNCHANGED apartVars
  BY DEF apartVars, Post, Backfill, Connect, RecordStartup, runVars, ghostVars, slackVars
<1>2. posted' \in Seq(Message) /\ inflight' \subseteq 1..Len(posted')
  <2>1. ASSUME NEW remark \in Remarks, Post(remark) PROVE <1>2
    <3>1. remark \in Message
      BY <2>1 DEF Message
    <3>2. posted' = Append(posted, remark) /\ inflight' = inflight \cup {Len(posted) + 1}
      BY <2>1 DEF Post
    <3>3. posted \in Seq(Message) /\ inflight \subseteq 1..Len(posted)
      BY DEF ApartInv, Shape
    <3>4. posted' \in Seq(Message) /\ Len(posted') = Len(posted) + 1
      BY <3>1, <3>2, <3>3, AppendProperties
    <3>5. Len(posted) \in Nat
      BY <3>3, LenProperties
    <3>6. inflight' \subseteq 1..Len(posted')
      <4>1. 1..Len(posted) \subseteq 1..Len(posted') /\ Len(posted) + 1 \in 1..Len(posted')
        BY <3>4, <3>5
      <4> QED BY <3>2, <3>3, <4>1
    <3> QED BY <3>4, <3>6
  <2>2. CASE Backfill \/ Connect \/ RecordStartup
    BY <2>2 DEF Backfill, Connect, RecordStartup, slackVars, ApartInv, Shape
  <2> QED BY <2>1, <2>2
<1> QED BY <1>1, <1>2, ChannelIdles

LEMMA DeliverKeeps ==
  ASSUME ApartInv, NEW ts \in inflight, Deliver(ts) PROVE ApartInv'
<1>1. /\ ts \in Nat /\ posted' \in Seq(Message) /\ inflight' \subseteq 1..Len(posted')
      /\ UNCHANGED <<ctx, recovering, answers>>
  <2>1. posted' = posted /\ UNCHANGED <<ctx, recovering, answers>> /\ inflight' \subseteq inflight
    BY DEF Deliver, Acknowledged
  <2>2. posted \in Seq(Message) /\ inflight \subseteq 1..Len(posted) /\ Len(posted) \in Nat
    BY LenProperties DEF ApartInv, Shape
  <2> QED BY <2>1, <2>2
<1>2. CASE Enqueue(ts) /\ ~channelRunning /\ UNCHANGED agent
  <2>1. ~processing
    BY <1>2 DEF ApartInv, OneCall
  <2> QED BY <1>1, <1>2, <2>1, EnqueueKeeps DEF ApartInv, Shape, Answered
<1>3. CASE HandleStop /\ UNCHANGED <<queue, processing, active, channelRunning>>
  <2>1. /\ agent' \in [item : Int, background : BOOLEAN, aborted : BOOLEAN]
        /\ agent'.item = agent.item /\ agent'.background = agent.background
    BY <1>3 DEF HandleStop, ApartInv, Shape
  <2> QED BY <1>1, <1>3, <2>1 DEF ApartInv, Shape, OneCall, CtxIsCurrent, Answered
<1>4. CASE UNCHANGED <<queue, processing, active, channelRunning, agent>>
  BY <1>1, <1>4, ChannelIdles DEF apartVars
<1> QED BY <1>2, <1>3, <1>4 DEF Deliver

LEMMA EventKeeps ==
  ASSUME ApartInv, EventComes PROVE ApartInv'
<1>1. UNCHANGED <<slackVars, ctx, agent, recovering, answers>>
  BY DEF EventComes
<1>2. CASE Full
  BY <1>1, <1>2, ChannelIdles DEF EventComes, apartVars, slackVars, ApartInv, Shape
<1>3. CASE ~Full
  BY <1>1, <1>3, EnqueueKeeps DEF EventComes, AnEvent, slackVars, ApartInv, Shape, Answered
<1> QED BY <1>2, <1>3

LEMMA RunKeeps ==
  ASSUME ApartInv, NEW i \in DOMAIN active,
         \/ PostStatus(i) \/ Prepare(i) \/ Prompt(i) \/ PromptThrows(i)
         \/ AgentEnds(i) \/ HandleEventEnds(i)
  PROVE  ApartInv'
<1> USE DEF ApartInv
<1>1. CASE PostStatus(i)
  <2>1. i = 1 /\ active[1] \in ACall /\ DOMAIN active = {1} /\ active \in Seq(ACall)
    BY TheOnlyCall DEF Shape
  <2>2. /\ posted' = Append(posted, [kind |-> "mom"])
        /\ active' = [active EXCEPT ![1] = [active[1] EXCEPT !.status = Len(posted) + 1]]
        /\ active[1].step = "typing"
        /\ UNCHANGED <<inflight, queue, processing, channelRunning, ctx, agent, recovering,
                       answers>>
    BY <1>1, <2>1 DEF PostStatus, ghostVars
  <2>3. Len(posted) \in Nat /\ [kind |-> "mom"] \in Message /\ posted \in Seq(Message)
        /\ inflight \subseteq 1..Len(posted)
    BY DEF Message, Shape
  <2>4. posted' \in Seq(Message) /\ Len(posted') = Len(posted) + 1
    BY <2>2, <2>3, AppendProperties
  <2>5. [active[1] EXCEPT !.status = Len(posted) + 1] \in ACall
    BY <2>1, <2>3 DEF ACall
  <2>6. /\ active' \in Seq(ACall) /\ Len(active') = Len(active) /\ DOMAIN active' = {1}
        /\ active'[1] = [active[1] EXCEPT !.status = Len(posted) + 1]
    BY <2>1, <2>2, <2>5, CallChanges, TheOnlyCall
  <2>8. active'[1].step = "typing"
    BY <2>1, <2>2, <2>6 DEF ACall
  <2>9. CtxIsCurrent'
    BY <2>6, <2>8, CtxOfTheCall
  <2>10. active' # <<>> /\ active # <<>>
    BY <2>1, <2>6
  <2>7. OneCall'
    BY <2>2, <2>6, <2>10 DEF OneCall
  <2> QED BY <2>2, <2>3, <2>4, <2>6, <2>7, <2>9 DEF Shape, Answered
<1>2. CASE Prepare(i)
  <2>1. /\ CallGoes(i, "typing", "prepared") /\ ctx' = active[i].item
        /\ UNCHANGED <<posted, inflight, queue, processing, channelRunning, agent, recovering,
                       answers>>
    BY <1>2 DEF Prepare, SetContext, slackVars
  <2>2. /\ i = 1 /\ active[1] \in ACall /\ active' \in Seq(ACall) /\ Len(active') = 1
        /\ active' # <<>> /\ active # <<>> /\ DOMAIN active' = {1}
        /\ active'[1] = [active[1] EXCEPT !.step = "prepared"]
    BY <2>1, CallGoesOn
  <2>3. active'[1].step = "prepared" /\ active'[1].item = active[1].item
    BY <2>2 DEF ACall
  <2>4. CtxIsCurrent'
    BY <2>1, <2>2, <2>3, CtxOfTheCall
  <2>5. Shape' /\ OneCall'
    BY <2>1, <2>2 DEF Shape, OneCall
  <2> QED BY <2>1, <2>4, <2>5 DEF Answered
<1>3. CASE Prompt(i)
  <2>1. /\ CallGoes(i, "prepared", "agent") /\ agent' = [Idle EXCEPT !.item = active[i].item]
        /\ UNCHANGED <<posted, inflight, queue, processing, channelRunning, ctx, recovering,
                       answers>>
    BY <1>3 DEF Prompt, slackVars, ghostVars
  <2>2. /\ i = 1 /\ active[1] \in ACall /\ active' \in Seq(ACall) /\ Len(active') = 1
        /\ active' # <<>> /\ active # <<>> /\ DOMAIN active' = {1}
        /\ active[1].step = "prepared"
        /\ active'[1] = [active[1] EXCEPT !.step = "agent"]
    BY <2>1, CallGoesOn
  <2>3. /\ active'[1].step = "agent" /\ active'[1].item = active[1].item
        /\ agent' = [item |-> active[1].item, background |-> FALSE, aborted |-> FALSE]
        /\ active[1].item \in Int /\ ctx = active[1].item
    <3>1. DOMAIN active = {1}
      BY TheOnlyCall
    <3>2. ctx = active[1].item
      BY <2>2, <3>1 DEF CtxIsCurrent
    <3>3. active[1].item \in Int /\ active'[1].step = "agent" /\ active'[1].item = active[1].item
      BY <2>2 DEF ACall
    <3>4. agent' = [item |-> active[1].item, background |-> FALSE, aborted |-> FALSE]
      BY <2>1, <2>2 DEF Idle
    <3> QED BY <3>2, <3>3, <3>4
  <2>4. CtxIsCurrent'
    BY <2>1, <2>2, <2>3, CtxOfTheCall
  <2>5. agent' \in [item : Int, background : BOOLEAN, aborted : BOOLEAN]
    BY <2>3
  <2>6. Shape' /\ OneCall'
    BY <2>1, <2>2, <2>5 DEF Shape, OneCall
  <2> QED BY <2>1, <2>4, <2>6 DEF Answered
<1>4. CASE PromptThrows(i) \/ HandleEventEnds(i)
  <2>1. ProcessNext /\ UNCHANGED <<posted, inflight, agent, recovering, answers>>
    BY <1>4 DEF PromptThrows, HandleEventEnds, slackVars, ghostVars
  <2> QED BY <2>1, ProcessNextKeeps DEF Shape, Answered
<1>5. CASE AgentEnds(i)
  <2>1. /\ CallGoes(i, "agent", "replying") /\ agent' = Idle
        /\ answers' = Answer(FALSE) \/ answers' = answers
        /\ recovering' \in {recovering, agent.item}
        /\ UNCHANGED <<posted, inflight, queue, processing, channelRunning, ctx>>
    BY <1>5 DEF AgentEnds, slackVars
  <2>2. /\ i = 1 /\ active[1] \in ACall /\ active' \in Seq(ACall) /\ Len(active') = 1
        /\ active' # <<>> /\ active # <<>> /\ DOMAIN active' = {1}
        /\ active[1].step = "agent"
        /\ active'[1] = [active[1] EXCEPT !.step = "replying"]
    BY <2>1, CallGoesOn
  <2>3. active'[1].step = "replying" /\ agent.item = ctx
    BY <2>2 DEF ACall, CtxIsCurrent
  <2>4. Answered'
    BY <2>1, <2>3 DEF Answered, Answer
  <2>5. agent' \in [item : Int, background : BOOLEAN, aborted : BOOLEAN]
    BY <2>1 DEF Idle, Nothing
  <2>8. recovering' \in Int
    BY <2>1 DEF Shape
  <2>6. CtxIsCurrent'
    BY <2>2, <2>3, CtxOfTheCall
  <2>7. Shape' /\ OneCall'
    BY <2>1, <2>2, <2>5, <2>8 DEF Shape, OneCall
  <2> QED BY <2>4, <2>6, <2>7
<1> QED BY <1>1, <1>2, <1>3, <1>4, <1>5

\* The agent goes on in the background only when it has nothing else to do.
LEMMA RecoveryKeeps ==
  ASSUME ApartInv, Recover \/ RecoveryEnds PROVE ApartInv'
<1>1. UNCHANGED <<posted, inflight, active, queue, processing, channelRunning, ctx>>
  BY DEF Recover, RecoveryEnds, slackVars
<1>2. \A i \in DOMAIN active : active[i].item # Nothing
  BY TheOnlyCall DEF ACall, Nothing
<1>3. \A i \in DOMAIN active : active[i].step = "agent" => agent' = agent
  BY <1>2 DEF Recover, RecoveryEnds, ApartInv, CtxIsCurrent
<1>4. Answered'
  BY DEF Recover, RecoveryEnds, Answer, ApartInv, Answered, ghostVars
<1>5. recovering' \in Int /\ agent' \in [item : Int, background : BOOLEAN, aborted : BOOLEAN]
  <2>1. CASE Recover
    BY <2>1 DEF Recover, Nothing, ApartInv, Shape
  <2>2. CASE RecoveryEnds
    BY <2>2 DEF RecoveryEnds, Idle, Nothing, ApartInv, Shape
  <2> QED BY <2>1, <2>2
<1>6. Shape' /\ OneCall' /\ CtxIsCurrent'
  BY <1>1, <1>3, <1>5 DEF ApartInv, Shape, OneCall, CtxIsCurrent
<1> QED BY <1>4, <1>6 DEF ApartInv

LEMMA ApartStep ==
  ASSUME ApartInv, [SlackNext]_channelVars PROVE ApartInv'
<1>1. CASE BotDies
  BY <1>1 DEF BotDies, slackVars, Idle, Nothing, ApartInv, Shape, OneCall, CtxIsCurrent, Answered
<1>2. CASE UNCHANGED channelVars
  BY <1>2 DEF channelVars, slackVars, runVars, ghostVars, ApartInv, Shape, OneCall, CtxIsCurrent,
              Answered
<1> QED BY <1>1, <1>2, SlackKeeps, DeliverKeeps, EventKeeps, RunKeeps, RecoveryKeeps
        DEF SlackNext, RunStep

\* In a channel of mom one run is under way at a time, whichever of the two flags is asked;
\* only events wait; and an answer goes to whoever asked, whatever happened to the runs
\* before (ChannelQueue, handleEvent, run()), for any messages, events and mishaps.
THEOREM RunsAreKeptApart == SlackSpec => []RunsKeptApart
<1>1. ApartInv /\ [SlackNext]_channelVars => ApartInv'
  BY ApartStep
<1>2. ApartInv => RunsKeptApart
  BY DEF ApartInv, OneCall, Answered, RunsKeptApart
<1> QED BY <1>1, <1>2, ApartInitially, PTL DEF SlackSpec

-----------------------------------------------------------------------------
(* MomChannel: everything is told once.  SeenInv follows a message from the      *)
(* channel into the log, from the log into the context, and what the call under    *)
(* way is still to tell the agent; that one call is under way is ApartInv's.        *)

\* The user messages of context.jsonl, and the lines of log.jsonl.
Entry == [ts : Nat, words : Words \cup {"event"}, named : BOOLEAN]

InLog(ts) == \E k \in DOMAIN channelLog : channelLog[k] = ts

\* What is written down and what was looked at has been posted.
Places ==
  /\ channelLog \in Seq(Nat) /\ context \in Seq(Entry)
  /\ \A ts : InLog(ts) => ts \in Posted
  /\ fetched \in Nat /\ fetched <= Len(posted)
  /\ delivered \subseteq Posted /\ mustKnow \subseteq Posted

\* A call is about an event or a message of a user that is in the log, and has posted its
\* status before it goes on.
CallsLogged ==
  \A i \in DOMAIN active :
    /\ active[i].item # AnEvent =>
         InLog(active[i].item) /\ posted[active[i].item].kind # "mom"
    /\ active[i].status \in {Nothing} \cup Posted
    /\ active[i].status = Nothing => active[i].step = "typing"

\* The log has what was delivered and what the backfills have looked at.
LogIsComplete ==
  /\ \A ts \in delivered : InLog(ts)
  /\ \A ts \in 1..fetched : ts \in passedOver \/ InLog(ts)

\* The context has its messages from the log; who says something under another name is
\* a stranger.
ContextFromLog ==
  \A k \in DOMAIN context :
    /\ context[k].ts # AnEvent =>
         InLog(context[k].ts) /\ context[k].words = posted[context[k].ts].words
    /\ context[k].named = TRUE \/ context[k].words \in Strangers

\* Until the agent is prompted with it, a message is not in the context, unless it
\* was delivered again.
NewsIsNew ==
  \A i \in DOMAIN active :
    active[i].step \in {"typing", "prepared"} =>
      \/ active[i].item = AnEvent
      \/ active[i].item \in again
      \/ \A k \in DOMAIN context : context[k].ts # active[i].item

Known(ts) == \E k \in DOMAIN context : context[k].words = posted[ts].words

\* From the sync on, all there is to know is known but for the message itself.
AgentTold ==
  \A i \in DOMAIN active :
    /\ active[i].step = "prepared" =>
         \A ts \in mustKnow : ts = active[i].item \/ Known(ts)
    /\ active[i].step = "agent" => \A ts \in mustKnow : Known(ts)

\* ... which it is prompted with.
PromptedWithIt ==
  \A i \in DOMAIN active :
    active[i].step = "agent" => \E k \in DOMAIN context : context[k].ts = active[i].item

KnownOnce ==
  \A j, k \in DOMAIN context :
    context[j].ts = context[k].ts /\ j # k
    => \/ context[j].ts = AnEvent
       \/ context[j].ts \in again
       \/ context[j].words \in Strangers

SeenInv ==
  /\ Places /\ CallsLogged /\ LogIsComplete /\ ContextFromLog /\ NewsIsNew
  /\ AgentTold /\ PromptedWithIt /\ KnownOnce

-----------------------------------------------------------------------------
\* A set of natural numbers has a least one, and if it is bounded a greatest.
LEMMA SomeLeast ==
  ASSUME NEW T, T \subseteq Nat, T # {}
  PROVE  \E x \in T : \A y \in T : x <= y
<1> DEFINE less == {ss \in Nat \X Nat : ss[1] < ss[2]}
<1>1. IsWellFoundedOn(less, Nat)
  BY NatLessThanWellFounded DEF OpToRel
<1>2. \A x, y \in Nat : y < x => <<y, x>> \in less
  OBVIOUS
<1> HIDE DEF less
<1>3. PICK x \in T : \A y \in T : ~(<<y, x>> \in less)
  BY <1>1, WFMin
<1>4. ASSUME NEW y \in T PROVE x <= y
  <2>1. x \in Nat /\ y \in Nat
    OBVIOUS
  <2>2. ~(y < x)
    BY <1>2, <1>3, <2>1
  <2> QED BY <2>1, <2>2
<1> QED BY <1>4

LEMMA MaxExists ==
  ASSUME NEW T, T # {}, NEW n \in Nat, T \subseteq 0..n
  PROVE  Max(T) \in T
<1> DEFINE bounds == {b \in Nat : \A x \in T : x <= b}
<1>1. bounds \subseteq Nat /\ n \in bounds
  OBVIOUS
<1> HIDE DEF bounds
<1>2. PICK b \in bounds : \A c \in bounds : b <= c
  BY <1>1, SomeLeast
<1>3. b \in Nat /\ \A x \in T : x <= b /\ x \in Nat
  BY DEF bounds
<1>4. b \in T
  <2> SUFFICES ASSUME b \notin T PROVE FALSE
    OBVIOUS
  <2>1. \A x \in T : x < b
    BY <1>3
  <2>2. b - 1 \in Nat /\ \A x \in T : x <= b - 1
    <3>1. PICK x \in T : TRUE
      OBVIOUS
    <3>2. x \in Nat /\ x < b
      BY <1>3, <2>1
    <3>3. \A y \in T : y \in Nat /\ y < b
      BY <1>3, <2>1
    <3> HIDE DEF bounds
    <3>4. b - 1 \in Nat
      BY <1>3, <3>2
    <3>5. ASSUME NEW y \in T PROVE y <= b - 1
      BY <1>3, <3>3
    <3> QED BY <3>4, <3>5
  <2>3. b - 1 \in bounds
    BY <2>2 DEF bounds
  <2> QED BY <1>2, <1>3, <2>3
<1>5. \A x \in T : b >= x
  BY <1>3
<1> QED BY <1>4, <1>5 DEF Max

\* The latest line of the log is the place of a message.
LEMMA LatestType ==
  ASSUME SeenInv, posted \in Seq(Message)
  PROVE  Latest \in 0..Len(posted)
<1> DEFINE T == {0} \cup ToSet(channelLog)
<1>1. Len(posted) \in Nat
  BY LenProperties
<1>2. T \subseteq 0..Len(posted)
  <2> SUFFICES ASSUME NEW t \in ToSet(channelLog) PROVE t \in 0..Len(posted)
    BY <1>1
  <2>1. InLog(t)
    BY DEF ToSet, InLog
  <2>2. t \in 1..Len(posted)
    BY <2>1 DEF SeenInv, Places, Posted
  <2> QED BY <1>1, <2>2
<1>3. Max(T) \in T
  <2>1. T # {}
    OBVIOUS
  <2> HIDE DEF T
  <2> QED BY <1>1, <1>2, <2>1, MaxExists
<1> QED BY <1>2, <1>3 DEF Latest

\* An ascending enumeration of a finite set of numbers names every one of them, once.
LEMMA EnumerationIsComplete ==
  ASSUME NEW S, S \subseteq Nat, IsFiniteSet(S),
         NEW new \in [1..Cardinality(S) -> S],
         \A j, k \in DOMAIN new : j < k => new[j] < new[k]
  PROVE  /\ \A j, k \in DOMAIN new : new[j] = new[k] => j = k
         /\ \A x \in S : \E k \in DOMAIN new : new[k] = x
         /\ DOMAIN new = 1..Cardinality(S) /\ Cardinality(S) \in Nat
<1> DEFINE n == Cardinality(S)
<1>1. n \in Nat /\ DOMAIN new = 1..n
  BY FS_CardinalityType
<1>2. IsFiniteSet(1..n) /\ Cardinality(1..n) = n
  BY <1>1, FS_Interval
<1>3. \A j, k \in 1..n : new[j] = new[k] => j = k
  <2> SUFFICES ASSUME NEW j \in 1..n, NEW k \in 1..n, new[j] = new[k] PROVE j = k
    OBVIOUS
  <2>1. new[j] \in Nat /\ new[k] \in Nat /\ j \in Nat /\ k \in Nat
    <3>1. new[j] \in S /\ new[k] \in S
      OBVIOUS
    <3>2. j \in Nat /\ k \in Nat
      BY <1>1
    <3> QED BY <3>1, <3>2
  <2>2. ~(j < k) /\ ~(k < j)
    <3>1. /\ j < k => new[j] < new[k]
          /\ k < j => new[k] < new[j]
      OBVIOUS
    <3> QED BY <2>1, <3>1
  <2> QED BY <2>1, <2>2
<1> HIDE DEF n
<1>4. new \in [1..n -> S]
  BY DEF n
<1>5. new \in Injection(1..n, S)
  BY <1>3, <1>4, Fun_IsInj
<1>6. new \in Surjection(1..n, S)
  BY <1>2, <1>5, FS_Injection DEF n
<1>7. \A x \in S : \E k \in 1..n : new[k] = x
  BY <1>6 DEF Surjection
<1> QED BY <1>1, <1>3, <1>7 DEF n

-----------------------------------------------------------------------------
(* The sync.                                                                 *)

\* Users post remarks, and these have words.
LEMMA UserWords ==
  ASSUME posted \in Seq(Message), NEW ts \in Posted, posted[ts].kind # "mom"
  PROVE  posted[ts] \in Remarks /\ posted[ts].words \in Words
<1>1. posted[ts] \in Message
  BY DEF Posted
<1>2. posted[ts] \in Remarks
  BY <1>1 DEF Message
<1> QED BY <1>2 DEF Words

LEMMA UnseenType ==
  ASSUME SeenInv, posted \in Seq(Message), NEW item
  PROVE  /\ Unseen(item) \subseteq Posted /\ Firsts(Unseen(item)) \subseteq Unseen(item)
         /\ Unseen(item) \subseteq Nat /\ IsFiniteSet(Firsts(Unseen(item)))
         /\ \A ts \in Unseen(item) :
              /\ InLog(ts) /\ ts # item
              /\ ~InContext(posted[ts].words) /\ posted[ts].words \in Words
<1>1. ASSUME NEW ts \in Unseen(item)
      PROVE  /\ ts \in Posted /\ InLog(ts) /\ ts # item
             /\ ~InContext(posted[ts].words) /\ posted[ts].words \in Words
  <2>1. ts \in ToSet(channelLog) /\ posted[ts].kind # "mom" /\ ts # item
        /\ ~InContext(posted[ts].words)
    BY DEF Unseen, UsersOnly
  <2>2. InLog(ts)
    BY <2>1 DEF ToSet, InLog
  <2>3. ts \in Posted
    BY <2>2 DEF SeenInv, Places
  <2> QED BY <2>1, <2>2, <2>3, UserWords
<1>2. Posted \subseteq Nat /\ IsFiniteSet(Posted)
  BY LenProperties, FS_Interval DEF Posted
<1>3. Firsts(Unseen(item)) \subseteq Unseen(item)
  BY DEF Firsts
<1>4. Firsts(Unseen(item)) \in SUBSET Posted
  BY <1>1, <1>3
<1>5. IsFiniteSet(Firsts(Unseen(item)))
  BY <1>2, <1>4, FS_Subset
<1> QED BY <1>1, <1>2, <1>3, <1>5

\* Whatever has not been seen, the first line that says the same is taken over.
LEMMA FirstOfTheSame ==
  ASSUME SeenInv, posted \in Seq(Message), NEW item, NEW ts \in Unseen(item)
  PROVE  \E u \in Firsts(Unseen(item)) : posted[u].words = posted[ts].words
<1> DEFINE T == {u \in Unseen(item) : posted[u].words = posted[ts].words}
<1>1. T \subseteq Nat /\ T # {}
  BY UnseenType
<1> HIDE DEF T
<1>2. PICK u \in T : \A v \in T : u <= v
  BY <1>1, SomeLeast
<1>3. u \in Unseen(item) /\ posted[u].words = posted[ts].words
  BY DEF T
<1>4. ASSUME NEW v \in Unseen(item), v < u, posted[v].words = posted[u].words
      PROVE  FALSE
  <2>1. v \in T
    BY <1>3, <1>4 DEF T
  <2>2. u <= v /\ u \in Nat /\ v \in Nat
    BY <1>1, <1>2, <2>1
  <2> QED BY <1>4, <2>2
<1>5. u \in Firsts(Unseen(item))
  BY <1>3, <1>4 DEF Firsts
<1> QED BY <1>3, <1>5

\* What the sync does to the context.
Synced(item, n, new) ==
  /\ context' \in Seq(Entry) /\ n \in Nat /\ Len(context') = Len(context) + n
  /\ \A k \in 1..Len(context) : context'[k] = context[k]
  /\ \A k \in 1..n :
       /\ context'[Len(context) + k] =
            [ts |-> new[k], words |-> posted[new[k]].words, named |-> TRUE]
       /\ new[k] \in Unseen(item)
  /\ \A j, k \in 1..n : new[j] = new[k] => j = k
  /\ \A u \in Firsts(Unseen(item)) : \E k \in 1..n : new[k] = u

LEMMA SyncAdds ==
  ASSUME SeenInv, posted \in Seq(Message), NEW item, Sync(item)
  PROVE  \E n, new : Synced(item, n, new)
<1> DEFINE S == Firsts(Unseen(item))
           n == Cardinality(S)
<1>1. PICK new \in [1..n -> S] :
        /\ \A j, k \in DOMAIN new : j < k => new[j] < new[k]
        /\ context' = context \o [k \in DOMAIN new |->
                        [ts |-> new[k], words |-> posted[new[k]].words, named |-> TRUE]]
  BY DEF Sync
<1>2. S \subseteq Nat /\ IsFiniteSet(S) /\ S \subseteq Unseen(item)
  BY UnseenType
<1>3. /\ \A j, k \in DOMAIN new : new[j] = new[k] => j = k
      /\ \A x \in S : \E k \in DOMAIN new : new[k] = x
      /\ DOMAIN new = 1..n /\ n \in Nat
  <2> HIDE DEF S
  <2> QED BY <1>1, <1>2, EnumerationIsComplete
<1> DEFINE added == [k \in 1..n |->
                       [ts |-> new[k], words |-> posted[new[k]].words, named |-> TRUE]]
<1>4. ASSUME NEW k \in 1..n
      PROVE  /\ new[k] \in Unseen(item)
             /\ [ts |-> new[k], words |-> posted[new[k]].words, named |-> TRUE] \in Entry
  <2>1. new[k] \in S
    BY <1>1
  <2>2. new[k] \in Unseen(item) /\ new[k] \in Nat
    BY <1>2, <2>1
  <2>3. posted[new[k]].words \in Words
    BY <2>2, UnseenType
  <2> QED BY <2>2, <2>3 DEF Entry
<1> HIDE DEF n, S
<1>5. added \in Seq(Entry) /\ Len(added) = n /\ \A k \in 1..n :
        added[k] = [ts |-> new[k], words |-> posted[new[k]].words, named |-> TRUE]
  BY <1>3, <1>4
<1>6. context' = context \o added /\ context \in Seq(Entry)
  BY <1>1, <1>3 DEF SeenInv, Places
<1> HIDE DEF added
<1>7. /\ context' \in Seq(Entry) /\ Len(context') = Len(context) + n
      /\ \A k \in 1..Len(context) : context'[k] = context[k]
      /\ \A k \in 1..n : context'[Len(context) + k] = added[k]
  <2>1. Len(context) \in Nat
    BY <1>6, LenProperties
  <2> QED BY <1>3, <1>5, <1>6, <2>1, ConcatProperties
<1>8. /\ \A k \in 1..n : new[k] \in Unseen(item)
      /\ \A j, k \in 1..n : new[j] = new[k] => j = k
      /\ \A u \in Firsts(Unseen(item)) : \E k \in 1..n : new[k] = u
  BY <1>3, <1>4 DEF S
<1>9. Synced(item, n, new)
  BY <1>3, <1>5, <1>7, <1>8 DEF Synced
<1> QED BY <1>9

-----------------------------------------------------------------------------
(* The steps.                                                                *)

InLogThen(ts) == \E k \in DOMAIN channelLog' : channelLog'[k] = ts

\* The channel and the log only grow.
ChannelGrows ==
  /\ posted' \in Seq(Message) /\ Len(posted) <= Len(posted')
  /\ \A ts \in 1..Len(posted) : posted'[ts] = posted[ts]
LogGrows ==
  /\ channelLog' \in Seq(Nat)
  /\ \A ts : InLog(ts) => InLogThen(ts)
  /\ \A ts : InLogThen(ts) => ts \in 1..Len(posted')

\* A call stays where it is, or has its answer to post.
CallStays(i) ==
  /\ i \in DOMAIN active /\ active'[i].item = active[i].item
  /\ active'[i].step \in {active[i].step, "replying"}
  /\ \/ active'[i].status \in 1..Len(posted')
     \/ active'[i].status = active[i].status /\ active'[i].step = active[i].step

\* A call begins: about an event, or about a message that is news.
CallIsNew(i) ==
  /\ active'[i].step = "typing" /\ active'[i].status = Nothing
  /\ \/ active'[i].item = AnEvent
     \/ /\ InLogThen(active'[i].item) /\ posted'[active'[i].item].kind # "mom"
        /\ \/ active'[i].item \in again'
           \/ \A k \in DOMAIN context : context[k].ts # active'[i].item

LEMMA SeenStays ==
  ASSUME SeenInv, ApartInv, ChannelGrows, LogGrows,
         UNCHANGED <<context, mustKnow>>,
         fetched' \in Nat, fetched' <= Len(posted'),
         delivered' \subseteq 1..Len(posted'), \A ts \in delivered' : InLogThen(ts),
         \A ts \in 1..fetched' : ts \in passedOver' \/ InLogThen(ts),
         again \subseteq again',
         \A i \in DOMAIN active' : CallStays(i) \/ CallIsNew(i)
  PROVE  SeenInv'
<1>1. /\ Len(posted) \in Nat /\ Len(posted') \in Nat /\ Posted = 1..Len(posted)
      /\ Posted \subseteq 1..Len(posted') /\ Nothing \notin 1..Len(posted')
      /\ \A ts \in Posted : posted'[ts] = posted[ts]
  <2>1. Len(posted) \in Nat /\ Len(posted') \in Nat
    BY LenProperties DEF ApartInv, Shape, ChannelGrows
  <2> QED BY <2>1 DEF ChannelGrows, Posted, Nothing
<1>2. Places'
  BY <1>1 DEF SeenInv, Places, LogGrows, Posted, InLog, InLogThen
<1>3. CallsLogged'
  <2> SUFFICES ASSUME NEW i \in DOMAIN active'
               PROVE  /\ active'[i].item # AnEvent =>
                           InLogThen(active'[i].item) /\ posted'[active'[i].item].kind # "mom"
                      /\ active'[i].status \in {Nothing} \cup 1..Len(posted')
                      /\ active'[i].status = Nothing => active'[i].step = "typing"
    <3>1. Posted' = 1..Len(posted') /\ AnEvent' = AnEvent /\ Nothing' = Nothing
      BY DEF Posted
    <3> QED BY <3>1 DEF CallsLogged, InLog, InLogThen
  <2>1. CASE CallIsNew(i)
    BY <2>1 DEF CallIsNew
  <2>2. CASE CallStays(i)
    <3>1. /\ active[i].item # AnEvent =>
               InLog(active[i].item) /\ posted[active[i].item].kind # "mom"
          /\ active[i].status \in {Nothing} \cup Posted
          /\ active[i].status = Nothing => active[i].step = "typing"
      BY <2>2 DEF CallStays, SeenInv, CallsLogged
    <3>2. \A ts : InLog(ts) => ts \in Posted /\ InLogThen(ts)
      BY DEF SeenInv, Places, LogGrows
    <3>3. active'[i].item # AnEvent =>
            InLogThen(active'[i].item) /\ posted'[active'[i].item].kind # "mom"
      <4> DEFINE item == active[i].item
      <4>1. active'[i].item = item
        BY <2>2 DEF CallStays
      <4>2. item # AnEvent => item \in Posted /\ InLogThen(item) /\ posted[item].kind # "mom"
        BY <3>1, <3>2
      <4> HIDE DEF item
      <4> QED BY <1>1, <4>1, <4>2
    <3>4. CASE active'[i].status \in 1..Len(posted')
      BY <1>1, <3>3, <3>4
    <3>5. CASE active'[i].status = active[i].status /\ active'[i].step = active[i].step
      BY <1>1, <3>1, <3>3, <3>5
    <3> QED BY <2>2, <3>4, <3>5 DEF CallStays
  <2> QED BY <2>1, <2>2
<1>4. LogIsComplete'
  BY DEF LogIsComplete, InLog, InLogThen
<1>5. ContextFromLog'
  <2> SUFFICES ASSUME NEW k \in DOMAIN context
               PROVE  /\ context[k].ts # AnEvent =>
                           /\ InLogThen(context[k].ts)
                           /\ context[k].words = posted'[context[k].ts].words
                      /\ context[k].named = TRUE \/ context[k].words \in Strangers
    BY DEF ContextFromLog, InLog, InLogThen, AnEvent
  <2>1. /\ context[k].ts # AnEvent =>
             InLog(context[k].ts) /\ context[k].words = posted[context[k].ts].words
        /\ context[k].named = TRUE \/ context[k].words \in Strangers
    BY DEF SeenInv, ContextFromLog
  <2>2. \A ts : InLog(ts) => ts \in Posted /\ InLogThen(ts)
    BY DEF SeenInv, Places, LogGrows
  <2> QED BY <1>1, <2>1, <2>2
<1>6. NewsIsNew'
  <2> SUFFICES ASSUME NEW i \in DOMAIN active', active'[i].step \in {"typing", "prepared"}
               PROVE  \/ active'[i].item = AnEvent
                      \/ active'[i].item \in again'
                      \/ \A k \in DOMAIN context : context[k].ts # active'[i].item
    BY DEF NewsIsNew, AnEvent
  <2>1. CASE CallIsNew(i)
    BY <2>1 DEF CallIsNew
  <2>2. CASE CallStays(i)
    BY <2>2 DEF CallStays, SeenInv, NewsIsNew
  <2> QED BY <2>1, <2>2
<1>7. AgentTold'
  <2> SUFFICES ASSUME NEW i \in DOMAIN active', active'[i].step \in {"prepared", "agent"},
                      NEW ts \in mustKnow
               PROVE  \/ active'[i].step = "prepared" /\ ts = active'[i].item
                      \/ Known(ts)'
    BY DEF AgentTold, Known
  <2>1. CallStays(i) /\ active'[i].step = active[i].step
    BY DEF CallIsNew, CallStays
  <2>2. \/ active'[i].step = "prepared" /\ ts = active'[i].item
        \/ Known(ts)
    BY <2>1 DEF CallStays, SeenInv, AgentTold
  <2>3. Known(ts) => Known(ts)'
    <3>1. posted'[ts] = posted[ts]
      BY <1>1 DEF SeenInv, Places
    <3> QED BY <3>1 DEF Known
  <2> QED BY <2>2, <2>3
<1>8. KnownOnce'
  BY DEF SeenInv, KnownOnce, AnEvent
<1>9. PromptedWithIt'
  <2> SUFFICES ASSUME NEW i \in DOMAIN active', active'[i].step = "agent"
               PROVE  \E k \in DOMAIN context : context[k].ts = active'[i].item
    BY DEF PromptedWithIt
  <2>1. i \in DOMAIN active /\ active[i].step = "agent" /\ active'[i].item = active[i].item
    BY DEF CallIsNew, CallStays
  <2> QED BY <2>1 DEF SeenInv, PromptedWithIt
<1> QED BY <1>2, <1>3, <1>4, <1>5, <1>6, <1>7, <1>8, <1>9 DEF SeenInv

LEMMA PostsGrow ==
  ASSUME ApartInv,
         posted' = posted \/ \E message \in Message : posted' = Append(posted, message)
  PROVE  ChannelGrows
<1>1. posted \in Seq(Message) /\ Len(posted) \in Nat
  BY LenProperties DEF ApartInv, Shape
<1>2. CASE posted' = posted
  BY <1>1, <1>2 DEF ChannelGrows
<1>3. ASSUME NEW message \in Message, posted' = Append(posted, message)
      PROVE  ChannelGrows
  <2> DEFINE more == Append(posted, message)
  <2>1. more \in Seq(Message) /\ Len(more) = Len(posted) + 1
        /\ \A k \in 1..Len(posted) : more[k] = posted[k]
    BY <1>1, AppendProperties
  <2> HIDE DEF more
  <2>2. posted' = more
    BY <1>3 DEF more
  <2> QED BY <1>1, <2>1, <2>2 DEF ChannelGrows
<1> QED BY <1>2, <1>3

LEMMA LogStays ==
  ASSUME SeenInv, ApartInv, ChannelGrows, UNCHANGED channelLog
  PROVE  LogGrows
<1>1. Len(posted) \in Nat /\ Len(posted') \in Nat
  BY LenProperties DEF ApartInv, Shape, ChannelGrows
<1>2. \A ts : InLogThen(ts) => InLog(ts)
  BY DEF InLog, InLogThen
<1>3. \A ts : InLog(ts) => InLogThen(ts)
  BY DEF InLog, InLogThen
<1>4. \A ts : InLog(ts) => ts \in 1..Len(posted')
  <2>1. \A ts \in 1..Len(posted) : ts \in 1..Len(posted')
    BY <1>1 DEF ChannelGrows
  <2> QED BY <2>1 DEF SeenInv, Places, Posted
<1> QED BY <1>2, <1>3, <1>4 DEF LogGrows, SeenInv, Places

LEMMA LogAppends ==
  ASSUME SeenInv, ApartInv, posted' = posted, NEW ts \in Posted,
         channelLog' = Append(channelLog, ts)
  PROVE  LogGrows /\ InLogThen(ts)
<1> DEFINE more == Append(channelLog, ts)
           n == Len(channelLog)
<1>1. channelLog \in Seq(Nat) /\ n \in Nat /\ DOMAIN channelLog = 1..n /\ ts \in Nat
  <2>1. channelLog \in Seq(Nat)
    BY DEF SeenInv, Places
  <2> QED BY <2>1, LenProperties DEF Posted
<1>2. /\ more \in Seq(Nat) /\ Len(more) = n + 1 /\ more[n + 1] = ts
      /\ \A k \in 1..n : more[k] = channelLog[k]
  BY <1>1, AppendProperties
<1>3. DOMAIN more = 1..n + 1
  BY <1>2, LenProperties
<1> HIDE DEF more, n
<1>4. channelLog' = more
  BY DEF more
<1>5. InLogThen(ts)
  BY <1>1, <1>2, <1>3, <1>4 DEF InLogThen
<1>6. \A t : InLog(t) => InLogThen(t)
  BY <1>1, <1>2, <1>3, <1>4 DEF InLog, InLogThen
<1>7. \A t : InLogThen(t) => InLog(t) \/ t = ts
  BY <1>1, <1>2, <1>3, <1>4 DEF InLog, InLogThen
<1>8. \A t : InLog(t) \/ t = ts => t \in 1..Len(posted')
  BY DEF SeenInv, Places, Posted
<1> QED BY <1>2, <1>4, <1>5, <1>6, <1>7, <1>8 DEF LogGrows

\* Whoever tells nobody anything.
LEMMA SeenIdles ==
  ASSUME SeenInv, ApartInv, ChannelGrows, LogGrows,
         UNCHANGED <<context, mustKnow, fetched, passedOver, delivered, again>>,
         \A i \in DOMAIN active' : CallStays(i) \/ CallIsNew(i)
  PROVE  SeenInv'
<1>1. Len(posted) \in Nat /\ Len(posted') \in Nat
  BY LenProperties DEF ApartInv, Shape, ChannelGrows
<1>2. fetched' \in Nat /\ fetched' <= Len(posted')
  BY <1>1 DEF SeenInv, Places, ChannelGrows
<1>3. delivered' \subseteq 1..Len(posted') /\ again \subseteq again'
  BY <1>1 DEF SeenInv, Places, Posted, ChannelGrows
<1>4. \A ts \in delivered' : InLogThen(ts)
  BY DEF SeenInv, LogIsComplete, LogGrows
<1>5. \A ts \in 1..fetched' : ts \in passedOver' \/ InLogThen(ts)
  BY DEF SeenInv, LogIsComplete, LogGrows
<1> QED BY <1>2, <1>3, <1>4, <1>5, SeenStays

LEMMA CallsStay ==
  ASSUME UNCHANGED active
  PROVE  \A i \in DOMAIN active' : CallStays(i)
BY DEF CallStays

\* The next call, if there is one, is about an event.
LEMMA NextCall ==
  ASSUME ApartInv, NEW i \in DOMAIN active, ProcessNext
  PROVE  \A k \in DOMAIN active' : CallIsNew(k)
<1>1. CASE queue = <<>>
  <2>1. active' = <<>>
    BY <1>1, TheOnlyCall DEF ProcessNext
  <2> QED BY <2>1
<1>2. CASE queue # <<>>
  <2>1. Head(queue) = AnEvent
    BY <1>2, HeadTailProperties DEF ApartInv, Shape, OneCall
  <2>2. active' = <<[item |-> AnEvent, status |-> Nothing, step |-> "typing"]>>
    BY <1>2, <2>1 DEF ProcessNext
  <2>3. DOMAIN active' = {1} /\ active'[1] = [item |-> AnEvent, status |-> Nothing, step |-> "typing"]
    BY <2>2
  <2> QED BY <2>3 DEF CallIsNew
<1> QED BY <1>1, <1>2

LEMMA CallOrQueue ==
  ASSUME ApartInv, NEW item, Enqueue(item),
         \/ item = AnEvent
         \/ /\ InLogThen(item) /\ posted'[item].kind # "mom"
            /\ item \in again' \/ \A k \in DOMAIN context : context[k].ts # item
  PROVE  \A i \in DOMAIN active' : CallStays(i) \/ CallIsNew(i)
<1>1. CASE processing
  BY <1>1, CallsStay DEF Enqueue
<1>2. CASE ~processing
  <2>1. active = <<>>
    BY <1>2 DEF ApartInv, OneCall
  <2>2. active' = <<[item |-> item, status |-> Nothing, step |-> "typing"]>>
    BY <1>2, <2>1 DEF Enqueue, Call
  <2>3. DOMAIN active' = {1} /\ active'[1] = [item |-> item, status |-> Nothing, step |-> "typing"]
    BY <2>2
  <2> QED BY <2>3 DEF CallIsNew
<1> QED BY <1>1, <1>2

\* What Slack and the events do.
LEMMA SlackSeen ==
  ASSUME SeenInv, ApartInv,
         \/ \E remark \in Remarks : Post(remark)
         \/ EventComes \/ Recover \/ RecoveryEnds \/ Connect \/ RecordStartup
  PROVE  SeenInv'
<1>1. posted' = posted \/ \E message \in Message : posted' = Append(posted, message)
  BY DEF Post, EventComes, Recover, RecoveryEnds, Connect, RecordStartup, slackVars, Message
<1>2. UNCHANGED <<channelLog, context, mustKnow, fetched, passedOver, delivered, again>>
  BY DEF Post, EventComes, Recover, RecoveryEnds, Connect, RecordStartup, fileVars, ghostVars
<1>3. ChannelGrows /\ LogGrows
  BY <1>1, <1>2, PostsGrow, LogStays
<1>4. \A i \in DOMAIN active' : CallStays(i) \/ CallIsNew(i)
  <2>1. CASE UNCHANGED active
    BY <2>1, CallsStay
  <2>2. CASE EventComes
    BY <2>1, <2>2, CallOrQueue DEF EventComes
  <2> QED BY <2>1, <2>2 DEF Post, Recover, RecoveryEnds, Connect, RecordStartup, runVars
<1> QED BY <1>2, <1>3, <1>4, SeenIdles

\* A message that is delivered is logged; if it was not in the log, it is news.
LEMMA DeliverySeen ==
  ASSUME SeenInv, ApartInv, NEW ts \in inflight, Deliver(ts)
  PROVE  SeenInv'
<1>1. /\ posted' = posted /\ channelLog' = Append(channelLog, ts)
      /\ UNCHANGED <<context, mustKnow, fetched, passedOver>>
      /\ delivered' = delivered \cup {ts}
      /\ again' = IF Contains(channelLog, ts) THEN again \cup {ts} ELSE again
  BY DEF Deliver, LogUserMessage
<1>2. ts \in Posted
  BY DEF ApartInv, Shape, Posted
<1>3. ChannelGrows /\ LogGrows /\ InLogThen(ts)
  BY <1>1, <1>2, PostsGrow, LogAppends
<1>4. ts \in again' \/ \A k \in DOMAIN context : context[k].ts # ts
  <2>1. CASE Contains(channelLog, ts)
    BY <1>1, <2>1
  <2>2. CASE ~Contains(channelLog, ts)
    <3>1. ~InLog(ts)
      BY <2>2, LenProperties DEF Contains, InLog, SeenInv, Places
    <3>2. ts # AnEvent
      BY <1>2, LenProperties DEF ApartInv, Shape, Posted, AnEvent
    <3> QED BY <3>1, <3>2 DEF SeenInv, ContextFromLog
  <2> QED BY <2>1, <2>2
<1>5. \A i \in DOMAIN active' : CallStays(i) \/ CallIsNew(i)
  <2>1. CASE UNCHANGED active
    BY <2>1, CallsStay
  <2>2. CASE Enqueue(ts) /\ posted[ts].kind = "ask"
    <3>1. posted'[ts].kind # "mom"
      BY <1>1, <2>2
    <3> QED BY <1>3, <1>4, <2>2, <3>1, CallOrQueue
  <2> QED BY <2>1, <2>2 DEF Deliver
<1>6. Len(posted) \in Nat
  BY LenProperties DEF ApartInv, Shape
<1>7. fetched' \in Nat /\ fetched' <= Len(posted') /\ delivered' \subseteq 1..Len(posted')
  BY <1>1, <1>2 DEF SeenInv, Places, Posted
<1>8. /\ \A t \in delivered' : InLogThen(t)
      /\ \A t \in 1..fetched' : t \in passedOver' \/ InLogThen(t)
  BY <1>1, <1>3 DEF SeenInv, LogIsComplete, LogGrows
<1>9. again \subseteq again'
  BY <1>1
<1> QED BY <1>1, <1>3, <1>5, <1>7, <1>8, <1>9, SeenStays

\* The steps of a run but for the two that tell the agent something.
LEMMA RunSeen ==
  ASSUME SeenInv, ApartInv, NEW i \in DOMAIN active,
         PostStatus(i) \/ PromptThrows(i) \/ AgentEnds(i) \/ HandleEventEnds(i)
  PROVE  SeenInv'
<1>0. i = 1 /\ active[1] \in ACall /\ DOMAIN active = {1}
  BY TheOnlyCall
<1>1. UNCHANGED <<context, mustKnow, fetched, passedOver, delivered, again>>
  BY DEF PostStatus, PromptThrows, AgentEnds, HandleEventEnds, fileVars, ghostVars
<1>2. CASE PostStatus(i)
  <2> DEFINE n == Len(posted) + 1
             status == [kind |-> "mom"]
             call == [active[1] EXCEPT !.status = n]
  <2>1. /\ posted' = Append(posted, status) /\ channelLog' = channelLog
        /\ active' = [active EXCEPT ![1] = call]
    BY <1>0, <1>2 DEF PostStatus, fileVars
  <2>2. ChannelGrows /\ LogGrows
    BY <2>1, PostsGrow, LogStays DEF Message
  <2>3. Len(posted) \in Nat /\ Len(posted') = n
    BY <2>1, LenProperties, AppendProperties DEF ApartInv, Shape, Message
  <2>4. call \in ACall /\ call.status = n /\ call.item = active[1].item
        /\ call.step = active[1].step
    BY <1>0, <2>3 DEF ACall
  <2>5. DOMAIN active' = {1} /\ active'[1] = call
    <3> HIDE DEF call
    <3> QED BY <2>1, <2>4, CallChanges
  <2>6. n \in 1..Len(posted')
    BY <2>3
  <2> HIDE DEF n, call
  <2>7. \A k \in DOMAIN active' : CallStays(k)
    BY <1>0, <2>4, <2>5, <2>6 DEF CallStays
  <2> QED BY <1>1, <2>2, <2>7, SeenIdles
<1>3. CASE PromptThrows(i) \/ HandleEventEnds(i)
  <2>1. UNCHANGED <<posted, channelLog>> /\ ProcessNext
    BY <1>3 DEF PromptThrows, HandleEventEnds, slackVars, fileVars
  <2>2. ChannelGrows /\ LogGrows
    BY <2>1, PostsGrow, LogStays
  <2> QED BY <1>1, <2>1, <2>2, NextCall, SeenIdles
<1>4. CASE AgentEnds(i)
  <2>1. /\ posted' = posted /\ CallGoes(i, "agent", "replying")
        /\ channelLog' = channelLog \/ channelLog' = Append(channelLog, active[1].status)
    BY <1>0, <1>4 DEF AgentEnds, slackVars
  <2>2. /\ active[1].step = "agent" /\ DOMAIN active' = {1}
        /\ active'[1] = [active[1] EXCEPT !.step = "replying"]
    BY <2>1, CallGoesOn
  <2>3. active[1].status \in Posted
    BY <1>0, <2>2 DEF SeenInv, CallsLogged
  <2>4. ChannelGrows /\ LogGrows
    BY <2>1, <2>3, PostsGrow, LogStays, LogAppends
  <2>5. /\ active'[1].item = active[1].item /\ active'[1].step = "replying"
        /\ active'[1].status = active[1].status
    BY <1>0, <2>2 DEF ACall
  <2>6. \A k \in DOMAIN active' : CallStays(k)
    BY <1>0, <2>1, <2>2, <2>3, <2>5 DEF CallStays, Posted
  <2> QED BY <1>1, <2>4, <2>6, SeenIdles
<1> QED BY <1>2, <1>3, <1>4

\* A death takes the calls with it, and of a context without an answer everything.
LEMMA DeathSeen ==
  ASSUME SeenInv, ApartInv, BotDies
  PROVE  SeenInv'
<1>1. /\ active' = <<>> /\ context' \in {context, <<>>}
      /\ UNCHANGED <<posted, channelLog, mustKnow, fetched, passedOver, delivered, again>>
  BY DEF BotDies, slackVars
<1>2. CallsLogged' /\ NewsIsNew' /\ AgentTold' /\ PromptedWithIt'
  BY <1>1 DEF CallsLogged, NewsIsNew, AgentTold, PromptedWithIt
<1>3. LogIsComplete'
  BY <1>1 DEF SeenInv, LogIsComplete, InLog
<1>4. Places'
  <2>1. context \in Seq(Entry) /\ <<>> \in Seq(Entry)
    BY DEF SeenInv, Places
  <2>2. context' \in Seq(Entry)
    BY <1>1, <2>1
  <2> QED BY <1>1, <2>2 DEF SeenInv, Places, InLog, Posted
<1>5. CASE context' = context
  BY <1>1, <1>2, <1>3, <1>4, <1>5 DEF SeenInv, ContextFromLog, KnownOnce, InLog, AnEvent
<1>6. CASE context' = <<>>
  BY <1>1, <1>2, <1>3, <1>4, <1>6 DEF SeenInv, ContextFromLog, KnownOnce
<1> QED BY <1>1, <1>5, <1>6

LEMMA LargerOfTwo ==
  ASSUME NEW a \in Int, NEW b \in Int
  PROVE  Max({a, b}) \in {a, b} /\ Max({a, b}) >= a /\ Max({a, b}) >= b
<1>1. \E x \in {a, b} : \A y \in {a, b} : x >= y
  <2>1. a >= b \/ b >= a
    OBVIOUS
  <2> QED BY <2>1
<1> QED BY <1>1 DEF Max

\* Where the pages of a backfill begin is between the latest line and the end.
LEMMA PagesType ==
  ASSUME SeenInv, posted \in Seq(Message)
  PROVE  BeforePages \in 0..Len(posted)
<1>1. Len(posted) \in Nat /\ Latest \in 0..Len(posted) /\ BackfillLimit \in Nat
  BY LenProperties, LatestType, ChannelAssumption
<1>2. Len(posted) - BackfillLimit \in Int /\ Len(posted) - BackfillLimit <= Len(posted)
  BY <1>1
<1> DEFINE a == Latest
           b == Len(posted) - BackfillLimit
<1>3. a \in Int /\ b \in Int /\ a <= Len(posted) /\ b <= Len(posted) /\ a >= 0
  BY <1>1, <1>2
<1>4. BeforePages = Max({a, b})
  BY DEF BeforePages
<1> HIDE DEF a, b
<1>5. Max({a, b}) \in {a, b} /\ Max({a, b}) >= a
  BY <1>3, LargerOfTwo
<1> QED BY <1>1, <1>3, <1>4, <1>5

\* The backfill writes down what its pages hold, and passes over the rest, if it does not
\* fail.
LEMMA BackfillSeen ==
  ASSUME SeenInv, ApartInv, Backfill
  PROVE  SeenInv'
<1>1. UNCHANGED <<posted, context, mustKnow, delivered, again, active>>
  BY DEF Backfill, slackVars, runVars
<1>2. ChannelGrows
  BY <1>1, PostsGrow
<1>3. \A i \in DOMAIN active' : CallStays(i) \/ CallIsNew(i)
  BY <1>1, CallsStay
<1>4. CASE UNCHANGED <<channelLog, fetched, passedOver>>
  <2>1. LogGrows
    BY <1>2, <1>4, LogStays
  <2> QED BY <1>1, <1>2, <1>3, <1>4, <2>1, SeenIdles
<1>5. CASE ~UNCHANGED <<channelLog, fetched, passedOver>>
  <2> DEFINE last == BeforePages
             n == Len(posted) - last
             more == [k \in 1..n |-> last + k]
             all == channelLog \o more
             m == Len(channelLog)
  <2>1. /\ channelLog' = all /\ fetched' = Len(posted)
        /\ passedOver' = passedOver \cup {ts \in 1..last : ~Contains(channelLog, ts)}
    BY <1>5 DEF Backfill
  <2>2. Len(posted) \in Nat /\ last \in 0..Len(posted)
    BY LenProperties, PagesType DEF ApartInv, Shape
  <2>3. channelLog \in Seq(Nat) /\ m \in Nat /\ DOMAIN channelLog = 1..m
    BY LenProperties DEF SeenInv, Places
  <2> HIDE DEF last
  <2>4. n \in Nat /\ more \in Seq(Nat) /\ Len(more) = n /\ \A k \in 1..n : more[k] = last + k
    BY <2>2
  <2> HIDE DEF n, more
  <2>5. /\ all \in Seq(Nat) /\ Len(all) = m + n
        /\ \A k \in 1..m : all[k] = channelLog[k]
        /\ \A k \in 1..n : all[m + k] = more[k]
    <3>1. /\ all \in Seq(Nat) /\ Len(all) = m + Len(more)
          /\ \A k \in 1..m + Len(more) :
               all[k] = IF k <= m THEN channelLog[k] ELSE more[k - m]
      BY <2>3, <2>4, ConcatProperties
    <3> HIDE DEF all, m
    <3>2. ASSUME NEW k \in 1..m PROVE all[k] = channelLog[k]
      BY <2>3, <2>4, <3>1
    <3>3. ASSUME NEW k \in 1..n PROVE all[m + k] = more[k]
      <4>1. m + k \in 1..m + n /\ ~(m + k <= m) /\ (m + k) - m = k
        BY <2>3, <2>4
      <4> QED BY <2>4, <3>1, <4>1
    <3> QED BY <2>4, <3>1, <3>2, <3>3
  <2>6. DOMAIN all = 1..m + n
    BY <2>5, LenProperties
  <2> HIDE DEF all, m
  <2>7. \A ts : InLog(ts) => InLogThen(ts)
    <3>1. \A k \in 1..m : k \in 1..m + n
      BY <2>3, <2>4
    <3> QED BY <2>1, <2>3, <2>5, <2>6, <3>1 DEF InLog, InLogThen
  <2>8. \A ts \in last + 1..Len(posted) : InLogThen(ts)
    <3> SUFFICES ASSUME NEW ts \in last + 1..Len(posted) PROVE InLogThen(ts)
      OBVIOUS
    <3>1. ts - last \in 1..n /\ last + (ts - last) = ts
      BY <2>2 DEF n
    <3>2. m + (ts - last) \in 1..m + n /\ all[m + (ts - last)] = ts
      BY <2>3, <2>4, <2>5, <3>1
    <3> QED BY <2>1, <2>6, <3>2 DEF InLogThen
  <2>9. \A ts : InLogThen(ts) => ts \in 1..Len(posted')
    <3> SUFFICES ASSUME NEW k \in 1..m + n PROVE all[k] \in 1..Len(posted)
      BY <1>1, <2>1, <2>6 DEF InLogThen
    <3>1. CASE k \in 1..m
      <4>1. InLog(all[k])
        BY <2>3, <2>5, <3>1 DEF InLog
      <4> QED BY <4>1 DEF SeenInv, Places, Posted
    <3>2. CASE k \notin 1..m
      <4>1. k - m \in 1..n /\ m + (k - m) = k
        BY <2>3, <2>4, <3>2
      <4>2. all[k] = last + (k - m)
        BY <2>4, <2>5, <4>1
      <4> QED BY <2>2, <4>1, <4>2 DEF n
    <3> QED BY <3>1, <3>2
  <2>10. LogGrows
    BY <2>1, <2>5, <2>7, <2>9 DEF LogGrows
  <2>11. \A ts \in 1..fetched' : ts \in passedOver' \/ InLogThen(ts)
    <3> SUFFICES ASSUME NEW ts \in 1..Len(posted) PROVE ts \in passedOver' \/ InLogThen(ts)
      BY <2>1
    <3>1. CASE ts > last
      BY <2>2, <2>8, <3>1
    <3>2. CASE ts <= last /\ Contains(channelLog, ts)
      <4>1. InLog(ts)
        BY <2>3, <3>2, LenProperties DEF Contains, InLog
      <4> QED BY <2>7, <4>1
    <3>3. CASE ts <= last /\ ~Contains(channelLog, ts)
      BY <2>1, <2>2, <3>3
    <3> QED BY <2>2, <3>1, <3>2, <3>3
  <2>12. \A ts \in delivered' : InLogThen(ts)
    BY <1>1, <2>7 DEF SeenInv, LogIsComplete
  <2>13. /\ fetched' \in Nat /\ fetched' <= Len(posted') /\ delivered' \subseteq 1..Len(posted')
         /\ again \subseteq again'
    BY <1>1, <2>1, <2>2 DEF SeenInv, Places, Posted
  <2> QED BY <1>1, <1>2, <1>3, <2>10, <2>11, <2>12, <2>13, SeenStays
<1> QED BY <1>4, <1>5

\* After the sync a message of the context was there before or was unseen.
OldAndNew(item, n, new) ==
  /\ \A k \in DOMAIN context' :
       \/ k \in DOMAIN context /\ context'[k] = context[k]
       \/ \E j \in 1..n : /\ k = Len(context) + j /\ new[j] \in Unseen(item)
                          /\ context'[k].ts = new[j]
                          /\ context'[k].words = posted[new[j]].words
                          /\ context'[k].named = TRUE
  /\ \A k \in DOMAIN context : k \in DOMAIN context' /\ context'[k] = context[k]
  /\ \A j \in 1..n : /\ Len(context) + j \in DOMAIN context'
                     /\ context'[Len(context) + j].words = posted[new[j]].words

LEMMA OldOrNew ==
  ASSUME SeenInv, NEW item, NEW n, NEW new, Synced(item, n, new)
  PROVE  OldAndNew(item, n, new)
<1> DEFINE c == Len(context)
<1>1. c \in Nat /\ DOMAIN context = 1..c /\ n \in Nat /\ DOMAIN context' = 1..c + n
  BY LenProperties DEF SeenInv, Places, Synced
<1>2. /\ \A k \in 1..c : context'[k] = context[k]
      /\ \A j \in 1..n :
           /\ context'[c + j] = [ts |-> new[j], words |-> posted[new[j]].words, named |-> TRUE]
           /\ new[j] \in Unseen(item)
  BY DEF Synced
<1> HIDE DEF c
<1>3. ASSUME NEW j \in 1..n
      PROVE  /\ context'[c + j].ts = new[j] /\ context'[c + j].named = TRUE
             /\ context'[c + j].words = posted[new[j]].words
             /\ c + j \in DOMAIN context' /\ new[j] \in Unseen(item)
  <2>1. c + j \in 1..c + n
    BY <1>1
  <2> DEFINE entry == [ts |-> new[j], words |-> posted[new[j]].words, named |-> TRUE]
  <2>2. context'[c + j] = entry /\ new[j] \in Unseen(item)
    BY <1>2
  <2>3. entry.ts = new[j] /\ entry.words = posted[new[j]].words
    OBVIOUS
  <2>4. entry.named = TRUE
    OBVIOUS
  <2> HIDE DEF entry
  <2> QED BY <1>1, <2>1, <2>2, <2>3, <2>4
<1>4. ASSUME NEW k \in 1..c + n, k \notin 1..c
      PROVE  k - c \in 1..n /\ k = c + (k - c)
  BY <1>1, <1>4
<1>5. ASSUME NEW k \in 1..c PROVE k \in 1..c + n
  BY <1>1
<1>6. \A k \in 1..c + n :
        \/ k \in 1..c /\ context'[k] = context[k]
        \/ \E j \in 1..n : /\ k = c + j /\ new[j] \in Unseen(item)
                           /\ context'[k].ts = new[j]
                           /\ context'[k].words = posted[new[j]].words
                           /\ context'[k].named = TRUE
  <2> SUFFICES ASSUME NEW k \in 1..c + n, k \notin 1..c
               PROVE  \E j \in 1..n : /\ k = c + j /\ new[j] \in Unseen(item)
                                      /\ context'[k].ts = new[j]
                                      /\ context'[k].words = posted[new[j]].words
                                      /\ context'[k].named = TRUE
    BY <1>2
  <2> QED BY <1>3, <1>4
<1>7. \A k \in 1..c : k \in DOMAIN context' /\ context'[k] = context[k]
  BY <1>1, <1>2, <1>5
<1>8. \A j \in 1..n : c + j \in DOMAIN context' /\ context'[c + j].words = posted[new[j]].words
  BY <1>3
<1> QED BY <1>1, <1>6, <1>7, <1>8 DEF c, OldAndNew

LEMMA PrepareSeen ==
  ASSUME SeenInv, ApartInv, NEW i \in DOMAIN active, Prepare(i)
  PROVE  SeenInv'
<1> DEFINE item == active[1].item
<1>1. /\ UNCHANGED <<posted, channelLog, fetched, passedOver, delivered, again>>
      /\ mustKnow' = UsersOnly((1..fetched \ passedOver) \cup delivered)
      /\ CallGoes(i, "typing", "prepared") /\ Sync(item) /\ active[1].status # Nothing
  BY TheOnlyCall DEF Prepare, slackVars
<1>2. /\ DOMAIN active = {1} /\ DOMAIN active' = {1} /\ active[1] \in ACall
      /\ active[1].step = "typing" /\ active'[1] = [active[1] EXCEPT !.step = "prepared"]
  BY <1>1, TheOnlyCall, CallGoesOn
<1>3. /\ active'[1].item = item /\ active'[1].status = active[1].status
      /\ active'[1].step = "prepared"
  BY <1>2 DEF ACall
<1> HIDE DEF item
<1>4. posted \in Seq(Message)
  BY DEF ApartInv, Shape
<1>5. PICK n, new : Synced(item, n, new)
  BY <1>1, <1>4, SyncAdds
<1>6. /\ \A k \in DOMAIN context' :
           \/ k \in DOMAIN context /\ context'[k] = context[k]
           \/ \E j \in 1..n : /\ k = Len(context) + j /\ new[j] \in Unseen(item)
                              /\ context'[k].ts = new[j]
                              /\ context'[k].words = posted[new[j]].words
                              /\ context'[k].named = TRUE
      /\ \A k \in DOMAIN context : k \in DOMAIN context' /\ context'[k] = context[k]
      /\ \A j \in 1..n : /\ Len(context) + j \in DOMAIN context'
                         /\ context'[Len(context) + j].words = posted[new[j]].words
  <2>1. OldAndNew(item, n, new)
    BY <1>5, OldOrNew
  <2> QED BY <2>1 DEF OldAndNew
<1>7. \A ts \in Unseen(item) :
        /\ InLog(ts) /\ ts # item /\ ts # AnEvent
        /\ ~InContext(posted[ts].words)
  <2>1. \A ts \in Unseen(item) : ts \in Posted
    BY <1>4, UnseenType
  <2>2. AnEvent \notin Posted
    BY <1>4, LenProperties DEF Posted, AnEvent
  <2> QED BY <1>4, <2>1, <2>2, UnseenType
<1>8. \A ts : InLog(ts)' <=> InLog(ts)
  BY <1>1 DEF InLog
<1>9. ASSUME NEW ts \in mustKnow'
      PROVE  /\ ts \in Posted /\ InLog(ts) /\ posted[ts].kind # "mom"
  <2>1. ts \in (1..fetched \ passedOver) \cup delivered /\ posted[ts].kind # "mom"
    BY <1>1 DEF UsersOnly
  <2>2. InLog(ts)
    BY <2>1 DEF SeenInv, LogIsComplete
  <2> QED BY <2>1, <2>2 DEF SeenInv, Places
<1>10. Places'
  <2>1. context' \in Seq(Entry)
    BY <1>5 DEF Synced
  <2>2. mustKnow' \subseteq Posted /\ Posted' = Posted
    BY <1>1, <1>9 DEF Posted
  <2> QED BY <1>1, <1>8, <2>1, <2>2 DEF SeenInv, Places
<1>11. CallsLogged'
  <2>1. /\ item # AnEvent => InLog(item) /\ posted[item].kind # "mom"
        /\ active[1].status \in {Nothing} \cup Posted
    BY <1>2 DEF SeenInv, CallsLogged, item
  <2>2. Posted' = Posted /\ AnEvent' = AnEvent /\ Nothing' = Nothing
    BY <1>1 DEF Posted
  <2> QED BY <1>1, <1>2, <1>3, <2>1, <2>2 DEF CallsLogged, InLog
<1>12. LogIsComplete'
  BY <1>1 DEF SeenInv, LogIsComplete, InLog
<1>13. ContextFromLog'
  <2> SUFFICES ASSUME NEW k \in DOMAIN context'
               PROVE  /\ context'[k].ts # AnEvent =>
                           /\ InLog(context'[k].ts)
                           /\ context'[k].words = posted[context'[k].ts].words
                      /\ context'[k].named = TRUE \/ context'[k].words \in Strangers
    BY <1>1 DEF ContextFromLog, InLog, AnEvent
  <2>1. CASE k \in DOMAIN context /\ context'[k] = context[k]
    BY <2>1 DEF SeenInv, ContextFromLog
  <2>2. ASSUME NEW j \in 1..n, new[j] \in Unseen(item), context'[k].ts = new[j],
               context'[k].words = posted[new[j]].words, context'[k].named = TRUE
        PROVE  /\ InLog(context'[k].ts)
               /\ context'[k].words = posted[context'[k].ts].words
    BY <1>7, <2>2
  <2> QED BY <1>6, <2>1, <2>2
<1>14. NewsIsNew'
  <2>1. \/ item = AnEvent \/ item \in again
        \/ \A k \in DOMAIN context : context[k].ts # item
    BY <1>2 DEF SeenInv, NewsIsNew, item
  <2>2. (\A k \in DOMAIN context : context[k].ts # item)
          => \A k \in DOMAIN context' : context'[k].ts # item
    BY <1>6, <1>7
  <2> QED BY <1>1, <1>2, <1>3, <2>1, <2>2 DEF NewsIsNew, AnEvent
<1>15. AgentTold'
  <2> SUFFICES ASSUME NEW ts \in mustKnow', ts # item
               PROVE  \E k \in DOMAIN context' : context'[k].words = posted[ts].words
    BY <1>1, <1>2, <1>3 DEF AgentTold, Known
  <2>1. CASE InContext(posted[ts].words)
    BY <1>6, <2>1 DEF InContext
  <2>2. CASE ~InContext(posted[ts].words)
    <3>1. ts \in ToSet(channelLog)
      BY <1>9 DEF InLog, ToSet
    <3>2. ts \in Unseen(item)
      BY <1>9, <2>2, <3>1 DEF Unseen, UsersOnly
    <3>3. PICK u \in Firsts(Unseen(item)) : posted[u].words = posted[ts].words
      BY <1>4, <3>2, FirstOfTheSame
    <3>4. PICK j \in 1..n : new[j] = u
      BY <1>5 DEF Synced
    <3> QED BY <1>6, <3>3, <3>4
  <2> QED BY <2>1, <2>2
<1>16. KnownOnce'
  <2> SUFFICES ASSUME NEW j \in DOMAIN context', NEW k \in DOMAIN context',
                      context'[j].ts = context'[k].ts, j # k
               PROVE  \/ context'[j].ts = AnEvent
                      \/ context'[j].ts \in again
                      \/ context'[j].words \in Strangers
    BY <1>1 DEF KnownOnce, AnEvent
  <2>1. ASSUME NEW a \in DOMAIN context, NEW ts \in Unseen(item), context[a].ts = ts
        PROVE  context[a].words \in Strangers /\ context[a].words = posted[ts].words
    <3>1. context[a].words = posted[ts].words
      BY <1>7, <2>1 DEF SeenInv, ContextFromLog
    <3>2. context[a].named = TRUE => InContext(posted[ts].words)
      BY <3>1 DEF InContext
    <3> QED BY <1>7, <3>1, <3>2 DEF SeenInv, ContextFromLog
  <2>2. \A a, b \in 1..n : new[a] = new[b] => a = b
    BY <1>5 DEF Synced
  <2>3. CASE k \in DOMAIN context /\ context'[k] = context[k]
    <3>1. CASE j \in DOMAIN context /\ context'[j] = context[j]
      BY <2>3, <3>1 DEF SeenInv, KnownOnce
    <3>2. ASSUME NEW b \in 1..n, new[b] \in Unseen(item), context'[j].ts = new[b],
                 context'[j].words = posted[new[b]].words
          PROVE  context'[j].words \in Strangers
      BY <2>1, <2>3, <3>2
    <3> QED BY <1>6, <3>1, <3>2
  <2>4. ASSUME NEW b \in 1..n, k = Len(context) + b, new[b] \in Unseen(item),
               context'[k].ts = new[b]
        PROVE  context'[j].words \in Strangers
    <3>1. CASE j \in DOMAIN context /\ context'[j] = context[j]
      BY <2>1, <2>4, <3>1
    <3>2. ASSUME NEW a \in 1..n, j = Len(context) + a, context'[j].ts = new[a]
          PROVE  FALSE
      BY <2>2, <2>4, <3>2
    <3> QED BY <1>6, <3>1, <3>2
  <2> QED BY <1>6, <2>3, <2>4
<1>17. PromptedWithIt'
  BY <1>2, <1>3 DEF PromptedWithIt
<1> QED BY <1>10, <1>11, <1>12, <1>13, <1>14, <1>15, <1>16, <1>17 DEF SeenInv

\* The agent is prompted with what is news to it, and then knows all there is to know.
LEMMA PromptSeen ==
  ASSUME SeenInv, ApartInv, NEW i \in DOMAIN active, Prompt(i)
  PROVE  SeenInv'
<1> DEFINE item == active[1].item
           entry == Prompted(item)
           n == Len(context) + 1
<1>1. /\ UNCHANGED <<posted, channelLog, fetched, passedOver, delivered, again, mustKnow>>
      /\ CallGoes(i, "prepared", "agent") /\ context' = Append(context, entry)
  BY TheOnlyCall DEF Prompt, slackVars, ghostVars
<1>2. /\ DOMAIN active = {1} /\ DOMAIN active' = {1} /\ active[1] \in ACall
      /\ active[1].step = "prepared" /\ active'[1] = [active[1] EXCEPT !.step = "agent"]
  BY <1>1, TheOnlyCall, CallGoesOn
<1>3. /\ active'[1].item = item /\ active'[1].status = active[1].status
      /\ active'[1].step = "agent"
  BY <1>2 DEF ACall
<1>4. posted \in Seq(Message)
  BY DEF ApartInv, Shape
<1>5. /\ item # AnEvent => InLog(item) /\ posted[item].kind # "mom" /\ item \in Posted
      /\ active[1].status \in Posted /\ item \in Nat
  <2>1. /\ item # AnEvent => InLog(item) /\ posted[item].kind # "mom"
        /\ active[1].status \in Posted
    BY <1>2 DEF SeenInv, CallsLogged
  <2>2. item \in Nat
    BY <1>2 DEF ACall
  <2> QED BY <2>1, <2>2 DEF SeenInv, Places
<1>6. /\ entry.ts = item
      /\ item # AnEvent => entry.words = posted[item].words
      /\ entry.named = TRUE \/ entry.words \in Strangers
      /\ entry \in Entry
  <2>1. CASE item = AnEvent
    <3>1. entry = [ts |-> AnEvent, words |-> "event", named |-> TRUE]
      BY <2>1 DEF Prompted
    <3>2. [ts |-> AnEvent, words |-> "event", named |-> TRUE] \in Entry
      <4>1. AnEvent \in Nat /\ "event" \in Words \cup {"event"} /\ TRUE \in BOOLEAN
        BY DEF AnEvent
      <4> QED BY <4>1 DEF Entry
    <3>3. /\ [ts |-> AnEvent, words |-> "event", named |-> TRUE].ts = AnEvent
          /\ [ts |-> AnEvent, words |-> "event", named |-> TRUE].named = TRUE
      OBVIOUS
    <3> HIDE DEF entry, item
    <3> QED BY <2>1, <3>1, <3>2, <3>3
  <2>2. CASE item # AnEvent
    <3> DEFINE words == posted[item].words
               named == words \notin Strangers
    <3>1. entry = [ts |-> item, words |-> words, named |-> named]
      BY <2>2 DEF Prompted
    <3>2. words \in Words
      BY <1>4, <1>5, <2>2, UserWords
    <3>3. named \in BOOLEAN /\ (named = TRUE \/ words \in Strangers)
      OBVIOUS
    <3> HIDE DEF named, words, entry, item
    <3>4. entry.ts = item /\ entry.words = words
      BY <3>1
    <3>5. entry.named = named
      BY <3>1
    <3>6. entry \in Entry
      BY <1>5, <3>1, <3>2, <3>3 DEF Entry
    <3>7. entry.named = TRUE \/ words \in Strangers
      BY <3>3, <3>5
    <3> QED BY <3>4, <3>6, <3>7 DEF words
  <2> QED BY <2>1, <2>2
<1>7. context \in Seq(Entry)
  BY DEF SeenInv, Places
<1> HIDE DEF item, entry
<1>8. /\ context' \in Seq(Entry) /\ DOMAIN context' = 1..n
      /\ DOMAIN context = 1..Len(context) /\ n \in Nat /\ Len(context) \in Nat
      /\ \A k \in DOMAIN context : k \in DOMAIN context' /\ context'[k] = context[k]
      /\ n \in DOMAIN context' /\ context'[n] = entry
      /\ \A k \in DOMAIN context' : k \in DOMAIN context \/ k = n
  <2> DEFINE more == Append(context, entry)
             c == Len(context)
  <2>1. c \in Nat /\ DOMAIN context = 1..c
    BY <1>7, LenProperties
  <2>2. /\ more \in Seq(Entry) /\ Len(more) = c + 1 /\ more[c + 1] = entry
        /\ \A k \in 1..c : more[k] = context[k]
    BY <1>6, <1>7, AppendProperties
  <2>3. DOMAIN more = 1..c + 1
    BY <2>2, LenProperties
  <2>4. context' = more
    BY <1>1
  <2> HIDE DEF more, c
  <2>5. \A k \in 1..c : k \in 1..c + 1
    BY <2>1
  <2>6. c + 1 \in 1..c + 1 /\ c + 1 \in Nat /\ \A k \in 1..c + 1 : k \in 1..c \/ k = c + 1
    BY <2>1
  <2> QED BY <2>1, <2>2, <2>3, <2>4, <2>5, <2>6 DEF c
<1> HIDE DEF n
<1>9. Posted' = Posted /\ \A ts : InLog(ts)' <=> InLog(ts)
  BY <1>1 DEF Posted, InLog
<1>10. Places'
  BY <1>1, <1>8, <1>9 DEF SeenInv, Places
<1>11. CallsLogged'
  <2>1. AnEvent' = AnEvent /\ Nothing' = Nothing /\ Nothing \notin Posted
    BY <1>4, LenProperties DEF Posted, Nothing
  <2>2. /\ item # AnEvent => InLog(item) /\ posted[item].kind # "mom"
        /\ active[1].status \in {Nothing} \cup Posted /\ active[1].status # Nothing
    BY <1>5, <2>1
  <2> QED BY <1>1, <1>2, <1>3, <1>9, <2>1, <2>2 DEF CallsLogged, InLog
<1>12. LogIsComplete'
  BY <1>1 DEF SeenInv, LogIsComplete, InLog
<1>13. ContextFromLog'
  <2> SUFFICES ASSUME NEW k \in DOMAIN context'
               PROVE  /\ context'[k].ts # AnEvent =>
                           /\ InLog(context'[k].ts)
                           /\ context'[k].words = posted[context'[k].ts].words
                      /\ context'[k].named = TRUE \/ context'[k].words \in Strangers
    BY <1>1 DEF ContextFromLog, InLog, AnEvent
  <2>1. CASE k \in DOMAIN context
    BY <1>8, <2>1 DEF SeenInv, ContextFromLog
  <2>2. CASE k = n
    BY <1>5, <1>6, <1>8, <2>2
  <2> QED BY <1>8, <2>1, <2>2
<1>14. NewsIsNew'
  BY <1>2, <1>3 DEF NewsIsNew
<1>15. AgentTold'
  <2> SUFFICES ASSUME NEW ts \in mustKnow
               PROVE  \E k \in DOMAIN context' : context'[k].words = posted[ts].words
    BY <1>1, <1>2, <1>3 DEF AgentTold, Known
  <2>1. CASE ts = item
    <3>1. ts # AnEvent
      BY <1>4, LenProperties DEF SeenInv, Places, Posted, AnEvent
    <3> QED BY <1>6, <1>8, <2>1, <3>1
  <2>2. CASE ts # item
    BY <1>2, <1>8, <2>2 DEF SeenInv, AgentTold, Known, item
  <2> QED BY <2>1, <2>2
<1>16. KnownOnce'
  <2> SUFFICES ASSUME NEW j \in DOMAIN context', NEW k \in DOMAIN context',
                      context'[j].ts = context'[k].ts, j # k
               PROVE  \/ context'[j].ts = AnEvent
                      \/ context'[j].ts \in again
                      \/ context'[j].words \in Strangers
    BY <1>1 DEF KnownOnce, AnEvent
  <2>1. CASE j \in DOMAIN context /\ k \in DOMAIN context
    BY <1>8, <2>1 DEF SeenInv, KnownOnce
  <2>2. \/ item = AnEvent \/ item \in again
        \/ \A a \in DOMAIN context : context[a].ts # item
    BY <1>2 DEF SeenInv, NewsIsNew, item
  <2> QED BY <1>6, <1>8, <2>1, <2>2
<1>17. PromptedWithIt'
  BY <1>2, <1>3, <1>6, <1>8 DEF PromptedWithIt
<1> QED BY <1>10, <1>11, <1>12, <1>13, <1>14, <1>15, <1>16, <1>17 DEF SeenInv

LEMMA SeenInitially == ASSUME SlackInit PROVE SeenInv
<1>1. /\ posted = <<>> /\ channelLog = <<>> /\ context = <<>> /\ active = <<>>
      /\ fetched = 0 /\ delivered = {} /\ mustKnow = {}
  BY DEF SlackInit
<1>2. Places
  <2>1. channelLog \in Seq(Nat) /\ context \in Seq(Entry) /\ Len(posted) = 0
    BY <1>1
  <2> QED BY <1>1, <2>1 DEF Places, InLog
<1>3. /\ CallsLogged /\ LogIsComplete /\ ContextFromLog /\ NewsIsNew
      /\ AgentTold /\ PromptedWithIt /\ KnownOnce
  BY <1>1 DEF CallsLogged, LogIsComplete, ContextFromLog, NewsIsNew, AgentTold, PromptedWithIt,
              KnownOnce
<1> QED BY <1>2, <1>3 DEF SeenInv

LEMMA SeenStep ==
  ASSUME SeenInv, ApartInv, [SlackNext]_channelVars
  PROVE  SeenInv'
<1>1. CASE SlackNext
  <2>1. CASE RunStep
    BY <2>1, RunSeen, PrepareSeen, PromptSeen DEF RunStep
  <2> QED BY <1>1, <2>1, SlackSeen, DeliverySeen, DeathSeen, BackfillSeen DEF SlackNext
<1>2. CASE UNCHANGED channelVars
  <2>1. UNCHANGED <<posted, channelLog, context, active, mustKnow, fetched, passedOver, delivered,
                    again>>
    BY <1>2 DEF channelVars, slackVars, fileVars, runVars, ghostVars
  <2>2. ChannelGrows /\ LogGrows
    BY <2>1, PostsGrow, LogStays
  <2> QED BY <2>1, <2>2, CallsStay, SeenIdles
<1> QED BY <1>1, <1>2

\* When the agent works on a message it has been told that one, and of everything else it has
\* to know of itself or something in the same words, and no message twice, whoever was away
\* or busy and whatever was delivered when.
THEOREM EverythingIsSeenOnce == SlackSpec => []EverythingSaidIsSeenOnce
<1>1. SlackInit => ApartInv /\ SeenInv
  BY ApartInitially, SeenInitially
<1>2. ApartInv /\ SeenInv /\ [SlackNext]_channelVars => ApartInv' /\ SeenInv'
  BY ApartStep, SeenStep
<1>3. SeenInv => EverythingSaidIsSeenOnce
  <2> SUFFICES ASSUME SeenInv, NEW i \in DOMAIN active, active[i].step = "agent", NEW ts \in mustKnow
               PROVE  \E k \in DOMAIN context :
                        \/ context[k].ts = ts
                        \/ ts # active[i].item /\ context[k].words = posted[ts].words
    BY DEF SeenInv, KnownOnce, EverythingSaidIsSeenOnce
  <2>1. Known(ts) /\ \E k \in DOMAIN context : context[k].ts = active[i].item
    BY DEF SeenInv, AgentTold, PromptedWithIt
  <2> QED BY <2>1 DEF Known
<1> QED BY <1>1, <1>2, <1>3, PTL DEF SlackSpec

-----------------------------------------------------------------------------
(* MomChannel: the types.  CountInv bounds what mom posts: every call posts its    *)
(* status once, and is an event's or follows from a message Slack has delivered.    *)

\* Of the messages of a channel, users have posted at most MaxPosts, and mom one for every
\* call; every call is an event's or follows from a delivery.
FromUsers == Cardinality(UsersOnly(Posted))
Unstarted(calls) == IF calls # <<>> /\ calls[1].status = Nothing THEN 1 ELSE 0
StatusToCome == Len(queue) + Unstarted(active) + Cardinality(inflight)

CountInv ==
  /\ FromUsers \in 0..MaxPosts /\ events \in 0..MaxSlackEvents /\ mishaps \in 0..MaxMishaps
  /\ Len(posted) + StatusToCome <= 2 * FromUsers + events + mishaps

LEMMA CountTypes ==
  ASSUME ApartInv
  PROVE  /\ Len(queue) \in Nat /\ Unstarted(active) \in {0, 1} /\ Len(posted) \in Nat
         /\ IsFiniteSet(inflight) /\ Cardinality(inflight) \in Nat /\ IsFiniteSet(UsersOnly(Posted))
         /\ FromUsers \in Nat /\ posted \in Seq(Message) /\ Posted = 1..Len(posted)
<1>1. Len(queue) \in Nat /\ Len(posted) \in Nat /\ posted \in Seq(Message)
      /\ inflight \in SUBSET (1..Len(posted))
  BY LenProperties DEF ApartInv, Shape
<1>2. Unstarted(active) \in {0, 1}
  BY DEF Unstarted
<1>3. IsFiniteSet(1..Len(posted)) /\ UsersOnly(Posted) \in SUBSET (1..Len(posted))
  BY <1>1, FS_Interval DEF UsersOnly, Posted
<1>4. IsFiniteSet(inflight) /\ IsFiniteSet(UsersOnly(Posted))
  BY <1>1, <1>3, FS_Subset
<1> QED BY <1>1, <1>2, <1>4, FS_CardinalityType DEF FromUsers, Posted

LEMMA EnqueueCosts ==
  ASSUME ApartInv, NEW item \in Nat, Enqueue(item)
  PROVE  Len(queue') + Unstarted(active') <= Len(queue) + Unstarted(active) + 1
<1>1. CASE processing
  <2>1. queue' = Append(queue, item) /\ active' = active
    BY <1>1 DEF Enqueue
  <2>2. Len(queue') = Len(queue) + 1
    BY <2>1, AppendProperties DEF ApartInv, Shape
  <2> QED BY <2>1, <2>2, CountTypes
<1>2. CASE ~processing
  <2>1. active = <<>> /\ queue' = queue
    BY <1>2 DEF ApartInv, OneCall, Enqueue
  <2>2. Unstarted(active) = 0 /\ Unstarted(active') \in {0, 1}
    BY <2>1 DEF Unstarted
  <2> QED BY <2>1, <2>2, CountTypes
<1> QED BY <1>1, <1>2

LEMMA ProcessNextCosts ==
  ASSUME ApartInv, NEW i \in DOMAIN active, ProcessNext
  PROVE  Len(queue') + Unstarted(active') <= Len(queue) + Unstarted(active)
<1>1. CASE queue = <<>>
  <2>1. active' = <<>> /\ queue' = <<>>
    BY <1>1, TheOnlyCall DEF ProcessNext
  <2>2. Unstarted(active') = 0 /\ Len(queue') = 0
    BY <2>1 DEF Unstarted
  <2> QED BY <2>2, CountTypes
<1>2. CASE queue # <<>>
  <2>1. queue' = Tail(queue) /\ Len(queue') = Len(queue) - 1
    BY <1>2, HeadTailProperties DEF ProcessNext, ApartInv, Shape
  <2>2. Unstarted(active') \in {0, 1}
    BY DEF Unstarted
  <2>3. Len(queue) \in Nat /\ Unstarted(active) \in {0, 1}
    BY CountTypes
  <2> DEFINE a == Unstarted(active)
             b == Unstarted(active')
             m == Len(queue)
  <2> HIDE DEF a, b, m
  <2>4. ASSUME a \in {0, 1}, b \in {0, 1}, m \in Nat PROVE m - 1 + b <= m + a
    BY <2>4
  <2> QED BY <2>1, <2>2, <2>3, <2>4 DEF a, b, m
<1> QED BY <1>1, <1>2

\* A step that posts nothing.
LEMMA CountStays ==
  ASSUME ApartInv, CountInv, posted' = posted,
         inflight' \subseteq inflight, events' \in Nat, mishaps' \in Nat,
         events' <= MaxSlackEvents, mishaps' <= MaxMishaps,
         Len(queue') \in Nat, NEW more \in Nat, events' + mishaps' = events + mishaps + more,
         Len(queue') + Unstarted(active') <= Len(queue) + Unstarted(active) + more
  PROVE  CountInv'
<1>1. FromUsers' = FromUsers
  BY DEF FromUsers, UsersOnly, Posted
<1>2. Cardinality(inflight') \in Nat /\ Cardinality(inflight') <= Cardinality(inflight)
  BY CountTypes, FS_Subset, FS_CardinalityType
<1>3. Unstarted(active') \in {0, 1}
  BY DEF Unstarted
<1>4. /\ events \in Nat /\ mishaps \in Nat /\ FromUsers \in 0..MaxPosts /\ MaxPosts \in Nat
      /\ MaxSlackEvents \in Nat /\ MaxMishaps \in Nat
      /\ Len(posted) + (Len(queue) + Unstarted(active) + Cardinality(inflight))
           <= 2 * FromUsers + events + mishaps
  BY ChannelAssumption DEF CountInv, StatusToCome
<1>5. Len(posted) + (Len(queue') + Unstarted(active') + Cardinality(inflight'))
        <= 2 * FromUsers + events' + mishaps'
  <2>1. /\ Len(queue) \in Nat /\ Unstarted(active) \in {0, 1} /\ Len(posted) \in Nat
        /\ Cardinality(inflight) \in Nat /\ FromUsers \in Nat
    BY CountTypes
  <2> DEFINE a == Unstarted(active)
             b == Unstarted(active')
             m == Len(queue)
             k == Len(queue')
             c == Cardinality(inflight)
             d == Cardinality(inflight')
             n == Len(posted)
             u == FromUsers
             before == n + (m + a + c)
             bound == 2 * u + events + mishaps
  <2>2. /\ a \in {0, 1} /\ b \in {0, 1} /\ m \in Nat /\ k \in Nat /\ c \in Nat /\ d \in Nat
        /\ n \in Nat /\ u \in Nat /\ d <= c /\ k + b <= m + a + more
        /\ bound \in Nat /\ before <= bound
    BY <1>2, <1>3, <1>4, <2>1
  <2> HIDE DEF a, b, m, k, c, d, n, u, bound
  <2>3. n + (k + b + d) <= bound + more
    BY <2>2
  <2>4. bound + more = 2 * u + events' + mishaps'
    <3>1. u \in Nat /\ events \in Nat /\ mishaps \in Nat /\ 2 * u \in Nat
      BY <1>4, <2>2
    <3>2. (2 * u + events + mishaps) + more = 2 * u + (events + mishaps + more)
      BY <3>1
    <3>3. 2 * u + (events' + mishaps') = 2 * u + events' + mishaps'
      BY <3>1
    <3>4. 2 * u + (events + mishaps + more) = 2 * u + (events' + mishaps')
      OBVIOUS
    <3> QED BY <3>2, <3>3, <3>4 DEF bound
  <2> QED BY <2>3, <2>4 DEF a, b, m, k, c, d, n, u
<1>6. events' \in 0..MaxSlackEvents /\ mishaps' \in 0..MaxMishaps
  BY <1>4
<1> QED BY <1>1, <1>4, <1>5, <1>6 DEF CountInv, StatusToCome, Unstarted, Nothing

LEMMA PostCounts == ASSUME ApartInv, CountInv, NEW remark \in Remarks, Post(remark) PROVE CountInv'
<1> DEFINE n == Len(posted)
<1>1. /\ posted' = Append(posted, remark) /\ inflight' = inflight \cup {n + 1}
      /\ UNCHANGED <<queue, active, events, mishaps>> /\ FromUsers < MaxPosts
  BY DEF Post, runVars, ghostVars, FromUsers
<1>2. /\ posted \in Seq(Message) /\ remark \in Message /\ n \in Nat /\ remark.kind # "mom"
      /\ Posted = 1..n
  BY CountTypes, ChannelAssumption DEF Message
<1>3. /\ posted' \in Seq(Message) /\ Len(posted') = n + 1 /\ posted'[n + 1] = remark
      /\ \A k \in 1..n : posted'[k] = posted[k]
  BY <1>1, <1>2, AppendProperties
<1> HIDE DEF n
<1>4. UsersOnly(Posted)' = UsersOnly(Posted) \cup {n + 1} /\ n + 1 \notin UsersOnly(Posted)
  <2>1. Posted' = 1..n + 1 /\ 1..n + 1 = 1..n \cup {n + 1} /\ n + 1 \notin 1..n
    BY <1>2, <1>3 DEF Posted
  <2> QED BY <1>2, <1>3, <2>1 DEF UsersOnly
<1>5. FromUsers' = FromUsers + 1
  BY <1>4, CountTypes, FS_AddElement DEF FromUsers
<1>6. Cardinality(inflight') \in Nat /\ Cardinality(inflight') <= Cardinality(inflight) + 1
  <2>1. IsFiniteSet(inflight) /\ Cardinality(inflight) \in Nat
    BY CountTypes
  <2>2. Cardinality(inflight \cup {n + 1}) \in {Cardinality(inflight), Cardinality(inflight) + 1}
    BY <2>1, FS_AddElement
  <2> QED BY <1>1, <2>1, <2>2
<1>7. /\ events \in Nat /\ mishaps \in Nat /\ FromUsers \in 0..MaxPosts /\ MaxPosts \in Nat
      /\ events \in 0..MaxSlackEvents /\ mishaps \in 0..MaxMishaps
      /\ n + (Len(queue) + Unstarted(active) + Cardinality(inflight))
           <= 2 * FromUsers + events + mishaps
  BY ChannelAssumption DEF CountInv, StatusToCome, n
<1>8. /\ (n + 1) + (Len(queue) + Unstarted(active) + Cardinality(inflight'))
           <= 2 * (FromUsers + 1) + events + mishaps
      /\ FromUsers + 1 \in 0..MaxPosts
  <2>1. Len(queue) \in Nat /\ Unstarted(active) \in {0, 1} /\ Cardinality(inflight) \in Nat
    BY CountTypes
  <2> DEFINE a == Unstarted(active)
             m == Len(queue)
             c == Cardinality(inflight)
             d == Cardinality(inflight')
             u == FromUsers
  <2>2. /\ a \in {0, 1} /\ m \in Nat /\ c \in Nat /\ d \in Nat /\ u \in 0..MaxPosts /\ d <= c + 1
        /\ u < MaxPosts /\ n + (m + a + c) <= 2 * u + events + mishaps
    BY <1>1, <1>6, <1>7, <2>1
  <2> HIDE DEF a, m, c, d, u
  <2>3. (n + 1) + (m + a + d) <= 2 * (u + 1) + events + mishaps /\ u + 1 \in 0..MaxPosts
    BY <1>2, <1>7, <2>2
  <2> QED BY <2>3 DEF a, m, c, d, u
<1>9. Unstarted(active)' = Unstarted(active)
  BY <1>1 DEF Unstarted, Nothing
<1> QED BY <1>1, <1>3, <1>5, <1>7, <1>8, <1>9 DEF CountInv, StatusToCome

LEMMA StatusCounts == ASSUME ApartInv, CountInv, NEW i \in DOMAIN active, PostStatus(i) PROVE CountInv'
<1> DEFINE n == Len(posted)
           status == [kind |-> "mom"]
           call == [active[1] EXCEPT !.status = n + 1]
<1>1. i = 1 /\ active[1] \in ACall /\ active # <<>>
  BY TheOnlyCall
<1>2. /\ posted' = Append(posted, status) /\ active' = [active EXCEPT ![1] = call]
      /\ UNCHANGED <<inflight, queue, events, mishaps>> /\ active[1].status = Nothing
  BY <1>1 DEF PostStatus, ghostVars
<1>3. posted \in Seq(Message) /\ status \in Message /\ n \in Nat /\ status.kind = "mom" /\ Posted = 1..n
  BY CountTypes DEF Message
<1>4. call \in ACall /\ call.status = n + 1 /\ n + 1 # Nothing
  BY <1>1, <1>3 DEF ACall, Nothing
<1>5. active'[1] = call
  <2> HIDE DEF call
  <2> QED BY <1>2, <1>4, CallChanges
<1>6. Unstarted(active) = 1 /\ Unstarted(active)' = 0
  <2> HIDE DEF call
  <2> QED BY <1>1, <1>2, <1>4, <1>5 DEF Unstarted, Nothing
<1>7. /\ posted' \in Seq(Message) /\ Len(posted') = n + 1 /\ posted'[n + 1] = status
      /\ \A k \in 1..n : posted'[k] = posted[k]
  BY <1>2, <1>3, AppendProperties
<1> HIDE DEF n, status
<1>8. UsersOnly(Posted)' = UsersOnly(Posted)
  <2>1. Posted' = 1..n + 1 /\ 1..n + 1 = 1..n \cup {n + 1} /\ n + 1 \notin 1..n
    BY <1>3, <1>7 DEF Posted
  <2> QED BY <1>3, <1>7, <2>1 DEF UsersOnly
<1>9. FromUsers' = FromUsers
  BY <1>8 DEF FromUsers
<1>10. /\ FromUsers \in 0..MaxPosts /\ events \in 0..MaxSlackEvents /\ mishaps \in 0..MaxMishaps
       /\ n + (Len(queue) + 1 + Cardinality(inflight)) <= 2 * FromUsers + events + mishaps
  BY <1>6 DEF CountInv, StatusToCome, n
<1>11. (n + 1) + (Len(queue) + 0 + Cardinality(inflight)) <= 2 * FromUsers + events + mishaps
  BY <1>3, <1>10, CountTypes
<1> QED BY <1>2, <1>6, <1>7, <1>9, <1>10, <1>11 DEF CountInv, StatusToCome

\* The counters of the history go up, within their bounds.
LEMMA MishapsBounded ==
  ASSUME CountInv, mishaps' = mishaps \/ Spent
  PROVE  mishaps' \in Nat /\ mishaps' <= MaxMishaps /\ mishaps' - mishaps \in {0, 1}
<1>1. mishaps \in 0..MaxMishaps /\ MaxMishaps \in Nat
  BY ChannelAssumption DEF CountInv
<1> QED BY <1>1 DEF Spent

LEMMA DeliverCounts == ASSUME ApartInv, CountInv, NEW ts \in inflight, Deliver(ts) PROVE CountInv'
<1>0. /\ posted' = posted /\ events' = events /\ Acknowledged(ts) /\ ts \in Nat
      /\ events \in Nat /\ events <= MaxSlackEvents /\ mishaps \in Nat /\ Len(queue) \in Nat
  <2>1. ts \in Nat
    BY DEF ApartInv, Shape
  <2>2. events \in 0..MaxSlackEvents /\ mishaps \in 0..MaxMishaps /\ MaxSlackEvents \in Nat
        /\ MaxMishaps \in Nat
    BY ChannelAssumption DEF CountInv
  <2>3. posted' = posted /\ events' = events /\ Acknowledged(ts)
    BY DEF Deliver
  <2> QED BY <2>1, <2>2, <2>3, CountTypes
<1>1. \/ UNCHANGED <<queue, active>>
      \/ Enqueue(ts)
  BY DEF Deliver
<1>2. Len(queue') \in Nat /\ Len(queue') + Unstarted(active') <= Len(queue) + Unstarted(active) + 1
  <2>1. Len(queue') \in Nat
    <3>1. queue' \in Seq(Int)
      BY DeliverKeeps DEF ApartInv, Shape
    <3> QED BY <3>1, LenProperties
  <2>2. CASE Enqueue(ts)
    BY <1>0, <2>1, <2>2, EnqueueCosts
  <2>3. CASE UNCHANGED <<queue, active>>
    BY <2>1, <2>3, CountTypes
  <2> QED BY <1>1, <2>1, <2>2, <2>3
<1>3. CASE UNCHANGED inflight /\ Spent
  <2>1. mishaps' = mishaps + 1 /\ mishaps' <= MaxMishaps
    BY <1>0, <1>3, MishapsBounded DEF Spent
  <2>2. mishaps' \in Nat /\ events' + mishaps' = events + mishaps + 1
    BY <1>0, <2>1
  <2> QED BY <1>0, <1>2, <1>3, <2>1, <2>2, CountStays
<1>4. CASE inflight' = inflight \ {ts} /\ UNCHANGED mishaps
  <2>1. /\ IsFiniteSet(inflight) /\ Cardinality(inflight) \in Nat
        /\ Cardinality(inflight') = Cardinality(inflight) - 1
    BY <1>4, CountTypes, FS_RemoveElement
  <2>2. Cardinality(inflight') \in Nat
    BY <1>4, <2>1, FS_RemoveElement, FS_CardinalityType
  <2>3. FromUsers' = FromUsers
    BY <1>0 DEF FromUsers, UsersOnly, Posted
  <2>4. StatusToCome' <= StatusToCome /\ StatusToCome \in Nat /\ StatusToCome' \in Nat
    <3> DEFINE a == Unstarted(active)
               b == Unstarted(active')
               m == Len(queue)
               k == Len(queue')
               c == Cardinality(inflight)
               d == Cardinality(inflight')
    <3>1. /\ a \in {0, 1} /\ b \in {0, 1} /\ m \in Nat /\ k \in Nat /\ c \in Nat /\ d \in Nat
          /\ d = c - 1 /\ k + b <= m + a + 1
      BY <1>2, <2>1, <2>2, CountTypes DEF Unstarted
    <3>2. Unstarted(active') = Unstarted(active)'
      BY DEF Unstarted, Nothing
    <3> HIDE DEF a, b, m, k, c, d
    <3>3. k + b + d <= m + a + c /\ m + a + c \in Nat /\ k + b + d \in Nat
      BY <3>1
    <3> QED BY <3>2, <3>3 DEF StatusToCome, a, b, m, k, c, d
  <2>5. Len(posted) \in Nat
    BY CountTypes
  <2>6. /\ FromUsers \in 0..MaxPosts /\ events \in 0..MaxSlackEvents /\ mishaps \in 0..MaxMishaps
        /\ Len(posted) + StatusToCome <= 2 * FromUsers + events + mishaps
    BY DEF CountInv
  <2>7. FromUsers \in Nat /\ 2 * FromUsers + events + mishaps \in Nat
    BY <1>0, CountTypes
  <2> DEFINE bound == 2 * FromUsers + events + mishaps
  <2>8. Len(posted) + StatusToCome' <= bound
    <3>1. bound \in Nat /\ Len(posted) + StatusToCome <= bound
      BY <2>6, <2>7
    <3> HIDE DEF bound
    <3> QED BY <2>4, <2>5, <3>1
  <2> QED BY <1>0, <1>4, <2>3, <2>6, <2>8 DEF CountInv
<1> QED BY <1>0, <1>3, <1>4 DEF Acknowledged

LEMMA EventCounts == ASSUME ApartInv, CountInv, EventComes PROVE CountInv'
<1>1. /\ events < MaxSlackEvents /\ events' = events + 1 /\ events \in Nat /\ mishaps \in Nat
      /\ MaxSlackEvents \in Nat /\ mishaps <= MaxMishaps
      /\ UNCHANGED <<posted, inflight, mishaps>>
  <2>1. events \in 0..MaxSlackEvents /\ mishaps \in 0..MaxMishaps /\ MaxSlackEvents \in Nat
        /\ MaxMishaps \in Nat
    BY ChannelAssumption DEF CountInv
  <2>2. events < MaxSlackEvents /\ events' = events + 1 /\ UNCHANGED <<posted, inflight, mishaps>>
    BY DEF EventComes, slackVars
  <2> QED BY <2>1, <2>2
<1>2. Len(queue') \in Nat
  <2>1. queue' \in Seq(Int)
    BY EventKeeps DEF ApartInv, Shape
  <2> QED BY <2>1, LenProperties
<1>3. Len(queue') + Unstarted(active') <= Len(queue) + Unstarted(active) + 1
  <2>1. CASE Enqueue(AnEvent)
    BY <2>1, EnqueueCosts DEF AnEvent
  <2>2. CASE UNCHANGED <<queue, active>>
    BY <2>2, CountTypes
  <2> QED BY <2>1, <2>2 DEF EventComes
<1>4. events' \in Nat /\ events' <= MaxSlackEvents /\ events' + mishaps' = events + mishaps + 1
  BY <1>1
<1> QED BY <1>1, <1>2, <1>3, <1>4, CountStays

\* The rest: whatever ends, dies or waits adds no message to come.
LEMMA CountStep ==
  ASSUME ApartInv, CountInv, SlackNext PROVE CountInv'
<1>1. /\ events \in Nat /\ mishaps \in Nat /\ events <= MaxSlackEvents /\ mishaps <= MaxMishaps
      /\ Len(queue) \in Nat
  <2>1. events \in 0..MaxSlackEvents /\ mishaps \in 0..MaxMishaps /\ MaxSlackEvents \in Nat
        /\ MaxMishaps \in Nat
    BY ChannelAssumption DEF CountInv
  <2> QED BY <2>1, CountTypes
<1>2. ASSUME posted' = posted, inflight' \subseteq inflight, events' = events,
             mishaps' = mishaps \/ Spent, Len(queue') \in Nat,
             Len(queue') + Unstarted(active') <= Len(queue) + Unstarted(active)
      PROVE  CountInv'
  <2>1. PICK more \in {0, 1} : mishaps' = mishaps + more
    BY <1>1, <1>2, MishapsBounded DEF Spent
  <2>2. mishaps' \in Nat /\ mishaps' <= MaxMishaps /\ events' + mishaps' = events + mishaps + more
    BY <1>1, <1>2, <2>1, MishapsBounded
  <2>3. Len(queue') + Unstarted(active') <= Len(queue) + Unstarted(active) + more
    BY <1>2, <2>1, CountTypes DEF Unstarted
  <2>4. more \in Nat
    BY <2>1
  <2> QED BY <1>1, <1>2, <2>2, <2>3, <2>4, CountStays
<1>3. ASSUME UNCHANGED <<queue, active>>
      PROVE  Len(queue') \in Nat /\ Len(queue') + Unstarted(active') <= Len(queue) + Unstarted(active)
  BY <1>1, <1>3, CountTypes
<1>4. CASE Recover \/ RecoveryEnds \/ Backfill \/ Connect \/ RecordStartup
  BY <1>2, <1>3, <1>4 DEF Recover, RecoveryEnds, Backfill, Connect, RecordStartup, slackVars, runVars, ghostVars
<1>5. CASE BotDies
  <2>1. queue' = <<>> /\ active' = <<>> /\ UNCHANGED <<posted, inflight, events>> /\ Spent
    BY <1>5 DEF BotDies, slackVars
  <2>2. Unstarted(active') = 0 /\ Len(queue') = 0
    BY <2>1 DEF Unstarted
  <2>3. Len(queue') \in Nat /\ Len(queue') + Unstarted(active') <= Len(queue) + Unstarted(active)
    BY <1>1, <2>2, CountTypes
  <2> QED BY <1>2, <2>1, <2>3
<1>6. ASSUME NEW i \in DOMAIN active, PromptThrows(i) \/ HandleEventEnds(i) PROVE CountInv'
  <2>1. /\ ProcessNext /\ UNCHANGED <<posted, inflight, events>> /\ (mishaps' = mishaps \/ Spent)
    BY <1>6 DEF PromptThrows, HandleEventEnds, slackVars, ghostVars
  <2>2. Len(queue') \in Nat
    <3>1. queue' \in Seq(Int)
      BY <2>1, ProcessNextKeeps
    <3> QED BY <3>1, LenProperties
  <2> QED BY <1>2, <2>1, <2>2, ProcessNextCosts
<1>7. ASSUME NEW i \in DOMAIN active, Prepare(i) \/ Prompt(i) \/ AgentEnds(i) PROVE CountInv'
  <2>1. PICK from, to \in {"typing", "prepared", "agent", "replying"} : CallGoes(i, from, to)
    BY <1>7 DEF Prepare, Prompt, AgentEnds
  <2>2. /\ active[1] \in ACall /\ active # <<>> /\ active' # <<>>
        /\ active'[1] = [active[1] EXCEPT !.step = to]
    BY <2>1, CallGoesOn
  <2>3. Unstarted(active') = Unstarted(active)
    BY <2>2 DEF Unstarted, ACall
  <2>4. UNCHANGED <<posted, inflight, queue, events>> /\ (mishaps' = mishaps \/ Spent)
    BY <1>7 DEF Prepare, Prompt, AgentEnds, slackVars, ghostVars
  <2>5. Len(queue') \in Nat /\ Len(queue') + Unstarted(active') <= Len(queue) + Unstarted(active)
    BY <1>1, <2>3, <2>4, CountTypes
  <2> QED BY <1>2, <2>4, <2>5
<1> QED BY <1>4, <1>5, <1>6, <1>7, PostCounts, StatusCounts, DeliverCounts, EventCounts
        DEF SlackNext, RunStep

\* Whom an answer is for, when n messages have been posted.
Askers(n) == {AnEvent} \cup 1..n

\* What the invariants so far leave out.
RestInv ==
  /\ bot \in {"starting", "backfilled", "connected", "up"} /\ startupTs \in Nat /\ Len(queue) <= QueueLimit
  /\ answered \in BOOLEAN /\ processing \in BOOLEAN /\ channelRunning \in BOOLEAN
  /\ stopRequested \in BOOLEAN
  /\ ctx \in {Nothing} \cup Askers(Len(posted)) /\ recovering \in {Nothing} \cup Askers(Len(posted))
  /\ agent.item \in {Nothing} \cup Askers(Len(posted))
  /\ agent.background => agent.item # Nothing
  /\ passedOver \subseteq Posted /\ again \subseteq Posted
  /\ \A a \in answers :
       a \in [of : Askers(Len(posted)), for : {Nothing} \cup Askers(Len(posted)), background : BOOLEAN]

LEMMA AskersGrow ==
  ASSUME NEW n \in Nat, NEW m \in Nat, n <= m
  PROVE  Askers(n) \subseteq Askers(m) /\ 1..n \subseteq 1..m
BY DEF Askers

\* A call is for somebody.
LEMMA CallAskers ==
  ASSUME SeenInv, ApartInv, NEW i \in DOMAIN active
  PROVE  active[i].item \in Askers(Len(posted)) /\ active[i].item # Nothing
<1>1. active[i].item # AnEvent => InLog(active[i].item)
  BY DEF SeenInv, CallsLogged
<1>2. active[i].item \in Askers(Len(posted))
  BY <1>1 DEF SeenInv, Places, Posted, Askers
<1> QED BY <1>2, CountTypes DEF Askers, Nothing, AnEvent

\* The flags and the length of the queue: nobody else touches them.
LEMMA EnqueueRests ==
  ASSUME ApartInv, RestInv, NEW item \in Nat, Enqueue(item), processing => ~Full
  PROVE  /\ Len(queue') <= QueueLimit /\ processing' \in BOOLEAN /\ channelRunning' \in BOOLEAN
         /\ stopRequested' \in BOOLEAN
<1>1. CASE processing
  <2>1. queue' = Append(queue, item) /\ UNCHANGED <<processing, channelRunning, stopRequested>>
    BY <1>1 DEF Enqueue
  <2>2. Len(queue') = Len(queue) + 1 /\ Len(queue) < QueueLimit
    <3>1. QueueLimit \in Nat /\ Len(queue) \in Nat
      BY ChannelAssumption, CountTypes
    <3> QED BY <1>1, <2>1, <3>1, AppendProperties DEF ApartInv, Shape, Full
  <2>3. QueueLimit \in Nat /\ Len(queue) \in Nat
    BY ChannelAssumption, CountTypes
  <2> QED BY <2>1, <2>2, <2>3 DEF RestInv
<1>2. CASE ~processing
  BY <1>2 DEF Enqueue, Call, RestInv
<1> QED BY <1>1, <1>2

LEMMA ProcessNextRests ==
  ASSUME ApartInv, RestInv, ProcessNext
  PROVE  /\ Len(queue') <= QueueLimit /\ processing' \in BOOLEAN /\ channelRunning' \in BOOLEAN
         /\ stopRequested' \in BOOLEAN
<1>1. QueueLimit \in Nat /\ Len(queue) \in Nat /\ Len(queue) <= QueueLimit
  BY ChannelAssumption, CountTypes DEF RestInv
<1>2. CASE queue = <<>>
  BY <1>1, <1>2 DEF ProcessNext, RestInv
<1>3. CASE queue # <<>>
  <2>1. queue' = Tail(queue) /\ Len(queue') = Len(queue) - 1
    BY <1>3, HeadTailProperties DEF ProcessNext, ApartInv, Shape
  <2>2. processing' = TRUE /\ channelRunning' = TRUE /\ stopRequested' = FALSE
    BY <1>3 DEF ProcessNext
  <2>3. Len(queue) - 1 <= QueueLimit
    BY <1>1
  <2>4. Len(queue') <= QueueLimit
    BY <2>1, <2>3
  <2> QED BY <2>2, <2>4
<1> QED BY <1>2, <1>3

\* What is for somebody stays so when more is posted.
LEMMA RestGoesOn ==
  ASSUME ApartInv, ApartInv', RestInv, Len(posted) <= Len(posted'),
         /\ bot' \in {"starting", "backfilled", "connected", "up"} /\ startupTs' \in Nat /\ Len(queue') <= QueueLimit
         /\ answered' \in BOOLEAN /\ processing' \in BOOLEAN /\ channelRunning' \in BOOLEAN
         /\ stopRequested' \in BOOLEAN,
         ctx' \in {ctx, Nothing} \cup Askers(Len(posted)),
         recovering' \in {recovering, Nothing} \cup Askers(Len(posted)),
         agent'.item \in {agent.item, Nothing} \cup Askers(Len(posted)),
         agent'.background => agent'.item # Nothing,
         passedOver' \subseteq 1..Len(posted), again' \subseteq 1..Len(posted),
         \A a \in answers' :
           a \in answers \/ a \in [of : Askers(Len(posted)), for : {Nothing} \cup Askers(Len(posted)),
                                    background : BOOLEAN]
  PROVE  RestInv'
<1> DEFINE n == Len(posted)
           m == Len(posted')
<1>1. n \in Nat /\ m \in Nat
  BY LenProperties DEF ApartInv, Shape
<1>2. Askers(n) \subseteq Askers(m) /\ 1..n \subseteq 1..m
  BY <1>1, AskersGrow
<1>3. /\ ctx \in {Nothing} \cup Askers(n) /\ recovering \in {Nothing} \cup Askers(n)
      /\ agent.item \in {Nothing} \cup Askers(n)
      /\ \A a \in answers :
           a \in [of : Askers(n), for : {Nothing} \cup Askers(n), background : BOOLEAN]
  BY DEF RestInv
<1> HIDE DEF n, m
<1>4. /\ ctx' \in {Nothing} \cup Askers(m) /\ recovering' \in {Nothing} \cup Askers(m)
      /\ agent'.item \in {Nothing} \cup Askers(m)
      /\ passedOver' \subseteq 1..m /\ again' \subseteq 1..m
  BY <1>2, <1>3 DEF n
<1>5. \A a \in answers' : a \in [of : Askers(n), for : {Nothing} \cup Askers(n), background : BOOLEAN]
  BY <1>3 DEF n
<1>6. \A a \in answers' : a \in [of : Askers(m), for : {Nothing} \cup Askers(m), background : BOOLEAN]
  BY <1>2, <1>5
<1>7. Posted' = 1..m /\ Askers(Len(posted))' = Askers(m)
  BY DEF Posted, Askers, AnEvent, m
<1> QED BY <1>4, <1>6, <1>7 DEF RestInv, Nothing, m, Askers, AnEvent

LEMMA RestStep ==
  ASSUME ApartInv, ApartInv', SeenInv, RestInv, SlackNext PROVE RestInv'
<1> DEFINE n == Len(posted)
<1>1. /\ n \in Nat /\ Len(posted') \in Nat /\ Posted = 1..n
      /\ ctx \in {Nothing} \cup Askers(n) /\ agent.item \in {Nothing} \cup Askers(n)
      /\ agent \in [item : Int, background : BOOLEAN, aborted : BOOLEAN]
      /\ bot \in {"starting", "backfilled", "connected", "up"} /\ startupTs \in Nat /\ Len(queue) <= QueueLimit
      /\ answered \in BOOLEAN /\ processing \in BOOLEAN /\ channelRunning \in BOOLEAN
      /\ stopRequested \in BOOLEAN /\ (agent.background => agent.item # Nothing)
      /\ passedOver \subseteq 1..n /\ again \subseteq 1..n
  BY LenProperties, CountTypes DEF RestInv, ApartInv, Shape, Posted
<1>2. Idle.item = Nothing /\ ~Idle.background
  BY DEF Idle
<1>3. ASSUME NEW remark \in Remarks, Post(remark) PROVE RestInv'
  <2>1. Len(posted') = n + 1
    BY <1>3, AppendProperties, CountTypes DEF Post, Message
  <2>2. UNCHANGED <<bot, startupTs, queue, runVars, fileVars, ghostVars>>
    BY <1>3 DEF Post
  <2> QED BY <1>1, <2>1, <2>2, RestGoesOn DEF runVars, fileVars, ghostVars
<1>4. ASSUME NEW ts \in inflight, Deliver(ts) PROVE RestInv'
  <2>1. ts \in Nat /\ ts \in 1..n
    BY <1>1 DEF ApartInv, Shape
  <2>2. /\ posted' = posted
        /\ UNCHANGED <<answered, bot, startupTs, ctx, recovering, passedOver, answers>>
        /\ again' \in {again \cup {ts}, again}
    BY <1>4 DEF Deliver
  <2>3. /\ Len(queue') <= QueueLimit /\ processing' \in BOOLEAN /\ channelRunning' \in BOOLEAN
        /\ stopRequested' \in BOOLEAN /\ agent'.item = agent.item
        /\ agent'.background = agent.background
    <3>1. CASE HandleStop /\ UNCHANGED <<queue, processing, active, channelRunning>>
      BY <1>1, <3>1 DEF HandleStop
    <3>2. CASE Enqueue(ts) /\ ~channelRunning /\ UNCHANGED agent
      <4>1. ~processing
        BY <3>2 DEF ApartInv, OneCall
      <4> QED BY <2>1, <3>2, <4>1, EnqueueRests
    <3>3. CASE UNCHANGED <<queue, processing, active, channelRunning, stopRequested, agent>>
      BY <1>1, <3>3
    <3> QED BY <1>4, <3>1, <3>2, <3>3 DEF Deliver
  <2> QED BY <1>1, <2>1, <2>2, <2>3, RestGoesOn
<1>5. CASE EventComes
  <2>1. UNCHANGED <<posted, answered, bot, startupTs, ctx, agent, recovering, passedOver, again,
                    answers>>
    BY <1>5 DEF EventComes, slackVars, fileVars
  <2>2. /\ Len(queue') <= QueueLimit /\ processing' \in BOOLEAN /\ channelRunning' \in BOOLEAN
        /\ stopRequested' \in BOOLEAN
    <3>1. CASE ~Full /\ Enqueue(AnEvent)
      BY <3>1, EnqueueRests DEF AnEvent
    <3>2. CASE UNCHANGED <<queue, processing, active, channelRunning, stopRequested>>
      BY <1>1, <3>2
    <3> QED BY <1>5, <3>1, <3>2 DEF EventComes
  <2> QED BY <1>1, <2>1, <2>2, RestGoesOn
<1>6. ASSUME NEW i \in DOMAIN active, PostStatus(i) PROVE RestInv'
  <2>1. Len(posted') = n + 1
    BY <1>6, AppendProperties, CountTypes DEF PostStatus, Message
  <2>2. UNCHANGED <<bot, startupTs, queue, processing, channelRunning, stopRequested, ctx, agent,
                    recovering, answered, passedOver, again, answers>>
    BY <1>6 DEF PostStatus, fileVars, ghostVars
  <2> QED BY <1>1, <2>1, <2>2, RestGoesOn
<1>7. ASSUME NEW i \in DOMAIN active, Prepare(i) PROVE RestInv'
  <2>1. /\ ctx' = active[i].item
        /\ UNCHANGED <<posted, bot, startupTs, queue, processing, channelRunning, stopRequested,
                       agent, recovering, answered, passedOver, again, answers>>
    BY <1>7 DEF Prepare, SetContext, slackVars
  <2> QED BY <1>1, <2>1, CallAskers, RestGoesOn
<1>8. ASSUME NEW i \in DOMAIN active, Prompt(i) PROVE RestInv'
  <2>1. /\ agent' = [Idle EXCEPT !.item = active[i].item]
        /\ UNCHANGED <<posted, bot, startupTs, queue, processing, channelRunning, stopRequested,
                       ctx, recovering, answered, passedOver, again, answers>>
    BY <1>8 DEF Prompt, slackVars, fileVars, ghostVars
  <2>2. agent'.item = active[i].item /\ ~agent'.background
    BY <2>1 DEF Idle
  <2> QED BY <1>1, <2>1, <2>2, CallAskers, RestGoesOn
<1>9. ASSUME NEW i \in DOMAIN active, PromptThrows(i) \/ HandleEventEnds(i) PROVE RestInv'
  <2>1. /\ ProcessNext /\ ctx' \in {ctx, Nothing}
        /\ UNCHANGED <<posted, bot, startupTs, agent, recovering, answered, passedOver, again,
                       answers>>
    BY <1>9 DEF PromptThrows, HandleEventEnds, slackVars, fileVars, ghostVars
  <2> QED BY <1>1, <2>1, ProcessNextRests, RestGoesOn
<1>10. ASSUME NEW background \in BOOLEAN, answers' = Answer(background), agent.item # Nothing
       PROVE  \A a \in answers' :
                a \in answers \/ a \in [of : Askers(n), for : {Nothing} \cup Askers(n),
                                        background : BOOLEAN]
  BY <1>1, <1>10 DEF Answer
<1>11. ASSUME NEW i \in DOMAIN active, AgentEnds(i) PROVE RestInv'
  <2>1. /\ CallGoes(i, "agent", "replying") /\ agent' = Idle /\ answered' = TRUE
        /\ answers' \in {Answer(FALSE), answers}
        /\ recovering' \in {recovering, agent.item}
        /\ UNCHANGED <<posted, bot, startupTs, queue, processing, channelRunning, stopRequested,
                       ctx, passedOver, again>>
    BY <1>11 DEF AgentEnds, slackVars
  <2>2. agent.item # Nothing
    BY <2>1, CallAskers DEF CallGoes, ApartInv, CtxIsCurrent
  <2>3. \A a \in answers' :
          a \in answers \/ a \in [of : Askers(n), for : {Nothing} \cup Askers(n), background : BOOLEAN]
    BY <1>10, <2>1, <2>2
  <2> QED BY <1>1, <1>2, <2>1, <2>3, RestGoesOn
<1>12. CASE Recover
  <2>1. /\ recovering # Nothing /\ recovering' = Nothing
        /\ agent' \in {agent, [item |-> recovering, background |-> TRUE, aborted |-> FALSE]}
        /\ UNCHANGED <<posted, bot, startupTs, queue, processing, channelRunning, stopRequested,
                       ctx, answered, passedOver, again, answers>>
    BY <1>12 DEF Recover, slackVars, fileVars, ghostVars
  <2>2. recovering \in Askers(n)
    BY <2>1 DEF RestInv
  <2> QED BY <1>1, <2>1, <2>2, RestGoesOn
<1>13. CASE RecoveryEnds
  <2>1. /\ agent.background /\ agent' = Idle /\ answers' \in {Answer(TRUE), answers}
        /\ UNCHANGED <<posted, bot, startupTs, queue, processing, channelRunning, stopRequested,
                       ctx, recovering, answered, passedOver, again>>
    BY <1>13 DEF RecoveryEnds, slackVars, fileVars
  <2>2. \A a \in answers' :
          a \in answers \/ a \in [of : Askers(n), for : {Nothing} \cup Askers(n), background : BOOLEAN]
    BY <1>1, <1>10, <2>1
  <2>3. agent'.item = Nothing /\ ~agent'.background
    BY <1>2, <2>1
  <2> QED BY <1>1, <2>1, <2>2, <2>3, RestGoesOn
<1>14. CASE BotDies
  <2>1. /\ bot' = "starting" /\ startupTs' = 0 /\ queue' = <<>> /\ processing' = FALSE /\ channelRunning' = FALSE
        /\ stopRequested' = FALSE /\ ctx' = Nothing /\ agent' = Idle /\ recovering' = Nothing
        /\ UNCHANGED <<posted, answered, passedOver, again, answers>>
    BY <1>14 DEF BotDies, slackVars
  <2>2. Len(queue') <= QueueLimit
    <3>1. QueueLimit \in Nat /\ Len(<<>>) = 0
      BY ChannelAssumption
    <3> QED BY <2>1, <3>1
  <2>3. agent'.item = Nothing /\ ~agent'.background
    BY <1>2, <2>1
  <2>4. /\ answered' \in BOOLEAN /\ startupTs' \in Nat /\ bot' \in {"starting", "backfilled", "connected", "up"}
        /\ processing' \in BOOLEAN /\ channelRunning' \in BOOLEAN /\ stopRequested' \in BOOLEAN
        /\ ctx' = Nothing /\ recovering' = Nothing /\ posted' = posted
        /\ passedOver' \subseteq 1..n /\ again' \subseteq 1..n /\ answers' = answers
    BY <1>1, <2>1
  <2> QED BY <1>1, <2>2, <2>3, <2>4, RestGoesOn
<1>15. CASE Backfill
  <2>1. /\ bot' = "backfilled"
        /\ passedOver' \in
             {passedOver, passedOver \cup {ts \in 1..BeforePages : ~Contains(channelLog, ts)}}
        /\ UNCHANGED <<posted, answered, startupTs, queue, processing, channelRunning,
                       stopRequested, ctx, agent, recovering, again, answers>>
    BY <1>15 DEF Backfill, slackVars, runVars
  <2>2. BeforePages \in 0..n
    BY PagesType, CountTypes
  <2>3. 1..BeforePages \subseteq 1..n
    BY <1>1, <2>2
  <2>4. passedOver' \subseteq 1..n
    BY <1>1, <2>1, <2>3
  <2> QED BY <1>1, <2>1, <2>4, RestGoesOn
<1>16. CASE Connect \/ RecordStartup
  <2>1. /\ bot' \in {"connected", "up"} /\ startupTs' \in {startupTs, n}
        /\ UNCHANGED <<posted, answered, queue, processing, channelRunning,
                       stopRequested, ctx, agent, recovering, passedOver, again, answers>>
    BY <1>16 DEF Connect, RecordStartup, slackVars, fileVars, runVars, ghostVars
  <2> QED BY <1>1, <2>1, RestGoesOn
<1> QED BY <1>3, <1>4, <1>5, <1>6, <1>7, <1>8, <1>9, <1>11, <1>12, <1>13, <1>14, <1>15, <1>16
        DEF SlackNext, RunStep

\* A sequence of what all is in T.
LEMMA AllIn == ASSUME NEW S, NEW T, NEW s \in Seq(S), \A k \in DOMAIN s : s[k] \in T PROVE s \in Seq(T)
<1>1. Len(s) \in Nat /\ s \in [1..Len(s) -> S]
  BY LenProperties
<1>2. s \in [1..Len(s) -> T]
  BY <1>1
<1> QED BY <1>1, <1>2

LEMMA RestInitially == ASSUME SlackInit PROVE RestInv /\ CountInv
<1>1. QueueLimit \in Nat /\ MaxPosts \in Nat /\ MaxSlackEvents \in Nat /\ MaxMishaps \in Nat
  BY ChannelAssumption
<1>2. Len(posted) = 0 /\ Len(queue) = 0 /\ Posted = {}
  BY DEF SlackInit, Posted
<1>3. RestInv
  <2>1. 0 <= QueueLimit /\ 0 \in Nat /\ Idle.item = Nothing /\ ~Idle.background
    BY <1>1 DEF Idle
  <2> QED BY <1>2, <2>1 DEF SlackInit, RestInv
<1>4. FromUsers = 0 /\ Cardinality(inflight) = 0 /\ Unstarted(active) = 0
  <2>1. UsersOnly(Posted) = {} /\ inflight = {}
    BY <1>2 DEF UsersOnly, SlackInit
  <2> QED BY <2>1, FS_EmptySet DEF FromUsers, Unstarted, SlackInit
<1>5. events = 0 /\ mishaps = 0
  BY DEF SlackInit
<1> QED BY <1>1, <1>2, <1>3, <1>4, <1>5 DEF CountInv, StatusToCome

\* A channel has at most two messages for each that its users have posted, and one for
\* every event and mishap.
LEMMA ChannelIsBounded ==
  ASSUME ApartInv, CountInv PROVE Posted \subseteq Timestamps /\ Len(posted) \in Nat
<1>1. /\ Len(queue) \in Nat /\ Unstarted(active) \in {0, 1} /\ Len(posted) \in Nat
      /\ Cardinality(inflight) \in Nat /\ FromUsers \in Nat
  BY CountTypes
<1>2. /\ FromUsers \in 0..MaxPosts /\ events \in 0..MaxSlackEvents /\ mishaps \in 0..MaxMishaps
      /\ Len(posted) + StatusToCome <= 2 * FromUsers + events + mishaps
      /\ MaxPosts \in Nat /\ MaxSlackEvents \in Nat /\ MaxMishaps \in Nat
  BY ChannelAssumption DEF CountInv
<1>3. StatusToCome \in Nat
  BY <1>1 DEF StatusToCome
<1>4. Len(posted) <= 2 * FromUsers + events + mishaps
  BY <1>1, <1>2, <1>3
<1>5. Len(posted) <= 2 * MaxPosts + MaxSlackEvents + MaxMishaps
  BY <1>1, <1>2, <1>4
<1> QED BY <1>1, <1>2, <1>5 DEF Posted, Timestamps

LEMMA ChannelTyped ==
  ASSUME ApartInv, SeenInv, CountInv, RestInv PROVE ChannelTypeOK
<1> DEFINE n == Len(posted)
<1>1. n \in Nat /\ Posted = 1..n /\ Posted \subseteq Timestamps
  BY ChannelIsBounded DEF Posted
<1>2. Askers(n) \subseteq Items
  BY <1>1 DEF Askers, Items
<1>3. posted \in Seq(Message) /\ inflight \subseteq Posted
  BY <1>1 DEF ApartInv, Shape
<1>4. channelLog \in Seq(Posted)
  <2>1. channelLog \in Seq(Nat) /\ \A k \in DOMAIN channelLog : channelLog[k] \in Posted
    BY DEF SeenInv, Places, InLog
  <2> QED BY <2>1, AllIn
<1>5. context \in Seq([ts : Items, words : Words \cup {"event"}, named : BOOLEAN])
  <2> DEFINE T == [ts : Items, words : Words \cup {"event"}, named : BOOLEAN]
  <2>1. context \in Seq(Entry)
    BY DEF SeenInv, Places
  <2>2. ASSUME NEW k \in DOMAIN context PROVE context[k] \in T
    <3>1. context[k] \in Entry
      BY <2>1, ElementOfSeq, LenProperties
    <3>2. context[k].ts # AnEvent => context[k].ts \in Posted
      BY DEF SeenInv, ContextFromLog, Places
    <3>3. context[k].ts \in Items
      BY <1>1, <3>2 DEF Items
    <3> QED BY <3>1, <3>3 DEF Entry
  <2> HIDE DEF T
  <2>3. context \in Seq(T)
    BY <2>1, <2>2, AllIn
  <2> QED BY <2>3 DEF T
<1>6. queue \in Seq(Items)
  <2>1. queue \in Seq(Int) /\ \A k \in DOMAIN queue : queue[k] \in Items
    BY DEF ApartInv, Shape, OneCall, Items
  <2> QED BY <2>1, AllIn
<1>7. active \in Seq([item : Items, status : Timestamps \cup {Nothing},
                      step : {"typing", "prepared", "agent", "replying"}])
  <2> DEFINE T == [item : Items, status : Timestamps \cup {Nothing},
                   step : {"typing", "prepared", "agent", "replying"}]
  <2>1. active \in Seq(ACall)
    BY DEF ApartInv, Shape
  <2>2. ASSUME NEW i \in DOMAIN active PROVE active[i] \in T
    <3>1. active[i] \in ACall
      BY <2>1, ElementOfSeq, LenProperties
    <3>2. active[i].item \in Items
      BY <1>2, CallAskers
    <3>3. active[i].status \in Timestamps \cup {Nothing}
      BY <1>1 DEF SeenInv, CallsLogged
    <3> QED BY <3>1, <3>2, <3>3 DEF ACall
  <2> HIDE DEF T
  <2>3. active \in Seq(T)
    BY <2>1, <2>2, AllIn
  <2> QED BY <2>3 DEF T
<1>8. /\ ctx \in Items \cup {Nothing} /\ recovering \in Items \cup {Nothing}
      /\ agent \in [item : Items \cup {Nothing}, background : BOOLEAN, aborted : BOOLEAN]
  BY <1>2 DEF RestInv, ApartInv, Shape
<1>9. passedOver \cup delivered \cup again \cup mustKnow \subseteq Posted
  BY DEF RestInv, SeenInv, Places
<1>10. answers \subseteq [of : Items, for : Items \cup {Nothing}, background : BOOLEAN]
  BY <1>2 DEF RestInv
<1>11. /\ bot \in {"starting", "backfilled", "connected", "up"} /\ startupTs \in Nat /\ Len(queue) <= QueueLimit
       /\ {answered, processing, channelRunning, stopRequested} \subseteq BOOLEAN
  BY DEF RestInv
<1> HIDE DEF n
<1> QED BY <1>3, <1>4, <1>5, <1>6, <1>7, <1>8, <1>9, <1>10, <1>11 DEF ChannelTypeOK

\* Everything in a channel of mom has its type: whatever is under way is about a message
\* that was posted or an event, an answer is for somebody, the queue keeps to its limit
\* (enqueueEvent), and mom posts at most one message for each call of handleEvent.
THEOREM ChannelTypes == SlackSpec => []ChannelTypeOK
<1>1. SlackInit => ApartInv /\ SeenInv /\ CountInv /\ RestInv
  BY ApartInitially, SeenInitially, RestInitially
<1>2. ApartInv /\ SeenInv /\ CountInv /\ RestInv /\ [SlackNext]_channelVars
        => ApartInv' /\ SeenInv' /\ CountInv' /\ RestInv'
  <2> SUFFICES ASSUME ApartInv, SeenInv, CountInv, RestInv, [SlackNext]_channelVars
               PROVE  ApartInv' /\ SeenInv' /\ CountInv' /\ RestInv'
    OBVIOUS
  <2>1. ApartInv' /\ SeenInv'
    BY ApartStep, SeenStep
  <2>2. CASE SlackNext
    BY <2>1, <2>2, CountStep, RestStep
  <2>3. CASE UNCHANGED channelVars
    <3>1. UNCHANGED <<posted, inflight, queue, active, events, mishaps, bot, startupTs, answered, processing,
                      channelRunning, stopRequested, ctx, recovering, agent, passedOver, again,
                      answers>>
      BY <2>3 DEF channelVars, slackVars, fileVars, runVars, ghostVars
    <3>2. CountInv'
      BY <3>1 DEF CountInv, StatusToCome, FromUsers, UsersOnly, Posted, Unstarted, Nothing
    <3>3. RestInv'
      BY <3>1 DEF RestInv, Posted, Askers, Nothing, AnEvent
    <3> QED BY <2>1, <3>2, <3>3
  <2> QED BY <2>1, <2>2, <2>3
<1>3. ApartInv /\ SeenInv /\ CountInv /\ RestInv => ChannelTypeOK
  BY ChannelTyped
<1> QED BY <1>1, <1>2, <1>3, PTL DEF SlackSpec

-----------------------------------------------------------------------------
(* MomEvents: what is scheduled is what the event file says, for any number of *)
(* versions, errors of the watcher and deaths.  As long as mom has not acted on *)
(* what the file held before, at most one call of handleFile is under way, and   *)
(* nothing is scheduled meanwhile; what it has read is still what the file says,  *)
(* or a change is yet to be handled.                                              *)

FileCall == [attempt : Nat, step : {"read", "parse"}, content : Nat]

\* A change that mom will still look at.
ChangeToCome == debounce \/ ~watching

Nowhere == timer = NoVersion /\ cron = NoVersion

Matches ==
  /\ timer = IF eventFile # NoVersion /\ IsOneShot(eventFile)
             THEN eventFile ELSE NoVersion
  /\ cron = IF eventFile # NoVersion /\ event[eventFile] = "periodic"
            THEN eventFile ELSE NoVersion

\* knownFiles has every file that is scheduled, which is on one of the two maps, and
\* not while it is being read.
OneSchedule ==
  /\ ~known \/ handlers # <<>> => Nowhere
  /\ timer = NoVersion \/ cron = NoVersion
  /\ orphans = [v \in Versions |-> 0]

OneReader ==
  /\ handlers = <<>> \/ \E call \in FileCall : handlers = <<call>>
  /\ \A i \in DOMAIN handlers :
       handlers[i].step = "parse" => handlers[i].content \in {eventFile, NoVersion} \/ ChangeToCome

\* What is there while mom is not up.
NotUp ==
  mom # "up" => /\ ~watching /\ Nowhere
                /\ mom = "down" => handlers = <<>>
                /\ handlers = <<>> => mom = "down" \/ eventFile = NoVersion \/ missed
                /\ \A i \in DOMAIN handlers : handlers[i].step = "read"

AtRest == mom = "up" /\ handlers = <<>> => ChangeToCome \/ missed \/ Matches

Orderly == OneSchedule /\ OneReader /\ NotUp /\ AtRest

ScheduleInv ==
  /\ eventFile \in Nat /\ mom \in {"down", "scanned", "up"}
  /\ raced \in BOOLEAN /\ missed \in BOOLEAN
  /\ ~raced => Orderly

LEMMA ScheduleInitially == ASSUME MomInit PROVE ScheduleInv
<1>1. OneSchedule
  BY DEF MomInit, OneSchedule, Nowhere
<1>2. OneReader
  BY DEF MomInit, OneReader
<1>3. NotUp
  BY DEF MomInit, NotUp
<1>4. AtRest
  BY DEF MomInit, AtRest, Matches, IsOneShot
<1> QED BY <1>1, <1>2, <1>3, <1>4 DEF MomInit, ScheduleInv, Orderly, NoVersion

\* The call of handleFile that is under way is the only one.
LEMMA TheOnlyReader ==
  ASSUME OneReader, NEW i \in DOMAIN handlers
  PROVE  /\ i = 1 /\ handlers # <<>> /\ handlers[1] \in FileCall
         /\ handlers = <<handlers[1]>>
         /\ RemoveAt(handlers, i) = <<>>
<1>1. PICK call \in FileCall : handlers = <<call>>
  BY DEF OneReader
<1>2. Len(<<call>>) = 1 /\ DOMAIN <<call>> = {1} /\ <<call>>[1] = call
  OBVIOUS
<1>3. i = 1 /\ handlers[1] = call /\ handlers # <<>>
  BY <1>1, <1>2
<1> DEFINE before == SubSeq(handlers, 1, 1 - 1)
           after == SubSeq(handlers, 1 + 1, Len(handlers))
<1>4. handlers \in Seq(FileCall) /\ Len(handlers) = 1
  BY <1>1, <1>2
<1>5. before = <<>> /\ after = <<>>
  BY <1>4
<1>6. before \o after = <<>>
  BY <1>5
<1> QED BY <1>1, <1>3, <1>6 DEF RemoveAt

\* A step that schedules nothing and starts no call.
LEMMA ScheduleStays ==
  ASSUME ScheduleInv,
         UNCHANGED <<timer, cron, orphans, known, handlers, mom>>,
         eventFile' \in Nat, raced' \in BOOLEAN, missed' \in BOOLEAN,
         raced => raced', missed => missed',
         ChangeToCome => ChangeToCome',
         mom # "up" => ~watching',
         mom # "up" /\ handlers = <<>> /\ eventFile = NoVersion => mom = "down" \/ eventFile' = NoVersion \/ missed',
         \/ UNCHANGED <<eventFile, event>>
         \/ mom = "up" => ChangeToCome'
  PROVE  ScheduleInv'
<1> SUFFICES ASSUME ~raced' PROVE Orderly'
  BY DEF ScheduleInv
<1>1. Orderly
  BY DEF ScheduleInv
<1>2. OneSchedule'
  BY <1>1 DEF Orderly, OneSchedule, Nowhere, Versions
<1>3. OneReader'
  <2>1. \A i \in DOMAIN handlers : handlers[i].step = "parse" => mom = "up"
    BY <1>1 DEF Orderly, NotUp
  <2> QED BY <1>1, <2>1 DEF Orderly, OneReader, FileCall
<1>4. NotUp'
  BY <1>1 DEF Orderly, NotUp, Nowhere
<1>5. AtRest'
  BY <1>1 DEF Orderly, AtRest, Matches, IsOneShot
<1> QED BY <1>2, <1>3, <1>4, <1>5 DEF Orderly

\* Whoever changes the file: mom will look, or has not looked yet.
LEMMA DirectoryKeeps ==
  ASSUME ScheduleInv,
         \/ \E type \in EventTypes : Write(type)
         \/ TakeBack \/ \E v \in Versions : TimeComes(v)
  PROVE  ScheduleInv'
<1>1. NoVersion \in Nat /\ Versions \subseteq Nat
  BY DEF NoVersion, Versions
<1>2. ASSUME NEW type \in EventTypes, Write(type) PROVE ScheduleInv'
  <2>1. /\ UNCHANGED <<timer, cron, orphans, known, handlers, mom, watching, raced>>
        /\ eventFile' \in Nat /\ debounce' = (debounce \/ watching)
        /\ missed' = (missed \/ (mom = "scanned" /\ handlers = <<>>))
    BY <1>1, <1>2 DEF Write, DirectoryChanges
  <2> QED BY <2>1, ScheduleStays DEF ScheduleInv, ChangeToCome, Orderly, NotUp
<1>3. CASE TakeBack
  <2>1. /\ UNCHANGED <<timer, cron, orphans, known, handlers, mom, watching, raced, missed>>
        /\ eventFile' = NoVersion /\ debounce' = (debounce \/ watching)
    BY <1>3 DEF TakeBack, DirectoryChanges
  <2> QED BY <1>1, <2>1, ScheduleStays DEF ScheduleInv, ChangeToCome, Orderly, NotUp
<1>4. ASSUME NEW v \in Versions, TimeComes(v) PROVE ScheduleInv'
  <2>1. UNCHANGED <<timer, cron, orphans, known, handlers, mom, watching, raced, missed,
                    eventFile, event, debounce>>
    BY <1>4 DEF TimeComes
  <2> QED BY <2>1, ScheduleStays DEF ScheduleInv, ChangeToCome, Orderly, NotUp
<1> QED BY <1>2, <1>3, <1>4

\* mom's steps start from one call of handleFile, or from none; a step that has acted on
\* what the file held before is of no interest.
LEMMA ScheduleFollows ==
  ASSUME ScheduleInv, eventFile' \in Nat, mom' \in {"down", "scanned", "up"},
         raced' \in BOOLEAN, missed' = missed, ~raced' => Orderly'
  PROVE  ScheduleInv'
BY DEF ScheduleInv

\* A change is looked at: what was scheduled is cancelled, and the file read if it is there.
LEMMA ChangeKeeps ==
  ASSUME ScheduleInv, HandleFileChange, mom = "up",
         UNCHANGED <<eventFile, event, mom, orphans, missed>>
  PROVE  ScheduleInv'
<1> DEFINE call == [attempt |-> 1, step |-> "read", content |-> NoVersion]
<1>1. raced' \in BOOLEAN /\ eventFile' \in Nat /\ mom' \in {"down", "scanned", "up"}
  BY DEF HandleFileChange, ScheduleInv
<1> SUFFICES ASSUME ~raced' PROVE Orderly'
  BY <1>1, ScheduleFollows
<1>2. ~raced /\ handlers = <<>>
  BY DEF HandleFileChange
<1>3. Orderly
  BY <1>2 DEF ScheduleInv
<1>4. Nowhere'
  BY <1>3 DEF HandleFileChange, CancelScheduled, Nowhere, Orderly, OneSchedule
<1>5. call \in FileCall /\ Append(<<>>, call) = <<call>>
  BY DEF FileCall, NoVersion
<1>6. \/ eventFile = NoVersion /\ handlers' = <<>> /\ ~known'
      \/ eventFile # NoVersion /\ handlers' = <<call>> /\ known' = known
  BY <1>2, <1>5 DEF HandleFileChange, HandleFile
<1>7. OneSchedule'
  BY <1>3, <1>4, <1>6 DEF Orderly, OneSchedule, Nowhere, Versions
<1>8. OneReader'
  <2>1. CASE handlers' = <<>>
    BY <2>1 DEF OneReader
  <2>2. CASE handlers' = <<call>>
    <3>1. DOMAIN <<call>> = {1} /\ <<call>>[1] = call /\ call.step = "read"
      OBVIOUS
    <3> HIDE DEF call
    <3> QED BY <1>5, <2>2, <3>1 DEF OneReader, FileCall
  <2> QED BY <1>6, <2>1, <2>2
<1>9. AtRest' /\ NotUp'
  BY <1>4, <1>5, <1>6 DEF AtRest, Matches, IsOneShot, NotUp, Nowhere
<1> QED BY <1>7, <1>8, <1>9 DEF Orderly

\* The call reads what is there.
LEMMA ReadKeeps ==
  ASSUME ScheduleInv, mom = "up", NEW i \in DOMAIN handlers, ReadsFile(i)
  PROVE  ScheduleInv'
<1>1. UNCHANGED <<eventFile, event, mom, raced, missed, debounce, watching, known, timer, cron, orphans>>
  BY DEF ReadsFile
<1> SUFFICES ASSUME ~raced PROVE Orderly'
  BY <1>1, ScheduleFollows DEF ScheduleInv
<1>2. Orderly
  BY DEF ScheduleInv
<1>3. i = 1 /\ handlers # <<>> /\ handlers[1] \in FileCall /\ handlers = <<handlers[1]>>
  BY <1>2, TheOnlyReader DEF Orderly
<1> DEFINE call == [handlers[1] EXCEPT !.step = "parse", !.content = eventFile]
<1>4. call \in FileCall /\ call.step = "parse" /\ call.content = eventFile
  BY <1>3 DEF ScheduleInv, FileCall
<1>5. handlers' = <<call>>
  BY <1>3 DEF ReadsFile
<1> HIDE DEF call
<1>6. OneReader'
  BY <1>1, <1>4, <1>5 DEF OneReader, FileCall
<1>7. handlers' # <<>>
  BY <1>5
<1>8. OneSchedule' /\ NotUp' /\ AtRest'
  BY <1>1, <1>2, <1>3, <1>7 DEF Orderly, OneSchedule, NotUp, AtRest, Nowhere, Versions
<1> QED BY <1>6, <1>8 DEF Orderly

\* deleteFile: the file is gone, whether mom is told or not.
LEMMA FileDeleted ==
  ASSUME DeleteFile PROVE eventFile' = NoVersion /\ ~known'
BY DEF DeleteFile, DirectoryChanges

\* A call that has the content of the file: it is scheduled, or read again, or given up.
LEMMA ParseKeeps ==
  ASSUME ScheduleInv, mom = "up", NEW i \in DOMAIN handlers, ParsesFile(i)
  PROVE  ScheduleInv'
<1> DEFINE v == handlers[i].content
<1>1. /\ UNCHANGED <<event, mom, watching, missed>>
      /\ handlers[i].step = "parse"
      /\ \/ /\ v # NoVersion
            /\ Schedule(v) /\ Interferes(v)
            /\ handlers' = RemoveAt(handlers, i)
         \/ /\ handlers' = [handlers EXCEPT ![i] = [attempt |-> @.attempt + 1, step |-> "read",
                                                    content |-> NoVersion]]
            /\ UNCHANGED <<eventFile, debounce, known, timer, cron, orphans, raced>>
         \/ /\ DeleteFile /\ Interferes(v)
            /\ handlers' = RemoveAt(handlers, i)
            /\ UNCHANGED <<timer, cron, orphans>>
  BY DEF ParsesFile
<1>2. /\ eventFile' \in Nat /\ raced' \in BOOLEAN /\ (raced => raced')
  <2>1. eventFile' \in {eventFile, NoVersion}
    BY <1>1, FileDeleted DEF Schedule, ExecuteAndDelete
  <2>2. raced' \in BOOLEAN /\ (raced => raced')
    BY <1>1 DEF Interferes, ScheduleInv
  <2> QED BY <2>1, <2>2 DEF ScheduleInv, NoVersion
<1> SUFFICES ASSUME ~raced' PROVE Orderly'
  BY <1>1, <1>2, ScheduleFollows DEF ScheduleInv
<1>3. Orderly
  BY <1>2 DEF ScheduleInv
<1>4. /\ i = 1 /\ handlers # <<>> /\ handlers[1] \in FileCall /\ handlers = <<handlers[1]>>
      /\ RemoveAt(handlers, i) = <<>>
  BY <1>3, TheOnlyReader DEF Orderly
<1>5. Nowhere /\ orphans = [w \in Versions |-> 0]
  BY <1>3, <1>4 DEF Orderly, OneSchedule
<1>6. v \in {eventFile, NoVersion} \/ ChangeToCome
  BY <1>1, <1>3 DEF Orderly, OneReader
<1> HIDE DEF v
<1>7. NotUp'
  BY <1>1 DEF NotUp
\* Nothing is under way any more, and one map at most has the file.
<1>8. ASSUME handlers' = <<>>, orphans' = orphans, OneSchedule', AtRest' PROVE Orderly'
  <2>1. OneReader'
    BY <1>8 DEF OneReader
  <2> QED BY <1>7, <1>8, <2>1 DEF Orderly
<1>9. CASE v # NoVersion /\ Schedule(v) /\ Interferes(v) /\ handlers' = RemoveAt(handlers, i)
  <2>1. handlers' = <<>> /\ eventFile \in {v, NoVersion} /\ Displaced(NoVersion) = orphans
    BY <1>4, <1>9 DEF Interferes, Displaced
  \* Where the file has been taken away meanwhile, mom has yet to hear of it.
  <2>2. eventFile = v \/ ChangeToCome
    BY <1>6, <1>9, <2>1
  <2>3. CASE timer' = v /\ known' = TRUE /\ IsOneShot(v) /\ orphans' = Displaced(timer)
             /\ UNCHANGED <<eventFile, debounce, cron>>
    <3>1. orphans' = orphans /\ OneSchedule'
      BY <1>5, <2>1, <2>3 DEF OneSchedule, Nowhere, Versions
    <3>2. AtRest'
      BY <1>1, <1>5, <1>9, <2>2, <2>3 DEF AtRest, Matches, IsOneShot, Nowhere, ChangeToCome
    <3> QED BY <1>8, <2>1, <3>1, <3>2
  <2>4. CASE cron' = v /\ known' = TRUE /\ event[v] = "periodic" /\ orphans' = Displaced(cron)
             /\ UNCHANGED <<eventFile, debounce, timer>>
    <3>1. orphans' = orphans /\ OneSchedule'
      BY <1>5, <2>1, <2>4 DEF OneSchedule, Nowhere, Versions
    <3>2. AtRest'
      BY <1>1, <1>5, <1>9, <2>2, <2>4 DEF AtRest, Matches, IsOneShot, Nowhere, ChangeToCome
    <3> QED BY <1>8, <2>1, <3>1, <3>2
  <2>5. CASE eventFile' = NoVersion /\ UNCHANGED <<timer, cron, orphans>>
    <3>1. OneSchedule'
      BY <1>5, <2>5 DEF OneSchedule, Nowhere, Versions
    <3>2. AtRest'
      BY <1>5, <2>5 DEF AtRest, Matches, IsOneShot, Nowhere
    <3> QED BY <1>8, <2>1, <2>5, <3>1, <3>2
  <2> QED BY <1>9, <2>3, <2>4, <2>5, FileDeleted DEF Schedule, ExecuteAndDelete
<1>10. CASE /\ handlers' = [handlers EXCEPT ![i] = [attempt |-> @.attempt + 1, step |-> "read",
                                                    content |-> NoVersion]]
            /\ UNCHANGED <<eventFile, debounce, known, timer, cron, orphans, raced>>
  <2> DEFINE call == [attempt |-> handlers[1].attempt + 1, step |-> "read", content |-> NoVersion]
  <2>1. call \in FileCall /\ call.step = "read"
    BY <1>4 DEF FileCall, NoVersion
  <2>2. handlers' = <<call>>
    BY <1>4, <1>10
  <2> HIDE DEF call
  <2>3. OneReader' /\ handlers' # <<>>
    BY <2>1, <2>2 DEF OneReader, FileCall
  <2>4. OneSchedule' /\ AtRest'
    BY <1>5, <1>10, <2>3 DEF OneSchedule, AtRest, Nowhere, Versions
  <2> QED BY <1>7, <2>3, <2>4 DEF Orderly
<1>11. CASE /\ DeleteFile /\ Interferes(v)
            /\ handlers' = RemoveAt(handlers, i)
            /\ UNCHANGED <<timer, cron, orphans>>
  <2>1. eventFile' = NoVersion /\ handlers' = <<>>
    BY <1>4, <1>11, FileDeleted
  <2>2. OneSchedule' /\ AtRest'
    BY <1>5, <1>11, <2>1 DEF OneSchedule, AtRest, Matches, IsOneShot, Nowhere, Versions
  <2> QED BY <1>8, <1>11, <2>1, <2>2
<1> QED BY <1>1, <1>9, <1>10, <1>11

\* A one-shot whose time has come: its timer is the one of the map, for none is left behind.
LEMMA TimerKeeps ==
  ASSUME ScheduleInv, mom = "up", NEW v \in Versions, TimerFires(v)
  PROVE  ScheduleInv'
<1>1. /\ eventFile' = NoVersion /\ ~known' /\ timer' = NoVersion
      /\ UNCHANGED <<event, mom, handlers, cron, missed, watching>>
      /\ raced' \in BOOLEAN /\ (raced => raced')
      /\ \/ timer = v /\ UNCHANGED orphans
         \/ orphans[v] > 0
  BY FileDeleted DEF TimerFires, ExecuteAndDelete, Interferes, ScheduleInv
<1> SUFFICES ASSUME ~raced' PROVE Orderly'
  BY <1>1, ScheduleFollows DEF ScheduleInv, NoVersion
<1>2. Orderly
  BY <1>1 DEF ScheduleInv
<1>3. timer = v /\ UNCHANGED orphans /\ v # NoVersion
  BY <1>1, <1>2 DEF Orderly, OneSchedule, Versions, NoVersion
<1>4. handlers = <<>> /\ cron = NoVersion
  BY <1>2, <1>3 DEF Orderly, OneSchedule, Nowhere
<1>5. OneSchedule' /\ OneReader' /\ NotUp' /\ AtRest'
  BY <1>1, <1>2, <1>3, <1>4
     DEF Orderly, OneSchedule, OneReader, NotUp, AtRest, Matches, IsOneShot, Nowhere, Versions
<1> QED BY <1>5 DEF Orderly

\* An error of the watcher: its retry will look at the file again.
LEMMA WatcherKeeps ==
  ASSUME ScheduleInv, mom = "up", WatcherFails PROVE ScheduleInv'
<1>1. /\ UNCHANGED <<timer, cron, orphans, known, handlers, mom, eventFile, event, raced, missed>>
      /\ watching' = FALSE
  BY DEF WatcherFails
<1> QED BY <1>1, ScheduleStays DEF ScheduleInv, ChangeToCome

\* mom dies: nothing is scheduled any more, nor when it starts again before it has looked.
LEMMA RestartKeeps ==
  ASSUME ScheduleInv, (mom = "up" /\ MomDies) \/ Start \/ StartFsWatcher
  PROVE  ScheduleInv'
<1>1. UNCHANGED <<eventFile, event, raced, missed>> /\ mom' \in {"down", "scanned", "up"}
  BY DEF MomDies, Start, StartFsWatcher
<1> SUFFICES ASSUME ~raced PROVE Orderly'
  BY <1>1, ScheduleFollows DEF ScheduleInv
<1>2. Orderly
  BY DEF ScheduleInv
<1>3. CASE MomDies
  <2>1. /\ mom' = "down" /\ handlers' = <<>> /\ ~watching' /\ Nowhere'
        /\ orphans' = [v \in Versions |-> 0]
    BY <1>3 DEF MomDies, Nowhere
  <2>2. OneSchedule' /\ OneReader' /\ NotUp' /\ AtRest'
    BY <2>1 DEF OneSchedule, OneReader, NotUp, AtRest, Nowhere, Versions
  <2> QED BY <2>2 DEF Orderly
<1>4. CASE Start
  <2> DEFINE call == [attempt |-> 1, step |-> "read", content |-> NoVersion]
  <2>1. /\ mom = "down" /\ mom' = "scanned"
        /\ UNCHANGED <<watching, known, timer, cron, orphans>>
    BY <1>4 DEF Start
  <2>2. handlers = <<>> /\ Nowhere /\ ~watching
    BY <1>2, <2>1 DEF Orderly, NotUp
  <2>3. call \in FileCall /\ Append(<<>>, call) = <<call>> /\ call.step = "read"
    BY DEF FileCall, NoVersion
  <2>4. \/ eventFile = NoVersion /\ handlers' = <<>>
        \/ handlers' = <<call>>
    BY <1>4, <2>2, <2>3 DEF Start, HandleFile
  <2> HIDE DEF call
  <2>5. handlers' = <<call>> => DOMAIN handlers' = {1} /\ handlers'[1] = call
    OBVIOUS
  <2>6. OneReader' /\ NotUp'
    BY <1>1, <2>1, <2>2, <2>3, <2>4, <2>5 DEF OneReader, NotUp, Nowhere, FileCall
  <2>7. OneSchedule' /\ AtRest'
    BY <1>2, <2>1, <2>2 DEF Orderly, OneSchedule, AtRest, Nowhere, Versions
  <2> QED BY <2>6, <2>7 DEF Orderly
<1>5. CASE StartFsWatcher
  <2>1. /\ mom = "scanned" /\ mom' = "up"
        /\ UNCHANGED <<debounce, handlers, known, timer, cron, orphans>>
    BY <1>5 DEF StartFsWatcher
  <2>2. /\ Nowhere
        /\ handlers = <<>> => eventFile = NoVersion \/ missed
        /\ \A i \in DOMAIN handlers : handlers[i].step = "read"
    BY <1>2, <2>1 DEF Orderly, NotUp
  <2>3. OneReader'
    BY <1>2, <2>1, <2>2 DEF Orderly, OneReader, FileCall
  <2>4. AtRest' /\ NotUp'
    BY <1>1, <2>1, <2>2 DEF AtRest, Matches, IsOneShot, NotUp, Nowhere
  <2>5. OneSchedule'
    BY <1>2, <2>1 DEF Orderly, OneSchedule, Nowhere, Versions
  <2> QED BY <2>3, <2>4, <2>5 DEF Orderly
<1> QED BY <1>3, <1>4, <1>5

LEMMA ScheduleStep == ASSUME ScheduleInv, MomNext PROVE ScheduleInv'
<1>1. ASSUME MomStep PROVE ScheduleInv'
  <2>1. CASE DebounceEnds \/ WatcherRetries
    <3>1. HandleFileChange /\ UNCHANGED <<eventFile, event, mom, orphans, missed>>
      BY <2>1 DEF DebounceEnds, WatcherRetries, RescanExisting
    <3> QED BY <1>1, <3>1, ChangeKeeps DEF MomStep
  <2> QED BY <1>1, <2>1, ReadKeeps, ParseKeeps, TimerKeeps DEF MomStep
<1> QED BY <1>1, DirectoryKeeps, WatcherKeeps, RestartKeeps DEF MomNext

\* Once mom has handled every change, what it has scheduled is what the event file says
\* (EventsWatcher), however often the file was written, the watcher failed and mom died.
THEOREM ScheduleAlwaysMatches == MomSpec => []ScheduleMatchesFile
<1>1. ScheduleInv /\ UNCHANGED momVars => ScheduleInv'
  BY DEF momVars, ScheduleInv, Orderly, OneSchedule, OneReader, NotUp, AtRest, Nowhere, Matches, IsOneShot,
         ChangeToCome, FileCall, Versions
<1>2. ScheduleInv => ScheduleMatchesFile
  <2> SUFFICES ASSUME ScheduleInv, mom = "up", watching, ~debounce, handlers = <<>>, ~raced, ~missed
               PROVE  Matches /\ \A v \in Versions : orphans[v] = 0
    BY DEF ScheduleMatchesFile, Matches, IsOneShot
  <2> QED BY DEF ScheduleInv, Orderly, AtRest, OneSchedule, ChangeToCome
<1>3. ScheduleInv /\ [MomNext]_momVars => ScheduleInv'
  BY <1>1, ScheduleStep
<1> QED BY <1>2, <1>3, ScheduleInitially, PTL DEF MomSpec

-----------------------------------------------------------------------------
(* MomEvents: the types.                                                     *)

LEMMA Shorter == ASSUME NEW S, NEW s \in Seq(S), NEW i \in DOMAIN s PROVE RemoveAt(s, i) \in Seq(S)
<1>1. i \in 1..Len(s) /\ Len(s) \in Nat
  BY LenProperties
<1>2. SubSeq(s, 1, i - 1) \in Seq(S) /\ SubSeq(s, i + 1, Len(s)) \in Seq(S)
  BY <1>1, SubSeqProperties
<1> QED BY <1>2, ConcatProperties DEF RemoveAt

FileHandler == [attempt : 1..MaxAttempts, step : {"read", "parse"}, content : 0..MaxVersions]

LEMMA MomTypesStep == ASSUME MomTypeOK, MomNext PROVE MomTypeOK'
<1> USE MomAssumption DEF Versions, NoVersion
<1>1. /\ eventFile \in 0..MaxVersions
      /\ event \in [Versions -> EventTypes \cup {"unwritten"}] /\ ripe \subseteq Versions
      /\ mom \in {"down", "scanned", "up"}
      /\ watching \in BOOLEAN /\ debounce \in BOOLEAN /\ known \in BOOLEAN
      /\ raced \in BOOLEAN /\ missed \in BOOLEAN
      /\ handlers \in Seq(FileHandler)
      /\ timer \in 0..MaxVersions /\ cron \in 0..MaxVersions
      /\ orphans \in [Versions -> Nat]
      /\ executed \subseteq Versions /\ replaced \subseteq Versions /\ old \subseteq Versions
      /\ misfortunes \in 0..MaxMisfortunes
  BY DEF MomTypeOK, FileHandler
<1> DEFINE Typed ==
      /\ eventFile' \in 0..MaxVersions
      /\ event' \in [Versions -> EventTypes \cup {"unwritten"}] /\ ripe' \subseteq Versions
      /\ mom' \in {"down", "scanned", "up"}
      /\ watching' \in BOOLEAN /\ debounce' \in BOOLEAN /\ known' \in BOOLEAN
      /\ raced' \in BOOLEAN /\ missed' \in BOOLEAN
      /\ handlers' \in Seq(FileHandler)
      /\ timer' \in 0..MaxVersions /\ cron' \in 0..MaxVersions
      /\ orphans' \in [Versions -> Nat]
      /\ executed' \subseteq Versions /\ replaced' \subseteq Versions /\ old' \subseteq Versions
      /\ misfortunes' \in 0..MaxMisfortunes
<1> SUFFICES Typed
  BY DEF MomTypeOK, FileHandler
<1>2. ASSUME HandleFile PROVE handlers' \in Seq(FileHandler)
  <2>1. [attempt |-> 1, step |-> "read", content |-> NoVersion] \in FileHandler
    BY DEF FileHandler
  <2> QED BY <1>1, <1>2, <2>1, AppendProperties DEF HandleFile
<1>3. ASSUME HandleFileChange
      PROVE  /\ raced' \in BOOLEAN /\ timer' \in 0..MaxVersions /\ cron' \in 0..MaxVersions
             /\ known' \in BOOLEAN /\ handlers' \in Seq(FileHandler)
  <2>1. raced' = (raced \/ handlers # <<>>)
    BY <1>3 DEF HandleFileChange
  <2>2. timer' \in {timer, NoVersion} /\ cron' \in {cron, NoVersion}
    BY <1>3 DEF HandleFileChange, CancelScheduled
  <2>3. (known' = FALSE /\ handlers' = handlers) \/ (known' = known /\ HandleFile)
    BY <1>3 DEF HandleFileChange
  <2>4. 0 \in 0..MaxVersions
    OBVIOUS
  <2>5. raced' \in BOOLEAN
    BY <2>1
  <2> QED BY <1>1, <1>2, <2>2, <2>3, <2>4, <2>5
<1>4. ASSUME DeleteFile
      PROVE  eventFile' \in 0..MaxVersions /\ debounce' \in BOOLEAN /\ known' \in BOOLEAN
  <2>1. CASE eventFile = NoVersion
    BY <1>1, <1>4, <2>1 DEF DeleteFile
  <2>2. CASE eventFile # NoVersion
    <3>1. eventFile' = NoVersion /\ debounce' = (debounce \/ watching) /\ known' = FALSE
      BY <1>4, <2>2 DEF DeleteFile, DirectoryChanges
    <3>2. 0 \in 0..MaxVersions /\ debounce' \in BOOLEAN
      BY <3>1
    <3> QED BY <3>1, <3>2
  <2> QED BY <2>1, <2>2
<1>5. ASSUME NEW v \in 0..MaxVersions PROVE Displaced(v) \in [Versions -> Nat]
  <2>1. CASE v = NoVersion
    BY <1>1, <2>1 DEF Displaced
  <2>2. CASE v # NoVersion
    <3>1. v \in Versions /\ orphans[v] + 1 \in Nat
      BY <1>1, <2>2
    <3>2. Displaced(v) = [orphans EXCEPT ![v] = orphans[v] + 1]
      BY <2>2 DEF Displaced
    <3> QED BY <1>1, <3>1, <3>2
  <2> QED BY <2>1, <2>2
<1>6. ASSUME NEW type \in EventTypes, Write(type) PROVE Typed
  <2> DEFINE v == 1 + Cardinality(Written)
  <2>1. /\ v \in Versions /\ eventFile' = v /\ event' = [event EXCEPT ![v] = type]
        /\ debounce' = (debounce \/ watching)
        /\ replaced' = IF eventFile = NoVersion THEN replaced ELSE replaced \cup {eventFile}
        /\ missed' = (missed \/ (mom = "scanned" /\ handlers = <<>>))
        /\ UNCHANGED <<ripe, mom, watching, handlers, known, timer, cron, orphans, executed,
                 old, raced, misfortunes>>
    BY <1>6 DEF Write, DirectoryChanges
  <2> HIDE DEF v
  <2> QED BY <1>1, <2>1
<1>7. CASE TakeBack
  BY <1>1, <1>7 DEF TakeBack, DirectoryChanges
<1>8. ASSUME NEW v \in Versions, TimeComes(v) PROVE Typed
  BY <1>1, <1>8 DEF TimeComes
<1>9. CASE DebounceEnds \/ WatcherRetries
  BY <1>1, <1>3, <1>9 DEF DebounceEnds, WatcherRetries, RescanExisting
<1>10. ASSUME NEW i \in DOMAIN handlers, ReadsFile(i) PROVE Typed
  <2>1. handlers[i] \in FileHandler
    BY <1>1, ElementOfSeq, LenProperties
  <2>2. [handlers[i] EXCEPT !.step = "parse", !.content = eventFile] \in FileHandler
    BY <1>1, <2>1 DEF FileHandler
  <2>3. handlers' = [handlers EXCEPT ![i] = [handlers[i] EXCEPT !.step = "parse", !.content = eventFile]]
    BY <1>1, <1>10, <2>1 DEF ReadsFile, FileHandler
  <2>4. handlers' \in Seq(FileHandler)
    BY <1>1, <2>2, <2>3, LenProperties, ExceptSeq
  <2> QED BY <1>1, <1>10, <2>4 DEF ReadsFile
<1>11. ASSUME NEW i \in DOMAIN handlers, ParsesFile(i) PROVE Typed
  <2> DEFINE v == handlers[i].content
  <2>1. handlers[i] \in FileHandler
    BY <1>1, ElementOfSeq, LenProperties
  <2>2. v \in 0..MaxVersions /\ handlers[i].attempt \in 1..MaxAttempts
    BY <2>1 DEF FileHandler
  <2>3. RemoveAt(handlers, i) \in Seq(FileHandler)
    BY <1>1, Shorter
  <2>4. UNCHANGED <<event, ripe, mom, watching, replaced, old, missed, misfortunes>>
    BY <1>11 DEF ParsesFile
  <2>5. ASSUME v # NoVersion, Schedule(v), Interferes(v), handlers' = RemoveAt(handlers, i) PROVE Typed
    <3>1. v \in Versions
      BY <2>2, <2>5
    <3> HIDE DEF v
    <3>2. ASSUME DeleteFile, UNCHANGED <<timer, cron, orphans, executed>> PROVE Typed
      BY <1>1, <1>4, <2>3, <2>4, <2>5, <3>2 DEF Interferes
    <3>3. ASSUME ExecuteAndDelete(v), UNCHANGED <<timer, cron, orphans>> PROVE Typed
      BY <1>1, <1>4, <2>3, <2>4, <2>5, <3>1, <3>3 DEF Interferes, ExecuteAndDelete
    <3>4. ASSUME known' = TRUE, timer' \in {timer, v}, cron' \in {cron, v}, UNCHANGED <<eventFile, debounce, executed>>,
                 orphans' \in {orphans, Displaced(timer), Displaced(cron)}
          PROVE Typed
      <4>1. orphans' \in [Versions -> Nat]
        BY <1>1, <1>5, <3>4
      <4> QED BY <1>1, <2>2, <2>3, <2>4, <2>5, <3>1, <3>4, <4>1 DEF Interferes
    <3> QED BY <2>5, <3>2, <3>3, <3>4 DEF Schedule
  <2>6. ASSUME handlers[i].attempt < MaxAttempts,
               handlers' = [handlers EXCEPT ![i] = [attempt |-> @.attempt + 1, step |-> "read",
                                                   content |-> NoVersion]],
               UNCHANGED <<eventFile, debounce, known, timer, cron, orphans, executed, raced>>
        PROVE  Typed
    <3>1. [attempt |-> handlers[i].attempt + 1, step |-> "read", content |-> NoVersion] \in FileHandler
      BY <2>2, <2>6 DEF FileHandler
    <3>2. handlers' = [handlers EXCEPT ![i] = [attempt |-> handlers[i].attempt + 1, step |-> "read",
                                               content |-> NoVersion]]
      BY <1>1, <2>6
    <3>3. handlers' \in Seq(FileHandler)
      BY <1>1, <3>1, <3>2, LenProperties, ExceptSeq
    <3> QED BY <1>1, <2>4, <2>6, <3>3
  <2>7. ASSUME DeleteFile, Interferes(v), handlers' = RemoveAt(handlers, i),
               UNCHANGED <<timer, cron, orphans, executed>>
        PROVE  Typed
    BY <1>1, <1>4, <2>3, <2>4, <2>7 DEF Interferes
  <2> QED BY <1>11, <2>5, <2>6, <2>7 DEF ParsesFile
<1>12. ASSUME NEW v \in Versions, TimerFires(v) PROVE Typed
  <2>1. orphans' \in [Versions -> Nat]
    <3>1. CASE timer = v /\ UNCHANGED orphans
      BY <1>1, <3>1
    <3>2. CASE orphans[v] > 0 /\ orphans' = [Displaced(timer) EXCEPT ![v] = @ - 1]
      <4>1. Displaced(timer) \in [Versions -> Nat]
        BY <1>1, <1>5
      <4>2. Displaced(timer)[v] > 0
        BY <1>1, <3>2 DEF Displaced
      <4> QED BY <3>2, <4>1, <4>2
    <3> QED BY <1>12, <3>1, <3>2 DEF TimerFires
  <2> QED BY <1>1, <1>4, <1>12, <2>1 DEF TimerFires, ExecuteAndDelete, Interferes
<1>13. CASE WatcherFails \/ MomDies
  <2>1. <<>> \in Seq(FileHandler)
    BY EmptySeq
  <2>2. [v \in Versions |-> 0] \in [Versions -> Nat]
    OBVIOUS
  <2>3. misfortunes' \in 0..MaxMisfortunes
    <3>1. misfortunes < MaxMisfortunes /\ misfortunes' = misfortunes + 1
      BY <1>13 DEF WatcherFails, MomDies
    <3> QED BY <1>1, <3>1
  <2>4. CASE WatcherFails
    BY <1>1, <2>3, <2>4 DEF WatcherFails
  <2>5. CASE MomDies
    <3>1. /\ mom' = "down" /\ watching' = FALSE /\ debounce' = FALSE /\ handlers' = <<>>
          /\ known' = FALSE /\ timer' = 0 /\ cron' = 0 /\ orphans' = [v \in Versions |-> 0]
          /\ UNCHANGED <<eventFile, event, ripe, executed, replaced, old, raced, missed>>
      BY <2>5 DEF MomDies
    <3>2. 0 \in 0..MaxVersions
      OBVIOUS
    <3> HIDE DEF Versions
    <3> QED BY <1>1, <2>1, <2>2, <2>3, <3>1, <3>2
  <2> QED BY <1>13, <2>4, <2>5
<1>14. CASE Start
  BY <1>1, <1>2, <1>14 DEF Start
<1>15. CASE StartFsWatcher
  BY <1>1, <1>15 DEF StartFsWatcher
<1> QED BY <1>6, <1>7, <1>8, <1>9, <1>10, <1>11, <1>12, <1>13, <1>14, <1>15 DEF MomNext, MomStep

\* Versions, timers and calls of handleFile have their types, and no timer that is in no
\* map is counted down below none.
THEOREM MomTypes == MomSpec => []MomTypeOK
<1>1. MomInit => MomTypeOK
  <2>1. 0 \in 0..MaxVersions /\ 0 \in 0..MaxMisfortunes
    BY MomAssumption
  <2>2. <<>> \in Seq([attempt : 1..MaxAttempts, step : {"read", "parse"}, content : 0..MaxVersions])
    BY EmptySeq
  <2>3. /\ [v \in Versions |-> "unwritten"] \in [Versions -> EventTypes \cup {"unwritten"}]
        /\ [v \in Versions |-> 0] \in [Versions -> Nat]
    OBVIOUS
  <2> QED BY <2>1, <2>2, <2>3 DEF MomInit, MomTypeOK, NoVersion
<1>2. MomTypeOK /\ [MomNext]_momVars => MomTypeOK'
  <2>1. ASSUME MomTypeOK, UNCHANGED momVars PROVE MomTypeOK'
    BY <2>1 DEF momVars, MomTypeOK, Versions
  <2> QED BY <2>1, MomTypesStep
<1> QED BY <1>1, <1>2, PTL DEF MomSpec

-----------------------------------------------------------------------------
(* Progress: mom leaves no event lying, and comes to rest; the calls of a       *)
(* channel come to an end, one after the other.                                  *)

\* Nothing of mom is under way, and no timer is due.
MomQuiet ==
  /\ mom = "up" /\ watching /\ ~debounce /\ handlers = <<>>
  /\ timer # NoVersion => ~Due(timer)

\* EventsTakenUp at rest: what the directory still holds waits for its time, and an
\* immediate event was executed, taken back or older than mom's start.
QuietIsTakenUp ==
  MomQuiet /\ ~raced /\ ~missed
  => /\ \/ eventFile = NoVersion \/ event[eventFile] = "periodic"
        \/ event[eventFile] = "one-shot" /\ eventFile \notin ripe
     /\ \A v \in Versions : event[v] = "immediate" => v \in executed \cup replaced \cup old

\* Each immediate event is still in the directory, or accounted for.
Accounted ==
  \A v \in Versions : event[v] = "immediate" => v \in executed \cup replaced \cup old \cup {eventFile}

\* A file that is left when nothing is under way waits for a time.
LeftForLater ==
  mom = "up" /\ handlers = <<>> =>
    ChangeToCome \/ missed \/ eventFile = NoVersion \/ event[eventFile] = "periodic" \/ IsOneShot(eventFile)

TakenInv == ~raced => Accounted /\ LeftForLater

LEMMA DirectoryTakes ==
  ASSUME TakenInv, ~raced, mom \in {"down", "scanned", "up"},
         \/ \E type \in EventTypes : Write(type)
         \/ TakeBack \/ \E v \in Versions : TimeComes(v)
  PROVE  Accounted' /\ LeftForLater'
<1>0. Accounted /\ LeftForLater
  BY DEF TakenInv
<1>1. ASSUME NEW type \in EventTypes, Write(type) PROVE Accounted' /\ LeftForLater'
  <2> DEFINE w == 1 + Cardinality(Written)
  <2>1. /\ event' = [event EXCEPT ![w] = type] /\ eventFile' = w
        /\ replaced' = IF eventFile = NoVersion THEN replaced ELSE replaced \cup {eventFile}
        /\ debounce' = (debounce \/ watching)
        /\ UNCHANGED <<executed, old, mom, watching>>
    BY <1>1 DEF Write, DirectoryChanges
  <2> HIDE DEF w
  <2>2. Accounted'
    <3> SUFFICES ASSUME NEW v \in Versions, event'[v] = "immediate"
                 PROVE  v \in executed \cup replaced' \cup old \cup {w}
      BY <2>1 DEF Accounted, Versions
    <3>1. CASE v # w
      <4>1. event[v] = "immediate"
        BY <2>1, <3>1
      <4>2. v \in executed \cup replaced \cup old \cup {eventFile} /\ v # NoVersion
        BY <1>0, <4>1 DEF Accounted, Versions, NoVersion
      <4> QED BY <2>1, <4>2
    <3> QED BY <3>1
  <2>3. LeftForLater'
    BY <2>1 DEF LeftForLater, IsOneShot, ChangeToCome
  <2> QED BY <2>2, <2>3
<1>2. CASE TakeBack
  <2>1. /\ eventFile' = NoVersion /\ replaced' = replaced \cup {eventFile}
        /\ UNCHANGED <<event, executed, old>>
    BY <1>2 DEF TakeBack, DirectoryChanges
  <2> QED BY <1>0, <2>1 DEF Accounted, LeftForLater, IsOneShot, Versions
<1>3. ASSUME NEW v \in Versions, TimeComes(v) PROVE Accounted' /\ LeftForLater'
  BY <1>0, <1>3 DEF TimeComes, Accounted, LeftForLater, IsOneShot, ChangeToCome, Versions
<1> QED BY <1>1, <1>2, <1>3

\* The steps of mom that leave the directory alone.
LEMMA OthersTake ==
  ASSUME ScheduleInv, TakenInv, ~raced,
         UNCHANGED <<eventFile, event, executed, replaced>>, old \subseteq old', missed => missed',
         mom' = "up" /\ handlers' = <<>> =>
           \/ ChangeToCome' \/ missed' \/ eventFile = NoVersion
           \/ mom = "up" /\ handlers = <<>> /\ ~ChangeToCome
  PROVE  Accounted' /\ LeftForLater'
<1>1. Accounted /\ LeftForLater
  BY DEF TakenInv
<1>2. Accounted'
  BY <1>1 DEF Accounted, Versions
<1> QED BY <1>1, <1>2 DEF LeftForLater, IsOneShot

\* mom deletes the file only when it has executed it, when it is old, or when it is no
\* immediate event.
LEMMA DeletionTakes ==
  ASSUME TakenInv, ~raced, eventFile' = NoVersion,
         UNCHANGED <<event, replaced, old>>, executed \subseteq executed',
         eventFile \in Versions /\ event[eventFile] = "immediate" => eventFile \in executed' \cup old
  PROVE  Accounted' /\ LeftForLater'
<1>1. Accounted
  BY DEF TakenInv
<1>2. Accounted'
  BY <1>1 DEF Accounted, Versions
<1> QED BY <1>2 DEF LeftForLater, IsOneShot

LEMMA ParseTakes ==
  ASSUME ScheduleInv, TakenInv, ~raced, ~raced', mom = "up", NEW i \in DOMAIN handlers, ParsesFile(i)
  PROVE  Accounted' /\ LeftForLater'
<1> DEFINE v == handlers[i].content
<1>1. /\ UNCHANGED <<event, mom, watching, missed, replaced, old>>
      /\ handlers[i].step = "parse"
      /\ \/ /\ v # NoVersion
            /\ Schedule(v) /\ Interferes(v)
            /\ handlers' = RemoveAt(handlers, i)
         \/ /\ handlers' = [handlers EXCEPT ![i] = [attempt |-> @.attempt + 1, step |-> "read",
                                                    content |-> NoVersion]]
            /\ UNCHANGED <<eventFile, debounce, executed>>
         \/ /\ v = NoVersion \/ event[v] = "unparsable"
            /\ DeleteFile /\ Interferes(v)
            /\ UNCHANGED executed
  BY DEF ParsesFile
<1>2. Orderly
  BY DEF ScheduleInv
<1>3. /\ i = 1 /\ handlers # <<>> /\ handlers[1] \in FileCall /\ handlers = <<handlers[1]>>
      /\ RemoveAt(handlers, i) = <<>>
  BY <1>2, TheOnlyReader DEF Orderly
<1>4. v \in {eventFile, NoVersion} \/ ChangeToCome
  BY <1>1, <1>2 DEF Orderly, OneReader
<1> HIDE DEF v
<1>5. CASE v # NoVersion /\ Schedule(v) /\ Interferes(v) /\ handlers' = RemoveAt(handlers, i)
  <2>1. eventFile \in {v, NoVersion}
    BY <1>5 DEF Interferes
  <2>2. CASE DeleteFile /\ UNCHANGED executed /\ (event[v] # "immediate" \/ eventFile \in old)
    <3>1. eventFile \in Versions => eventFile = v
      BY <2>1 DEF Versions, NoVersion
    <3> QED BY <1>1, <2>2, <3>1, FileDeleted, DeletionTakes
  <2>3. CASE ExecuteAndDelete(v)
    <3>1. eventFile \in Versions => eventFile = v
      BY <2>1 DEF Versions, NoVersion
    <3>2. executed' = executed \cup {v} /\ eventFile' = NoVersion
      BY <2>3, FileDeleted DEF ExecuteAndDelete
    <3> QED BY <1>1, <3>1, <3>2, DeletionTakes
  <2>4. CASE UNCHANGED <<eventFile, debounce, executed>>
             /\ (eventFile = NoVersion \/ event[v] = "periodic" \/ IsOneShot(v))
    <3>1. Accounted'
      BY <1>1, <2>4 DEF TakenInv, Accounted, Versions
    <3>2. LeftForLater'
      BY <1>1, <2>1, <2>4 DEF LeftForLater, IsOneShot
    <3> QED BY <3>1, <3>2
  <2> QED BY <1>5, <2>2, <2>3, <2>4 DEF Schedule
<1>6. CASE /\ handlers' = [handlers EXCEPT ![i] = [attempt |-> @.attempt + 1, step |-> "read",
                                                    content |-> NoVersion]]
           /\ UNCHANGED <<eventFile, debounce, executed>>
  <2>1. handlers' # <<>>
    BY <1>3, <1>6
  <2> QED BY <1>1, <1>6, <2>1 DEF TakenInv, Accounted, LeftForLater, IsOneShot, Versions
<1>7. CASE (v = NoVersion \/ event[v] = "unparsable") /\ DeleteFile /\ Interferes(v) /\ UNCHANGED executed
  <2>1. eventFile \in {v, NoVersion}
    BY <1>7 DEF Interferes
  <2>2. eventFile \in Versions => event[eventFile] = "unparsable"
    BY <1>7, <2>1 DEF Versions, NoVersion
  <2> QED BY <1>1, <1>7, <2>2, FileDeleted, DeletionTakes
<1> QED BY <1>1, <1>5, <1>6, <1>7

LEMMA RacedStays == ASSUME MomNext, raced \in BOOLEAN PROVE raced => raced'
<1>1. CASE MomStep
  <2>1. ASSUME NEW i \in DOMAIN handlers, ReadsFile(i) \/ ParsesFile(i) PROVE raced => raced'
    BY <2>1 DEF ReadsFile, ParsesFile, Interferes
  <2>2. ASSUME NEW v \in Versions, TimerFires(v) PROVE raced => raced'
    BY <2>2 DEF TimerFires, Interferes
  <2>3. CASE DebounceEnds \/ WatcherRetries
    BY <2>3 DEF DebounceEnds, WatcherRetries, RescanExisting, HandleFileChange
  <2> QED BY <1>1, <2>1, <2>2, <2>3 DEF MomStep
<1>2. CASE \/ \E type \in EventTypes : Write(type)
           \/ TakeBack \/ (\E v \in Versions : TimeComes(v))
           \/ WatcherFails \/ MomDies \/ Start \/ StartFsWatcher
  BY <1>2 DEF Write, TakeBack, TimeComes, WatcherFails, MomDies, Start, StartFsWatcher
<1> QED BY <1>1, <1>2 DEF MomNext

LEMMA TakenStep == ASSUME ScheduleInv, TakenInv, MomNext PROVE TakenInv'
<1> SUFFICES ASSUME ~raced' PROVE Accounted' /\ LeftForLater'
  BY DEF TakenInv
<1>0. ~raced /\ mom \in {"down", "scanned", "up"} /\ Orderly
  BY RacedStays DEF ScheduleInv
<1>1. CASE DebounceEnds \/ WatcherRetries
  <2>1. HandleFileChange /\ UNCHANGED <<eventFile, event, mom, executed, replaced, old, missed>>
    BY <1>1 DEF DebounceEnds, WatcherRetries, RescanExisting
  <2>2. handlers = <<>>
    BY <2>1 DEF HandleFileChange
  <2>3. Append(<<>>, [attempt |-> 1, step |-> "read", content |-> NoVersion]) # <<>>
    OBVIOUS
  <2>4. eventFile = NoVersion \/ handlers' # <<>>
    BY <2>1, <2>2, <2>3 DEF HandleFileChange, HandleFile
  <2> QED BY <1>0, <2>1, <2>4, OthersTake
<1>2. ASSUME NEW i \in DOMAIN handlers, ReadsFile(i), mom = "up" PROVE Accounted' /\ LeftForLater'
  <2>1. UNCHANGED <<eventFile, event, executed, replaced, old, missed, mom>>
    BY <1>2 DEF ReadsFile
  <2>2. handlers' # <<>>
    <3>1. handlers = <<handlers[1]>> /\ i = 1
      BY <1>0, TheOnlyReader DEF Orderly
    <3> QED BY <1>2, <3>1 DEF ReadsFile
  <2> QED BY <1>0, <2>1, <2>2, OthersTake
<1>3. ASSUME NEW v \in Versions, TimerFires(v) PROVE Accounted' /\ LeftForLater'
  <2>1. /\ eventFile' = NoVersion /\ executed' = executed \cup {v} /\ eventFile \in {v, NoVersion}
        /\ UNCHANGED <<event, replaced, old>>
    BY <1>3, FileDeleted DEF TimerFires, ExecuteAndDelete, Interferes
  <2> QED BY <1>0, <2>1, DeletionTakes DEF Versions, NoVersion
<1>4. CASE mom = "up" /\ (WatcherFails \/ MomDies)
  <2>1. UNCHANGED <<eventFile, event, executed, replaced, old, missed>>
    BY <1>4 DEF WatcherFails, MomDies
  <2>2. mom' = "up" => ChangeToCome'
    BY <1>4 DEF WatcherFails, MomDies, ChangeToCome
  <2> QED BY <1>0, <2>1, <2>2, OthersTake
<1>5. CASE Start
  <2>1. /\ UNCHANGED <<eventFile, event, executed, replaced, missed>> /\ mom' = "scanned"
        /\ old \subseteq old'
    BY <1>5 DEF Start
  <2> QED BY <1>0, <2>1, OthersTake
<1>6. CASE StartFsWatcher
  <2>1. /\ UNCHANGED <<eventFile, event, executed, replaced, old, missed, handlers>>
        /\ mom = "scanned"
    BY <1>6 DEF StartFsWatcher
  <2>2. handlers = <<>> => eventFile = NoVersion \/ missed
    BY <1>0, <2>1 DEF Orderly, NotUp
  <2> QED BY <1>0, <2>1, <2>2, OthersTake
<1> QED BY <1>0, <1>1, <1>2, <1>3, <1>4, <1>5, <1>6, DirectoryTakes, ParseTakes DEF MomNext, MomStep

\* No event is forgotten: whenever mom has nothing left to do, the directory holds nothing
\* but what waits for its time, and every immediate event is accounted for, however often the
\* file was written, the watcher failed and mom died.
THEOREM QuietIsAlwaysTakenUp == MomSpec => []QuietIsTakenUp
<1>1. MomInit => TakenInv
  BY DEF MomInit, TakenInv, Accounted, LeftForLater, IsOneShot
<1>2. ScheduleInv /\ TakenInv /\ UNCHANGED momVars => ScheduleInv' /\ TakenInv'
  BY DEF momVars, ScheduleInv, Orderly, OneSchedule, OneReader, NotUp, AtRest, Nowhere, Matches, IsOneShot,
         ChangeToCome, FileCall, Versions, TakenInv, Accounted, LeftForLater, IsOneShot
<1>3. ScheduleInv /\ TakenInv /\ [MomNext]_momVars => ScheduleInv' /\ TakenInv'
  BY <1>2, ScheduleStep, TakenStep
<1>4. ScheduleInv /\ TakenInv => QuietIsTakenUp
  <2> SUFFICES ASSUME ScheduleInv, TakenInv, MomQuiet, ~raced, ~missed
               PROVE  /\ \/ eventFile = NoVersion \/ event[eventFile] = "periodic"
                         \/ event[eventFile] = "one-shot" /\ eventFile \notin ripe
                      /\ \A v \in Versions : event[v] = "immediate" => v \in executed \cup replaced \cup old
    BY DEF QuietIsTakenUp
  <2>1. Matches /\ Accounted /\ LeftForLater /\ ~ChangeToCome
    BY DEF MomQuiet, ScheduleInv, Orderly, AtRest, TakenInv, ChangeToCome
  <2>2. \/ eventFile = NoVersion \/ event[eventFile] = "periodic"
        \/ eventFile # NoVersion /\ event[eventFile] = "one-shot" /\ timer = eventFile
    BY <2>1 DEF MomQuiet, LeftForLater, Matches, IsOneShot, Due
  <2>3. ASSUME NEW v \in Versions, event[v] = "immediate" PROVE v # eventFile
    BY <2>2, <2>3 DEF Versions, NoVersion
  <2> QED BY <2>1, <2>2, <2>3 DEF MomQuiet, Accounted, Due
<1> QED BY <1>1, <1>3, <1>4, ScheduleInitially, PTL DEF MomSpec

\* What mom has to do until it is at rest: a file to take up; a change to look at, or the
\* watcher to set again; a read to finish, each attempt in two steps; a timer that may fire.
FileLeft == IF eventFile = NoVersion THEN 0 ELSE 1
ChangesLeft == (IF debounce THEN 1 ELSE 0) + (IF watching THEN 0 ELSE 1)
ReadsLeft(calls) ==
  IF calls = <<>> THEN 0
  ELSE 2 * (MaxAttempts - calls[1].attempt) + (IF calls[1].step = "read" THEN 2 ELSE 1)
TimerLeft == IF timer = NoVersion THEN 0 ELSE 1
MomLeft == <<FileLeft, ChangesLeft, ReadsLeft(handlers), TimerLeft>>

\* Each of mom's steps leaves it less to do, however often a read has to be tried again, up
\* to what overtakes a read.
MomWindsDown == [][MomStep /\ ~raced' => Below(MomLeft', MomLeft)]_momVars

\* Which part goes down first decides.
LEMMA MomLeftBelow ==
  ASSUME \/ FileLeft' < FileLeft
         \/ FileLeft' = FileLeft /\ ChangesLeft' < ChangesLeft
         \/ /\ FileLeft' = FileLeft /\ ChangesLeft' = ChangesLeft
            /\ ReadsLeft(handlers)' < ReadsLeft(handlers)
         \/ /\ FileLeft' = FileLeft /\ ChangesLeft' = ChangesLeft
            /\ ReadsLeft(handlers)' = ReadsLeft(handlers) /\ TimerLeft' < TimerLeft
  PROVE  Below(MomLeft', MomLeft)
<1> DEFINE s == <<FileLeft', ChangesLeft', ReadsLeft(handlers)', TimerLeft'>>
           t == <<FileLeft, ChangesLeft, ReadsLeft(handlers), TimerLeft>>
<1>1. MomLeft' = s /\ MomLeft = t
  BY DEF MomLeft, ReadsLeft
<1>2. /\ DOMAIN s = 1..4
      /\ s[1] = FileLeft' /\ t[1] = FileLeft /\ s[2] = ChangesLeft' /\ t[2] = ChangesLeft
      /\ s[3] = ReadsLeft(handlers)' /\ t[3] = ReadsLeft(handlers)
      /\ s[4] = TimerLeft' /\ t[4] = TimerLeft
  OBVIOUS
<1> HIDE DEF s, t
<1>3. 1..0 = {} /\ 1..1 = {1} /\ 1..2 = {1, 2} /\ 1..3 = {1, 2, 3}
  OBVIOUS
<1>4. CASE s[1] < t[1]
  <2>1. 1 \in DOMAIN s /\ 0 = 1 - 1 /\ \A j \in 1..0 : s[j] = t[j]
    BY <1>2, <1>3
  <2> QED BY <1>1, <1>4, <2>1, BelowAt
<1>5. CASE s[1] = t[1] /\ s[2] < t[2]
  <2>1. 2 \in DOMAIN s /\ 1 = 2 - 1 /\ \A j \in 1..1 : s[j] = t[j]
    BY <1>2, <1>3, <1>5
  <2> QED BY <1>1, <1>5, <2>1, BelowAt
<1>6. CASE s[1] = t[1] /\ s[2] = t[2] /\ s[3] < t[3]
  <2>1. 3 \in DOMAIN s /\ 2 = 3 - 1 /\ \A j \in 1..2 : s[j] = t[j]
    BY <1>2, <1>3, <1>6
  <2> QED BY <1>1, <1>6, <2>1, BelowAt
<1>7. CASE s[1] = t[1] /\ s[2] = t[2] /\ s[3] = t[3] /\ s[4] < t[4]
  <2>1. 4 \in DOMAIN s /\ 3 = 4 - 1 /\ \A j \in 1..3 : s[j] = t[j]
    BY <1>2, <1>3, <1>7
  <2> QED BY <1>1, <1>7, <2>1, BelowAt
<1> QED BY <1>2, <1>4, <1>5, <1>6, <1>7

LEMMA MomLeftType == ASSUME MomTypeOK PROVE MomLeft \in [1..4 -> Nat]
<1>1. handlers # <<>> => handlers[1] \in FileHandler
  <2>1. handlers \in Seq(FileHandler)
    BY DEF MomTypeOK, FileHandler
  <2>2. handlers # <<>> => 1 \in 1..Len(handlers)
    BY <2>1, EmptySeq, LenProperties
  <2> QED BY <2>1, <2>2, ElementOfSeq
<1>2. ReadsLeft(handlers) \in Nat
  BY <1>1, MomAssumption DEF ReadsLeft, FileHandler
<1>3. FileLeft \in Nat /\ ChangesLeft \in Nat /\ TimerLeft \in Nat
  BY DEF FileLeft, ChangesLeft, TimerLeft
<1> QED BY <1>2, <1>3 DEF MomLeft

LEMMA MomStepWindsDown ==
  ASSUME MomTypeOK, ScheduleInv, MomStep, MomNext, ~raced'
  PROVE  Below(MomLeft', MomLeft)
<1>0. ~raced /\ Orderly
  BY RacedStays DEF ScheduleInv
<1>1. CASE DebounceEnds
  BY <1>1, MomLeftBelow DEF DebounceEnds, FileLeft, ChangesLeft
<1>2. CASE WatcherRetries
  <2>1. ~watching /\ watching' = TRUE /\ UNCHANGED <<eventFile, debounce>>
    BY <1>2 DEF WatcherRetries
  <2> QED BY <2>1, MomLeftBelow DEF FileLeft, ChangesLeft
\* A deletion, or the end of a read.
<1>3. ASSUME UNCHANGED watching,
             \/ UNCHANGED <<eventFile, debounce>> \/ DeleteFile,
             \/ ReadsLeft(handlers') < ReadsLeft(handlers)
             \/ UNCHANGED handlers /\ timer # NoVersion /\ timer' = NoVersion
      PROVE  Below(MomLeft', MomLeft)
  <2>1. CASE UNCHANGED <<eventFile, debounce>>
    BY <1>3, <2>1, MomLeftBelow DEF FileLeft, ChangesLeft, TimerLeft, ReadsLeft
  <2>2. CASE eventFile # NoVersion /\ eventFile' = NoVersion
    BY <2>2, MomLeftBelow DEF FileLeft
  <2> QED BY <1>3, <2>1, <2>2 DEF DeleteFile, DirectoryChanges
<1>4. ASSUME NEW i \in DOMAIN handlers, ReadsFile(i) PROVE Below(MomLeft', MomLeft)
  <2>1. i = 1 /\ handlers # <<>> /\ handlers = <<handlers[1]>> /\ handlers[1] \in FileCall
    BY <1>0, TheOnlyReader DEF Orderly
  <2> DEFINE call == [handlers[1] EXCEPT !.step = "parse", !.content = eventFile]
  <2>2. handlers' = <<call>> /\ handlers[1].step = "read"
    BY <1>4, <2>1 DEF ReadsFile
  <2>3. call.step = "parse" /\ call.attempt = handlers[1].attempt
    BY <2>1 DEF FileCall
  <2> HIDE DEF call
  <2>4. handlers' # <<>> /\ handlers'[1] = call
    BY <2>2
  <2>5. handlers[1].attempt \in Nat /\ MaxAttempts \in Nat
    BY <2>1, MomAssumption DEF FileCall
  <2>6. ReadsLeft(handlers') < ReadsLeft(handlers)
    BY <2>1, <2>2, <2>3, <2>4, <2>5 DEF ReadsLeft
  <2> QED BY <1>3, <1>4, <2>6 DEF ReadsFile
<1>5. ASSUME NEW i \in DOMAIN handlers, ParsesFile(i) PROVE Below(MomLeft', MomLeft)
  <2>1. /\ i = 1 /\ handlers # <<>> /\ handlers = <<handlers[1]>> /\ handlers[1] \in FileCall
        /\ RemoveAt(handlers, i) = <<>>
    BY <1>0, TheOnlyReader DEF Orderly
  <2>2. handlers[1].attempt \in 1..MaxAttempts /\ MaxAttempts \in Nat
    <3>1. 1 \in DOMAIN handlers
      BY <2>1
    <3>2. handlers \in Seq(FileHandler)
      BY DEF MomTypeOK, FileHandler
    <3>3. handlers[1] \in FileHandler
      BY <3>1, <3>2, ElementOfSeq, LenProperties
    <3> QED BY <3>3, MomAssumption DEF FileHandler
  <2>3. handlers[1].step = "parse" /\ UNCHANGED watching
    BY <1>5, <2>1 DEF ParsesFile
  <2>4. ReadsLeft(handlers) = 2 * (MaxAttempts - handlers[1].attempt) + 1
    BY <2>1, <2>3 DEF ReadsLeft
  <2>5. CASE handlers' = RemoveAt(handlers, i) /\ (UNCHANGED <<eventFile, debounce>> \/ DeleteFile)
    <3>1. ReadsLeft(handlers') = 0
      BY <2>1, <2>5 DEF ReadsLeft
    <3>2. ReadsLeft(handlers') < ReadsLeft(handlers)
      BY <2>2, <2>4, <3>1
    <3> QED BY <1>3, <2>3, <2>5, <3>2
  <2>6. CASE /\ handlers[i].attempt < MaxAttempts
             /\ handlers' = [handlers EXCEPT ![i] = [attempt |-> @.attempt + 1, step |-> "read",
                                                     content |-> NoVersion]]
             /\ UNCHANGED <<eventFile, debounce>>
    <3> DEFINE call == [attempt |-> handlers[1].attempt + 1, step |-> "read", content |-> NoVersion]
    <3>1. handlers' = <<call>>
      BY <2>1, <2>6
    <3>2. call.step = "read" /\ call.attempt = handlers[1].attempt + 1
      OBVIOUS
    <3> HIDE DEF call
    <3>3. handlers' # <<>> /\ handlers'[1] = call
      BY <3>1
    <3>4. ReadsLeft(handlers') = 2 * (MaxAttempts - (handlers[1].attempt + 1)) + 2
      BY <3>2, <3>3 DEF ReadsLeft
    <3>5. ReadsLeft(handlers') < ReadsLeft(handlers)
      BY <2>2, <2>4, <3>4
    <3> QED BY <1>3, <2>3, <2>6, <3>5
  <2> QED BY <1>5, <2>5, <2>6 DEF ParsesFile, Schedule, ExecuteAndDelete
<1>6. ASSUME NEW v \in Versions, TimerFires(v) PROVE Below(MomLeft', MomLeft)
  <2>1. timer = v /\ v # NoVersion
    BY <1>0, <1>6 DEF TimerFires, Orderly, OneSchedule, Versions, NoVersion
  <2> QED BY <1>3, <1>6, <2>1 DEF TimerFires, ExecuteAndDelete
<1> QED BY <1>1, <1>2, <1>4, <1>5, <1>6 DEF MomStep

\* Between two changes of its file, mom has only so much to do: no attempt, retry, deletion
\* or timer leads back (EventsWatcher).
THEOREM MomAlwaysWindsDown == MomSpec => [](MomLeft \in [1..4 -> Nat]) /\ MomWindsDown
<1>1. MomTypeOK /\ ScheduleInv /\ [MomNext]_momVars
        => [MomStep /\ ~raced' => Below(MomLeft', MomLeft)]_momVars
  BY MomStepWindsDown
<1>2. ScheduleInv /\ UNCHANGED momVars => ScheduleInv'
  BY DEF momVars, ScheduleInv, Orderly, OneSchedule, OneReader, NotUp, AtRest, Nowhere, Matches, IsOneShot,
         ChangeToCome, FileCall, Versions
<1>3. ScheduleInv /\ [MomNext]_momVars => ScheduleInv'
  BY <1>2, ScheduleStep
<1>4. MomTypeOK => MomLeft \in [1..4 -> Nat]
  BY MomLeftType
<1> QED BY <1>1, <1>3, <1>4, ScheduleInitially, MomTypes, PTL DEF MomSpec, MomWindsDown

-----------------------------------------------------------------------------
\* The steps a call of handleEvent has ahead of it.
CallLeft(calls) ==
  IF calls = <<>> THEN 0
  ELSE IF calls[1].step = "typing" THEN (IF calls[1].status = Nothing THEN 5 ELSE 4)
  ELSE [prepared |-> 3, agent |-> 2, replying |-> 1][calls[1].step]

\* What the channel has to do: the events that wait, then the call under way.
RunLeft == <<Len(queue), CallLeft(active)>>

\* Each step of a run brings its channel closer to rest, well or badly as the run may go; and
\* nothing else touches a call, except the death of mom.
RunsWindDown ==
  [][/\ RunStep => Below(RunLeft', RunLeft)
     /\ ~RunStep /\ active # <<>> => active' = active \/ BotDies]_channelVars

\* An event that waits has a call before it, whose end will take it from the queue, and a
\* channel that says it is busy has a call that can go on.
NothingWaitsUnattended ==
  /\ queue # <<>> \/ channelRunning => active # <<>>
  /\ \A i \in DOMAIN active : active[i].step = "agent" => agent.item # Nothing

QueueAttended == queue # <<>> => processing

LEMMA RunLeftBelow ==
  ASSUME \/ Len(queue') < Len(queue)
         \/ Len(queue') = Len(queue) /\ CallLeft(active') < CallLeft(active)
  PROVE  Below(RunLeft', RunLeft)
<1> DEFINE s == <<Len(queue'), CallLeft(active')>>
           t == <<Len(queue), CallLeft(active)>>
<1>1. RunLeft' = s /\ RunLeft = t
  BY DEF RunLeft, CallLeft
<1>2. /\ DOMAIN s = 1..2
      /\ s[1] = Len(queue') /\ t[1] = Len(queue) /\ s[2] = CallLeft(active') /\ t[2] = CallLeft(active)
  OBVIOUS
<1> HIDE DEF s, t
<1>3. 1..0 = {} /\ 1..1 = {1}
  OBVIOUS
<1>4. CASE s[1] < t[1]
  <2>1. 1 \in DOMAIN s /\ 0 = 1 - 1 /\ \A j \in 1..0 : s[j] = t[j]
    BY <1>2, <1>3
  <2> QED BY <1>1, <1>4, <2>1, BelowAt
<1>5. CASE s[1] = t[1] /\ s[2] < t[2]
  <2>1. 2 \in DOMAIN s /\ 1 = 2 - 1 /\ \A j \in 1..1 : s[j] = t[j]
    BY <1>2, <1>3, <1>5
  <2> QED BY <1>1, <1>5, <2>1, BelowAt
<1> QED BY <1>2, <1>4, <1>5

LEMMA RunLeftType == ASSUME ApartInv PROVE RunLeft \in [1..2 -> Nat]
<1>1. active # <<>> => active[1] \in ACall
  <2>1. active \in Seq(ACall)
    BY DEF ApartInv, Shape
  <2>2. active # <<>> => 1 \in 1..Len(active)
    BY <2>1, EmptySeq, LenProperties
  <2> QED BY <2>1, <2>2, ElementOfSeq
<1>2. CallLeft(active) \in Nat
  BY <1>1 DEF CallLeft, ACall
<1>3. Len(queue) \in Nat
  BY LenProperties DEF ApartInv, Shape
<1> QED BY <1>2, <1>3 DEF RunLeft

LEMMA CallOver ==
  ASSUME ApartInv, NEW i \in DOMAIN active, ProcessNext
  PROVE  Below(RunLeft', RunLeft)
<1>1. active # <<>> /\ active[1] \in ACall /\ Tail(active) = <<>>
  BY TheOnlyCall
<1>2. CASE queue = <<>>
  <2>1. queue' = queue /\ active' = <<>>
    BY <1>1, <1>2 DEF ProcessNext
  <2>2. CallLeft(active) \in 1..5 /\ CallLeft(active') = 0
    BY <1>1, <2>1 DEF CallLeft, ACall
  <2> QED BY <2>1, <2>2, RunLeftBelow
<1>3. CASE queue # <<>>
  <2>1. queue \in Seq(Int) /\ queue' = Tail(queue)
    BY <1>3 DEF ApartInv, Shape, ProcessNext
  <2>2. Len(queue') = Len(queue) - 1 /\ Len(queue) \in Nat
    BY <1>3, <2>1, HeadTailProperties, LenProperties
  <2>3. Len(queue') < Len(queue)
    BY <2>2
  <2> QED BY <2>3, RunLeftBelow
<1> QED BY <1>2, <1>3

LEMMA RunStepWindsDown ==
  ASSUME ApartInv, NEW i \in DOMAIN active,
         \/ PostStatus(i) \/ Prepare(i) \/ Prompt(i) \/ PromptThrows(i)
         \/ AgentEnds(i) \/ HandleEventEnds(i)
  PROVE  Below(RunLeft', RunLeft)
<1>1. i = 1 /\ active # <<>> /\ active[1] \in ACall
  BY TheOnlyCall
<1>2. CASE PostStatus(i)
  <2> DEFINE call == [active[1] EXCEPT !.status = Len(posted) + 1]
  <2>1. Len(posted) \in Nat /\ Len(posted) + 1 # Nothing
    <3>1. Len(posted) \in Nat
      BY LenProperties DEF ApartInv, Shape
    <3> QED BY <3>1 DEF Nothing
  <2>2. call \in ACall /\ call.step = active[1].step /\ call.status = Len(posted) + 1
    BY <1>1, <2>1 DEF ACall
  <2>3. active' = [active EXCEPT ![1] = call] /\ UNCHANGED queue
    BY <1>1, <1>2 DEF PostStatus
  <2> HIDE DEF call
  <2>4. active' # <<>> /\ active'[1] = call
    BY <2>2, <2>3, CallChanges
  <2>5. active[1].step = "typing" /\ active[1].status = Nothing
    BY <1>1, <1>2 DEF PostStatus
  <2>6. CallLeft(active') = 4 /\ CallLeft(active) = 5
    BY <1>1, <2>1, <2>2, <2>4, <2>5 DEF CallLeft
  <2> QED BY <2>3, <2>6, RunLeftBelow
<1>3. ASSUME NEW from \in {"typing", "prepared", "agent"}, NEW to \in {"prepared", "agent", "replying"},
             CallGoes(i, from, to), UNCHANGED queue,
             \/ from = "typing" /\ to = "prepared"
             \/ from = "prepared" /\ to = "agent"
             \/ from = "agent" /\ to = "replying"
      PROVE  Below(RunLeft', RunLeft)
  <2>1. /\ active[1].step = from /\ active' # <<>>
        /\ active'[1] = [active[1] EXCEPT !.step = to]
    BY <1>3, CallGoesOn
  <2>2. active'[1].step = to
    BY <1>1, <2>1 DEF ACall
  <2>3. CallLeft(active') < CallLeft(active)
    BY <1>1, <1>3, <2>1, <2>2 DEF CallLeft
  <2> QED BY <1>3, <2>3, RunLeftBelow
<1>4. CASE Prepare(i) \/ Prompt(i) \/ AgentEnds(i)
  BY <1>3, <1>4 DEF Prepare, Prompt, AgentEnds
<1>5. CASE PromptThrows(i) \/ HandleEventEnds(i)
  BY <1>5, CallOver DEF PromptThrows, HandleEventEnds
<1> QED BY <1>2, <1>4, <1>5

LEMMA CallsAreLeft ==
  ASSUME ApartInv, [SlackNext]_channelVars, ~RunStep, active # <<>>
  PROVE  active' = active \/ BotDies
<1>1. processing
  BY DEF ApartInv, OneCall
<1>2. ASSUME NEW ts \in inflight, Deliver(ts) PROVE active' = active
  BY <1>1, <1>2 DEF Deliver, Enqueue
<1>3. CASE EventComes
  BY <1>1, <1>3 DEF EventComes, Enqueue
<1>4. CASE \/ (\E remark \in Remarks : Post(remark)) \/ Recover \/ RecoveryEnds
           \/ Backfill \/ Connect \/ RecordStartup \/ UNCHANGED channelVars
  BY <1>4 DEF Post, Recover, RecoveryEnds, Backfill, Connect, RecordStartup, runVars, channelVars
<1>5. CASE BotDies
  BY <1>5
<1> QED BY <1>2, <1>3, <1>4, <1>5 DEF SlackNext

\* A channel works its queue off: each step of a run brings it lower in a well-founded order
\* (NoEndlessDescent), and nobody else begins, ends or sets back a call that is under way.
THEOREM RunsAlwaysWindDown == SlackSpec => [](RunLeft \in [1..2 -> Nat]) /\ RunsWindDown
<1>1. ApartInv /\ [SlackNext]_channelVars
        => [/\ RunStep => Below(RunLeft', RunLeft)
            /\ ~RunStep /\ active # <<>> => active' = active \/ BotDies]_channelVars
  BY RunStepWindsDown, CallsAreLeft DEF RunStep
<1>2. ApartInv => RunLeft \in [1..2 -> Nat]
  BY RunLeftType
<1> QED BY <1>1, <1>2, ApartInitially, ApartStep, PTL DEF SlackSpec, RunsWindDown

LEMMA QueueStaysAttended ==
  ASSUME ApartInv, QueueAttended, [SlackNext]_channelVars PROVE QueueAttended'
<1> USE DEF QueueAttended
<1>1. ASSUME NEW item, Enqueue(item) PROVE QueueAttended'
  BY <1>1 DEF Enqueue, Call
<1>2. ASSUME NEW i \in DOMAIN active, ProcessNext PROVE QueueAttended'
  BY <1>2 DEF ProcessNext
<1>3. ASSUME UNCHANGED <<queue, processing>> PROVE QueueAttended'
  BY <1>3
<1>4. ASSUME NEW ts \in inflight, Deliver(ts) PROVE QueueAttended'
  BY <1>1, <1>3, <1>4 DEF Deliver
<1>5. CASE EventComes
  BY <1>1, <1>3, <1>5 DEF EventComes
<1>6. CASE RunStep
  <2>1. PICK i \in DOMAIN active :
          \/ PostStatus(i) \/ Prepare(i) \/ Prompt(i) \/ PromptThrows(i)
          \/ AgentEnds(i) \/ HandleEventEnds(i)
    BY <1>6 DEF RunStep
  <2>2. CASE PromptThrows(i) \/ HandleEventEnds(i)
    BY <1>2, <2>2 DEF PromptThrows, HandleEventEnds
  <2>3. CASE PostStatus(i) \/ Prepare(i) \/ Prompt(i) \/ AgentEnds(i)
    BY <1>3, <2>3 DEF PostStatus, Prepare, Prompt, AgentEnds
  <2> QED BY <2>1, <2>2, <2>3
<1>7. CASE BotDies
  BY <1>7 DEF BotDies
<1>8. CASE \/ (\E remark \in Remarks : Post(remark)) \/ Recover \/ RecoveryEnds
           \/ Backfill \/ Connect \/ RecordStartup \/ UNCHANGED channelVars
  BY <1>3, <1>8 DEF Post, Recover, RecoveryEnds, Backfill, Connect, RecordStartup, runVars, channelVars
<1> QED BY <1>4, <1>5, <1>6, <1>7, <1>8 DEF SlackNext

\* An event is never left in a queue that nobody serves, and no call waits for an agent that
\* has nothing to do (ChannelQueue.processNext, run()).
THEOREM NothingIsLeftWaiting == SlackSpec => []NothingWaitsUnattended
<1>1. SlackInit => QueueAttended
  BY DEF SlackInit, QueueAttended
<1>2. ApartInv /\ QueueAttended => NothingWaitsUnattended
  <2> SUFFICES ASSUME ApartInv, QueueAttended PROVE NothingWaitsUnattended
    OBVIOUS
  <2>1. queue # <<>> \/ channelRunning => active # <<>>
    BY DEF ApartInv, OneCall, QueueAttended
  <2>2. ASSUME NEW i \in DOMAIN active, active[i].step = "agent" PROVE agent.item # Nothing
    <3>1. agent.item = active[i].item
      BY <2>2 DEF ApartInv, CtxIsCurrent
    <3>2. active[i] \in ACall
      BY TheOnlyCall
    <3> QED BY <3>1, <3>2 DEF ACall, Nothing
  <2> QED BY <2>1, <2>2 DEF NothingWaitsUnattended
<1> QED BY <1>1, <1>2, ApartInitially, ApartStep, QueueStaysAttended, PTL DEF SlackSpec
=============================================================================
