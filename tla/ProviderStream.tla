--------------------------- MODULE ProviderStream ---------------------------
(***************************************************************************)
(* A model's answer on its way to the agent loop: the provider pushes events   *)
(* into its own stream; a lazily loaded provider is read by forwardStream      *)
(* (packages/ai/src/providers/register-builtins.ts), which pushes them into     *)
(* the outer stream that streamAssistantResponse (packages/agent/src/           *)
(* agent-loop.ts) reads.  The three run as tasks of one event loop.             *)
(***************************************************************************)
EXTENDS Integers, EventStream

CONSTANT MaxEvents  \* bound: events of one answer

StreamEvent == [n : 1..MaxEvents, final : BOOLEAN]

ASSUME StreamAssumption ==
  /\ MaxEvents \in Nat \ {0}
  /\ NoEvent \notin StreamEvent /\ EndOfStream \notin StreamEvent \cup {NoEvent}

VARIABLES
  module,      \* the provider's module: "loading", "loaded" or "failed"
  provider,    \* "open", "closed"
  inner,       \* the provider's stream
  outer,       \* the stream the loop was given
  forwarder,   \* "forwarding", "closed"
  loop,        \* "reading", "awaiting" (response.result()), "returned" or "threw"
  finalMessage,
  pushed, seen \* history: events pushed by the provider, events the loop has seen
streamVars == <<module, provider, inner, outer, forwarder, loop, finalMessage, pushed, seen>>

StreamTypeOK ==
  /\ module \in {"loading", "loaded", "failed"}
  /\ provider \in {"open", "closed"} /\ forwarder \in {"forwarding", "closed"}
  /\ inner \in StreamType(StreamEvent) /\ outer \in StreamType(StreamEvent)
  /\ loop \in {"reading", "awaiting", "returned", "threw"}
  /\ finalMessage \in StreamEvent \cup {NoEvent}
  /\ pushed \in Seq(StreamEvent) /\ seen \in Seq(StreamEvent)

StreamInit ==
  /\ module = "loading" /\ provider = "open" /\ forwarder = "forwarding"
  /\ inner = NewStream /\ outer = NewStream
  /\ loop = "reading" /\ finalMessage = NoEvent
  /\ pushed = <<>> /\ seen = <<>>

ModuleLoads ==
  /\ module = "loading" /\ module' = "loaded"
  /\ UNCHANGED <<provider, inner, outer, forwarder, loop, finalMessage, pushed, seen>>

\* The import fails, or module.stream() throws: the error goes into the outer stream.
ModuleFails ==
  LET e == [n |-> 1, final |-> TRUE] IN
  /\ module = "loading" /\ module' = "failed"
  /\ outer' = End(Push(outer, e, TRUE), e)
  /\ pushed' = <<e>>
  /\ UNCHANGED <<provider, inner, forwarder, loop, finalMessage, seen>>

\* One more event; "done" or "error" is followed by end().
ProviderPushes(final) ==
  LET e == [n |-> Len(pushed) + 1, final |-> final] IN
  /\ module = "loaded" /\ provider = "open" /\ Len(pushed) < MaxEvents
  /\ pushed' = Append(pushed, e)
  /\ IF final
     THEN inner' = End(Push(inner, e, TRUE), NoEvent) /\ provider' = "closed"
     ELSE inner' = Push(inner, e, FALSE) /\ UNCHANGED provider
  /\ UNCHANGED <<module, outer, forwarder, loop, finalMessage, seen>>

\* A provider that breaks the contract of StreamFunction: end() alone.
ProviderQuits ==
  /\ module = "loaded" /\ provider = "open"
  /\ inner' = End(inner, NoEvent) /\ provider' = "closed"
  /\ UNCHANGED <<module, outer, forwarder, loop, finalMessage, pushed, seen>>

\* forwardStream.
Forward ==
  /\ module = "loaded" /\ forwarder = "forwarding"
  /\ \/ /\ HasEvent(inner)
        /\ inner' = Taken(inner)
        /\ outer' = Push(outer, NextEvent(inner), NextEvent(inner).final)
        /\ UNCHANGED forwarder
     \/ /\ HasEnded(inner)
        /\ outer' = End(outer, NoEvent) /\ forwarder' = "closed"
        /\ UNCHANGED inner
     \/ /\ MustWait(inner)
        /\ inner' = Wait(inner)
        /\ UNCHANGED <<outer, forwarder>>
  /\ UNCHANGED <<module, provider, loop, finalMessage, pushed, seen>>

\* streamAssistantResponse: the completing event makes it fetch the result and
\* return; a stream that only ends makes it wait for a result.
LoopReads ==
  /\ loop = "reading"
  /\ \/ /\ HasEvent(outer)
        /\ outer' = Taken(outer)
        /\ seen' = Append(seen, NextEvent(outer))
        /\ IF NextEvent(outer).final
           THEN loop' = "returned" /\ finalMessage' = outer.result
           ELSE UNCHANGED <<loop, finalMessage>>
     \/ /\ HasEnded(outer)
        /\ loop' = "awaiting"
        /\ UNCHANGED <<outer, seen, finalMessage>>
     \/ /\ MustWait(outer)
        /\ outer' = Wait(outer)
        /\ UNCHANGED <<loop, seen, finalMessage>>
  /\ UNCHANGED <<module, provider, inner, forwarder, pushed>>

\* A listener throws while the loop hands it an event: nobody reads any more.
ListenerThrows ==
  /\ loop = "reading" /\ seen # <<>> /\ ~outer.waiting
  /\ loop' = "threw"
  /\ UNCHANGED <<module, provider, inner, outer, forwarder, finalMessage, pushed, seen>>

StreamNext ==
  \/ ModuleLoads \/ ModuleFails
  \/ \E final \in BOOLEAN : ProviderPushes(final)
  \/ ProviderQuits \/ Forward \/ LoopReads \/ ListenerThrows

StreamSpec == StreamInit /\ [][StreamNext]_streamVars

\* The event loop runs tasks that can run; a provider owes nothing.
StreamFairness == WF_streamVars(Forward) /\ WF_streamVars(LoopReads)

-----------------------------------------------------------------------------
\* Through two streams, whatever order their tasks run in, the loop hears what
\* the provider said and answers with its last message (event-stream.ts:22-52,
\* forwardStream, streamAssistantResponse).
Channel == INSTANCE EventChannel
             WITH Events <- StreamEvent, NoAnswer <- NoEvent,
                  said <- pushed, heard <- seen, answer <- finalMessage
ImplementsChannel == Channel!ChannelSpec

\* Once the provider has said its last word the loop stops reading: no wake-up is
\* lost between push() and the readers' promises.
LastWordEndsReading ==
  (pushed # <<>> /\ pushed[Len(pushed)].final) ~> loop \in {"returned", "threw"}

\* The loop hears what was said, and hears the last of it.
EverythingIsHeard == ImplementsChannel /\ LastWordEndsReading
=============================================================================
