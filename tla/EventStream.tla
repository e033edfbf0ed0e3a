----------------------------- MODULE EventStream -----------------------------
(***************************************************************************)
(* class EventStream (packages/ai/src/utils/event-stream.ts): a queue of     *)
(* events between a producer and one reader, with a final result beside it.   *)
(* A stream is a value; each operator is one of its methods.  A promise that  *)
(* is resolved but whose waiter has not run yet keeps its value in `woken`.   *)
(***************************************************************************)
EXTENDS Sequences

CONSTANTS NoEvent, EndOfStream

NewStream == [queue |-> <<>>, waiting |-> FALSE, woken |-> NoEvent,
              done |-> FALSE, result |-> NoEvent]

StreamType(Events) ==
  [queue : Seq(Events), waiting : BOOLEAN, woken : Events \cup {NoEvent, EndOfStream},
   done : BOOLEAN, result : Events \cup {NoEvent}]

\* Mutant: an event is queued even while the reader waits for one.
PushToQueue(s, e, complete) ==
  IF s.done THEN s
  ELSE [s EXCEPT !.done = complete, !.result = IF complete THEN e ELSE NoEvent,
                 !.queue = Append(s.queue, e)]

\* push(event): the reader that waits gets it, else it is queued.  After the
\* completing event, whose message is the result, events are dropped.
Push(s, e, complete) ==
  IF s.done THEN s
  ELSE [s EXCEPT !.done = complete, !.result = IF complete THEN e ELSE NoEvent,
                 !.queue = IF s.waiting THEN s.queue ELSE Append(s.queue, e),
                 !.woken = IF s.waiting THEN e ELSE s.woken,
                 !.waiting = FALSE]

\* end(result?): a promise is resolved once, so an earlier result stays.
End(s, r) ==
  [s EXCEPT !.done = TRUE, !.result = IF s.result = NoEvent THEN r ELSE s.result,
            !.woken = IF s.waiting THEN EndOfStream ELSE s.woken, !.waiting = FALSE]

\* Mutant: the queue goes before the event that woke the reader.
QueueFirst(s) == IF s.queue # <<>> THEN Head(s.queue) ELSE s.woken

(* The reader's `for await`: it has an event, has seen the end, or must wait.  *)
HasEvent(s) == ~s.waiting /\ s.woken # EndOfStream /\ (s.woken # NoEvent \/ s.queue # <<>>)
NextEvent(s) == IF s.woken = NoEvent THEN Head(s.queue) ELSE s.woken
Taken(s) == IF s.woken = NoEvent THEN [s EXCEPT !.queue = Tail(s.queue)]
            ELSE [s EXCEPT !.woken = NoEvent]
HasEnded(s) == /\ ~s.waiting
               /\ s.woken = EndOfStream \/ (s.woken = NoEvent /\ s.queue = <<>> /\ s.done)
MustWait(s) == ~s.waiting /\ ~HasEvent(s) /\ ~HasEnded(s)
Wait(s) == [s EXCEPT !.waiting = TRUE]

\* The events on their way to the reader.
Undelivered(s) == (IF s.woken \in {NoEvent, EndOfStream} THEN <<>> ELSE <<s.woken>>) \o s.queue
=============================================================================
