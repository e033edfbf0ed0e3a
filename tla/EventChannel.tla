---------------------------- MODULE EventChannel ----------------------------
(***************************************************************************)
(* What a stream of events promises the agent loop: it hears what the        *)
(* provider said, each event once and in that order, and its answer is the    *)
(* message of the completing event.                                           *)
(***************************************************************************)
EXTENDS Naturals, Sequences

CONSTANTS Events, NoAnswer
VARIABLES said, heard, answer

Finished(events) == events # <<>> /\ events[Len(events)].final

ChannelInit == said = <<>> /\ heard = <<>> /\ answer = NoAnswer

Say(e) ==
  /\ ~Finished(said)
  /\ said' = Append(said, e)
  /\ UNCHANGED <<heard, answer>>

Hear ==
  /\ Len(heard) < Len(said)
  /\ LET e == said[Len(heard) + 1] IN
     /\ heard' = Append(heard, e)
     /\ answer' = IF e.final THEN e ELSE answer
  /\ UNCHANGED said

ChannelNext == (\E e \in Events : Say(e)) \/ Hear

ChannelSpec == ChannelInit /\ [][ChannelNext]_<<said, heard, answer>>
=============================================================================
