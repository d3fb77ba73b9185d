----------------------------- MODULE MessageChannel -----------------------------
(***************************************************************************)
(* What a stream of tile layers promises, and all that StringPoolSync       *)
(* assumes of it: the messages are handled whole, once and in the order in *)
(* which they were sent, and the bytes that make up a message are followed *)
(* by no others before it has been handled.                                *)
(***************************************************************************)
EXTENDS Naturals, Sequences

CONSTANT Sendable

VARIABLES sent,     \* the messages
          arrived,  \* how many of them are there to their last byte
          done      \* the messages that were handled

Init == sent = <<>> /\ arrived = 0 /\ done = <<>>

Send(m) == sent' = Append(sent, m) /\ UNCHANGED <<arrived, done>>

Arrive ==
  /\ arrived = Len(done)
  /\ arrived' \in arrived .. Len(sent)
  /\ UNCHANGED <<sent, done>>

Handle ==
  /\ Len(done) < arrived
  /\ done' = Append(done, sent[Len(done) + 1])
  /\ UNCHANGED <<sent, arrived>>

Next == Arrive \/ Handle \/ \E m \in Sendable : Send(m)

Spec == Init /\ [][Next]_<<sent, arrived, done>>
=============================================================================
