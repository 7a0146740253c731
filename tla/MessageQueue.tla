----------------------------- MODULE MessageQueue -----------------------------
(***************************************************************************)
(* What Connection promises its users: messages arrive whole, once, and in *)
(* the order they were sent; until it breaks, after which no more is       *)
(* promised than that what has arrived stays.                              *)
(***************************************************************************)
EXTENDS Integers, Sequences, SequencesExt

CONSTANT Messages

VARIABLES sent, received,  \* sequences of messages
          broken

Init == sent = <<>> /\ received = <<>> /\ ~broken

SendMessage(m) ==
  /\ sent' = Append(sent, m)
  /\ UNCHANGED <<received, broken>>

Receive ==
  /\ ~broken /\ Len(received) < Len(sent)
  /\ received' = Append(received, sent[Len(received) + 1])
  /\ UNCHANGED <<sent, broken>>

Break ==
  /\ broken' = TRUE
  /\ IsPrefix(received, received')
  /\ UNCHANGED sent

Next == Receive \/ Break \/ \E m \in Messages : SendMessage(m)

Spec == Init /\ [][Next]_<<sent, received, broken>>
==============================================================================
