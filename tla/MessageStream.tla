---------------------------- MODULE MessageStream ----------------------------
(***************************************************************************)
(* What one direction of a game connection promises to the two programs    *)
(* that share it: messages arrive whole, once each, in the order in which  *)
(* they were handed over, and nothing arrives that was not handed over.    *)
(* How many of them arrive is open: the connection may be lost.            *)
(***************************************************************************)
EXTENDS Naturals, Sequences

CONSTANT Message        \* the messages the programs exchange

VARIABLES
    sent,               \* messages handed over for sending, oldest first
    received            \* messages handed to the receiver, oldest first

streamVars == <<sent, received>>

StreamTypeOK == sent \in Seq(Message) /\ received \in Seq(Message)

StreamInit == sent = <<>> /\ received = <<>>

Send(m) == sent' = Append(sent, m) /\ UNCHANGED received

Receive ==
    /\ Len(received) < Len(sent)
    /\ received' = Append(received, sent[Len(received) + 1])
    /\ UNCHANGED sent

StreamNext == Receive \/ \E m \in Message : Send(m)

StreamSpec == StreamInit /\ [][StreamNext]_streamVars
=============================================================================
