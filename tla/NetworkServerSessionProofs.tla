--------------------- MODULE NetworkServerSessionProofs ---------------------
(***************************************************************************)
(* The write queue and the read loop form a reliable message stream, for   *)
(* every set of messages, any number of deliveries and any socket buffer.  *)
(* IInv says where every message is: message number k was delivered k-th,  *)
(* is at place k - popped of the queue if it is still queued, and became   *)
(* pieces 2k - 1 and 2k of the wire.                                       *)
(***************************************************************************)
EXTENDS NetworkServerSession, FiniteSetTheorems, SequenceTheorems, TLAPS

\* The queue is the delivered messages that pop_front has not removed.
QueueInv ==
    /\ popped + Len(writeMessageQueue) = Len(delivered)
    /\ \A i \in 1..Len(writeMessageQueue) :
           writeMessageQueue[i] = delivered[popped + i]

\* At most one write runs, it reads the front, and the wire holds the pieces
\* of the popped messages and of what this write has done.
WriteInv ==
    /\ writeMessageQueue = <<>> => writes = {} /\ Len(wire) = 2 * popped
    /\ writeMessageQueue # <<>> =>
         \/ \E d \in 0..2 : /\ writes = {[index |-> popped + 1, done |-> d]}
                            /\ Len(wire) = 2 * popped + d
         \/ /\ writes = {}
            /\ Len(wire) \in {2 * popped, 2 * popped + 1}
            /\ ~open
            /\ closeSignals > 0

\* Message k is pieces 2k - 1 and 2k of the wire.
WireInv ==
    \A k \in 1..Len(delivered) :
        /\ 2 * k - 1 <= Len(wire) =>
               wire[2 * k - 1] = [part |-> "header", of |-> delivered[k]]
        /\ 2 * k <= Len(wire) =>
               wire[2 * k] = [part |-> "content", of |-> delivered[k]]

\* The reader is at a message boundary when it expects a header.
ReadInv ==
    /\ consumed <= Len(wire)
    /\ 2 * Len(received) <= consumed
    /\ readState = "header" => consumed = 2 * Len(received)
    /\ readState = "content" => /\ consumed = 2 * Len(received) + 1
                                /\ currentMessage = wire[consumed]
    /\ \A k \in 1..Len(received) : received[k] = delivered[k]

IInv == TypeOK /\ QueueInv /\ WriteInv /\ WireInv /\ ReadInv

-----------------------------------------------------------------------------

(* The constructor and start() leave everything empty and in place.         *)
LEMMA InitIInv == Init => IInv
  BY DEF Init, IInv, TypeOK, QueueInv, WriteInv, WireInv, ReadInv, Piece

(* Whole messages lie on the wire up to the front of the queue, and no      *)
(* piece of an undelivered one does.                                        *)
LEMMA WireLength == IInv => Len(wire) <= 2 * Len(delivered)
<1>1. SUFFICES ASSUME IInv PROVE Len(wire) <= 2 * Len(delivered)
  OBVIOUS
<1>2. Len(writeMessageQueue) \in Nat /\ Len(wire) \in Nat /\ Len(delivered) \in Nat /\ popped \in Nat
  BY <1>1 DEF IInv, TypeOK
<1>3. CASE writeMessageQueue = <<>>
  BY <1>1, <1>2, <1>3 DEF IInv, QueueInv, WriteInv
<1>4. CASE writeMessageQueue # <<>>
  <2>1. Len(writeMessageQueue) >= 1
    BY <1>1, <1>2, <1>4 DEF IInv, TypeOK
  <2>2. Len(wire) <= 2 * popped + 2
    BY <1>1, <1>2, <1>4 DEF IInv, WriteInv
  <2>. QED BY <1>1, <1>2, <2>1, <2>2 DEF IInv, QueueInv
<1>. QED BY <1>3, <1>4

(* A write that runs is the only one and reads the front of the queue.      *)
LEMMA RunningWrite ==
  ASSUME IInv, NEW w \in writes
  PROVE  /\ writes = {w}
         /\ w.done \in 0..2
         /\ w = [index |-> popped + 1, done |-> w.done]
         /\ writeMessageQueue # <<>>
         /\ Len(wire) = 2 * popped + w.done
<1>1. writeMessageQueue # <<>>
  BY DEF IInv, WriteInv
<1>2. PICK d \in 0..2 : /\ writes = {[index |-> popped + 1, done |-> d]}
                        /\ Len(wire) = 2 * popped + d
  BY <1>1 DEF IInv, WriteInv
<1>3. w = [index |-> popped + 1, done |-> d]
  BY <1>2
<1>. QED BY <1>1, <1>2, <1>3

(* deliver keeps the invariant: the message goes to the end of queue and    *)
(* history alike, and starts a write only where none runs.                  *)
LEMMA DeliverIInv == ASSUME IInv, NEW m \in Message, Deliver(m) PROVE IInv'
<1>. USE DEF IInv
<1>1. TypeOK'
  BY DEF TypeOK, Deliver, WriteOf, clientVars
<1>2. /\ Len(delivered') = Len(delivered) + 1
      /\ delivered'[Len(delivered) + 1] = m
      /\ \A k \in 1..Len(delivered) : delivered'[k] = delivered[k]
  BY DEF TypeOK, Deliver
<1>3. /\ Len(writeMessageQueue') = Len(writeMessageQueue) + 1
      /\ writeMessageQueue'[Len(writeMessageQueue) + 1] = m
      /\ \A k \in 1..Len(writeMessageQueue) : writeMessageQueue'[k] = writeMessageQueue[k]
  BY DEF TypeOK, Deliver
<1>4. UNCHANGED <<popped, wire, open, closeSignals, consumed, readState, currentMessage, received>>
  BY DEF Deliver, clientVars
<1>5. QueueInv'
  <2>. /\ Len(delivered) \in Nat /\ Len(writeMessageQueue) \in Nat /\ popped \in Nat
       /\ popped + Len(writeMessageQueue) = Len(delivered)
    BY DEF TypeOK, QueueInv
  <2>. SUFFICES ASSUME NEW i \in 1..Len(writeMessageQueue')
                PROVE  writeMessageQueue'[i] = delivered'[popped + i]
    BY <1>2, <1>3, <1>4 DEF QueueInv
  <2>1. CASE i <= Len(writeMessageQueue)
    <3>1. i \in 1..Len(writeMessageQueue) /\ popped + i \in 1..Len(delivered)
      BY <1>3, <2>1
    <3>. QED BY <1>2, <1>3, <3>1 DEF QueueInv
  <2>2. CASE i = Len(writeMessageQueue) + 1
    BY <1>2, <1>3, <2>2
  <2>. QED BY <1>3, <2>1, <2>2
<1>6. WriteInv'
  <2>1. writeMessageQueue' # <<>>
    BY <1>3 DEF TypeOK
  <2>2. CASE writeMessageQueue = <<>>
    <3>1. writes' = {[index |-> popped + 1, done |-> 0]} /\ Len(wire) = 2 * popped + 0
      BY <2>2 DEF Deliver, IsWriteInProgress, WriteOf, WriteInv, TypeOK
    <3>. QED BY <1>4, <2>1, <3>1 DEF WriteInv
  <2>3. CASE writeMessageQueue # <<>>
    BY <1>4, <2>1, <2>3 DEF Deliver, IsWriteInProgress, WriteInv
  <2>. QED BY <2>2, <2>3
<1>7. Len(wire) <= 2 * Len(delivered)
  BY WireLength
<1>8. WireInv'
  <2>. Len(delivered) \in Nat /\ Len(wire) \in Nat
    BY DEF TypeOK
  <2>. SUFFICES ASSUME NEW k \in 1..Len(delivered')
                PROVE  /\ 2 * k - 1 <= Len(wire) =>
                            wire[2 * k - 1] = [part |-> "header", of |-> delivered'[k]]
                       /\ 2 * k <= Len(wire) =>
                            wire[2 * k] = [part |-> "content", of |-> delivered'[k]]
    BY <1>4 DEF WireInv
  <2>1. CASE k \in 1..Len(delivered)
    BY <1>2, <2>1 DEF WireInv
  <2>2. CASE k = Len(delivered) + 1
    BY <1>7, <2>2
  <2>. QED BY <1>2, <2>1, <2>2
<1>9. ReadInv'
  <2>1. Len(received) <= Len(delivered)
    BY <1>7 DEF ReadInv, TypeOK
  <2>. QED BY <1>2, <1>4, <2>1 DEF ReadInv, TypeOK
<1>. QED BY <1>1, <1>5, <1>6, <1>8, <1>9

(* A piece the socket takes is the next piece of the queue's front, which   *)
(* is still alive.                                                          *)
LEMMA WriteSomeIInv == ASSUME IInv, NEW w \in writes, WriteSome(w) PROVE IInv'
<1>. USE DEF IInv
<1>. DEFINE piece == [part |-> IF w.done = 0 THEN "header" ELSE "content",
                      of |-> delivered[popped + 1]]
<1>1. /\ writes = {w} /\ w.done \in 0..2
      /\ w = [index |-> popped + 1, done |-> w.done]
      /\ writeMessageQueue # <<>> /\ Len(wire) = 2 * popped + w.done
  BY RunningWrite
<1>2. Len(writeMessageQueue) >= 1 /\ 1 \in DOMAIN writeMessageQueue
  BY <1>1 DEF TypeOK
<1>3. w.index = popped + 1 /\ Buffer(w.index) = delivered[popped + 1]
  BY <1>1, <1>2 DEF TypeOK, Buffer, QueueInv
<1>4. popped + 1 \in 1..Len(delivered) /\ delivered[popped + 1] \in Message
  BY <1>2 DEF TypeOK, QueueInv
<1>5. piece \in Piece
  BY <1>4 DEF Piece
<1>6. w.done \in {0, 1} /\ wire' = Append(wire, piece)
  BY <1>1, <1>3 DEF WriteSome, DataLength
<1>7. /\ Len(wire') = Len(wire) + 1
      /\ wire'[Len(wire) + 1] = piece
      /\ \A k \in 1..Len(wire) : wire'[k] = wire[k]
  BY <1>5, <1>6 DEF TypeOK
<1>8. UNCHANGED <<writeMessageQueue, popped, sessionReading, closeSignals, open,
                  delivered, consumed, readState, currentMessage, received>>
  BY DEF WriteSome, clientVars
<1>9. writes' = {[index |-> popped + 1, done |-> w.done + 1]}
  <2>1. [w EXCEPT !.done = @ + 1] = [index |-> popped + 1, done |-> w.done + 1]
    BY <1>1
  <2>2. writes' = (writes \ {w}) \cup {[w EXCEPT !.done = @ + 1]}
    BY DEF WriteSome
  <2>. QED BY <1>1, <2>1, <2>2
<1>10. TypeOK'
  <2>1. wire' \in Seq(Piece)
    BY <1>5, <1>6 DEF TypeOK
  <2>2. writes' \in SUBSET [index : Nat \ {0}, done : 0..2]
    BY <1>6, <1>9 DEF TypeOK
  <2>. QED BY <1>8, <2>1, <2>2 DEF TypeOK
<1>11. QueueInv'
  BY <1>8 DEF QueueInv
<1>12. WriteInv'
  <2>1. w.done + 1 \in 0..2 /\ Len(wire') = 2 * popped' + (w.done + 1)
    BY <1>1, <1>6, <1>7, <1>8 DEF TypeOK
  <2>2. writes' = {[index |-> popped' + 1, done |-> w.done + 1]} /\ writeMessageQueue' # <<>>
    BY <1>1, <1>8, <1>9
  <2>. QED BY <2>1, <2>2 DEF WriteInv
<1>13. WireInv'
  <2>. SUFFICES ASSUME NEW k \in 1..Len(delivered)
                PROVE  /\ 2 * k - 1 <= Len(wire') =>
                            wire'[2 * k - 1] = [part |-> "header", of |-> delivered[k]]
                       /\ 2 * k <= Len(wire') =>
                            wire'[2 * k] = [part |-> "content", of |-> delivered[k]]
    BY <1>8 DEF WireInv
  <2>. Len(delivered) \in Nat /\ Len(wire) \in Nat /\ popped \in Nat
    BY DEF TypeOK
  <2>1. CASE k <= popped
    <3>1. 2 * k - 1 \in 1..Len(wire) /\ 2 * k \in 1..Len(wire)
      BY <1>1, <1>6, <2>1
    <3>2. wire'[2 * k - 1] = wire[2 * k - 1] /\ wire'[2 * k] = wire[2 * k]
      BY <1>7, <3>1
    <3>3. /\ wire[2 * k - 1] = [part |-> "header", of |-> delivered[k]]
          /\ wire[2 * k] = [part |-> "content", of |-> delivered[k]]
      BY <3>1 DEF WireInv
    <3>. QED BY <3>2, <3>3
  <2>2. CASE k = popped + 1
    <3>1. CASE w.done = 0
      BY <1>1, <1>7, <2>2, <3>1
    <3>2. CASE w.done = 1
      <4>1. Len(wire) = 2 * k - 1 /\ piece = [part |-> "content", of |-> delivered[k]]
        BY <1>1, <2>2, <3>2
      <4>2. wire'[2 * k - 1] = wire[2 * k - 1]
        BY <1>7, <4>1
      <4>. QED BY <1>7, <4>1, <4>2 DEF WireInv
    <3>. QED BY <1>6, <3>1, <3>2
  <2>3. CASE k > popped + 1
    BY <1>1, <1>6, <1>7, <2>3
  <2>. QED BY <2>1, <2>2, <2>3
<1>14. ReadInv'
  BY <1>7, <1>8 DEF ReadInv, TypeOK
<1>. QED BY <1>10, <1>11, <1>12, <1>13, <1>14

(* handleWrite without an error: the front leaves the queue complete, and   *)
(* the next write starts where the wire ends.                               *)
LEMMA HandleWriteIInv == ASSUME IInv, NEW w \in writes, HandleWrite(w) PROVE IInv'
<1>. USE DEF IInv
<1>1. /\ writes = {w} /\ w.done = 2 /\ writeMessageQueue # <<>>
      /\ Len(wire) = 2 * popped + 2
  BY RunningWrite DEF HandleWrite, DataLength
<1>2. /\ Len(writeMessageQueue) \in Nat /\ Len(writeMessageQueue) >= 1
      /\ Len(wire) \in Nat /\ Len(delivered) \in Nat /\ popped \in Nat
      /\ popped + Len(writeMessageQueue) = Len(delivered)
  BY <1>1 DEF TypeOK, QueueInv
<1>3. /\ writeMessageQueue' \in Seq(Message)
      /\ Len(writeMessageQueue') = Len(writeMessageQueue) - 1
      /\ \A i \in 1..Len(writeMessageQueue') :
             writeMessageQueue'[i] = writeMessageQueue[i + 1]
  BY <1>1, <1>2 DEF TypeOK, HandleWrite
<1>4. popped' = popped + 1
  BY DEF HandleWrite
<1>5. UNCHANGED <<sessionReading, closeSignals, open, wire, delivered,
                  consumed, readState, currentMessage, received>>
  BY DEF HandleWrite, clientVars
<1>6. writes' = IF writeMessageQueue' = <<>>
                THEN {} ELSE {[index |-> popped + 2, done |-> 0]}
  BY <1>1 DEF HandleWrite, NextWrite, WriteOf
<1>7. TypeOK'
  <2>1. writes' \in SUBSET [index : Nat \ {0}, done : 0..2]
    BY <1>2, <1>6
  <2>. QED BY <1>2, <1>3, <1>4, <1>5, <2>1 DEF TypeOK
<1>8. QueueInv'
  <2>1. popped' + Len(writeMessageQueue') = Len(delivered')
    <3>1. Len(delivered') = Len(delivered)
      BY <1>5
    <3>2. Len(writeMessageQueue') = Len(writeMessageQueue) - 1
      BY <1>3
    <3>. QED BY <1>2, <1>4, <3>1, <3>2
  <2>2. ASSUME NEW i \in 1..Len(writeMessageQueue')
        PROVE  writeMessageQueue'[i] = delivered'[popped' + i]
    <3>1. i + 1 \in 1..Len(writeMessageQueue) /\ popped + (i + 1) = popped' + i
      BY <1>2, <1>3, <1>4
    <3>. QED BY <1>3, <1>5, <3>1 DEF QueueInv
  <2>. QED BY <2>1, <2>2 DEF QueueInv
<1>9. WriteInv'
  <2>1. Len(wire') = 2 * popped' + 0
    BY <1>1, <1>2, <1>4, <1>5
  <2>2. CASE writeMessageQueue' = <<>>
    BY <1>6, <2>1, <2>2, <1>2, <1>4 DEF WriteInv
  <2>3. CASE writeMessageQueue' # <<>>
    <3>1. writes' = {[index |-> popped' + 1, done |-> 0]}
      <4>1. popped + 2 = popped' + 1
        BY <1>2, <1>4
      <4>. QED BY <1>6, <2>3, <4>1
    <3>. QED BY <2>1, <2>3, <3>1 DEF WriteInv
  <2>. QED BY <2>2, <2>3
<1>10. WireInv' /\ ReadInv'
  BY <1>5 DEF WireInv, ReadInv
<1>. QED BY <1>7, <1>8, <1>9, <1>10

(* handleWrite with an error: the write is gone, its message stays the      *)
(* front, and the closed connection carries nothing more.                   *)
LEMMA HandleWriteErrorIInv ==
  ASSUME IInv, NEW w \in writes, HandleWriteError(w) PROVE IInv'
<1>. USE DEF IInv
<1>1. /\ writes = {w} /\ w.done \in {0, 1} /\ writeMessageQueue # <<>>
      /\ Len(wire) = 2 * popped + w.done
  BY RunningWrite DEF HandleWriteError, DataLength
<1>2. writeMessageQueue' = writeMessageQueue /\ popped' = popped
  BY DEF HandleWriteError, PoppedOnError, TypeOK
<1>3. writes' = {} /\ ~open /\ closeSignals' = closeSignals + 1
  BY <1>1 DEF HandleWriteError
<1>4. UNCHANGED <<sessionReading, open, wire, delivered,
                  consumed, readState, currentMessage, received>>
  BY DEF HandleWriteError, clientVars
<1>5. TypeOK'
  BY <1>2, <1>3, <1>4 DEF TypeOK
<1>6. WriteInv'
  BY <1>1, <1>2, <1>3, <1>4 DEF WriteInv, TypeOK
<1>7. QueueInv' /\ WireInv' /\ ReadInv'
  BY <1>2, <1>4 DEF QueueInv, WireInv, ReadInv
<1>. QED BY <1>5, <1>6, <1>7

(* The two reads of the client: a header is the next undelivered message's, *)
(* a content is that of the header read before it.                          *)
LEMMA HandleReadHeaderIInv == ASSUME IInv, HandleReadHeader PROVE IInv'
<1>. USE DEF IInv
<1>1. UNCHANGED <<writeMessageQueue, popped, writes, sessionReading,
                  closeSignals, open, wire, delivered, received>>
  BY DEF HandleReadHeader, sessionVars
<1>2. /\ consumed' = consumed + 1 /\ consumed + 1 \in 1..Len(wire)
      /\ currentMessage' = wire[consumed + 1] /\ readState' = "content"
      /\ consumed = 2 * Len(received)
  BY DEF HandleReadHeader, TypeOK, ReadInv
<1>3. TypeOK'
  BY <1>1, <1>2 DEF TypeOK
<1>4. QueueInv' /\ WriteInv' /\ WireInv'
  BY <1>1 DEF QueueInv, WriteInv, WireInv
<1>5. ReadInv'
  BY <1>1, <1>2 DEF ReadInv, TypeOK
<1>. QED BY <1>3, <1>4, <1>5

LEMMA ReadBodyReceives ==
  ASSUME IInv, HandleReadBody
  PROVE  /\ Len(received) < Len(delivered)
         /\ received' = Append(received, delivered[Len(received) + 1])
<1>. USE DEF IInv
<1>. DEFINE k == Len(received) + 1
<1>1. Len(received) \in Nat /\ Len(delivered) \in Nat /\ Len(wire) \in Nat
  BY DEF TypeOK
<1>2. /\ consumed = 2 * k - 1 /\ consumed + 1 = 2 * k /\ 2 * k <= Len(wire)
      /\ currentMessage = wire[2 * k - 1]
  BY <1>1 DEF HandleReadBody, ReadInv, TypeOK
<1>3. k \in 1..Len(delivered)
  BY <1>1, <1>2, WireLength
<1>4. /\ wire[2 * k - 1] = [part |-> "header", of |-> delivered[k]]
      /\ wire[2 * k] = [part |-> "content", of |-> delivered[k]]
  BY <1>1, <1>2, <1>3 DEF WireInv
<1>5. Assembled(currentMessage, wire[consumed + 1]) = delivered[k]
  BY <1>2, <1>4 DEF Assembled
<1>. QED BY <1>1, <1>3, <1>5 DEF HandleReadBody

LEMMA HandleReadBodyIInv == ASSUME IInv, HandleReadBody PROVE IInv'
<1>. USE DEF IInv
<1>1. UNCHANGED <<writeMessageQueue, popped, writes, sessionReading,
                  closeSignals, open, wire, delivered, currentMessage>>
  BY DEF HandleReadBody, sessionVars
<1>2. /\ Len(received) \in Nat /\ Len(received) + 1 \in 1..Len(delivered)
      /\ received' = Append(received, delivered[Len(received) + 1])
  BY ReadBodyReceives DEF TypeOK
<1>3. /\ Len(received') = Len(received) + 1
      /\ received' \in Seq(Message \cup {Damaged})
      /\ \A k \in 1..Len(received') : received'[k] = delivered[k]
  BY <1>2 DEF TypeOK, ReadInv
<1>4. /\ consumed' = consumed + 1 /\ consumed' <= Len(wire)
      /\ consumed' = 2 * Len(received') /\ readState' = "header"
  BY <1>2, <1>3 DEF HandleReadBody, TypeOK, ReadInv
<1>5. TypeOK'
  BY <1>1, <1>3, <1>4 DEF TypeOK
<1>6. QueueInv' /\ WriteInv' /\ WireInv'
  BY <1>1 DEF QueueInv, WriteInv, WireInv
<1>7. ReadInv'
  BY <1>1, <1>3, <1>4 DEF ReadInv
<1>. QED BY <1>5, <1>6, <1>7

(* The remaining steps only break the connection or stop a reader.          *)
LEMMA LossIInv ==
  ASSUME IInv, HandleReadError \/ ConnectionLost \/ ClientReadError \/ UNCHANGED vars
  PROVE  IInv'
<1>. USE DEF IInv
<1>1. UNCHANGED <<writeMessageQueue, popped, writes, wire, delivered, consumed,
                  currentMessage, received>>
  BY DEF HandleReadError, ConnectionLost, ClientReadError, sessionVars, clientVars, vars
<1>2. /\ readState' \in {readState, "failed"}
      /\ closeSignals' \in Nat /\ (closeSignals > 0 => closeSignals' > 0)
      /\ open' \in BOOLEAN /\ (~open => ~open')
      /\ sessionReading' \in BOOLEAN
  <2>1. CASE HandleReadError
    <3>1. readState' = readState /\ open' = open /\ sessionReading' = FALSE
      BY <2>1 DEF HandleReadError, clientVars
    <3>2. closeSignals' \in Nat /\ closeSignals' > 0
      BY <2>1 DEF HandleReadError, TypeOK
    <3>. QED BY <3>1, <3>2 DEF TypeOK
  <2>2. CASE ConnectionLost
    BY <2>2 DEF ConnectionLost, sessionVars, clientVars, TypeOK
  <2>3. CASE ClientReadError
    BY <2>3 DEF ClientReadError, sessionVars, TypeOK
  <2>4. CASE UNCHANGED vars
    BY <2>4 DEF vars, TypeOK
  <2>. QED BY <2>1, <2>2, <2>3, <2>4
<1>3. TypeOK'
  BY <1>1, <1>2 DEF TypeOK
<1>4. QueueInv' /\ WireInv' /\ ReadInv'
  BY <1>1, <1>2 DEF QueueInv, WireInv, ReadInv
<1>5. WriteInv'
  BY <1>1, <1>2 DEF WriteInv, TypeOK
<1>. QED BY <1>3, <1>4, <1>5

(* The invariant is inductive.                                              *)
LEMMA NextIInv == IInv /\ [Next]_vars => IInv'
<1>. SUFFICES ASSUME IInv, [Next]_vars PROVE IInv'
  OBVIOUS
<1>1. CASE \E m \in Message : Deliver(m)
  BY <1>1, DeliverIInv
<1>2. CASE Session
  BY <1>2, WriteSomeIInv, HandleWriteIInv, HandleWriteErrorIInv DEF Session
<1>3. CASE HandleReadHeader \/ HandleReadBody
  BY <1>3, HandleReadHeaderIInv, HandleReadBodyIInv
<1>4. CASE HandleReadError \/ ConnectionLost \/ ClientReadError \/ UNCHANGED vars
  BY <1>4, LossIInv
<1>. QED BY <1>1, <1>2, <1>3, <1>4 DEF Next, Client

-----------------------------------------------------------------------------

(* In every state of every instance the queue, the running write, the wire  *)
(* and the reader are where IInv says.                                      *)
THEOREM Invariance == Spec => []IInv
  BY InitIInv, NextIInv, PTL DEF Spec

(* The session's state has its types, the received messages included.       *)
THEOREM TypeCorrect == Spec => []TypeOK
<1>1. IInv => TypeOK
  BY DEF IInv
<1>. QED BY <1>1, Invariance, PTL

(* Two threads calling deliver never have two writes on the socket at once. *)
THEOREM WritesAreExclusive == Spec => []OneWriteInFlight
<1>1. IInv => OneWriteInFlight
  <2>. SUFFICES ASSUME IInv PROVE Cardinality(writes) <= 1
    BY DEF OneWriteInFlight
  <2>1. CASE writes = {}
    BY <2>1, FS_EmptySet
  <2>2. CASE writes # {}
    <3>1. PICK w \in writes : writes = {w}
      BY <2>2, RunningWrite
    <3>2. Cardinality({w}) = 1
      BY FS_Singleton
    <3>. QED BY <3>1, <3>2
  <2>. QED BY <2>1, <2>2
<1>. QED BY <1>1, Invariance, PTL

(* A running write always reads a message that is still in the queue.       *)
THEOREM BufferStaysAlive == Spec => []BufferIsFront
<1>1. IInv => BufferIsFront
  <2>. SUFFICES ASSUME IInv, NEW w \in writes
                PROVE  w.index = popped + 1 /\ writeMessageQueue # <<>>
    BY DEF BufferIsFront
  <2>. QED BY RunningWrite
<1>. QED BY <1>1, Invariance, PTL

(* No queued message waits without a write that will reach it.              *)
THEOREM NoLostWakeup == Spec => []QueuedIsWritten
<1>1. IInv => QueuedIsWritten
  BY DEF IInv, WriteInv, QueuedIsWritten
<1>. QED BY <1>1, Invariance, PTL

(* Whatever was delivered is still queued, in order, or went to the wire    *)
(* as the pieces that follow those of the message delivered before it.      *)
THEOREM NoMessageSkipped == Spec => []NothingSkipped
<1>1. ASSUME IInv PROVE NothingSkipped
  <2>. USE <1>1 DEF IInv
  <2>1. /\ Len(wire) \in Nat /\ Len(delivered) \in Nat /\ popped \in Nat
        /\ Len(writeMessageQueue) \in Nat
        /\ popped + Len(writeMessageQueue) = Len(delivered)
    BY DEF TypeOK, QueueInv
  <2>2. Len(wire) >= 2 * popped
    BY <2>1 DEF WriteInv
  <2>3. writeMessageQueue = SubSeq(delivered, popped + 1, Len(delivered))
    <3>. DEFINE rest == SubSeq(delivered, popped + 1, Len(delivered))
    <3>1. /\ rest \in Seq(Message)
          /\ Len(rest) = Len(writeMessageQueue)
          /\ \A i \in 1..Len(writeMessageQueue) : rest[i] = delivered[popped + i]
      BY <2>1 DEF TypeOK
    <3>. HIDE DEF rest
    <3>2. \A i \in 1..Len(writeMessageQueue) : rest[i] = writeMessageQueue[i]
      BY <3>1 DEF QueueInv
    <3>3. writeMessageQueue = rest
      BY <3>1, <3>2, SeqEqual DEF TypeOK
    <3>. QED BY <3>3 DEF rest
  <2>4. ASSUME NEW k \in 1..popped
        PROVE  SubSeq(wire, 2 * k - 1, 2 * k) = Whole(delivered[k])
    <3>. DEFINE pieces == SubSeq(wire, 2 * k - 1, 2 * k)
    <3>1. k \in 1..Len(delivered) /\ 2 * k - 1 <= Len(wire) /\ 2 * k <= Len(wire)
      BY <2>1, <2>2
    <3>2. /\ wire[2 * k - 1] = [part |-> "header", of |-> delivered[k]]
          /\ wire[2 * k] = [part |-> "content", of |-> delivered[k]]
      BY <3>1 DEF WireInv
    <3>3. /\ pieces \in Seq(Piece) /\ Len(pieces) = 2
          /\ pieces[1] = wire[2 * k - 1] /\ pieces[2] = wire[2 * k]
      <4>. DEFINE a == 2 * k - 1
                  b == 2 * k
      <4>1. a \in Int /\ b \in Int /\ b = a + 1 /\ a \in 1..Len(wire) /\ b \in 1..Len(wire)
        BY <2>1, <3>1
      <4>. HIDE DEF a, b
      <4>2. wire \in Seq(Piece)
        BY DEF TypeOK
      <4>3. \A i \in a..b : wire[i] \in Piece
        BY <2>1, <4>1, <4>2, ElementOfSeq
      <4>4. /\ SubSeq(wire, a, b) \in Seq(Piece)
            /\ Len(SubSeq(wire, a, b)) = IF a <= b THEN b - a + 1 ELSE 0
            /\ \A i \in 1..b - a + 1 : SubSeq(wire, a, b)[i] = wire[a + i - 1]
        BY <4>1, <4>3, SubSeqProperties
      <4>5. /\ SubSeq(wire, a, b) \in Seq(Piece) /\ Len(SubSeq(wire, a, b)) = 2
            /\ SubSeq(wire, a, b)[1] = wire[a] /\ SubSeq(wire, a, b)[2] = wire[b]
        BY <4>1, <4>4
      <4>. QED BY <4>5 DEF a, b
    <3>4. delivered[k] \in Message
      BY <3>1 DEF TypeOK
    <3>5. Whole(delivered[k]) \in Seq(Piece) /\ Len(Whole(delivered[k])) = 2
      BY <3>4 DEF Whole, Piece
    <3>. HIDE DEF pieces
    <3>6. \A i \in 1..2 : pieces[i] = Whole(delivered[k])[i]
      BY <3>2, <3>3 DEF Whole
    <3>7. pieces = Whole(delivered[k])
      BY <3>3, <3>5, <3>6, SeqEqual
    <3>. QED BY <3>7 DEF pieces
  <2>. QED BY <2>3, <2>4 DEF NothingSkipped
<1>. QED BY <1>1, Invariance, PTL

(* The session implements the reliable ordered message stream.              *)
THEOREM SessionIsAStream == Spec => StreamSafety
<1>1. Init => Stream!StreamInit
  BY DEF Init, Stream!StreamInit
<1>2. IInv /\ [Next]_vars => [Stream!StreamNext]_(Stream!streamVars)
  <2>. SUFFICES ASSUME IInv, [Next]_vars
                PROVE  Stream!StreamNext \/ UNCHANGED <<delivered, received>>
    BY DEF Stream!streamVars
  <2>1. ASSUME NEW m \in Message, Deliver(m) PROVE Stream!Send(m)
    BY <2>1 DEF Deliver, Stream!Send, clientVars
  <2>2. ASSUME HandleReadBody PROVE Stream!Receive
    <3>1. UNCHANGED delivered
      BY <2>2 DEF HandleReadBody
    <3>. QED BY <2>2, <3>1, ReadBodyReceives DEF Stream!Receive
  <2>3. CASE Session
    BY <2>3 DEF Session, WriteSome, HandleWrite, HandleWriteError, clientVars
  <2>4. CASE HandleReadHeader \/ HandleReadError \/ ConnectionLost
             \/ ClientReadError \/ UNCHANGED vars
    BY <2>4 DEF HandleReadHeader, HandleReadError, ConnectionLost,
       ClientReadError, clientVars, vars
  <2>. QED BY <2>1, <2>2, <2>3, <2>4 DEF Next, Client, Stream!StreamNext
<1>. QED BY <1>1, <1>2, Invariance, PTL DEF Spec, StreamSafety, Stream!StreamSpec
=============================================================================
