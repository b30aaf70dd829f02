------------------------ MODULE NetworkServerSession ------------------------
(***************************************************************************)
(* The server-to-client direction of a game connection.  Two threads hand  *)
(* messages to NetworkServerSession::deliver (the game loop's broadcast    *)
(* and the network thread that greets a new client).  The session keeps    *)
(* them in m_writeMessageQueue and gives boost::asio a pointer to the      *)
(* queue's front for as long as a write runs; the handler of a finished    *)
(* write removes the front and starts the next one.  The client            *)
(* (NetworkClient) reads a header, then a content, for ever.               *)
(*                                                                         *)
(* deliver and handleWrite each hold m_writeMessageQueueMutex for their    *)
(* whole body, so each is one step.  An asynchronous write is not: it      *)
(* hands the message to the socket piece by piece, and the pieces of two   *)
(* writes that ran together would mix.                                     *)
(***************************************************************************)
EXTENDS Naturals, Sequences, FiniteSets

CONSTANTS
    Message,            \* what may be handed to deliver
    Damaged,            \* what a reader makes of pieces that do not fit
    MaxDeliveries,      \* bound: calls of deliver
    Window              \* pieces the sockets hold between writer and reader

ASSUME DamagedAssumption == Damaged \notin Message
ASSUME BoundAssumption == MaxDeliveries \in Nat /\ Window \in Nat \ {0}

VARIABLES
    writeMessageQueue,  \* m_writeMessageQueue
    popped,             \* how many messages pop_front has removed
    writes,             \* async_write operations that have not called back
    sessionReading,     \* the session's own async_read is outstanding
    closeSignals,       \* how often the session has emitted onClosed
    open,               \* the TCP connection still carries data
    wire,               \* every piece the socket has taken, oldest first
    consumed,           \* how many of them the client has read
    readState,          \* which of its two reads the client has outstanding
    currentMessage,     \* the header piece in the client's m_currentMessage
    delivered,          \* history: every message handed to deliver
    received            \* messages the client has passed to onMessageReceived

sessionVars == <<writeMessageQueue, popped, writes, sessionReading, closeSignals>>
clientVars  == <<consumed, readState, currentMessage, received>>
vars == <<writeMessageQueue, popped, writes, sessionReading, closeSignals,
          open, wire, consumed, readState, currentMessage, delivered, received>>

Piece == [part : {"header", "content"}, of : Message \cup {Damaged}]

TypeOK ==
    /\ writeMessageQueue \in Seq(Message)
    /\ popped \in Nat
    /\ writes \in SUBSET [index : Nat \ {0}, done : 0..2]
    /\ sessionReading \in BOOLEAN
    /\ closeSignals \in Nat
    /\ open \in BOOLEAN
    /\ wire \in Seq(Piece)
    /\ consumed \in Nat
    /\ readState \in {"header", "content", "failed"}
    /\ currentMessage \in Piece
    /\ delivered \in Seq(Message)
    /\ received \in Seq(Message \cup {Damaged})

(* The constructor, then start(): a read is outstanding, nothing queued.    *)
Init ==
    /\ writeMessageQueue = <<>>
    /\ popped = 0
    /\ writes = {}
    /\ sessionReading = TRUE
    /\ closeSignals = 0
    /\ open = TRUE
    /\ wire = <<>>
    /\ consumed = 0
    /\ readState = "header"
    /\ currentMessage = [part |-> "header", of |-> Damaged]
    /\ delivered = <<>>
    /\ received = <<>>

(***************************************************************************)
(* The session                                                             *)
(***************************************************************************)

\* dataLength: an async_write covers the header and the content.
HeaderOnly == 1         \* mutant: dataLength without contentLength()
HeaderTwice == 3        \* mutant: headerLength() added twice
DataLength == 2

\* The async_write of the message at address index, nothing taken yet; it
\* has finished when DataLength pieces are done.
WriteOf(index) == [index |-> index, done |-> 0]

NeverInProgress == FALSE    \* mutant: deliver writes whatever is queued
IsWriteInProgress == writeMessageQueue # <<>>

\* The writes handleWrite starts once the front is gone.
NoNextWrite == {}           \* mutant: handleWrite returns after pop_front
NextWrite == IF Tail(writeMessageQueue) = <<>> THEN {} ELSE {WriteOf(popped + 2)}

\* Messages the error branch of handleWrite takes off the queue: none.
PoppedOnError == 0

\* What memory holds where the message at address index was queued: the
\* message, or anything once pop_front has destroyed it.
Buffer(index) ==
    IF index - popped \in DOMAIN writeMessageQueue /\ index > popped
    THEN writeMessageQueue[index - popped]
    ELSE Damaged

\* deliver: queue the message, and write it only if none was queued before.
Deliver(m) ==
    /\ Len(delivered) < MaxDeliveries
    /\ delivered' = Append(delivered, m)
    /\ writeMessageQueue' = Append(writeMessageQueue, m)
    /\ writes' = IF IsWriteInProgress
                 THEN writes
                 ELSE writes \cup {WriteOf(popped + 1)}
    /\ UNCHANGED <<popped, sessionReading, closeSignals, open, wire>>
    /\ UNCHANGED clientVars

\* The socket takes the next piece of a running write from its buffer.
WriteSome(w) ==
    /\ open
    /\ w.done < DataLength
    /\ Len(wire) - consumed < Window
    /\ wire' = Append(wire, [part |-> IF w.done = 0 THEN "header" ELSE "content",
                             of |-> Buffer(w.index)])
    /\ writes' = (writes \ {w}) \cup {[w EXCEPT !.done = @ + 1]}
    /\ UNCHANGED <<writeMessageQueue, popped, sessionReading, closeSignals,
                   open, delivered>>
    /\ UNCHANGED clientVars

\* handleWrite without an error: drop the front, write the next one if any.
HandleWrite(w) ==
    /\ w.done = DataLength
    /\ writeMessageQueue # <<>>
    /\ writeMessageQueue' = Tail(writeMessageQueue)
    /\ popped' = popped + 1
    /\ writes' = (writes \ {w}) \cup NextWrite
    /\ UNCHANGED <<sessionReading, closeSignals, open, wire, delivered>>
    /\ UNCHANGED clientVars

\* handleWrite with an error: emit onClosed; the queue keeps its front.
HandleWriteError(w) ==
    /\ ~open
    /\ w.done < DataLength
    /\ writes' = writes \ {w}
    /\ closeSignals' = closeSignals + 1
    /\ writeMessageQueue' = SubSeq(writeMessageQueue, 1 + PoppedOnError,
                                   Len(writeMessageQueue))
    /\ popped' = popped + PoppedOnError
    /\ UNCHANGED <<sessionReading, open, wire, delivered>>
    /\ UNCHANGED clientVars

\* handleReadHeader or handleReadBody with an error, on the server: emit
\* onClosed and read no more.
HandleReadError ==
    /\ ~open
    /\ sessionReading
    /\ sessionReading' = FALSE
    /\ closeSignals' = closeSignals + 1
    /\ UNCHANGED <<writeMessageQueue, popped, writes, open, wire, delivered>>
    /\ UNCHANGED clientVars

(***************************************************************************)
(* The connection and the client that reads it                             *)
(***************************************************************************)

ConnectionLost ==
    /\ open
    /\ open' = FALSE
    /\ UNCHANGED <<wire, delivered>>
    /\ UNCHANGED sessionVars
    /\ UNCHANGED clientVars

\* handleReadHeader on the client: keep the header, read the content next.
HandleReadHeader ==
    /\ readState = "header"
    /\ consumed < Len(wire)
    /\ consumed' = consumed + 1
    /\ currentMessage' = wire[consumed + 1]
    /\ readState' = "content"
    /\ UNCHANGED <<received, open, wire, delivered>>
    /\ UNCHANGED sessionVars

\* The message m_currentMessage holds once a content piece was copied into it.
Assembled(header, content) ==
    IF header.part = "header" /\ content.part = "content" /\ header.of = content.of
    THEN header.of
    ELSE Damaged

\* handleReadBody on the client: pass the message on, read a header next.
HandleReadBody ==
    /\ readState = "content"
    /\ consumed < Len(wire)
    /\ consumed' = consumed + 1
    /\ received' = Append(received, Assembled(currentMessage, wire[consumed + 1]))
    /\ readState' = "header"
    /\ UNCHANGED <<currentMessage, open, wire, delivered>>
    /\ UNCHANGED sessionVars

\* Either read of the client with an error: emit onConnectionClosed, stop reading.
ClientReadError ==
    /\ ~open
    /\ readState # "failed"
    /\ readState' = "failed"
    /\ UNCHANGED <<consumed, currentMessage, received, open, wire, delivered>>
    /\ UNCHANGED sessionVars

Session == \E w \in writes : WriteSome(w) \/ HandleWrite(w) \/ HandleWriteError(w)
Client  == HandleReadHeader \/ HandleReadBody \/ ClientReadError

Next ==
    \/ \E m \in Message : Deliver(m)
    \/ Session
    \/ HandleReadError
    \/ Client
    \/ ConnectionLost

Spec == Init /\ [][Next]_vars

\* Sockets make progress and io_service::run calls every ready handler; a
\* write must finish for the next to start, so one write at a time is enough.
FairSpec == Spec /\ WF_vars(Session) /\ WF_vars(Client)

-----------------------------------------------------------------------------
(***************************************************************************)
(* Properties                                                              *)
(***************************************************************************)

\* Never two writes at once on the session's socket, whichever of the two
\* threads calls deliver and whenever the last write calls back.
OneWriteInFlight == Cardinality(writes) <= 1

\* The buffer of a running write is the queue's front: pop_front never
\* destroys a message asio still reads.
BufferIsFront ==
    \A w \in writes : w.index = popped + 1 /\ writeMessageQueue # <<>>

\* No lost wakeup: a queued message has a write running that will reach it,
\* unless the connection is gone and onClosed said so.
QueuedIsWritten ==
    writeMessageQueue = <<>> \/ writes # {} \/ (~open /\ closeSignals > 0)

\* Nothing is skipped, doubled or mixed between deliver and the socket: the
\* queue is the end of what was delivered, in order, and the wire begins with
\* header and content of every message before that, whoever delivered it.
Whole(m) == <<[part |-> "header", of |-> m], [part |-> "content", of |-> m]>>
NothingSkipped ==
    /\ writeMessageQueue = SubSeq(delivered, popped + 1, Len(delivered))
    /\ \A k \in 1..popped : SubSeq(wire, 2 * k - 1, 2 * k) = Whole(delivered[k])

\* The connection is a reliable ordered message stream (deliver is its Send,
\* the client's onMessageReceived its Receive).
Stream == INSTANCE MessageStream WITH sent <- delivered
StreamSafety == Stream!StreamSpec

\* Every delivered message reaches the client unless the connection breaks.
EventuallyReceived ==
    \A n \in 1..MaxDeliveries :
        Len(delivered) >= n ~> Len(received) >= n \/ ~open
=============================================================================
