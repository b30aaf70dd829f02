---------------------------- MODULE NetworkClient ----------------------------
(***************************************************************************)
(* The life of a client's connections: NetworkClient's own thread (run),   *)
(* the handlers it executes inside io_service::run, and the user-interface *)
(* thread that calls connectToServer, send and disconnectFromServer.       *)
(*                                                                         *)
(* Every pass through run's loop is one attempt to connect, with an        *)
(* io_service of its own.  run holds m_waitForConnectionMutex from the     *)
(* moment it has an address until it has cleared it.  Messages are only    *)
(* counted here; NetworkServerSession models what happens to them.         *)
(*                                                                         *)
(* Two places are undefined behaviour: unload destroys the io_service that *)
(* is running it, and load destroys a socket whose io_service is already   *)
(* gone.  Either may go unnoticed or end the program; so may each use of   *)
(* the empty m_ioService, which always ends it.                            *)
(***************************************************************************)
EXTENDS Naturals, Sequences

CONSTANTS
    MaxConnects,        \* bound: calls of connectToServer
    MaxSends,           \* bound: calls of send
    MaxStops            \* bound: calls of disconnectFromServer

ASSUME BoundAssumption ==
    MaxConnects \in Nat /\ MaxSends \in Nat /\ MaxStops \in Nat

VARIABLES
    phase,              \* where run stands in its loop
    addressSet,         \* m_serverAddress # ""
    service,            \* m_ioService
    posted,             \* handlers posted to it, not yet run
    socket,             \* m_socket; "orphan" when its io_service is gone
    connecting,         \* async_connect is outstanding
    reading,            \* an async_read is outstanding
    writing,            \* async_writes outstanding
    isConnected,        \* m_isConnected
    queued,             \* length of m_writeMessageQueue
    linkUp,             \* the TCP connection carries data
    uiStep,             \* the UI thread is between a check and its post
    calls,              \* calls made so far, against the bounds
    signals,            \* the signals emitted during the current attempt
    served,             \* history: run has used the address last set
    crashed             \* the program has ended

ioVars == <<phase, addressSet, service, socket, connecting, reading, writing,
            isConnected, queued, linkUp, signals, served>>
vars == <<ioVars, posted, uiStep, calls, crashed>>

Deliver == "deliver"
Unload == "unload"              \* unload(false)
UnloadFailed == "unloadFailed"  \* unload(true)

TypeOK ==
    /\ phase \in {"waiting", "resolving", "running", "finishing"}
    /\ addressSet \in BOOLEAN
    /\ service \in {"null", "live"}
    /\ posted \in Seq({Deliver, Unload, UnloadFailed})
    /\ socket \in {"null", "fresh", "orphan"}
    /\ connecting \in BOOLEAN /\ reading \in BOOLEAN /\ writing \in Nat
    /\ isConnected \in BOOLEAN
    /\ queued \in Nat
    /\ linkUp \in BOOLEAN
    /\ uiStep \in {"idle", "spin", "send", "stop"}
    /\ calls \in [connect : 0..MaxConnects, send : 0..MaxSends, stop : 0..MaxStops]
    /\ signals \subseteq {"established", "failed", "closed"}
    /\ served \in BOOLEAN
    /\ crashed \in BOOLEAN

Init ==
    /\ phase = "waiting"
    /\ addressSet = FALSE
    /\ service = "null"
    /\ posted = <<>>
    /\ socket = "null"
    /\ connecting = FALSE /\ reading = FALSE /\ writing = 0
    /\ isConnected = FALSE
    /\ queued = 0
    /\ linkUp = FALSE
    /\ uiStep = "idle"
    /\ calls = [connect |-> 0, send |-> 0, stop |-> 0]
    /\ signals = {}
    /\ served = TRUE
    /\ crashed = FALSE

(***************************************************************************)
(* The user-interface thread                                               *)
(***************************************************************************)

UIFree == ~crashed /\ uiStep = "idle"

AlwaysFree == TRUE      \* mutant: run unlocks before io_service::run
MutexFree == phase = "waiting"

\* connectToServer waits for m_waitForConnectionMutex.
ConnectToServer ==
    /\ UIFree
    /\ calls.connect < MaxConnects
    /\ MutexFree
    /\ addressSet' = TRUE
    /\ served' = FALSE
    /\ calls' = [calls EXCEPT !.connect = @ + 1]
    /\ UNCHANGED <<phase, service, socket, connecting, reading, writing,
                   isConnected, queued, linkUp, signals, posted, uiStep, crashed>>

\* send spins until m_isConnected; stop asks whether there is a service ...
BeginSend ==
    /\ UIFree
    /\ calls.send < MaxSends
    /\ uiStep' = "spin"
    /\ calls' = [calls EXCEPT !.send = @ + 1]
    /\ UNCHANGED <<ioVars, posted, crashed>>

SeesConnected ==
    /\ ~crashed
    /\ uiStep = "spin"
    /\ isConnected
    /\ uiStep' = "send"
    /\ UNCHANGED <<ioVars, posted, calls, crashed>>

BeginStop ==
    /\ UIFree
    /\ calls.stop < MaxStops
    /\ service # "null"
    /\ uiStep' = "stop"
    /\ calls' = [calls EXCEPT !.stop = @ + 1]
    /\ UNCHANGED <<ioVars, posted, crashed>>

\* ... and then each of them posts to the service, if it is still there.
Post ==
    /\ ~crashed
    /\ uiStep \in {"send", "stop"}
    /\ uiStep' = "idle"
    /\ IF service = "null"
       THEN crashed' = TRUE /\ UNCHANGED posted
       ELSE /\ posted' = Append(posted, IF uiStep = "send" THEN Deliver ELSE Unload)
            /\ UNCHANGED crashed
    /\ UNCHANGED <<ioVars, calls>>

\* stop without a service only emits onConnectionClosed.
StopWithoutService ==
    /\ UIFree
    /\ calls.stop < MaxStops
    /\ service = "null"
    /\ calls' = [calls EXCEPT !.stop = @ + 1]
    /\ signals' = signals \cup {"closed"}
    /\ UNCHANGED <<phase, addressSet, service, socket, connecting, reading, writing,
                   isConnected, queued, linkUp, served, posted, uiStep, crashed>>

(***************************************************************************)
(* The loop of run                                                         *)
(***************************************************************************)

\* An address is there: load makes a new service; the old one, if any, is
\* destroyed with whatever was posted to it.
Load ==
    /\ ~crashed
    /\ phase = "waiting"
    /\ addressSet
    /\ phase' = "resolving"
    /\ service' = "live"
    /\ posted' = <<>>
    /\ signals' = {}
    /\ served' = TRUE
    /\ UNCHANGED <<addressSet, socket, connecting, reading, writing, isConnected,
                   queued, linkUp, uiStep, calls, crashed>>

\* load has an address to try and makes a new socket; startAccept.
Resolved ==
    /\ ~crashed
    /\ phase = "resolving"
    /\ crashed' \in IF socket = "orphan" THEN BOOLEAN ELSE {FALSE}
    /\ socket' = "fresh"
    /\ connecting' = TRUE
    /\ phase' = "running"
    /\ UNCHANGED <<addressSet, service, reading, writing, isConnected, queued,
                   linkUp, signals, served, posted, uiStep, calls>>

\* resolve throws: stop(true) posts to the service that will never run.
ResolveFails ==
    /\ ~crashed
    /\ phase = "resolving"
    /\ posted' = Append(posted, UnloadFailed)
    /\ addressSet' = FALSE
    /\ phase' = "waiting"
    /\ UNCHANGED <<service, socket, connecting, reading, writing, isConnected,
                   queued, linkUp, signals, served, uiStep, calls, crashed>>

\* io_service::run returns: stopped by unload, or nothing left to do.
RunReturns ==
    /\ ~crashed
    /\ phase = "running"
    /\ \/ service = "null"
       \/ ~connecting /\ ~reading /\ writing = 0 /\ posted = <<>>
    /\ phase' = "finishing"
    /\ UNCHANGED <<addressSet, service, socket, connecting, reading, writing,
                   isConnected, queued, linkUp, signals, served>>
    /\ UNCHANGED <<posted, uiStep, calls, crashed>>

\* m_ioService.reset() and m_serverAddress = "".
Finish ==
    /\ ~crashed
    /\ phase = "finishing"
    /\ phase' = "waiting"
    /\ service' = "null"
    /\ posted' = <<>>
    /\ addressSet' = FALSE
    /\ socket' = IF socket = "null" THEN "null" ELSE "orphan"
    /\ UNCHANGED <<connecting, reading, writing, isConnected, queued, linkUp,
                   signals, served, uiStep, calls, crashed>>

(***************************************************************************)
(* The handlers io_service::run calls                                      *)
(***************************************************************************)

Running == ~crashed /\ phase = "running" /\ service = "live"

HandleConnect ==
    /\ Running
    /\ connecting
    /\ connecting' = FALSE
    /\ reading' = TRUE
    /\ isConnected' = TRUE
    /\ linkUp' = TRUE
    /\ signals' = signals \cup {"established"}
    /\ UNCHANGED <<phase, addressSet, service, socket, writing, queued, served>>
    /\ UNCHANGED <<posted, uiStep, calls, crashed>>

FailedSignal == signals \cup {"failed"}

HandleConnectError ==
    /\ Running
    /\ connecting
    /\ connecting' = FALSE
    /\ posted' = Append(posted, Unload)
    /\ signals' = FailedSignal
    /\ UNCHANGED <<phase, addressSet, service, socket, reading, writing,
                   isConnected, queued, linkUp, served, uiStep, calls, crashed>>

ReadsAgain == TRUE      \* mutant: the error branch falls through to async_read
ReadsAfterError == FALSE

HandleReadError ==
    /\ Running
    /\ reading
    /\ ~linkUp
    /\ reading' = ReadsAfterError
    /\ signals' = signals \cup {"closed"}
    /\ UNCHANGED <<phase, addressSet, service, socket, connecting, writing,
                   isConnected, queued, linkUp, served>>
    /\ UNCHANGED <<posted, uiStep, calls, crashed>>

HandleWrite ==
    /\ Running
    /\ writing > 0
    /\ linkUp
    /\ queued' = queued - 1
    /\ writing' = IF queued > 1 THEN writing ELSE writing - 1
    /\ UNCHANGED <<phase, addressSet, service, socket, connecting, reading,
                   isConnected, linkUp, signals, served>>
    /\ UNCHANGED <<posted, uiStep, calls, crashed>>

HandleWriteError ==
    /\ Running
    /\ writing > 0
    /\ ~linkUp
    /\ writing' = writing - 1
    /\ signals' = signals \cup {"closed"}
    /\ UNCHANGED <<phase, addressSet, service, socket, connecting, reading,
                   isConnected, queued, linkUp, served>>
    /\ UNCHANGED <<posted, uiStep, calls, crashed>>

WritesAnyway == TRUE    \* mutant: deliver does not look at m_isConnected or the queue
WritesWhenBusy == isConnected /\ queued > 0     \* mutant: the test inverted
MayWrite == isConnected /\ queued = 0

\* deliver, posted by send.
RunDeliver ==
    /\ Running
    /\ posted # <<>>
    /\ Head(posted) = Deliver
    /\ posted' = Tail(posted)
    /\ queued' = queued + 1
    /\ writing' = IF MayWrite THEN writing + 1 ELSE writing
    /\ UNCHANGED <<phase, addressSet, service, socket, connecting, reading,
                   isConnected, linkUp, signals, served, uiStep, calls, crashed>>

StillConnected == isConnected   \* mutant: m_isConnected forgotten
ConnectedAfterUnload == FALSE

\* unload, posted by stop: close the socket, drop socket and service with all
\* outstanding operations.
RunUnload ==
    /\ Running
    /\ posted # <<>>
    /\ Head(posted) = Unload
    /\ service' = "null"
    /\ socket' = "null"
    /\ posted' = <<>>
    /\ connecting' = FALSE /\ reading' = FALSE /\ writing' = 0
    /\ linkUp' = FALSE
    /\ isConnected' = ConnectedAfterUnload
    /\ signals' = signals \cup {"closed"}
    /\ crashed' \in BOOLEAN
    /\ UNCHANGED <<phase, addressSet, queued, served, uiStep, calls>>

\* The server goes away or the network breaks.
LinkLost ==
    /\ ~crashed
    /\ linkUp
    /\ linkUp' = FALSE
    /\ UNCHANGED <<phase, addressSet, service, socket, connecting, reading,
                   writing, isConnected, queued, signals, served>>
    /\ UNCHANGED <<posted, uiStep, calls, crashed>>

Run == Load \/ Resolved \/ ResolveFails \/ RunReturns \/ Finish
Posted == RunDeliver \/ RunUnload
Completions == HandleConnect \/ HandleConnectError \/ HandleReadError
               \/ HandleWrite \/ HandleWriteError
UI == ConnectToServer \/ BeginSend \/ SeesConnected \/ BeginStop \/ StopWithoutService

Next == UI \/ Post \/ Run \/ Posted \/ Completions \/ LinkLost

Spec == Init /\ [][Next]_vars

\* The network thread runs; io_service serves posted handlers in turn with
\* completed operations.  What the user does is up to the user.
FairSpec == Spec /\ WF_vars(Run) /\ WF_vars(Posted) /\ WF_vars(Completions) /\ WF_vars(Post)

-----------------------------------------------------------------------------
(***************************************************************************)
(* Properties                                                              *)
(***************************************************************************)

\* An address given to connectToServer is tried before run forgets it, though
\* run clears the address long after it has read it.
AddressNeverLost == [][addressSet /\ ~addressSet' => served]_vars

\* deliver never writes to a socket that is not there, and never beside another
\* write, across reconnections too: the queue's front stays where it is.
WritesAreSafe == /\ isConnected => socket # "null"
                 /\ writing <= 1
                 /\ writing > 0 => queued > 0

\* No attempt is reported both as established and as failed.
OneOutcome == ~({"established", "failed"} \subseteq signals)

\* A client that lost its connection comes back to where it can connect again.
LossFreesThread ==
    (phase = "running" /\ ~connecting /\ ~linkUp) ~> (phase = "waiting" \/ crashed)

\* NetworkClient.h:73-74, send: "Reads the message's data which has to be
\* exchanged via network and sends it to the server."  While the connection
\* lives a queued message has a write under way ...
QueuedIsWritten == isConnected /\ linkUp /\ queued > 0 => writing > 0

\* ... which holds as long as the client has been connected only once.
FirstConnectionWrites == calls.connect <= 1 => QueuedIsWritten

\* NetworkClient.h:49-53: isConnected "Returns true if the network client
\* successfully connected to the server and thus actively listens for
\* incoming messages. Returns false if the client never connected, closed
\* the connection, or if an error occurred."
ConnectedMeansListening == isConnected => reading
=============================================================================
