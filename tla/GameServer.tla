----------------------------- MODULE GameServer -----------------------------
(***************************************************************************)
(* The life of the server: the user-interface thread that starts, loads    *)
(* and stops it, the game thread (GameServer::loop) and the network thread *)
(* (NetworkServer::run).  The two threads are started in the middle of the *)
(* start-up, and clients other than the program's own may connect as soon  *)
(* as the network thread listens.  What is sent to the clients is the      *)
(* business of GameReplication.                                            *)
(*                                                                         *)
(* Application leaves stop out of its destructor (Application.cpp:397); it *)
(* is modelled here as the class offers it.  A use of a deleted object may *)
(* go unnoticed or end the program, a use of an empty pointer ends it.     *)
(***************************************************************************)
EXTENDS Naturals

CONSTANTS
    Client,             \* the clients that may connect
    Own,                \* the one of the server's own program
    MaxStops            \* bound: calls of stop

ASSUME ClientAssumption == Own \in Client /\ MaxStops \in Nat

VARIABLES
    ui,                 \* what the user-interface thread does next
    loop,               \* where GameServer::loop stands
    net,                \* where NetworkServer::run stands
    stopMutex,          \* who holds m_stopMutex
    server,             \* m_gameNetworkServer
    signalled,          \* handleSessionAccepted is connected to the server's signal
    game,               \* m_game
    connecting,         \* clients waiting for async_accept
    profiles,           \* clients with a profile
    sessions,           \* clients whose session exists
    greeting,           \* clients handleSessionAccepted is being called for
    greeted,            \* clients that were sent their ID and the game
    releasePosted,      \* release is posted to the io_service
    stops,              \* calls of stop
    crashed             \* the program has ended

uiVars == <<ui, server, signalled, game, stops>>
netVars == <<net, profiles, sessions, greeting, greeted>>
vars == <<uiVars, netVars, loop, stopMutex, connecting, releasePosted, crashed>>

TypeOK ==
    /\ ui \in {"run", "connect", "loop", "new", "load", "client", "ready",
               "stopGame", "stopNetwork", "delete"}
    /\ loop \in {"none", "waiting", "locked", "unlock", "done"}
    /\ net \in {"none", "loading", "listening", "failed", "released"}
    /\ stopMutex \in {"free", "loop", "ui"}
    /\ server \in {"none", "live", "null"}
    /\ signalled \in BOOLEAN
    /\ game \in {"null", "empty", "loaded"}
    /\ connecting \subseteq Client /\ profiles \subseteq Client
    /\ sessions \subseteq Client
    /\ greeting \subseteq profiles /\ greeted \subseteq profiles
    /\ releasePosted \in BOOLEAN
    /\ stops \in 0..MaxStops
    /\ crashed \in BOOLEAN

Init ==
    /\ ui = "run" /\ loop = "none" /\ net = "none"
    /\ stopMutex = "free"
    /\ server = "none"
    /\ signalled = FALSE
    /\ game = "null"
    /\ connecting = {} /\ profiles = {} /\ sessions = {}
    /\ greeting = {} /\ greeted = {}
    /\ releasePosted = FALSE
    /\ stops = 0
    /\ crashed = FALSE

(***************************************************************************)
(* The user-interface thread: run, loadGame, and the own client            *)
(***************************************************************************)

UI(from, to) == ~crashed /\ ui = from /\ ui' = to

\* GameNetworkServer::run starts the network thread.
RunNetwork ==
    /\ UI("run", "connect")
    /\ server' = "live"
    /\ net' = "loading"
    /\ UNCHANGED <<signalled, game, stops, profiles, sessions, greeting, greeted>>
    /\ UNCHANGED <<loop, stopMutex, connecting, releasePosted, crashed>>

ConnectSignals ==
    /\ UI("connect", "loop")
    /\ signalled' = TRUE
    /\ UNCHANGED <<server, game, stops, loop, stopMutex, connecting, releasePosted, crashed>>
    /\ UNCHANGED netVars

RunLoop ==
    /\ UI("loop", "new")
    /\ loop' = "waiting"
    /\ UNCHANGED <<server, signalled, game, stops, stopMutex, connecting,
                   releasePosted, crashed>>
    /\ UNCHANGED netVars

\* loadGame makes m_game visible to the other threads, then loads the level.
NewGame ==
    /\ UI("new", "load")
    /\ game' = "empty"
    /\ UNCHANGED <<server, signalled, stops, loop, stopMutex, connecting,
                   releasePosted, crashed>>
    /\ UNCHANGED netVars

LoadGame ==
    /\ UI("load", "client")
    /\ game' = "loaded"
    /\ UNCHANGED <<server, signalled, stops, loop, stopMutex, connecting,
                   releasePosted, crashed>>
    /\ UNCHANGED netVars

RunEarly == {"load", "client"}  \* mutant: the client starts before the level is there
RunClient == {"client"}

ConnectOwnClient ==
    /\ ~crashed
    /\ ui \in RunClient
    /\ Own \notin connecting \cup profiles
    /\ connecting' = connecting \cup {Own}
    /\ ui' = IF ui = "client" THEN "ready" ELSE ui
    /\ UNCHANGED <<server, signalled, game, stops, loop, stopMutex, releasePosted, crashed>>
    /\ UNCHANGED netVars

(***************************************************************************)
(* stop                                                                    *)
(***************************************************************************)

StopLock ==
    /\ UI("ready", "stopGame")
    /\ stops < MaxStops
    /\ stopMutex = "free"
    /\ stopMutex' = "ui"
    /\ stops' = stops + 1
    /\ UNCHANGED <<server, signalled, game, loop, connecting, releasePosted, crashed>>
    /\ UNCHANGED netVars

StopGame ==
    /\ UI("stopGame", "stopNetwork")
    /\ game' = "empty"
    /\ UNCHANGED <<server, signalled, stops, loop, stopMutex, connecting,
                   releasePosted, crashed>>
    /\ UNCHANGED netVars

\* Posts release, to an io_service that may not have been made yet.
StopNetwork ==
    /\ UI("stopNetwork", "delete")
    /\ releasePosted' = TRUE
    /\ crashed' \in IF server = "null" THEN {TRUE}
                    ELSE IF net \in {"none", "loading", "released"} THEN BOOLEAN
                    ELSE {FALSE}
    /\ UNCHANGED <<server, signalled, game, stops, loop, stopMutex, connecting>>
    /\ UNCHANGED netVars

DeleteServer ==
    /\ UI("delete", "ready")
    /\ server' = "null"
    /\ stopMutex' = "free"
    /\ UNCHANGED <<signalled, game, stops, loop, connecting, releasePosted, crashed>>
    /\ UNCHANGED netVars

(***************************************************************************)
(* GameServer::loop                                                        *)
(***************************************************************************)

Unlocked == loop = "waiting"                        \* mutant: no m_stopMutex
MayLock == loop = "waiting" /\ stopMutex = "free"

NeverStops == FALSE             \* mutant: while (true) without a return
SeesStop == server = "null"

\* The return leaves m_stopMutex locked.
LoopLock ==
    /\ ~crashed
    /\ MayLock
    /\ stopMutex' = "loop"
    /\ loop' = IF SeesStop THEN "done" ELSE "locked"
    /\ UNCHANGED <<connecting, releasePosted, crashed>>
    /\ UNCHANGED uiVars /\ UNCHANGED netVars

\* Proceed and broadcast: only the first is guarded by a test of m_game.
LoopBroadcast ==
    /\ ~crashed
    /\ loop = "locked"
    /\ loop' = "unlock"
    /\ crashed' = (game = "null")
    /\ UNCHANGED <<stopMutex, connecting, releasePosted>>
    /\ UNCHANGED uiVars /\ UNCHANGED netVars

LoopUnlock ==
    /\ ~crashed
    /\ loop = "unlock"
    /\ loop' = "waiting"
    /\ stopMutex' = "free"
    /\ UNCHANGED <<connecting, releasePosted, crashed>>
    /\ UNCHANGED uiVars /\ UNCHANGED netVars

(***************************************************************************)
(* The network thread                                                      *)
(***************************************************************************)

\* NetworkServer::load; the port may be taken.
Listen ==
    /\ ~crashed
    /\ net = "loading"
    /\ net' \in {"listening", "failed"}
    /\ UNCHANGED <<profiles, sessions, greeting, greeted>>
    /\ UNCHANGED <<loop, stopMutex, connecting, releasePosted, crashed>>
    /\ UNCHANGED uiVars

NoProfile(c) == profiles        \* mutant: the greeting before the profile
WithProfile(c) == profiles \cup {c}

\* handleAccept makes the session, GameNetworkServer::handleSessionAccepted
\* the profile; the greeting follows if somebody is connected to the signal.
Accept(c) ==
    /\ ~crashed
    /\ net = "listening" /\ greeting = {}
    /\ c \in connecting
    /\ connecting' = connecting \ {c}
    /\ sessions' = sessions \cup {c}
    /\ IF server = "live"
       THEN /\ profiles' = WithProfile(c)
            /\ greeting' = IF signalled THEN {c} ELSE {}
            /\ UNCHANGED crashed
       ELSE /\ crashed' \in BOOLEAN
            /\ UNCHANGED <<profiles, greeting>>
    /\ UNCHANGED <<net, greeted, loop, stopMutex, releasePosted>>
    /\ UNCHANGED uiVars

\* GameServer::handleSessionAccepted
Greet(c) ==
    /\ ~crashed
    /\ c \in greeting
    /\ greeting' = {}
    /\ IF server = "null" \/ game = "null"
       THEN crashed' = TRUE /\ UNCHANGED greeted
       ELSE greeted' = greeted \cup {c} /\ UNCHANGED crashed
    /\ UNCHANGED <<net, profiles, sessions, loop, stopMutex, connecting, releasePosted>>
    /\ UNCHANGED uiVars

\* A request that arrives when the GameNetworkServer is deleted.
LateRequest ==
    /\ ~crashed
    /\ net = "listening" /\ greeting = {}
    /\ server = "null" /\ sessions # {}
    /\ crashed' = TRUE
    /\ UNCHANGED <<loop, stopMutex, connecting, releasePosted>>
    /\ UNCHANGED uiVars /\ UNCHANGED netVars

\* NetworkServer::release, run by the io_service that it deletes.
Release ==
    /\ ~crashed
    /\ net = "listening" /\ greeting = {}
    /\ releasePosted
    /\ net' = "released"
    /\ sessions' = {}
    /\ crashed' \in BOOLEAN
    /\ UNCHANGED <<profiles, greeting, greeted, loop, stopMutex, connecting, releasePosted>>
    /\ UNCHANGED uiVars

\* Another program's client, whenever it likes.
Connect(c) ==
    /\ ~crashed
    /\ c \in Client \ ({Own} \cup connecting \cup profiles \cup sessions)
    /\ connecting' = connecting \cup {c}
    /\ UNCHANGED <<loop, stopMutex, releasePosted, crashed>>
    /\ UNCHANGED uiVars /\ UNCHANGED netVars

Startup == RunNetwork \/ ConnectSignals \/ RunLoop \/ NewGame \/ LoadGame \/ ConnectOwnClient
Stop == StopGame \/ StopNetwork \/ DeleteServer
Loop == LoopLock \/ LoopBroadcast \/ LoopUnlock
Network == Listen \/ Release \/ \E c \in Client : Accept(c) \/ Greet(c)

Next ==
    \/ Startup \/ StopLock \/ Stop \/ Loop \/ Network \/ LateRequest
    \/ \E c \in Client : Connect(c)

Spec == Init /\ [][Next]_vars

\* Every thread runs; nothing forces a stop, nor does the mutex prefer it.
FairSpec ==
    Spec /\ WF_vars(Startup) /\ WF_vars(Stop) /\ WF_vars(Loop) /\ WF_vars(Network)

-----------------------------------------------------------------------------
(***************************************************************************)
(* Properties                                                              *)
(***************************************************************************)

\* The game thread never broadcasts through a deleted server or to sessions
\* that release has deleted: stop holds the mutex until loop can see it.
BroadcastHasServer ==
    loop = "locked" => server = "live" /\ profiles \subseteq sessions

\* While stop takes the server down, the game thread waits for its turn.
StopIsAlone == ui \in {"stopGame", "stopNetwork", "delete"} => loop = "waiting"

\* The own client never meets a server that would not greet it or has no level
\* to show, though clients that come earlier may.
OwnIsGreeted ==
    /\ Own \in profiles => Own \in greeted \cup greeting \/ crashed
    /\ Own \in greeting /\ stops = 0 => game = "loaded"

\* After a stop the game thread ends.
LoopEnds == (ui = "ready" /\ server = "null") ~> (loop = "done" \/ crashed)
=============================================================================
