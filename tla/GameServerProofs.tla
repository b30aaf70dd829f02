-------------------------- MODULE GameServerProofs --------------------------
(***************************************************************************)
(* m_stopMutex keeps GameServer::stop and GameServer::loop apart, for any  *)
(* clients and any number of stops.  BroadcastHasServer is not inductive:  *)
(* that no session is gone while loop broadcasts follows from where stop   *)
(* stands when it posts release, which MutexInv and ReleaseInv record.     *)
(***************************************************************************)
EXTENDS GameServer, TLAPS

Stopping == {"stopGame", "stopNetwork", "delete"}

\* Who is where when the mutex is whose.
MutexInv ==
    /\ ui \in Stopping => stopMutex = "ui"
    /\ loop \in {"locked", "unlock", "done"} => stopMutex = "loop"
    /\ loop # "none" => server # "none"
    /\ ui \in {"loop", "new", "load", "client", "ready"} => server # "none"
    /\ ui = "connect" => server # "none"
    /\ loop = "locked" => server = "live"
    /\ loop = "none" => ui \in {"run", "connect", "loop"}

\* Sessions exist until release, release is posted only by a stop.
ReleaseInv ==
    /\ net # "released" => profiles \subseteq sessions
    /\ net = "released" => releasePosted
    /\ releasePosted => ui = "delete" \/ server = "null"
    /\ ui \in {"run", "connect"} => ~releasePosted

IInv == TypeOK /\ MutexInv /\ ReleaseInv

USE DEF uiVars, netVars, UI

-----------------------------------------------------------------------------
LEMMA InitInv == Init => IInv
<1> SUFFICES ASSUME Init PROVE IInv
    OBVIOUS
<1>1. TypeOK
    <2>1. signalled \in BOOLEAN /\ releasePosted \in BOOLEAN /\ crashed \in BOOLEAN
        BY DEF Init
    <2>2. stops \in 0..MaxStops
        BY ClientAssumption DEF Init
    <2> QED
        BY <2>1, <2>2 DEF Init, TypeOK
<1>2. MutexInv
    BY DEF Init, MutexInv, Stopping
<1>3. ReleaseInv
    BY DEF Init, ReleaseInv
<1> QED
    BY <1>1, <1>2, <1>3 DEF IInv

(* The start-up hands the server to its threads step by step. *)
LEMMA StartupKeepsInv == IInv /\ Startup => IInv'
<1> SUFFICES ASSUME IInv, Startup PROVE IInv'
    OBVIOUS
<1> USE DEF IInv
<1>1. CASE RunNetwork
    <2>1. TypeOK'
        BY <1>1 DEF TypeOK, RunNetwork
    <2>2. MutexInv'
        BY <1>1 DEF TypeOK, MutexInv, Stopping, RunNetwork
    <2>3. ReleaseInv'
        BY <1>1 DEF TypeOK, ReleaseInv, MutexInv, Stopping, RunNetwork
    <2> QED
        BY <2>1, <2>2, <2>3
<1>2. CASE ConnectSignals
    <2>1. TypeOK'
        BY <1>2 DEF TypeOK, ConnectSignals
    <2>2. MutexInv'
        BY <1>2 DEF TypeOK, MutexInv, Stopping, ConnectSignals
    <2>3. ReleaseInv'
        BY <1>2 DEF TypeOK, ReleaseInv, MutexInv, Stopping, ConnectSignals
    <2> QED
        BY <2>1, <2>2, <2>3
<1>3. CASE RunLoop
    <2>1. TypeOK'
        BY <1>3 DEF TypeOK, RunLoop
    <2>2. MutexInv'
        BY <1>3 DEF TypeOK, MutexInv, Stopping, RunLoop
    <2>3. ReleaseInv'
        BY <1>3 DEF TypeOK, ReleaseInv, MutexInv, Stopping, RunLoop
    <2> QED
        BY <2>1, <2>2, <2>3
<1>4. CASE NewGame
    <2>1. TypeOK'
        BY <1>4 DEF TypeOK, NewGame
    <2>2. MutexInv'
        BY <1>4 DEF TypeOK, MutexInv, Stopping, NewGame
    <2>3. ReleaseInv'
        BY <1>4 DEF TypeOK, ReleaseInv, MutexInv, Stopping, NewGame
    <2> QED
        BY <2>1, <2>2, <2>3
<1>5. CASE LoadGame
    <2>1. TypeOK'
        BY <1>5 DEF TypeOK, LoadGame
    <2>2. MutexInv'
        BY <1>5 DEF TypeOK, MutexInv, Stopping, LoadGame
    <2>3. ReleaseInv'
        BY <1>5 DEF TypeOK, ReleaseInv, MutexInv, Stopping, LoadGame
    <2> QED
        BY <2>1, <2>2, <2>3
<1>6. CASE ConnectOwnClient
    <2>1. TypeOK'
        BY <1>6, ClientAssumption DEF TypeOK, RunClient, ConnectOwnClient
    <2>2. MutexInv'
        BY <1>6 DEF TypeOK, MutexInv, Stopping, RunClient, ConnectOwnClient
    <2>3. ReleaseInv'
        BY <1>6 DEF TypeOK, ReleaseInv, MutexInv, Stopping, RunClient, ConnectOwnClient
    <2> QED
        BY <2>1, <2>2, <2>3
<1> QED
    BY <1>1, <1>2, <1>3, <1>4, <1>5, <1>6 DEF Startup

(* A stop that has the mutex. *)
LEMMA StopKeepsInv == IInv /\ Stop => IInv'
<1> SUFFICES ASSUME IInv, Stop PROVE IInv'
    OBVIOUS
<1> USE DEF IInv
<1>1. CASE StopGame
    <2>1. TypeOK'
        BY <1>1 DEF TypeOK, StopGame
    <2>2. MutexInv'
        BY <1>1 DEF TypeOK, MutexInv, Stopping, StopGame
    <2>3. ReleaseInv'
        BY <1>1 DEF TypeOK, ReleaseInv, MutexInv, Stopping, StopGame
    <2> QED
        BY <2>1, <2>2, <2>3
<1>2. CASE StopNetwork
    <2>1. TypeOK'
        BY <1>2 DEF TypeOK, StopNetwork
    <2>2. MutexInv'
        BY <1>2 DEF TypeOK, MutexInv, Stopping, StopNetwork
    <2>3. ReleaseInv'
        BY <1>2 DEF TypeOK, ReleaseInv, MutexInv, Stopping, StopNetwork
    <2> QED
        BY <2>1, <2>2, <2>3
<1>3. CASE DeleteServer
    <2>1. TypeOK'
        BY <1>3 DEF TypeOK, DeleteServer
    <2>2. MutexInv'
        BY <1>3 DEF TypeOK, MutexInv, Stopping, DeleteServer
    <2>3. ReleaseInv'
        BY <1>3 DEF TypeOK, ReleaseInv, MutexInv, Stopping, DeleteServer
    <2> QED
        BY <2>1, <2>2, <2>3
<1> QED
    BY <1>1, <1>2, <1>3 DEF Stop

(* The game thread. *)
LEMMA LoopKeepsInv == IInv /\ Loop => IInv'
<1> SUFFICES ASSUME IInv, Loop PROVE IInv'
    OBVIOUS
<1> USE DEF IInv
<1>1. CASE LoopLock
    <2>1. TypeOK'
        BY <1>1 DEF TypeOK, MayLock, SeesStop, LoopLock
    <2>2. MutexInv'
        BY <1>1 DEF TypeOK, MutexInv, Stopping, MayLock, SeesStop, LoopLock
    <2>3. ReleaseInv'
        BY <1>1 DEF TypeOK, ReleaseInv, MutexInv, Stopping, MayLock, SeesStop, LoopLock
    <2> QED
        BY <2>1, <2>2, <2>3
<1>2. CASE LoopBroadcast
    <2>1. TypeOK'
        BY <1>2 DEF TypeOK, LoopBroadcast
    <2>2. MutexInv'
        BY <1>2 DEF TypeOK, MutexInv, Stopping, LoopBroadcast
    <2>3. ReleaseInv'
        BY <1>2 DEF TypeOK, ReleaseInv, MutexInv, Stopping, LoopBroadcast
    <2> QED
        BY <2>1, <2>2, <2>3
<1>3. CASE LoopUnlock
    <2>1. TypeOK'
        BY <1>3 DEF TypeOK, LoopUnlock
    <2>2. MutexInv'
        BY <1>3 DEF TypeOK, MutexInv, Stopping, LoopUnlock
    <2>3. ReleaseInv'
        BY <1>3 DEF TypeOK, ReleaseInv, MutexInv, Stopping, LoopUnlock
    <2> QED
        BY <2>1, <2>2, <2>3
<1> QED
    BY <1>1, <1>2, <1>3 DEF Loop

(* The network thread. *)
LEMMA NetworkKeepsInv == IInv /\ Network => IInv'
<1> SUFFICES ASSUME IInv, Network PROVE IInv'
    OBVIOUS
<1> USE DEF IInv
<1>1. CASE Listen
    <2>1. TypeOK'
        BY <1>1 DEF TypeOK, Listen
    <2>2. MutexInv' /\ ReleaseInv'
        BY <1>1 DEF MutexInv, ReleaseInv, Stopping, Listen
    <2> QED
        BY <2>1, <2>2
<1>2. CASE Release
    <2>1. TypeOK'
        BY <1>2 DEF TypeOK, Release
    <2>2. MutexInv' /\ ReleaseInv'
        BY <1>2 DEF MutexInv, ReleaseInv, Stopping, Release
    <2> QED
        BY <2>1, <2>2
<1>3. ASSUME NEW c \in Client, Accept(c) PROVE IInv'
    <2>1. TypeOK'
        BY <1>3 DEF TypeOK, Accept, WithProfile
    <2>2. MutexInv' /\ ReleaseInv'
        BY <1>3 DEF MutexInv, ReleaseInv, Stopping, Accept, WithProfile
    <2> QED
        BY <2>1, <2>2
<1>4. ASSUME NEW c \in Client, Greet(c) PROVE IInv'
    <2>3. crashed' \in BOOLEAN
        BY <1>4 DEF TypeOK, Greet
    <2>4. greeting' \subseteq profiles' /\ greeted' \subseteq profiles'
        BY <1>4 DEF TypeOK, Greet
    <2>1. TypeOK'
        BY <1>4, <2>3, <2>4 DEF TypeOK, Greet
    <2>2. MutexInv' /\ ReleaseInv'
        BY <1>4 DEF MutexInv, ReleaseInv, Stopping, Greet
    <2> QED
        BY <2>1, <2>2
<1> QED
    BY <1>1, <1>2, <1>3, <1>4 DEF Network

LEMMA NextKeepsInv == IInv /\ [Next]_vars => IInv'
<1> SUFFICES ASSUME IInv, [Next]_vars PROVE IInv'
    OBVIOUS
<1>1. CASE Startup
    BY <1>1, StartupKeepsInv
<1>2. CASE StopLock
    <2>1. TypeOK'
        BY <1>2, ClientAssumption DEF IInv, TypeOK, StopLock
    <2>2. MutexInv' /\ ReleaseInv'
        BY <1>2 DEF IInv, MutexInv, ReleaseInv, Stopping, StopLock
    <2> QED
        BY <2>1, <2>2 DEF IInv
<1>3. CASE Stop
    BY <1>3, StopKeepsInv
<1>4. CASE Loop
    BY <1>4, LoopKeepsInv
<1>5. CASE Network
    BY <1>5, NetworkKeepsInv
<1>6. CASE LateRequest
    <2>1. TypeOK'
        BY <1>6 DEF IInv, TypeOK, LateRequest
    <2>2. MutexInv' /\ ReleaseInv'
        BY <1>6 DEF IInv, MutexInv, ReleaseInv, Stopping, LateRequest
    <2> QED
        BY <2>1, <2>2 DEF IInv
<1>7. ASSUME NEW c \in Client, Connect(c) PROVE IInv'
    <2>1. TypeOK'
        BY <1>7 DEF IInv, TypeOK, Connect
    <2>2. MutexInv' /\ ReleaseInv'
        BY <1>7 DEF IInv, MutexInv, ReleaseInv, Stopping, Connect
    <2> QED
        BY <2>1, <2>2 DEF IInv
<1>8. CASE UNCHANGED vars
    <2>1. TypeOK'
        BY <1>8 DEF IInv, TypeOK, vars
    <2>2. MutexInv' /\ ReleaseInv'
        BY <1>8 DEF IInv, MutexInv, ReleaseInv, Stopping, vars
    <2> QED
        BY <2>1, <2>2 DEF IInv
<1> QED
    BY <1>1, <1>2, <1>3, <1>4, <1>5, <1>6, <1>7, <1>8 DEF Next

\* The inductive invariant holds in every reachable state.
THEOREM InvHolds == Spec => []IInv
<1> QED
    BY InitInv, NextKeepsInv, PTL DEF Spec

-----------------------------------------------------------------------------
(* The theorems.                                                             *)

\* Flags, pointers and the sets of clients keep their types; only clients with
\* a profile are greeted.
THEOREM TypeCorrect == Spec => []TypeOK
<1>1. IInv => TypeOK
    BY DEF IInv
<1> QED
    BY <1>1, InvHolds, PTL

\* Between m_stopMutex.lock and unlock the game thread has a server, and the
\* session of every profile it broadcasts to.
THEOREM BroadcastIsSafe == Spec => []BroadcastHasServer
<1>1. IInv => BroadcastHasServer
    BY DEF IInv, MutexInv, ReleaseInv, Stopping, BroadcastHasServer
<1> QED
    BY <1>1, InvHolds, PTL

\* No frame is played and nothing is broadcast while stop is under way.
THEOREM StopExcludesLoop == Spec => []StopIsAlone
<1>1. IInv => StopIsAlone
    BY DEF IInv, TypeOK, MutexInv, Stopping, StopIsAlone
<1> QED
    BY <1>1, InvHolds, PTL

-----------------------------------------------------------------------------
(* The own client.                                                           *)

\* The start-up connects the signal and loads the level before it starts the
\* own client, and one client is greeted at a time.
OwnInv ==
    /\ Own \in connecting \cup profiles => ui \in {"ready"} \cup Stopping
    /\ ui \in {"loop", "new", "load", "client", "ready"} \cup Stopping => signalled
    /\ ui \in {"client", "ready"} /\ stops = 0 => game = "loaded"
    /\ ui \in Stopping => stops # 0
    /\ \A a, b \in greeting : a = b
    /\ Own \in profiles => Own \in greeted \cup greeting \/ crashed

LEMMA InitOwn == Init => OwnInv
BY DEF Init, OwnInv, Stopping

LEMMA NextKeepsOwn ==
    ASSUME IInv, OwnInv, [Next]_vars
    PROVE  OwnInv'
<1>0. stops \in Nat /\ crashed \in BOOLEAN /\ Own \in Client
    BY ClientAssumption DEF IInv, TypeOK
<1>1. CASE Startup
    BY <1>0, <1>1 DEF Startup, RunNetwork, ConnectSignals, RunLoop, NewGame, LoadGame,
                      ConnectOwnClient, RunClient, OwnInv, Stopping
<1>2. CASE StopLock
    BY <1>0, <1>2 DEF StopLock, OwnInv, Stopping
<1>3. CASE Stop
    <2>1. UNCHANGED <<signalled, stops, connecting, profiles, greeted, greeting>>
        BY <1>3 DEF Stop, StopGame, StopNetwork, DeleteServer
    <2>2. ui \in Stopping /\ ui' \in {"ready"} \cup Stopping /\ ~crashed
        BY <1>3 DEF Stop, StopGame, StopNetwork, DeleteServer, Stopping
    <2> QED
        BY <1>0, <2>1, <2>2 DEF OwnInv
<1>4. CASE Loop
    <2>1. ~crashed /\ UNCHANGED <<uiVars, netVars, connecting>>
        BY <1>4 DEF Loop, LoopLock, LoopBroadcast, LoopUnlock
    <2> QED
        BY <2>1 DEF OwnInv, Stopping
<1>5. CASE Listen
    BY <1>5 DEF Listen, OwnInv, Stopping
<1>6. CASE Release
    BY <1>6 DEF Release, OwnInv, Stopping
<1>7. ASSUME NEW c \in Client, Accept(c) PROVE OwnInv'
    <2>1. /\ UNCHANGED <<ui, signalled, stops, game, greeted>>
          /\ greeting = {} /\ c \in connecting /\ connecting' = connecting \ {c}
          /\ ~crashed
        BY <1>7 DEF Accept
    <2>2. CASE server = "live"
        <3>1. profiles' = profiles \cup {c} /\ greeting' = IF signalled THEN {c} ELSE {}
            BY <1>7, <2>2 DEF Accept, WithProfile
        <3>2. c = Own => signalled
            BY <2>1 DEF OwnInv, Stopping
        <3> QED
            BY <2>1, <3>1, <3>2 DEF OwnInv, Stopping
    <2>3. CASE server # "live"
        <3>1. UNCHANGED <<profiles, greeting>>
            BY <1>7, <2>3 DEF Accept
        <3> QED
            BY <2>1, <3>1 DEF OwnInv, Stopping
    <2> QED
        BY <2>2, <2>3
<1>8. ASSUME NEW c \in Client, Greet(c) PROVE OwnInv'
    <2>1. /\ UNCHANGED <<ui, signalled, stops, game, profiles, connecting>>
          /\ c \in greeting /\ greeting' = {} /\ ~crashed
        BY <1>8 DEF Greet
    <2>2. crashed' = TRUE \/ greeted' = greeted \cup {c}
        BY <1>8 DEF Greet
    <2>3. Own \in profiles => Own \in greeted \cup {c}
        BY <2>1 DEF OwnInv
    <2> QED
        BY <2>1, <2>2, <2>3 DEF OwnInv, Stopping
<1>9. CASE LateRequest
    BY <1>9 DEF LateRequest, OwnInv, Stopping
<1>10. ASSUME NEW c \in Client, Connect(c) PROVE OwnInv'
    BY <1>10 DEF Connect, OwnInv, Stopping
<1>11. CASE UNCHANGED vars
    BY <1>11 DEF vars, OwnInv, Stopping
<1> QED
    BY <1>1, <1>2, <1>3, <1>4, <1>5, <1>6, <1>7, <1>8, <1>9, <1>10, <1>11 DEF Next, Network

\* run and loadGame come before the own client, whatever other clients and the
\* two threads do meanwhile: it is greeted, and with a loaded level.
THEOREM OwnClientGreeted == Spec => []OwnIsGreeted
<1>1. IInv /\ OwnInv => OwnIsGreeted
    <2> SUFFICES ASSUME IInv, OwnInv PROVE OwnIsGreeted
        OBVIOUS
    <2>1. Own \in greeting /\ stops = 0 => game = "loaded"
        BY DEF IInv, TypeOK, OwnInv
    <2> QED
        BY <2>1 DEF OwnInv, OwnIsGreeted
<1> QED
    BY <1>1, InitOwn, NextKeepsOwn, InvHolds, PTL DEF Spec
=============================================================================
