--------------------------- MODULE MessageDispatch ---------------------------
(***************************************************************************)
(* How a client's messages find their objects: the handlers registered     *)
(* with GameNetworkInterface, the network thread that calls them, and the  *)
(* user-interface thread that shows the units and, in GameClient::stop,    *)
(* takes them away.                                                        *)
(*                                                                         *)
(* handleMessage copies the list of handlers under a mutex and calls them  *)
(* without it: a handler may register another one.  The first message of a *)
(* unit is answered by Game::handleGameUnit, which creates the unit; the   *)
(* unit registers Message::updateData for its own ID, and every later      *)
(* message of that ID updates it.  Destroying the unit unregisters it.     *)
(*                                                                         *)
(* Units are named by the number of the message they were created from.    *)
(* Obstacles have handlers, objects and a list of the same kind.  The      *)
(* handlers are a set: what one of them does never depends on whether      *)
(* another one of the same message has been called before.  The use of a   *)
(* destroyed object may go unnoticed or end the program.                   *)
(* Application leaves stop out (Application.cpp:397); it is modelled as    *)
(* the class offers it.                                                    *)
(***************************************************************************)
EXTENDS Naturals, Sequences, FiniteSets, SequencesExt

CONSTANTS
    Item,               \* message IDs of the server's units
    MaxMessages         \* bound: messages the client receives

EVENT == "event"        \* MESSAGE_ID_EVENT: the client's player ID
ID_ALL == "all"         \* MESSAGE_ID_ALL
None == 0               \* no unit: one of Game's own handlers, an empty GameUnitPtr

ASSUME InstanceAssumption ==
    /\ {EVENT, ID_ALL} \cap Item = {}
    /\ IsFiniteSet(Item)
    /\ MaxMessages \in Nat

VARIABLES
    received,           \* IDs of the messages received, the last one in hand
    phase,              \* where the network thread stands in handleMessage
    todo,               \* handlers of its copy that have not been called
    handlers,           \* m_messageHandlers
    handlerMutex,       \* who holds m_messageHandlerMutex
    gameUnits,          \* m_gameUnits
    alive,              \* units that are not destroyed
    content,            \* the message a unit's data is from
    ownPlayerID,        \* the message m_ownPlayerID is from
    ui,                 \* what the user-interface thread does next
    link,               \* the connection; "closing": unload is posted
    interface,          \* the GameNetworkClient
    freed,              \* units whose handlers its destructor has deleted
    crashed             \* the program has ended

networkVars == <<received, phase, todo>>
unitVars == <<gameUnits, alive, content, ownPlayerID>>
uiVars == <<ui, interface, freed>>
vars == <<networkVars, handlers, handlerMutex, unitVars, uiVars, link, crashed>>

Number == 1..MaxMessages
TypeOf(id) == IF id = EVENT THEN "player" ELSE "unit"
Handler == [type : {"unit", "player", "all types"}, id : Item \cup {ID_ALL},
            unit : Number \cup {None}]

\* Game::initializeMessageHandlers.
GameHandlers == [type : {"unit", "player"}, id : {ID_ALL}, unit : {None}]

TypeOK ==
    /\ received \in BoundedSeq(Item \cup {EVENT}, MaxMessages)
    /\ phase \in {"idle", "arrived", "copy", "call", "register", "insert"}
    /\ todo \subseteq Handler
    /\ handlers \subseteq Handler
    /\ handlerMutex \in {"free", "network"}
    /\ Range(gameUnits) \subseteq Number \cup {None}
    /\ Len(gameUnits) <= Cardinality(Item)
    /\ alive \subseteq Number
    /\ content \in [Number -> Number \cup {None}]
    /\ ownPlayerID \in Number \cup {None}
    /\ ui \in {"running", "reset", "signOut", "clear", "stopNetwork", "delete", "done"}
    /\ link \in {"open", "closing", "closed"}
    /\ interface \in {"live", "deleted"}
    /\ freed \subseteq Number \cup {None}
    /\ crashed \in BOOLEAN

\* GameClient is constructed, run and connected.
Init ==
    /\ received = <<>> /\ phase = "idle" /\ todo = {}
    /\ handlers = GameHandlers
    /\ handlerMutex = "free"
    /\ gameUnits = <<>> /\ alive = {}
    /\ content = [n \in Number |-> None]
    /\ ownPlayerID = None
    /\ ui = "running"
    /\ link = "open"
    /\ interface = "live"
    /\ freed = {}
    /\ crashed = FALSE

Misuse(isMisuse) == crashed' \in (IF isMisuse THEN BOOLEAN ELSE {FALSE})

(***************************************************************************)
(* The network thread                                                      *)
(***************************************************************************)

This == Len(received)
Id == received[This]

MatchesAllOnly(h, id) == h.id = ID_ALL      \* mutant: no look at the handler's own ID
MatchesID(h, id) == h.id = ID_ALL \/ h.id = id

Handles(h) == h.type \in {"all types", TypeOf(Id)} /\ MatchesID(h, Id)

In(p, q) == ~crashed /\ phase = p /\ phase' = q

\* NetworkClient has read a message; its signal calls handleMessage.
Receive ==
    /\ In("idle", "arrived")
    /\ link # "closed"
    /\ Len(received) < MaxMessages
    /\ \E id \in Item \cup {EVENT} : received' = Append(received, id)
    /\ Misuse(interface = "deleted")
    /\ UNCHANGED <<todo, handlers, handlerMutex, unitVars, uiVars, link>>

LockHandlers ==
    /\ In("arrived", "copy")
    /\ handlerMutex = "free"
    /\ handlerMutex' = "network"
    /\ Misuse(interface = "deleted")
    /\ UNCHANGED <<received, todo, handlers, unitVars, uiVars, link>>

StillLocked == "network"    \* mutant: the handlers are called under the mutex
AfterCopy == "free"

CopyHandlers ==
    /\ In("copy", "call")
    /\ todo' = handlers
    /\ handlerMutex' = AfterCopy
    /\ Misuse(interface = "deleted")
    /\ UNCHANGED <<received, handlers, unitVars, uiVars, link>>

Called(h) == ~crashed /\ phase = "call" /\ h \in todo
Deleted(h) == h.unit \in freed

SkipHandler(h) ==
    /\ Called(h)
    /\ ~Handles(h)
    /\ todo' = todo \ {h}
    /\ Misuse(Deleted(h))
    /\ UNCHANGED <<received, phase, handlers, handlerMutex, unitVars, uiVars, link>>

HandleNewPlayerID(h) ==
    /\ Called(h)
    /\ Handles(h) /\ h.type = "player"
    /\ ownPlayerID' = This
    /\ todo' = todo \ {h}
    /\ UNCHANGED <<received, phase, handlers, handlerMutex, uiVars, link, crashed>>
    /\ UNCHANGED <<gameUnits, alive, content>>

NeverKnown == FALSE         \* mutant: handleGameUnit without unitByID
Known == \E u \in Range(gameUnits) : received[u] = Id

\* handleGameUnit: unitByID looks into every pointer of the list, the empty
\* ones included; a unit that is not there is created ...
HandleGameUnit(h) ==
    /\ Called(h)
    /\ Handles(h) /\ h.type = "unit"
    /\ \/ /\ None \in Range(gameUnits)
          /\ crashed' = TRUE
          /\ UNCHANGED <<phase, alive>>
       \/ /\ None \notin Range(gameUnits) /\ Known
          /\ UNCHANGED <<phase, alive, crashed>>
       \/ /\ None \notin Range(gameUnits) /\ ~Known
          /\ phase' = "register"
          /\ alive' = alive \cup {This}
          /\ UNCHANGED crashed
    /\ todo' = todo \ {h}
    /\ UNCHANGED <<received, handlers, handlerMutex, uiVars, link>>
    /\ UNCHANGED <<gameUnits, content, ownPlayerID>>

\* ... createFromData, setMessageID: register updateData for the unit's ID ...
RegisterUnit ==
    /\ In("register", "insert")
    /\ handlerMutex = "free"
    /\ handlers' = IF interface = "deleted" THEN handlers
                   ELSE handlers \cup {[type |-> "all types", id |-> Id, unit |-> This]}
    /\ Misuse(interface = "deleted")
    /\ UNCHANGED <<received, todo, handlerMutex, unitVars, uiVars, link>>

\* ... createFromData, updateData, and push_back, which takes place while
\* phase is "insert".
InsertUnit ==
    /\ In("insert", "call")
    /\ content' = [content EXCEPT ![This] = This]
    /\ gameUnits' = Append(gameUnits, This)
    /\ UNCHANGED <<received, todo, handlers, handlerMutex, uiVars, link, crashed>>
    /\ UNCHANGED <<alive, ownPlayerID>>

\* Message::updateData, called through the unit's own handler.
UpdateData(h) ==
    /\ Called(h)
    /\ Handles(h) /\ h.unit # None
    /\ content' = IF h.unit \in alive THEN [content EXCEPT ![h.unit] = This] ELSE content
    /\ Misuse(h.unit \notin alive \/ Deleted(h))
    /\ todo' = todo \ {h}
    /\ UNCHANGED <<received, phase, handlers, handlerMutex, uiVars, link>>
    /\ UNCHANGED <<gameUnits, alive, ownPlayerID>>

EndDispatch ==
    /\ In("call", "idle")
    /\ todo = {}
    /\ UNCHANGED <<received, todo, handlers, handlerMutex, unitVars, uiVars, link, crashed>>

\* NetworkClient::unload calls GameNetworkClient's onConnectionClosed.
Unload ==
    /\ ~crashed
    /\ phase = "idle"
    /\ link = "closing"
    /\ link' = "closed"
    /\ Misuse(interface = "deleted")
    /\ UNCHANGED <<networkVars, handlers, handlerMutex, unitVars, uiVars>>

(***************************************************************************)
(* The user-interface thread                                               *)
(***************************************************************************)

UI(from, to) == ~crashed /\ ui = from /\ ui' = to
Inserting == phase = "insert"

\* render and unitByIndex walk through the list without a lock.
Render ==
    /\ UI("running", "running")
    /\ Misuse(Inserting)
    /\ UNCHANGED <<networkVars, handlers, handlerMutex, unitVars, interface, freed, link>>

\* GameClient::stop begins with Game::stop, which resets the game.
Stop ==
    /\ UI("running", "reset")
    /\ UNCHANGED <<networkVars, handlers, handlerMutex, unitVars, interface, freed>>
    /\ UNCHANGED <<link, crashed>>

StillRegistered(id) == handlers     \* mutant: ~Message does not unregister
Unregistered(id) == {h \in handlers : h.id # id}

\* Game::reset empties one pointer after the other; ~Message unregisters.
ResetUnit ==
    /\ UI("reset", "reset")
    /\ handlerMutex = "free"
    /\ \E i \in DOMAIN gameUnits :
        /\ gameUnits[i] # None
        /\ \A j \in 1..i - 1 : gameUnits[j] = None
        /\ gameUnits' = [gameUnits EXCEPT ![i] = None]
        /\ alive' = alive \ {gameUnits[i]}
        /\ handlers' = Unregistered(received[gameUnits[i]])
    /\ Misuse(Inserting)
    /\ UNCHANGED <<networkVars, handlerMutex, content, ownPlayerID, interface, freed, link>>

ClearUnits ==
    /\ UI("reset", "signOut")
    /\ Range(gameUnits) \subseteq {None}
    /\ gameUnits' = <<>>
    /\ Misuse(Inserting)
    /\ UNCHANGED <<networkVars, handlers, handlerMutex, interface, freed, link>>
    /\ UNCHANGED <<alive, content, ownPlayerID>>

PostUnload == link' = IF link = "open" THEN "closing" ELSE link

\* disconnectFromServer, and GameNetworkClient::stop below: both post unload.
SignOut ==
    /\ UI("signOut", "clear")
    /\ PostUnload
    /\ UNCHANGED <<networkVars, handlers, handlerMutex, unitVars, interface, freed, crashed>>

RemoveAllMessageHandlers ==
    /\ UI("clear", "stopNetwork")
    /\ handlerMutex = "free"
    /\ handlers' = {}
    /\ UNCHANGED <<networkVars, handlerMutex, unitVars, interface, freed, link, crashed>>

StopNetwork ==
    /\ UI("stopNetwork", "delete")
    /\ PostUnload
    /\ UNCHANGED <<networkVars, handlers, handlerMutex, unitVars, interface, freed, crashed>>

\* ~GameNetworkInterface deletes the handlers registered since.
DeleteInterface ==
    /\ UI("delete", "done")
    /\ handlerMutex = "free"
    /\ interface' = "deleted"
    /\ freed' = {h.unit : h \in handlers}
    /\ handlers' = {}
    /\ UNCHANGED <<networkVars, handlerMutex, unitVars, link, crashed>>

Network ==
    \/ Receive \/ LockHandlers \/ CopyHandlers \/ RegisterUnit \/ InsertUnit
    \/ \E h \in todo :
        SkipHandler(h) \/ HandleNewPlayerID(h) \/ HandleGameUnit(h) \/ UpdateData(h)
    \/ EndDispatch \/ Unload

UserInterface ==
    \/ Render \/ Stop \/ ResetUnit \/ ClearUnits \/ SignOut
    \/ RemoveAllMessageHandlers \/ StopNetwork \/ DeleteInterface

Next == Network \/ UserInterface

Spec == Init /\ [][Next]_vars

\* The network thread runs; whether the user stops the game is up to the user.
FairSpec == Spec /\ WF_vars(Network)

-----------------------------------------------------------------------------
(***************************************************************************)
(* Properties                                                              *)
(***************************************************************************)

\* A handler is registered for living units only, also while the user-interface
\* thread destroys them and the network thread creates others: only a copy of
\* the list that is older than the destruction can lead to a destroyed unit.
RegisteredAreAlive == \A h \in handlers : h.unit # None => h.unit \in alive

\* Between two messages a client shows what the last message of every unit
\* said, though the first one has to create the unit and register it behind
\* the back of the dispatch that is under way.
ShowsLatest ==
    (phase = "idle" /\ ui = "running" /\ ~crashed) =>
        \A i \in DOMAIN received :
            (received[i] # EVENT /\ \A j \in i + 1..This : received[j] # received[i]) =>
                \E u \in Range(gameUnits) : received[u] = received[i] /\ content[u] = i

\* "Copy to prevent multiple thread access and deadlocks"
\* (GameNetworkInterface.cpp:72): handling a message always ends, whatever
\* its handlers register or the other thread takes away.
DispatchEnds == phase # "idle" ~> (phase = "idle" \/ crashed)
=============================================================================
