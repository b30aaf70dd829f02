--------------------------- MODULE GameReplication ---------------------------
(***************************************************************************)
(* The game server, its network thread and the game clients, over ordered  *)
(* connections (what NetworkServerSession provides, see SessionIsAStream). *)
(*                                                                         *)
(* The server's game thread broadcasts every unit and obstacle to every    *)
(* player, over and over (GameServer::loop).  Its network thread accepts a *)
(* client, appends a PlayerProfile, sends the client its player ID and     *)
(* then every item once (handleSessionAccepted), while the broadcast goes  *)
(* on.  A client appends each item it has not seen to a list of its own    *)
(* (handleGameUnit).  A touch is answered by a request that names a unit   *)
(* by its INDEX in the client's list; the server looks the index up in its *)
(* own list (unitByIndex).                                                 *)
(*                                                                         *)
(* Units and obstacles are the numbers 1..NItems in the order the server   *)
(* holds them; an obstacle has no owner.  The contents of an item is the   *)
(* number of changes made to it.                                           *)
(***************************************************************************)
EXTENDS Naturals, Sequences, FiniteSets, SequencesExt, FiniteSetsExt

CONSTANTS
    Client,             \* clients that may connect, each once
    NoClient,           \* the network thread is greeting nobody
    NItems,             \* units and obstacles of the level
    Owner,              \* Owner[item]: the player ID, ID_NONE for an obstacle
    FrameUnits,         \* own units processFrame looks at (5 in the code)
    MaxTicks,           \* bound: passes in which proceed changes something
    MaxFrames,          \* bound: frames each client processes
    Backlog             \* bound: messages on their way to a client

ID_NONE == 0
ID_FIRST_CLIENT == 4

Item == 1..NItems
Idle == 0               \* the game thread is between two passes
Player == ID_FIRST_CLIENT..ID_FIRST_CLIENT + Cardinality(Client) - 1
MaxVersion == MaxTicks + 2 * MaxFrames  \* a frame highlights a unit and back

ASSUME InstanceAssumption ==
    /\ NoClient \notin Client
    /\ IsFiniteSet(Client)
    /\ NItems \in Nat \ {0}
    /\ Owner \in [Item -> Nat]
    /\ FrameUnits \in Nat /\ MaxTicks \in Nat /\ MaxFrames \in Nat
    /\ Backlog \in Nat \ {0}

VARIABLES
    version,            \* changes made to each of the server's items
    highlighted,        \* the server's items with isHighlighted set
    ticks,              \* proceeds that changed something so far
    profiles,           \* m_playerProfiles: clients in order of acceptance
    broadcast,          \* where Game::synchronize(ID_ALL_CLIENTS) stands
    greeting,           \* where handleSessionAccepted stands
    toClient,           \* messages sent to each client, not yet handled
    toServer,           \* requests sent by each client, not yet handled
    ownPlayerID,        \* the client's m_ownPlayerID
    list,               \* the client's m_gameUnits and m_gameObstacles
    copy,               \* the version of each item in the client's list
    frames,             \* frames each client has processed
    crashed,            \* clients that dereferenced an empty GameUnitPtr
    lastMove,           \* history: what the last move request asked and did
    cleanAccept         \* history: accepted while the game thread was idle

serverVars == <<version, highlighted, ticks, profiles, broadcast, greeting>>
clientVars == <<ownPlayerID, list, copy, frames, crashed>>
history == <<lastMove, cleanAccept>>
vars == <<serverVars, clientVars, toClient, toServer, history>>

PlayerIDMessage == [player : Player]
ItemMessage == [item : Item, version : 0..MaxVersion]
Request == [kind : {"move", "highlight", "unhighlight"},
            index : 1..FrameUnits, touched : Item \cup {0}]

TypeOK ==
    /\ version \in [Item -> 0..MaxVersion]
    /\ highlighted \subseteq Item
    /\ ticks \in 0..MaxTicks
    /\ profiles \in BoundedSeq(Client, Cardinality(Client))
    /\ broadcast \in [item : Item \cup {Idle}, to : 0..Cardinality(Client) + 1,
                      version : 0..MaxVersion]
    /\ greeting \in [client : Client \cup {NoClient}, item : 0..NItems]
    /\ \A c \in Client :
        /\ \A i \in DOMAIN toClient[c] : toClient[c][i] \in PlayerIDMessage \cup ItemMessage
        /\ \A i \in DOMAIN toServer[c] : toServer[c][i] \in Request
        /\ Range(list[c]) \subseteq Item
    /\ ownPlayerID \in [Client -> Player \cup {ID_NONE}]
    /\ copy \in [Client -> [Item -> 0..MaxVersion]]
    /\ frames \in [Client -> 0..MaxFrames]
    /\ crashed \subseteq Client
    /\ lastMove \in [client : Client \cup {NoClient}, touched : Item \cup {0},
                     moved : Item \cup {0}]
    /\ cleanAccept \subseteq Client

(* GameServer::run and loadGame are done, nobody is connected yet.          *)
Init ==
    /\ version = [i \in Item |-> 0]
    /\ highlighted = {}
    /\ ticks = 0
    /\ profiles = <<>>
    /\ broadcast = [item |-> Idle, to |-> 0, version |-> 0]
    /\ greeting = [client |-> NoClient, item |-> 0]
    /\ toClient = [c \in Client |-> <<>>]
    /\ toServer = [c \in Client |-> <<>>]
    /\ ownPlayerID = [c \in Client |-> ID_NONE]
    /\ list = [c \in Client |-> <<>>]
    /\ copy = [c \in Client |-> [i \in Item |-> 0]]
    /\ frames = [c \in Client |-> 0]
    /\ crashed = {}
    /\ lastMove = [client |-> NoClient, touched |-> 0, moved |-> 0]
    /\ cleanAccept = {}

(***************************************************************************)
(* Shared by server and clients                                            *)
(***************************************************************************)

\* unitByIndex skips the units of other players; places in the list.
AnyUnits(items, player) == {p \in DOMAIN items : Owner[items[p]] # ID_NONE}  \* mutant: no owner check
PlacesOf(items, player) ==
    {p \in DOMAIN items : Owner[items[p]] = player /\ player # ID_NONE}

\* unitByIndex counts from the first of them to the index, from 1 here; 0 is
\* the empty pointer.
UnitByIndex(items, player, index) ==
    LET own == PlacesOf(items, player)
        found == {p \in own : Cardinality({q \in own : q <= p}) = index}
    IN  IF found = {} THEN 0 ELSE items[CHOOSE p \in found : TRUE]

\* The server's own list is in the order in which load created the items.
ServerList == [i \in Item |-> i]

\* Player IDs count up from ID_FIRST_CLIENT in the order of acceptance.
PlayerIDOf(c) == ID_FIRST_CLIENT - 1 + CHOOSE i \in DOMAIN profiles : profiles[i] = c

\* A message for a client that is gone stays in its session's queue.
SentTo(c, m) ==
    IF c \in crashed THEN toClient ELSE [toClient EXCEPT ![c] = Append(@, m)]
Room(c) == Len(toClient[c]) < Backlog

(***************************************************************************)
(* The game thread: GameServer::loop                                       *)
(***************************************************************************)

SecondItem == 2         \* mutant: the loop starts at i = 1
FirstItem == 1

\* Game::proceed changes some units, then a pass starts at the first item.
Proceed ==
    /\ broadcast.item = Idle
    /\ \E changed \in SUBSET {i \in Item : Owner[i] # ID_NONE} :
        /\ ticks + (IF changed = {} THEN 0 ELSE 1) <= MaxTicks
        /\ ticks' = ticks + (IF changed = {} THEN 0 ELSE 1)
        /\ version' = [i \in Item |-> version[i] + (IF i \in changed THEN 1 ELSE 0)]
    /\ broadcast' = [item |-> FirstItem, to |-> 0, version |-> 0]
    /\ UNCHANGED <<highlighted, profiles, greeting, clientVars, toClient, toServer, history>>

\* Message::synchronize takes the item's mutex and copies its contents ...
TakeItem ==
    /\ broadcast.item # Idle
    /\ broadcast.to = 0
    /\ broadcast' = [broadcast EXCEPT !.to = 1, !.version = version[broadcast.item]]
    /\ UNCHANGED <<version, highlighted, ticks, profiles, greeting>>
    /\ UNCHANGED <<clientVars, toClient, toServer, history>>

\* ... GameNetworkServer::send gives the copy to one profile after another ...
SendToProfile ==
    /\ broadcast.to \in DOMAIN profiles
    /\ LET c == profiles[broadcast.to] IN
        /\ Room(c)
        /\ toClient' = SentTo(c, [item |-> broadcast.item, version |-> broadcast.version])
    /\ broadcast' = [broadcast EXCEPT !.to = @ + 1]
    /\ UNCHANGED <<version, highlighted, ticks, profiles, greeting>>
    /\ UNCHANGED <<clientVars, toServer, history>>

PastTheEnd(i) == i + 1  \* mutant: i <= size()
NextItem(i) == IF i < NItems THEN i + 1 ELSE Idle

\* ... and the mutex is released behind the last of them.
ReleaseItem ==
    /\ broadcast.to > Len(profiles)
    /\ broadcast' = [item |-> NextItem(broadcast.item), to |-> 0, version |-> 0]
    /\ UNCHANGED <<version, highlighted, ticks, profiles, greeting>>
    /\ UNCHANGED <<clientVars, toClient, toServer, history>>

GameLoop == Proceed \/ TakeItem \/ SendToProfile \/ ReleaseItem

(***************************************************************************)
(* The network thread: one handler at a time                               *)
(***************************************************************************)

Greeting == greeting.client # NoClient

\* GameNetworkServer::handleSessionAccepted, up to the signal.
HandleSessionAccepted(c) ==
    /\ ~Greeting
    /\ c \notin Range(profiles)
    /\ profiles' = Append(profiles, c)
    /\ greeting' = [client |-> c, item |-> 0]
    /\ cleanAccept' = IF broadcast.item = Idle THEN cleanAccept \cup {c} ELSE cleanAccept
    /\ UNCHANGED <<version, highlighted, ticks, broadcast, lastMove>>
    /\ UNCHANGED <<clientVars, toClient, toServer>>

\* GameServer::handleSessionAccepted: newPlayerID.synchronize(session).
SendPlayerID ==
    /\ Greeting
    /\ greeting.item = 0
    /\ Room(greeting.client)
    /\ toClient' = SentTo(greeting.client, [player |-> PlayerIDOf(greeting.client)])
    /\ greeting' = [greeting EXCEPT !.item = 1]
    /\ UNCHANGED <<version, highlighted, ticks, profiles, broadcast>>
    /\ UNCHANGED <<clientVars, toServer, history>>

NeverLocked(i) == FALSE     \* mutant: synchronize without m_registeredMessageTypesMutex
Locked(i) == broadcast.item = i /\ broadcast.to > 0

\* Game::synchronize(session): each item once, under the item's mutex.
SendItem ==
    /\ Greeting
    /\ greeting.item > 0
    /\ ~Locked(greeting.item)
    /\ Room(greeting.client)
    /\ toClient' = SentTo(greeting.client,
                          [item |-> greeting.item, version |-> version[greeting.item]])
    /\ greeting' = IF greeting.item < NItems
                   THEN [greeting EXCEPT !.item = @ + 1]
                   ELSE [client |-> NoClient, item |-> 0]
    /\ UNCHANGED <<version, highlighted, ticks, profiles, broadcast>>
    /\ UNCHANGED <<clientVars, toServer, history>>

\* GameServer::handleMoveRequest and handleHighlightRequest: the index is
\* looked up among the sender's units in the server's own list.
HandleRequest(c) ==
    /\ ~Greeting
    /\ toServer[c] # <<>>
    /\ toServer' = [toServer EXCEPT ![c] = Tail(@)]
    /\ LET request == Head(toServer[c])
           unit == UnitByIndex(ServerList, PlayerIDOf(c), request.index)
       IN
        /\ highlighted' =
                CASE unit # 0 /\ request.kind = "highlight" -> highlighted \cup {unit}
                  [] unit # 0 /\ request.kind = "unhighlight" -> highlighted \ {unit}
                  [] OTHER -> highlighted
        /\ version' = IF highlighted' = highlighted THEN version
                      ELSE [version EXCEPT ![unit] = @ + 1]
        /\ lastMove' = IF request.kind = "move"
                       THEN [client |-> c, touched |-> request.touched, moved |-> unit]
                       ELSE lastMove
    /\ UNCHANGED <<ticks, profiles, broadcast, greeting, cleanAccept>>
    /\ UNCHANGED <<clientVars, toClient>>

Greet == SendPlayerID \/ SendItem

(***************************************************************************)
(* A client: its network thread, and its user interface                    *)
(***************************************************************************)

NeverKnown(c, i) == FALSE   \* mutant: handleGameUnit without unitByID
Known(c, i) == i \in Range(list[c])

AtTheFront(c, i) == <<i>> \o list[c]    \* mutant: insert at begin()
WithNew(c, i) == Append(list[c], i)

\* handleGameUnit or handleGameObstacle, then the item's own updateData;
\* or handleNewPlayerID.
HandleMessage(c) ==
    /\ c \notin crashed
    /\ toClient[c] # <<>>
    /\ toClient' = [toClient EXCEPT ![c] = Tail(@)]
    /\ LET m == Head(toClient[c]) IN
        \/ /\ m \in PlayerIDMessage
           /\ ownPlayerID' = [ownPlayerID EXCEPT ![c] = m.player]
           /\ UNCHANGED <<list, copy>>
        \/ /\ m \in ItemMessage
           /\ list' = IF Known(c, m.item) THEN list
                      ELSE [list EXCEPT ![c] = WithNew(c, m.item)]
           /\ copy' = [copy EXCEPT ![c][m.item] = m.version]
           /\ UNCHANGED ownPlayerID
    /\ UNCHANGED <<frames, crashed, toServer, serverVars, history>>

\* The client's unitByIndex(index), among its own units.
OwnUnit(c, index) == UnitByIndex(list[c], ownPlayerID[c], index)

\* The requests processFrame sends for a touch nearest to the unit at index.
MoveOnly(index, unit) == <<[kind |-> "highlight", index |-> index, touched |-> unit],
                           [kind |-> "move", index |-> index, touched |-> unit]>>  \* mutant: the loop highlights nothing off
HighlightOff(count) ==
    [i \in 1..count |-> [kind |-> "unhighlight", index |-> i, touched |-> 0]]
FrameRequests(index, unit) ==
    HighlightOff(FrameUnits)
    \o <<[kind |-> "move", index |-> index, touched |-> unit],
         [kind |-> "highlight", index |-> index, touched |-> unit]>>

\* processFrame: find the unit nearest to the touch among the first five of
\* the player's units, and send the requests.  An empty pointer is fatal, at
\* the first index without a unit: the program dies with the requests for the
\* units before it sent.  Nothing says that the server still gets a request.
ProcessFrame(c) ==
    /\ c \notin crashed
    /\ frames[c] < MaxFrames
    /\ frames' = [frames EXCEPT ![c] = @ + 1]
    /\ \/ /\ \A i \in 1..FrameUnits : OwnUnit(c, i) # 0
          /\ \E nearest \in 1..FrameUnits :
                toServer' = [toServer EXCEPT
                                ![c] = @ \o FrameRequests(nearest, OwnUnit(c, nearest))]
          /\ UNCHANGED <<crashed, toClient>>
       \/ /\ \E first \in 1..FrameUnits :
                /\ OwnUnit(c, first) = 0
                /\ \A i \in 1..first - 1 : OwnUnit(c, i) # 0
                /\ toServer' = [toServer EXCEPT ![c] = @ \o HighlightOff(first - 1)]
          /\ crashed' = crashed \cup {c}
          /\ toClient' = [toClient EXCEPT ![c] = <<>>]
    /\ UNCHANGED <<ownPlayerID, list, copy, serverVars, history>>

Next ==
    \/ GameLoop
    \/ Greet
    \/ \E c \in Client : \/ HandleSessionAccepted(c)
                         \/ HandleRequest(c)
                         \/ HandleMessage(c)
                         \/ ProcessFrame(c)

Spec == Init /\ [][Next]_vars

\* The threads run.  Greet is strongly fair: the game loop keeps taking and
\* leaving each item's mutex but sleeps 20 ms with none of them held, and the
\* Backlog bound, which the code's queues do not have, also comes and goes.
FairSpec ==
    /\ Spec
    /\ WF_vars(GameLoop)
    /\ SF_vars(Greet)
    /\ \A c \in Client : WF_vars(HandleMessage(c))

-----------------------------------------------------------------------------
(***************************************************************************)
(* Properties                                                              *)
(***************************************************************************)

\* What a client shows never goes back to an older state of an item, though
\* two server threads send it copies of the same item.
NeverBackwards == [][\A c \in Client, i \in Item : copy'[c][i] >= copy[c][i]]_vars

\* The greeting and the broadcast both announce every item to a new client;
\* it lists each of them once.  (Part of ClientsFollow; proved as ListedOnce.)
EachItemOnce == \A c \in Client : IsInjective(list[c])

\* A touch moves the unit that was touched, for a client accepted between
\* two passes: index and list agree on both sides of the connection.
CleanTouchMovesTouched ==
    lastMove.client \in cleanAccept => lastMove.moved = lastMove.touched

\* Whatever order its list has, a player never moves a unit of the other.
OnlyOwnUnitsMove ==
    lastMove.moved # 0 => Owner[lastMove.moved] = PlayerIDOf(lastMove.client)

\* Once a player's frames are handled, exactly one of its units is highlighted.
OneUnitHighlighted ==
    \A c \in Range(profiles) :
        (frames[c] > 0 /\ c \notin crashed /\ toServer[c] = <<>>) =>
            Cardinality({i \in highlighted : Owner[i] = PlayerIDOf(c)}) = 1

\* Once nothing changes any more, every accepted client shows the server's
\* game and knows which units are its own.
Converges ==
    <>[](\A c \in Range(profiles) \ crashed :
            /\ Range(list[c]) = Item /\ copy[c] = version
            /\ ownPlayerID[c] = PlayerIDOf(c))

\* The server's game and the clients' copies, whatever is sent in between:
\* clients follow the server item by item, never back and never ahead of it,
\* and the place of an item in a list, by which requests name it, is final.
Replica == INSTANCE ReplicatedGame WITH
    game <- version, shown <- copy, listed <- list,
    Unit <- {i \in Item : Owner[i] # ID_NONE}
ClientsFollow == Replica!GameSpec

\* Application.cpp:74-75: processFrame is there "to recognize touch and
\* select the according game units".
TouchMovesTouched == lastMove.moved = lastMove.touched
=============================================================================
