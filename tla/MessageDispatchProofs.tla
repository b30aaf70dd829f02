------------------------ MODULE MessageDispatchProofs ------------------------
(***************************************************************************)
(* No destroyed unit is registered, for any number of units and messages.  *)
(* Destroying a unit removes the handlers of its message ID, so the        *)
(* argument needs that a unit's handler carries the ID of its unit, and    *)
(* that the unit the network thread is creating is not yet in the list     *)
(* that the user-interface thread empties.                                 *)
(***************************************************************************)
EXTENDS MessageDispatch, SequenceTheorems, FiniteSetTheorems, TLAPS

InHand == phase \in {"register", "insert"} =>
    /\ This \in alive
    /\ \A i \in DOMAIN gameUnits : gameUnits[i] # This

RegisteredByID ==
    \A h \in handlers : h.unit # None =>
        h.unit \in DOMAIN received /\ h.id = received[h.unit]

IInv ==
    /\ received \in Seq(Item \cup {EVENT})
    /\ gameUnits \in Seq(Nat)
    /\ phase # "idle" => received # <<>>
    /\ InHand
    /\ RegisteredByID
    /\ RegisteredAreAlive

\* The client starts with Game's own handlers and no units.
LEMMA InitIInv == Init => IInv
<1> SUFFICES ASSUME Init PROVE IInv
    OBVIOUS
<1>1. received \in Seq(Item \cup {EVENT}) /\ gameUnits \in Seq(Nat)
    BY DEF Init
<1>2. InHand /\ phase = "idle"
    BY DEF Init, InHand
<1>3. \A h \in handlers : h.unit = None
    BY DEF Init, GameHandlers
<1> QED BY <1>1, <1>2, <1>3 DEF IInv, RegisteredByID, RegisteredAreAlive

\* While a message is in hand, its number is an index of what was received.
LEMMA ThisReceived ==
    ASSUME IInv, phase # "idle"
    PROVE  This \in Nat /\ This # None /\ This \in DOMAIN received
<1>1. received \in Seq(Item \cup {EVENT}) /\ received # <<>>
    BY DEF IInv
<1>2. Len(received) \in Nat /\ Len(received) # 0 /\ DOMAIN received = 1..Len(received)
    BY <1>1, EmptySeq, LenProperties
<1> QED BY <1>2 DEF This, None

\* Steps that touch neither messages, units nor handlers, and do not put the
\* network thread into the creation of a unit.
LEMMA Untouched ==
    ASSUME IInv, UNCHANGED <<received, gameUnits, alive>>, handlers' \subseteq handlers,
           phase' = phase \/ (phase # "idle" /\ phase' \in {"copy", "call", "insert"}
                              /\ (phase' = "insert" => phase = "register"))
                          \/ phase' = "idle"
    PROVE  IInv'
<1>1. received' \in Seq(Item \cup {EVENT}) /\ gameUnits' \in Seq(Nat)
    BY DEF IInv
<1>2. (phase # "idle" => received # <<>>)'
    BY DEF IInv
<1>3. InHand'
    BY DEF IInv, InHand, This
<1>4. RegisteredByID' /\ RegisteredAreAlive'
    BY DEF IInv, RegisteredByID, RegisteredAreAlive
<1> QED BY <1>1, <1>2, <1>3, <1>4 DEF IInv

\* Every step of the two threads keeps the invariant.
LEMMA NextIInv == IInv /\ [Next]_vars => IInv'
<1> SUFFICES ASSUME IInv, [Next]_vars PROVE IInv'
    OBVIOUS
<1> USE DEF networkVars, unitVars, uiVars
<1>1. CASE Receive
    <2>1. PICK id \in Item \cup {EVENT} : received' = Append(received, id)
        BY <1>1 DEF Receive
    <2>2. /\ received' \in Seq(Item \cup {EVENT})
          /\ received' # <<>>
          /\ \A i \in DOMAIN received : i \in DOMAIN received' /\ received'[i] = received[i]
        BY <2>1, AppendProperties DEF IInv
    <2>3. phase' = "arrived" /\ UNCHANGED <<gameUnits, handlers, alive>>
        BY <1>1 DEF Receive, In
    <2>4. InHand'
        BY <2>3 DEF InHand
    <2>5. RegisteredByID' /\ RegisteredAreAlive'
        BY <2>2, <2>3 DEF IInv, RegisteredByID, RegisteredAreAlive
    <2> QED BY <2>2, <2>3, <2>4, <2>5 DEF IInv
<1>2. CASE LockHandlers
    BY <1>2, Untouched DEF LockHandlers, In
<1>3. CASE CopyHandlers
    BY <1>3, Untouched DEF CopyHandlers, In
<1>4. ASSUME NEW h \in todo, SkipHandler(h) \/ HandleNewPlayerID(h) \/ UpdateData(h)
      PROVE  IInv'
    BY <1>4, Untouched DEF SkipHandler, HandleNewPlayerID, UpdateData
<1>5. ASSUME NEW h \in todo, HandleGameUnit(h)
      PROVE  IInv'
    <2>1. CASE phase' = phase /\ alive' = alive
        BY <1>5, <2>1, Untouched DEF HandleGameUnit
    <2>2. CASE /\ phase' = "register" /\ alive' = alive \cup {This} /\ ~Known
        <3>1. /\ phase = "call"
              /\ UNCHANGED <<received, gameUnits, handlers>>
            BY <1>5 DEF HandleGameUnit, Called
        <3>2. \A i \in DOMAIN gameUnits : gameUnits[i] # This
            BY <2>2 DEF Known, Range, Id
        <3>3. InHand'
            BY <2>2, <3>1, <3>2 DEF InHand, This
        <3>4. RegisteredByID' /\ RegisteredAreAlive'
            BY <2>2, <3>1 DEF IInv, RegisteredByID, RegisteredAreAlive
        <3> QED BY <3>1, <3>3, <3>4 DEF IInv
    <2> QED BY <1>5, <2>1, <2>2 DEF HandleGameUnit
<1>6. CASE RegisterUnit
    <2>1. /\ phase = "register" /\ phase' = "insert"
          /\ UNCHANGED <<received, gameUnits, alive>>
        BY <1>6 DEF RegisterUnit, In
    <2>2. \A h \in handlers' :
            h \in handlers \/ h = [type |-> "all types", id |-> Id, unit |-> This]
        BY <1>6 DEF RegisterUnit
    <2>3. This \in DOMAIN received /\ This \in alive
        BY <2>1, ThisReceived DEF IInv, InHand
    <2>4. InHand'
        BY <2>1 DEF IInv, InHand, This
    <2>5. ASSUME NEW h \in handlers', h.unit # None
          PROVE  h.unit \in DOMAIN received /\ h.id = received[h.unit] /\ h.unit \in alive
        <3>1. CASE h \in handlers
            BY <2>5, <3>1 DEF IInv, RegisteredByID, RegisteredAreAlive
        <3>2. CASE h = [type |-> "all types", id |-> Id, unit |-> This]
            <4>1. h.unit = This /\ h.id = received[This]
                BY <3>2 DEF Id
            <4> QED BY <2>3, <4>1
        <3> QED BY <2>2, <3>1, <3>2
    <2>6. RegisteredByID' /\ RegisteredAreAlive'
        BY <2>1, <2>5 DEF RegisteredByID, RegisteredAreAlive
    <2> QED BY <2>1, <2>4, <2>6 DEF IInv
<1>7. CASE InsertUnit
    <2>1. /\ phase = "insert" /\ phase' = "call"
          /\ UNCHANGED <<received, handlers, alive>>
          /\ gameUnits' = Append(gameUnits, This)
        BY <1>7 DEF InsertUnit, In
    <2>2. gameUnits' \in Seq(Nat)
        BY <2>1, ThisReceived, AppendProperties DEF IInv
    <2>3. InHand' /\ RegisteredByID' /\ RegisteredAreAlive'
        BY <2>1 DEF IInv, InHand, RegisteredByID, RegisteredAreAlive
    <2> QED BY <2>1, <2>2, <2>3 DEF IInv
<1>8. CASE EndDispatch
    BY <1>8, Untouched DEF EndDispatch, In
<1>9. CASE Unload \/ Render \/ Stop \/ SignOut \/ StopNetwork
    BY <1>9, Untouched DEF Unload, Render, Stop, SignOut, StopNetwork
<1>10. CASE ResetUnit
    <2>1. PICK i \in DOMAIN gameUnits :
            /\ gameUnits[i] # None
            /\ gameUnits' = [gameUnits EXCEPT ![i] = None]
            /\ alive' = alive \ {gameUnits[i]}
            /\ handlers' = {h \in handlers : h.id # received[gameUnits[i]]}
        BY <1>10 DEF ResetUnit, Unregistered
    <2>2. UNCHANGED <<received, phase>>
        BY <1>10 DEF ResetUnit
    <2>3. gameUnits' \in Seq(Nat) /\ DOMAIN gameUnits' = DOMAIN gameUnits
        BY <2>1, ExceptSeq DEF IInv, None
    <2>4. InHand'
        <3> SUFFICES ASSUME phase \in {"register", "insert"}
                     PROVE  This \in alive' /\ \A j \in DOMAIN gameUnits' : gameUnits'[j] # This
            BY <2>2 DEF InHand, This
        <3>1. This # None /\ This \in alive /\ \A j \in DOMAIN gameUnits : gameUnits[j] # This
            BY ThisReceived DEF IInv, InHand
        <3> QED BY <2>1, <2>3, <3>1
    <2>5. RegisteredByID'
        BY <2>1, <2>2 DEF IInv, RegisteredByID
    <2>6. RegisteredAreAlive'
        BY <2>1 DEF IInv, RegisteredByID, RegisteredAreAlive
    <2> QED BY <2>2, <2>3, <2>4, <2>5, <2>6 DEF IInv
<1>11. CASE ClearUnits
    <2>1. gameUnits' = <<>> /\ UNCHANGED <<received, phase, handlers, alive>>
        BY <1>11 DEF ClearUnits
    <2>2. InHand' /\ RegisteredByID' /\ RegisteredAreAlive'
        BY <2>1 DEF IInv, InHand, RegisteredByID, RegisteredAreAlive, This
    <2> QED BY <2>1, <2>2 DEF IInv
<1>12. CASE RemoveAllMessageHandlers \/ DeleteInterface
    BY <1>12, Untouched DEF RemoveAllMessageHandlers, DeleteInterface
<1>13. CASE UNCHANGED vars
    BY <1>13, Untouched DEF vars
<1> QED
    BY <1>1, <1>2, <1>3, <1>4, <1>5, <1>6, <1>7, <1>8, <1>9, <1>10, <1>11, <1>12, <1>13
    DEF Next, Network, UserInterface

\* However many units and messages there are, and whenever the user-interface
\* thread resets the game, a copy of the handlers taken now leads to living
\* units only.
THEOREM NoDestroyedHandler == Spec => []RegisteredAreAlive
<1>1. IInv => RegisteredAreAlive
    BY DEF IInv
<1> QED BY InitIInv, NextIInv, <1>1, PTL DEF Spec

-----------------------------------------------------------------------------
(***************************************************************************)
(* What is shown while the user-interface thread only renders.  Behind the *)
(* copy of the handlers that the network thread works through, handlers    *)
(* and units are only added: a unit that has been there when the copy was  *)
(* made is updated through it, one that was not is created by Game's own   *)
(* handler, and nothing else is touched.                                   *)
(***************************************************************************)
Running == ui = "running" /\ ~crashed

OwnHandler(u) == [type |-> "all types", id |-> received[u], unit |-> u]
GameUnitHandler == [type |-> "unit", id |-> ID_ALL, unit |-> None]
Units == Range(gameUnits)

\* Units of the list live and are registered; no two have the same ID.
ListInv ==
    /\ interface = "live" /\ freed = {}
    /\ Units \subseteq alive \cap DOMAIN received
    /\ \A u \in Units : OwnHandler(u) \in handlers
    /\ \A u, v \in Units : received[u] = received[v] => u = v
    /\ GameUnitHandler \in handlers
    /\ todo \subseteq handlers
    /\ Len(received) <= MaxMessages
    /\ DOMAIN content = Number

Latest(i) == received[i] # EVENT /\ \A j \in DOMAIN received : j > i => received[j] # received[i]
Shown(i) == \E u \in Units : received[u] = received[i] /\ content[u] = i

\* All messages but the one in hand are shown ...
EarlierShown ==
    \A i \in DOMAIN received : (phase = "idle" \/ i < This) /\ Latest(i) => Shown(i)

\* ... and the one in hand will be, by a handler of the copy.
WillBeShown ==
    /\ phase = "call" /\ Id # EVENT =>
        /\ Known \/ GameUnitHandler \in todo
        /\ \A u \in Units : received[u] = Id => content[u] = This \/ OwnHandler(u) \in todo
    /\ phase \in {"register", "insert"} => ~Known
    /\ phase = "insert" => OwnHandler(This) \in handlers

ShowInv == Running => ListInv /\ EarlierShown /\ WillBeShown

\* The units and the messages up to n are indices of what was received.
LEMMA Indices ==
    ASSUME IInv
    PROVE  /\ Len(received) \in Nat /\ DOMAIN received = 1..Len(received)
           /\ phase # "idle" => This \in DOMAIN received
BY LenProperties, ThisReceived DEF IInv

\* An empty client shows all it has been told: nothing.
LEMMA InitShow == Init => ShowInv
<1> SUFFICES ASSUME Init PROVE ListInv /\ EarlierShown /\ WillBeShown
    BY DEF ShowInv
<1>1. DOMAIN received = {} /\ Units = {} /\ Len(received) = 0
    BY DEF Init, Units, Range
<1>2. GameUnitHandler \in handlers
    BY DEF Init, GameHandlers, GameUnitHandler
<1>3. DOMAIN content = Number
    BY DEF Init
<1>4. ListInv
    BY <1>1, <1>2, <1>3, InstanceAssumption DEF Init, ListInv
<1> QED
    BY <1>1, <1>4 DEF Init, EarlierShown, WillBeShown

\* Steps of the network thread that leave messages, units and handlers alone.
LEMMA ShowUntouched ==
    ASSUME ListInv, EarlierShown,
           UNCHANGED <<received, gameUnits, alive, content, handlers, interface, freed>>,
           todo' \subseteq handlers, phase # "idle", phase' # "idle"
    PROVE  ListInv' /\ EarlierShown'
<1>1. ListInv'
    BY DEF ListInv, Units, OwnHandler
<1>2. EarlierShown'
    BY DEF EarlierShown, Latest, Shown, Units, This
<1> QED
    BY <1>1, <1>2

LEMMA ReceiveShows == IInv /\ ListInv /\ EarlierShown /\ Receive => ListInv' /\ EarlierShown' /\ WillBeShown'
<1> SUFFICES ASSUME IInv, ListInv, EarlierShown, Receive
             PROVE  ListInv' /\ EarlierShown' /\ WillBeShown'
    OBVIOUS
<1>1. PICK id \in Item \cup {EVENT} : received' = Append(received, id)
    BY DEF Receive
<1>2. /\ phase = "idle" /\ phase' = "arrived" /\ Len(received) < MaxMessages
      /\ UNCHANGED <<todo, handlers, gameUnits, alive, content, interface, freed>>
    BY DEF Receive, In, unitVars, uiVars
<1>3. /\ Len(received) \in Nat /\ DOMAIN received = 1..Len(received)
      /\ Len(received') = Len(received) + 1 /\ DOMAIN received' = 1..Len(received')
      /\ \A i \in DOMAIN received : received'[i] = received[i]
    <2>1. received \in Seq(Item \cup {EVENT})
        BY DEF IInv
    <2>2. received' \in Seq(Item \cup {EVENT})
        BY <1>1, <2>1, AppendProperties
    <2> QED
        BY <1>1, <2>1, <2>2, LenProperties, AppendProperties
<1>4. Units' = Units /\ Units \subseteq DOMAIN received
    BY <1>2 DEF Units, ListInv
<1>5. \A u \in Units : OwnHandler(u)' = OwnHandler(u)
    BY <1>3, <1>4 DEF OwnHandler
<1>6. ListInv'
    BY <1>2, <1>3, <1>4, <1>5, InstanceAssumption DEF ListInv, GameUnitHandler
<1>7. ASSUME NEW i \in DOMAIN received', i < This', Latest(i)'
      PROVE  Shown(i)'
    <2>1. i \in DOMAIN received
        BY <1>3, <1>7 DEF This
    <2>2. Latest(i)
        BY <1>3, <1>7, <2>1 DEF Latest
    <2>3. Shown(i)
        BY <1>2, <2>1, <2>2 DEF EarlierShown
    <2> QED
        BY <1>2, <1>3, <1>4, <2>1, <2>3 DEF Shown
<1> QED
    BY <1>2, <1>6, <1>7 DEF EarlierShown, WillBeShown

\* Locking and copying: every handler is in the copy.
LEMMA CopyShows ==
    ASSUME IInv, ListInv, EarlierShown, WillBeShown, LockHandlers \/ CopyHandlers
    PROVE  ListInv' /\ EarlierShown' /\ WillBeShown'
<1>1. UNCHANGED <<received, gameUnits, alive, content, handlers, interface, freed>>
    BY DEF LockHandlers, CopyHandlers, unitVars, uiVars
<1>2. CASE LockHandlers
    <2>1. phase = "arrived" /\ phase' = "copy" /\ todo' = todo
        BY <1>2 DEF LockHandlers, In
    <2>2. ListInv' /\ EarlierShown'
        BY <1>1, <2>1, ShowUntouched DEF ListInv
    <2> QED
        BY <2>1, <2>2 DEF WillBeShown
<1>3. CASE CopyHandlers
    <2>1. phase = "copy" /\ phase' = "call" /\ todo' = handlers
        BY <1>3 DEF CopyHandlers, In
    <2>2. ListInv' /\ EarlierShown'
        BY <1>1, <2>1, ShowUntouched
    <2>3. GameUnitHandler \in todo' /\ \A u \in Units : OwnHandler(u) \in todo'
        BY <2>1 DEF ListInv
    <2>4. Units' = Units /\ GameUnitHandler' = GameUnitHandler
          /\ \A u : OwnHandler(u)' = OwnHandler(u)
        BY <1>1 DEF Units, OwnHandler, GameUnitHandler
    <2> QED
        BY <2>1, <2>2, <2>3, <2>4 DEF WillBeShown
<1> QED
    BY <1>2, <1>3

\* A handler that is called and leaves units and contents alone.
LEMMA CallShows ==
    ASSUME IInv, ListInv, EarlierShown, WillBeShown, NEW h \in todo,
           phase = "call", phase' = "call", todo' = todo \ {h},
           UNCHANGED <<received, gameUnits, alive, content, handlers, interface, freed>>,
           Id # EVENT /\ h = GameUnitHandler => Known,
           \A u \in Units : Id # EVENT /\ received[u] = Id => h # OwnHandler(u)
    PROVE  ListInv' /\ EarlierShown' /\ WillBeShown'
<1>1. ListInv' /\ EarlierShown'
    BY ShowUntouched DEF ListInv
<1>2. /\ Units' = Units /\ Known' = Known /\ Id' = Id /\ This' = This
      /\ GameUnitHandler' = GameUnitHandler /\ \A u : OwnHandler(u)' = OwnHandler(u)
    BY DEF Units, Known, Id, This, OwnHandler, GameUnitHandler
<1>3. ASSUME Id # EVENT PROVE Known \/ GameUnitHandler \in todo'
    BY <1>3 DEF WillBeShown
<1>4. ASSUME Id # EVENT, NEW u \in Units, received[u] = Id
      PROVE  content[u] = This \/ OwnHandler(u) \in todo'
    BY <1>4 DEF WillBeShown
<1> QED
    BY <1>1, <1>2, <1>3, <1>4 DEF WillBeShown

\* The handlers' fields.
LEMMA HandlerFields ==
    /\ \A u : /\ OwnHandler(u).type = "all types"
              /\ OwnHandler(u).id = received[u]
              /\ OwnHandler(u).unit = u
    /\ GameUnitHandler.type = "unit" /\ GameUnitHandler.id = ID_ALL
BY DEF OwnHandler, GameUnitHandler

\* Of a unit's message the own handlers of its units are called, and Game's.
LEMMA SkipOrPlayerShows ==
    ASSUME IInv, ListInv, EarlierShown, WillBeShown, NEW h \in todo,
           SkipHandler(h) \/ HandleNewPlayerID(h)
    PROVE  ListInv' /\ EarlierShown' /\ WillBeShown'
<1>1. /\ phase = "call" /\ phase' = "call" /\ todo' = todo \ {h}
      /\ UNCHANGED <<received, gameUnits, alive, content, handlers, interface, freed>>
    BY DEF SkipHandler, HandleNewPlayerID, Called, unitVars, uiVars
<1>2. ~Handles(h) \/ h.type = "player"
    BY DEF SkipHandler, HandleNewPlayerID
<1>3. Id # EVENT => h # GameUnitHandler
    <2>1. GameUnitHandler.type # "player" /\ (Id # EVENT => Handles(GameUnitHandler))
        BY HandlerFields DEF Handles, TypeOf, MatchesID
    <2> QED
        BY <1>2, <2>1
<1>4. \A u \in Units : received[u] = Id => h # OwnHandler(u)
    <2>1. \A u : OwnHandler(u).type # "player" /\ (received[u] = Id => Handles(OwnHandler(u)))
        BY HandlerFields DEF Handles, MatchesID
    <2> QED
        BY <1>2, <2>1
<1> QED
    BY <1>1, <1>3, <1>4, CallShows

\* handleGameUnit: either the unit is known, or it is being created.
LEMMA GameUnitShows ==
    ASSUME IInv, ListInv, EarlierShown, WillBeShown, NEW h \in todo,
           HandleGameUnit(h), ~crashed'
    PROVE  ListInv' /\ EarlierShown' /\ WillBeShown'
<1>1. /\ phase = "call" /\ todo' = todo \ {h} /\ h.type = "unit"
      /\ UNCHANGED <<received, gameUnits, content, handlers, interface, freed>>
    BY DEF HandleGameUnit, Called, uiVars
<1>2. CASE Known /\ phase' = phase /\ alive' = alive
    <2>1. \A u \in Units : h # OwnHandler(u)
        BY <1>1, HandlerFields
    <2> QED
        BY <1>1, <1>2, <2>1, CallShows
<1>3. CASE ~Known /\ phase' = "register" /\ alive' = alive \cup {This}
    <2>1. ListInv'
        BY <1>1, <1>3 DEF ListInv, Units, OwnHandler, GameUnitHandler
    <2>2. EarlierShown'
        BY <1>1, <1>3 DEF EarlierShown, Latest, Shown, Units, This
    <2>3. Known' = Known
        BY <1>1 DEF Known, Id, This
    <2>4. WillBeShown'
        BY <1>3, <2>3 DEF WillBeShown
    <2> QED
        BY <2>1, <2>2, <2>4
<1> QED
    BY <1>1, <1>2, <1>3 DEF HandleGameUnit

\* The new unit's handler is registered behind the copy.
LEMMA RegisterShows ==
    ASSUME IInv, ListInv, EarlierShown, WillBeShown, RegisterUnit
    PROVE  ListInv' /\ EarlierShown' /\ WillBeShown'
<1>1. /\ phase = "register" /\ phase' = "insert"
      /\ handlers' = handlers \cup {[type |-> "all types", id |-> Id, unit |-> This]}
      /\ UNCHANGED <<received, todo, gameUnits, alive, content, interface, freed>>
    BY DEF RegisterUnit, In, ListInv, unitVars, uiVars
<1>2. /\ Units' = Units /\ Known' = Known /\ This' = This
      /\ GameUnitHandler' = GameUnitHandler /\ \A u : OwnHandler(u)' = OwnHandler(u)
    BY <1>1 DEF Units, Known, Id, This, OwnHandler, GameUnitHandler
<1>3. ListInv'
    BY <1>1, <1>2 DEF ListInv
<1>4. EarlierShown'
    BY <1>1 DEF EarlierShown, Latest, Shown, Units, This
<1>5. OwnHandler(This) \in handlers'
    BY <1>1 DEF OwnHandler, Id
<1>6. WillBeShown'
    BY <1>1, <1>2, <1>5 DEF WillBeShown
<1> QED
    BY <1>3, <1>4, <1>6

\* updateData and push_back: the list has one unit more, with the message in
\* hand as its contents.
LEMMA InsertShows ==
    ASSUME IInv, ListInv, EarlierShown, WillBeShown, InsertUnit
    PROVE  ListInv' /\ EarlierShown' /\ WillBeShown'
<1>1. /\ phase = "insert" /\ phase' = "call"
      /\ content' = [content EXCEPT ![This] = This]
      /\ gameUnits' = Append(gameUnits, This)
      /\ UNCHANGED <<received, todo, handlers, alive, interface, freed>>
    BY DEF InsertUnit, In, uiVars
<1>2. /\ This \in DOMAIN received /\ This \in alive /\ This \in DOMAIN content
      /\ DOMAIN received = 1..Len(received)
    <2>1. This \in DOMAIN received /\ This \in alive
        BY <1>1, ThisReceived DEF IInv, InHand
    <2> QED
        BY <2>1, Indices, InstanceAssumption DEF ListInv, Number, This
<1>3. Units' = Units \cup {This}
    <2>1. gameUnits \in Seq(Nat) /\ This \in Nat
        BY <1>1, ThisReceived DEF IInv
    <2>2. /\ Len(gameUnits) \in Nat /\ DOMAIN gameUnits = 1..Len(gameUnits)
          /\ DOMAIN gameUnits' = 1..Len(gameUnits) + 1
          /\ \A i \in 1..Len(gameUnits) : gameUnits'[i] = gameUnits[i]
          /\ gameUnits'[Len(gameUnits) + 1] = This
        <3>1. gameUnits' \in Seq(Nat) /\ Len(gameUnits') = Len(gameUnits) + 1
            BY <1>1, <2>1, AppendProperties
        <3> QED
            BY <1>1, <2>1, <3>1, AppendProperties, LenProperties
    <2> QED
        BY <2>2 DEF Units, Range
<1>4. This \notin Units /\ \A u \in Units : received[u] # Id
    BY <1>1 DEF WillBeShown, Known, Units, Id
<1>5. /\ This' = This /\ Id' = Id /\ GameUnitHandler' = GameUnitHandler
      /\ \A u : OwnHandler(u)' = OwnHandler(u)
    BY <1>1 DEF This, Id, GameUnitHandler, OwnHandler
<1>6. ListInv'
    <2>1. OwnHandler(This) \in handlers
        BY <1>1 DEF WillBeShown
    <2>2. \A u, v \in Units' : received[u] = received[v] => u = v
        BY <1>3, <1>4 DEF ListInv, Id
    <2>3. DOMAIN content' = Number
        BY <1>1 DEF ListInv
    <2> QED
        BY <1>1, <1>2, <1>3, <1>5, <2>1, <2>2, <2>3 DEF ListInv
<1>7. ASSUME NEW i \in DOMAIN received', phase' = "idle" \/ i < This', Latest(i)'
      PROVE  Shown(i)'
    <2>1. i \in DOMAIN received /\ i < This /\ Latest(i)
        BY <1>1, <1>5, <1>7 DEF Latest
    <2>2. PICK u \in Units : received[u] = received[i] /\ content[u] = i
        BY <2>1 DEF EarlierShown, Shown
    <2>3. u # This
        BY <1>4
    <2>4. content'[u] = content[u]
        BY <1>1, <2>3
    <2> QED
        BY <1>1, <1>3, <2>2, <2>4 DEF Shown
<1>8. EarlierShown'
    BY <1>7 DEF EarlierShown
<1>9. content'[This] = This
    BY <1>1, <1>2
<1>10. Known'
    BY <1>1, <1>3 DEF Known, Units, Id, This
<1>11. WillBeShown'
    BY <1>1, <1>3, <1>4, <1>5, <1>9, <1>10 DEF WillBeShown
<1> QED
    BY <1>6, <1>8, <1>11

\* updateData through the own handler of a unit with the ID in hand.
LEMMA UpdateShows ==
    ASSUME IInv, ListInv, EarlierShown, WillBeShown, NEW h \in todo, UpdateData(h)
    PROVE  ListInv' /\ EarlierShown' /\ WillBeShown'
<1>1. /\ phase = "call" /\ phase' = "call" /\ todo' = todo \ {h}
      /\ h.unit # None /\ Handles(h)
      /\ UNCHANGED <<received, handlers, gameUnits, alive, interface, freed>>
    BY DEF UpdateData, Called, uiVars
<1>2. /\ h \in handlers /\ h.unit \in alive /\ h.unit \in DOMAIN received
      /\ h.id = received[h.unit]
    BY <1>1 DEF ListInv, IInv, RegisteredByID, RegisteredAreAlive
<1>3. content' = [content EXCEPT ![h.unit] = This]
    BY <1>2 DEF UpdateData
<1>4. /\ DOMAIN received = 1..Len(received) /\ Len(received) \in Nat
      /\ This \in DOMAIN received
      /\ h.unit \in DOMAIN content
    <2>1. DOMAIN received = 1..Len(received) /\ Len(received) \in Nat /\ This \in DOMAIN received
        BY <1>1, Indices
    <2> QED
        BY <1>2, <2>1, InstanceAssumption DEF ListInv, Number
<1>5. h.id = Id
    <2>1. received[h.unit] \in Item \cup {EVENT}
        BY <1>2, <1>4, ElementOfSeq DEF IInv
    <2>2. h.id # ID_ALL
        BY <1>2, <2>1, InstanceAssumption DEF EVENT, ID_ALL
    <2> QED
        BY <1>1, <2>2 DEF Handles, MatchesID
<1>6. /\ Units' = Units /\ This' = This /\ Id' = Id /\ Known' = Known
      /\ GameUnitHandler' = GameUnitHandler /\ \A u : OwnHandler(u)' = OwnHandler(u)
    BY <1>1 DEF Units, This, Id, Known, GameUnitHandler, OwnHandler
<1>7. ListInv'
    BY <1>1, <1>3, <1>6 DEF ListInv
<1>8. ASSUME NEW i \in DOMAIN received', phase' = "idle" \/ i < This', Latest(i)'
      PROVE  Shown(i)'
    <2>1. i \in DOMAIN received /\ i < This /\ Latest(i)
        BY <1>1, <1>6, <1>8 DEF Latest
    <2>2. PICK u \in Units : received[u] = received[i] /\ content[u] = i
        BY <2>1 DEF EarlierShown, Shown
    <2>3. received[i] # Id
        BY <1>4, <2>1 DEF Latest, Id
    <2>4. u # h.unit
        BY <1>2, <1>5, <2>2, <2>3
    <2>5. content'[u] = content[u]
        BY <1>3, <2>4
    <2> QED
        BY <1>1, <1>6, <2>2, <2>5 DEF Shown
<1>9. EarlierShown'
    BY <1>8 DEF EarlierShown
<1>10. ASSUME Id # EVENT PROVE Known \/ GameUnitHandler \in todo'
    <2>1. h # GameUnitHandler
        BY <1>1 DEF GameUnitHandler
    <2> QED
        BY <1>1, <1>10, <2>1 DEF WillBeShown
<1>11. ASSUME Id # EVENT, NEW u \in Units, received[u] = Id
       PROVE  content'[u] = This \/ OwnHandler(u) \in todo'
    <2>1. CASE u = h.unit
        BY <1>3, <1>4, <2>1
    <2>2. CASE u # h.unit
        <3>1. content'[u] = content[u]
            BY <1>3, <2>2
        <3>2. h # OwnHandler(u)
            BY <2>2, HandlerFields
        <3> QED
            BY <1>1, <1>11, <3>1, <3>2 DEF WillBeShown
    <2> QED
        BY <2>1, <2>2
<1>12. WillBeShown'
    BY <1>1, <1>6, <1>10, <1>11 DEF WillBeShown
<1> QED
    BY <1>7, <1>9, <1>12

\* The last handler has been called: the message in hand is shown.
LEMMA EndShows ==
    ASSUME IInv, ListInv, EarlierShown, WillBeShown, EndDispatch
    PROVE  ListInv' /\ EarlierShown' /\ WillBeShown'
<1>1. /\ phase = "call" /\ phase' = "idle" /\ todo = {}
      /\ UNCHANGED <<received, todo, gameUnits, alive, content, handlers, interface, freed>>
    BY DEF EndDispatch, In, unitVars, uiVars
<1>2. ListInv'
    BY <1>1 DEF ListInv, Units, OwnHandler, GameUnitHandler
<1>3. ASSUME NEW i \in DOMAIN received, Latest(i) PROVE Shown(i)
    <2>1. DOMAIN received = 1..This /\ This \in Nat
        BY Indices DEF This
    <2>2. CASE i < This
        BY <1>3, <2>2 DEF EarlierShown
    <2>3. CASE i = This
        <3>1. Id # EVENT
            BY <1>3, <2>3 DEF Latest, Id
        <3>2. PICK u \in Units : received[u] = Id
            BY <1>1, <3>1 DEF WillBeShown, Known, Units
        <3>3. content[u] = This
            BY <1>1, <3>1, <3>2 DEF WillBeShown
        <3> QED
            BY <2>3, <3>2, <3>3 DEF Shown, Id
    <2> QED
        BY <2>1, <2>2, <2>3
<1>4. EarlierShown'
    BY <1>1, <1>3 DEF EarlierShown, Latest, Shown, Units
<1> QED
    BY <1>1, <1>2, <1>4 DEF WillBeShown

LEMMA NextShows == IInv /\ ShowInv /\ [Next]_vars => ShowInv'
<1> SUFFICES ASSUME IInv, ShowInv, [Next]_vars, Running'
             PROVE  ListInv' /\ EarlierShown' /\ WillBeShown'
    BY DEF ShowInv
<1> USE DEF networkVars, unitVars, uiVars
<1>1. CASE Network
    <2>1. ui' = ui /\ ~crashed
        BY <1>1 DEF Network, Receive, LockHandlers, CopyHandlers, RegisterUnit, InsertUnit,
                    SkipHandler, HandleNewPlayerID, HandleGameUnit, UpdateData, EndDispatch,
                    Unload, In, Called
    <2>2. ListInv /\ EarlierShown /\ WillBeShown
        BY <2>1 DEF ShowInv, Running
    <2>3. CASE Unload
        <3>1. UNCHANGED <<received, phase, todo, gameUnits, alive, content, handlers,
                          interface, freed>>
            BY <2>3 DEF Unload
        <3> QED
            BY <2>2, <3>1 DEF ListInv, EarlierShown, WillBeShown, Latest, Shown, Units, This,
                              OwnHandler, GameUnitHandler, Known, Id
    <2>4. CASE \E h \in todo : HandleGameUnit(h)
        BY <2>2, <2>4, GameUnitShows DEF Running
    <2> QED
        BY <1>1, <2>2, <2>3, <2>4, ReceiveShows, CopyShows, SkipOrPlayerShows, RegisterShows,
           InsertShows, UpdateShows, EndShows DEF Network
<1>2. CASE Render \/ UNCHANGED vars
    <2>1. /\ UNCHANGED <<received, phase, todo, gameUnits, alive, content, handlers,
                         interface, freed>>
          /\ Running
        BY <1>2 DEF Render, UI, Running, vars
    <2>2. ListInv /\ EarlierShown /\ WillBeShown
        BY <2>1 DEF ShowInv
    <2> QED
        BY <2>1, <2>2 DEF ListInv, EarlierShown, WillBeShown, Latest, Shown, Units, This,
                          OwnHandler, GameUnitHandler, Known, Id
<1>3. CASE Stop \/ ResetUnit \/ ClearUnits \/ SignOut \/ RemoveAllMessageHandlers
           \/ StopNetwork \/ DeleteInterface
    BY <1>3 DEF Stop, ResetUnit, ClearUnits, SignOut, RemoveAllMessageHandlers, StopNetwork,
                DeleteInterface, UI, Running
<1> QED
    BY <1>1, <1>2, <1>3 DEF Next, UserInterface

\* handleMessage with any number of units and messages: when it returns, the
\* client shows the last message of every unit, the ones it has just created
\* included.
THEOREM LatestShown == Spec => []ShowsLatest
<1>1. IInv /\ ShowInv => ShowsLatest
    <2> SUFFICES ASSUME IInv, ListInv, EarlierShown, phase = "idle",
                        NEW i \in DOMAIN received, received[i] # EVENT,
                        \A j \in i + 1..This : received[j] # received[i]
                 PROVE  \E u \in Range(gameUnits) : received[u] = received[i] /\ content[u] = i
        BY DEF ShowInv, Running, ShowsLatest
    <2>1. DOMAIN received = 1..This /\ This \in Nat
        BY Indices DEF This
    <2>2. Latest(i)
        BY <2>1 DEF Latest
    <2> QED
        BY <2>2 DEF EarlierShown, Shown, Units
<1> QED
    BY <1>1, InitIInv, NextIInv, InitShow, NextShows, PTL DEF Spec

-----------------------------------------------------------------------------
(***************************************************************************)
(* The type invariant.  That the list holds no more units than there are   *)
(* is the hard part: reset empties pointers while the network thread may   *)
(* be creating a unit, so an emptied place has to be counted for the unit  *)
(* that was there.                                                         *)
(***************************************************************************)
Creating == phase \in {"register", "insert"}

\* Every place of the list stands for a unit of its own, and none of them for
\* the one that is being created.
Places(f) ==
    /\ f \in [DOMAIN gameUnits -> Item]
    /\ IsInjective(f)
    /\ \A i \in DOMAIN gameUnits : gameUnits[i] # None =>
        gameUnits[i] \in DOMAIN received /\ f[i] = received[gameUnits[i]]
    /\ Creating => Id \in Item /\ \A i \in DOMAIN gameUnits : f[i] # Id

PlacesInv == \E f : Places(f)

MessagesInv ==
    /\ Len(received) <= MaxMessages
    /\ phase \in {"idle", "arrived", "copy", "call", "register", "insert"}
    /\ todo \subseteq Handler
    /\ handlers \subseteq Handler
    /\ handlerMutex \in {"free", "network"}
    /\ freed \subseteq Number \cup {None}
    /\ ownPlayerID \in Number \cup {None}

UnitsInv ==
    /\ gameUnits \in Seq(Number \cup {None})
    /\ alive \subseteq Number
    /\ content \in [Number -> Number \cup {None}]

ThreadsInv ==
    /\ ui \in {"running", "reset", "signOut", "clear", "stopNetwork", "delete", "done"}
    /\ link \in {"open", "closing", "closed"}
    /\ interface \in {"live", "deleted"}
    /\ crashed \in BOOLEAN

TypeInv == MessagesInv /\ UnitsInv /\ ThreadsInv /\ PlacesInv

\* Steps that leave units and messages alone and create none.
LEMMA PlacesUntouched ==
    ASSUME PlacesInv, UNCHANGED <<received, gameUnits>>, Creating' => Creating
    PROVE  PlacesInv'
<1>1. PICK f : Places(f)
    BY DEF PlacesInv
<1>2. Places(f)'
    BY <1>1 DEF Places, Id, This
<1> QED
    BY <1>2 DEF PlacesInv

\* A place for one more ID.
LEMMA OneMorePlace ==
    ASSUME NEW n \in Nat, NEW f \in [1..n -> Item], IsInjective(f), NEW x \in Item,
           \A i \in 1..n : f[i] # x
    PROVE  \E g \in [1..n + 1 -> Item] :
                IsInjective(g) /\ g[n + 1] = x /\ \A i \in 1..n : g[i] = f[i]
<1> DEFINE g == [i \in 1..n + 1 |-> IF i <= n THEN f[i] ELSE x]
<1>1. \A i \in 1..n + 1 : i \in 1..n \/ i = n + 1
    OBVIOUS
<1>2. g \in [1..n + 1 -> Item] /\ g[n + 1] = x /\ \A i \in 1..n : g[i] = f[i]
    OBVIOUS
<1> HIDE DEF g
<1>3. ASSUME NEW i \in 1..n + 1, NEW j \in 1..n + 1, g[i] = g[j] PROVE i = j
    BY <1>1, <1>2, <1>3 DEF IsInjective
<1> QED
    BY <1>2, <1>3 DEF IsInjective

\* Nothing is received, the list of units is empty.
LEMMA InitTyped == Init => TypeInv
<1> SUFFICES ASSUME Init PROVE TypeInv
    OBVIOUS
<1>1. MessagesInv
    <2>1. \A h \in handlers : h \in Handler
        BY DEF Init, GameHandlers, Handler
    <2>2. Len(received) = 0
        BY EmptySeq DEF Init
    <2> QED
        BY <2>1, <2>2, InstanceAssumption DEF Init, MessagesInv
<1>2. UnitsInv /\ ThreadsInv
    BY EmptySeq DEF Init, UnitsInv, ThreadsInv
<1>3. Places(<<>>)
    BY DEF Init, Places, Creating, IsInjective
<1> QED
    BY <1>1, <1>2, <1>3 DEF TypeInv, PlacesInv

\* The number of the message in hand.
LEMMA ThisIsNumber ==
    ASSUME IInv, MessagesInv, phase # "idle"
    PROVE  This \in Number /\ This \in DOMAIN received /\ Id \in Item \cup {EVENT}
<1>1. This \in DOMAIN received /\ received \in Seq(Item \cup {EVENT})
    BY ThisReceived DEF IInv
<1>2. DOMAIN received = 1..Len(received) /\ Len(received) \in Nat
    BY <1>1, LenProperties
<1>3. Id \in Item \cup {EVENT}
    BY <1>1, <1>2, ElementOfSeq DEF Id
<1> QED
    BY <1>1, <1>2, <1>3, InstanceAssumption DEF MessagesInv, Number

\* The network thread takes a message.
LEMMA ReceiveTyped == IInv /\ TypeInv /\ Receive => TypeInv'
<1> SUFFICES ASSUME IInv, TypeInv, Receive PROVE TypeInv'
    OBVIOUS
<1>1. PICK id \in Item \cup {EVENT} : received' = Append(received, id)
    BY DEF Receive
<1>2. /\ phase' = "arrived" /\ Len(received) < MaxMessages /\ crashed' \in BOOLEAN
      /\ UNCHANGED <<todo, handlers, handlerMutex, gameUnits, alive, content, ownPlayerID,
                     ui, interface, freed, link>>
    BY DEF Receive, In, unitVars, uiVars, Misuse
<1>3. /\ Len(received') = Len(received) + 1 /\ Len(received) \in Nat
      /\ \A i \in DOMAIN received : i \in DOMAIN received' /\ received'[i] = received[i]
    <2>1. received \in Seq(Item \cup {EVENT})
        BY DEF IInv
    <2> QED
        BY <1>1, <2>1, AppendProperties, LenProperties
<1>4. Len(received') <= MaxMessages
    BY <1>2, <1>3, InstanceAssumption
<1>5. PICK f : Places(f)
    BY DEF TypeInv, PlacesInv
<1>6. Places(f)'
    BY <1>2, <1>3, <1>5 DEF Places, Creating
<1> QED
    BY <1>2, <1>4, <1>6 DEF TypeInv, MessagesInv, UnitsInv, ThreadsInv, PlacesInv

\* handleGameUnit begins to create a unit: no place of the list is empty, and
\* none is for the message's ID.
LEMMA HandleGameUnitTyped ==
    ASSUME IInv, TypeInv, NEW h \in todo, HandleGameUnit(h)
    PROVE  TypeInv'
<1>1. /\ phase = "call" /\ Handles(h) /\ h.type = "unit" /\ todo' = todo \ {h}
      /\ UNCHANGED <<received, handlers, handlerMutex, gameUnits, content, ownPlayerID,
                     ui, interface, freed, link>>
    BY DEF HandleGameUnit, Called, uiVars
<1>2. CASE phase' = phase /\ alive' = alive /\ crashed' \in BOOLEAN
    <2>1. PlacesInv'
        BY <1>1, <1>2, PlacesUntouched DEF TypeInv, Creating
    <2> QED
        BY <1>1, <1>2, <2>1 DEF TypeInv, MessagesInv, UnitsInv, ThreadsInv
<1>3. CASE None \notin Range(gameUnits) /\ ~Known /\ phase' = "register"
           /\ alive' = alive \cup {This} /\ crashed' = crashed
    <2>1. This \in Number /\ Id \in Item \cup {EVENT}
        BY <1>1, ThisIsNumber DEF TypeInv
    <2>2. Id # EVENT
        BY <1>1 DEF Handles, TypeOf
    <2>3. PICK f : Places(f)
        BY DEF TypeInv, PlacesInv
    <2>4. \A i \in DOMAIN gameUnits : gameUnits[i] # None /\ received[gameUnits[i]] # Id
        BY <1>3 DEF Known, Range
    <2>5. Id' = Id
        BY <1>1 DEF Id, This
    <2>6. Places(f)'
        BY <1>1, <2>1, <2>2, <2>3, <2>4, <2>5 DEF Places
    <2> QED
        BY <1>1, <1>3, <2>1, <2>6 DEF TypeInv, MessagesInv, UnitsInv, ThreadsInv, PlacesInv
<1> QED
    BY <1>1, <1>2, <1>3 DEF HandleGameUnit, TypeInv, ThreadsInv

\* addMessageHandler for the unit: the ID is an item's, the unit a message's.
LEMMA RegisterTyped == IInv /\ TypeInv /\ RegisterUnit => TypeInv'
<1> SUFFICES ASSUME IInv, TypeInv, RegisterUnit PROVE TypeInv'
    OBVIOUS
<1>1. /\ phase = "register" /\ phase' = "insert" /\ crashed' \in BOOLEAN
      /\ \A h \in handlers' :
            h \in handlers \/ h = [type |-> "all types", id |-> Id, unit |-> This]
      /\ UNCHANGED <<received, todo, handlerMutex, gameUnits, alive, content, ownPlayerID,
                     ui, interface, freed, link>>
    BY DEF RegisterUnit, In, unitVars, uiVars, Misuse
<1>2. This \in Number /\ Id \in Item
    BY <1>1, ThisIsNumber DEF TypeInv, PlacesInv, Places, Creating
<1>3. handlers' \subseteq Handler
    <2>1. [type |-> "all types", id |-> Id, unit |-> This] \in Handler
        BY <1>2 DEF Handler
    <2> QED
        BY <1>1, <2>1 DEF TypeInv, MessagesInv
<1>4. PlacesInv'
    BY <1>1, PlacesUntouched DEF TypeInv, Creating
<1> QED
    BY <1>1, <1>3, <1>4 DEF TypeInv, MessagesInv, UnitsInv, ThreadsInv

\* push_back: the new place stands for the unit just created.
LEMMA InsertTyped == IInv /\ TypeInv /\ InsertUnit => TypeInv'
<1> SUFFICES ASSUME IInv, TypeInv, InsertUnit PROVE TypeInv'
    OBVIOUS
<1>1. /\ phase = "insert" /\ phase' = "call"
      /\ content' = [content EXCEPT ![This] = This]
      /\ gameUnits' = Append(gameUnits, This)
      /\ UNCHANGED <<received, todo, handlers, handlerMutex, alive, ownPlayerID,
                     ui, interface, freed, link, crashed>>
    BY DEF InsertUnit, In, uiVars
<1>2. This \in Number /\ This \in DOMAIN received
    BY <1>1, ThisIsNumber DEF TypeInv
<1>3. PICK f : Places(f)
    BY DEF TypeInv, PlacesInv
<1>4. gameUnits \in Seq(Number \cup {None})
    BY DEF TypeInv, UnitsInv
<1>5. /\ gameUnits' \in Seq(Number \cup {None})
      /\ Len(gameUnits) \in Nat /\ DOMAIN gameUnits = 1..Len(gameUnits)
      /\ DOMAIN gameUnits' = 1..Len(gameUnits) + 1
      /\ \A i \in 1..Len(gameUnits) : gameUnits'[i] = gameUnits[i]
      /\ gameUnits'[Len(gameUnits) + 1] = This
    <2>1. gameUnits' \in Seq(Number \cup {None}) /\ Len(gameUnits') = Len(gameUnits) + 1
        BY <1>1, <1>2, <1>4, AppendProperties
    <2> QED
        BY <1>1, <1>2, <1>4, <2>1, AppendProperties, LenProperties
<1>6. /\ f \in [1..Len(gameUnits) -> Item] /\ IsInjective(f)
      /\ Id \in Item /\ \A i \in 1..Len(gameUnits) : f[i] # Id
    BY <1>1, <1>3, <1>5 DEF Places, Creating
<1>7. PICK g \in [1..Len(gameUnits) + 1 -> Item] :
        /\ IsInjective(g) /\ g[Len(gameUnits) + 1] = Id
        /\ \A i \in 1..Len(gameUnits) : g[i] = f[i]
    BY <1>5, <1>6, OneMorePlace
<1>8. Places(g)'
    <2>1. \A i \in 1..Len(gameUnits) : gameUnits'[i] # None =>
            gameUnits'[i] \in DOMAIN received /\ g[i] = received[gameUnits'[i]]
        BY <1>3, <1>5, <1>7 DEF Places
    <2>2. \A i \in 1..Len(gameUnits) + 1 : i \in 1..Len(gameUnits) \/ i = Len(gameUnits) + 1
        BY <1>5
    <2>3. \A i \in DOMAIN gameUnits' : gameUnits'[i] # None =>
            gameUnits'[i] \in DOMAIN received /\ g[i] = received[gameUnits'[i]]
        BY <1>2, <1>5, <1>7, <2>1, <2>2 DEF Id
    <2> QED
        BY <1>1, <1>5, <1>7, <2>3 DEF Places, Creating
<1>9. content' \in [Number -> Number \cup {None}]
    BY <1>1, <1>2 DEF TypeInv, UnitsInv
<1> QED
    BY <1>1, <1>5, <1>8, <1>9 DEF TypeInv, MessagesInv, UnitsInv, ThreadsInv, PlacesInv

\* The other handlers.
LEMMA CallTyped ==
    ASSUME IInv, TypeInv, NEW h \in todo,
           SkipHandler(h) \/ HandleNewPlayerID(h) \/ UpdateData(h)
    PROVE  TypeInv'
<1>1. /\ phase = "call" /\ phase' = phase /\ todo' = todo \ {h}
      /\ UNCHANGED <<received, handlers, handlerMutex, gameUnits, alive, ui, interface, freed, link>>
    BY DEF SkipHandler, HandleNewPlayerID, UpdateData, Called, unitVars, uiVars
<1>2. This \in Number
    BY <1>1, ThisIsNumber DEF TypeInv
<1>3. ownPlayerID' \in Number \cup {None} /\ content' \in [Number -> Number \cup {None}]
      /\ crashed' \in BOOLEAN
    <2>1. CASE SkipHandler(h)
        BY <2>1 DEF SkipHandler, unitVars, Misuse, TypeInv, MessagesInv, UnitsInv
    <2>2. CASE HandleNewPlayerID(h)
        BY <1>2, <2>2 DEF HandleNewPlayerID, TypeInv, MessagesInv, UnitsInv, ThreadsInv
    <2>3. CASE UpdateData(h)
        BY <1>2, <2>3 DEF UpdateData, Misuse, TypeInv, MessagesInv, UnitsInv
    <2> QED
        BY <2>1, <2>2, <2>3
<1>4. PlacesInv'
    BY <1>1, PlacesUntouched DEF TypeInv, Creating
<1> QED
    BY <1>1, <1>3, <1>4 DEF TypeInv, MessagesInv, UnitsInv, ThreadsInv

\* reset empties a pointer; its place still stands for the unit.
LEMMA ResetTyped == IInv /\ TypeInv /\ ResetUnit => TypeInv'
<1> SUFFICES ASSUME IInv, TypeInv, ResetUnit PROVE TypeInv'
    OBVIOUS
<1>1. /\ handlers' \subseteq handlers /\ alive' \subseteq alive /\ ui' = "reset"
      /\ crashed' \in BOOLEAN
      /\ UNCHANGED <<received, phase, todo, handlerMutex, content, ownPlayerID, interface,
                     freed, link>>
    BY DEF ResetUnit, UI, Unregistered, Misuse, networkVars
<1>2. PICK i \in DOMAIN gameUnits : gameUnits' = [gameUnits EXCEPT ![i] = None]
    BY DEF ResetUnit
<1>3. gameUnits' \in Seq(Number \cup {None}) /\ DOMAIN gameUnits' = DOMAIN gameUnits
      /\ \A j \in DOMAIN gameUnits : gameUnits'[j] = gameUnits[j] \/ gameUnits'[j] = None
    BY <1>2, ExceptSeq DEF TypeInv, UnitsInv
<1>4. PICK f : Places(f)
    BY DEF TypeInv, PlacesInv
<1>5. Places(f)'
    BY <1>1, <1>3, <1>4 DEF Places, Creating, Id, This
<1> QED
    BY <1>1, <1>3, <1>5 DEF TypeInv, MessagesInv, UnitsInv, ThreadsInv, PlacesInv

\* No step of the network thread or the user interface breaks it.
LEMMA NextTyped == IInv /\ TypeInv /\ [Next]_vars => TypeInv'
<1> SUFFICES ASSUME IInv, TypeInv, [Next]_vars PROVE TypeInv'
    OBVIOUS
<1> USE DEF networkVars, unitVars, uiVars
<1>1. CASE LockHandlers \/ CopyHandlers \/ EndDispatch
    <2>1. /\ phase' \in {"copy", "call", "idle"} /\ crashed' \in BOOLEAN
          /\ todo' \subseteq todo \cup handlers /\ handlerMutex' \in {"free", "network"}
          /\ UNCHANGED <<received, handlers, gameUnits, alive, content, ownPlayerID,
                         ui, interface, freed, link>>
        BY <1>1 DEF LockHandlers, CopyHandlers, EndDispatch, In, Misuse, AfterCopy, TypeInv,
                    MessagesInv, ThreadsInv
    <2>2. PlacesInv'
        BY <2>1, PlacesUntouched DEF TypeInv, Creating
    <2> QED
        BY <2>1, <2>2 DEF TypeInv, MessagesInv, UnitsInv, ThreadsInv
<1>2. CASE Unload \/ Render \/ Stop \/ SignOut \/ StopNetwork
    <2>1. /\ UNCHANGED <<received, phase, todo, handlers, handlerMutex, gameUnits, alive,
                         content, ownPlayerID, interface, freed>>
          /\ ThreadsInv'
        BY <1>2 DEF Unload, Render, Stop, SignOut, StopNetwork, UI, Misuse, PostUnload, TypeInv,
                    ThreadsInv
    <2>2. PlacesInv'
        BY <2>1, PlacesUntouched DEF TypeInv, Creating
    <2> QED
        BY <2>1, <2>2 DEF TypeInv, MessagesInv, UnitsInv
<1>3. CASE ClearUnits
    <2>1. /\ gameUnits' = <<>> /\ ui' = "signOut" /\ crashed' \in BOOLEAN
          /\ UNCHANGED <<received, phase, todo, handlers, handlerMutex, alive, content,
                         ownPlayerID, interface, freed, link>>
        BY <1>3 DEF ClearUnits, UI, Misuse
    <2>2. <<>> \in Seq(Number \cup {None})
        BY EmptySeq
    <2>3. Places(<<>>)'
        BY <2>1 DEF TypeInv, PlacesInv, Places, Creating, Id, This, IsInjective
    <2> QED
        BY <2>1, <2>2, <2>3 DEF TypeInv, MessagesInv, UnitsInv, ThreadsInv, PlacesInv
<1>4. CASE RemoveAllMessageHandlers \/ DeleteInterface
    <2>1. /\ handlers' = {} /\ interface' \in {"live", "deleted"} /\ ui' \in {"stopNetwork", "done"}
          /\ UNCHANGED <<received, phase, todo, handlerMutex, gameUnits, alive, content,
                         ownPlayerID, link, crashed>>
        BY <1>4 DEF RemoveAllMessageHandlers, DeleteInterface, UI, TypeInv, ThreadsInv
    <2>2. freed' \subseteq Number \cup {None}
        <3>1. \A h \in handlers : h.unit \in Number \cup {None}
            BY DEF TypeInv, MessagesInv, Handler
        <3> QED
            BY <1>4, <3>1 DEF RemoveAllMessageHandlers, DeleteInterface, TypeInv, MessagesInv
    <2>3. PlacesInv'
        BY <2>1, PlacesUntouched DEF TypeInv, Creating
    <2> QED
        BY <2>1, <2>2, <2>3 DEF TypeInv, MessagesInv, UnitsInv, ThreadsInv
<1>5. CASE UNCHANGED vars
    <2>1. PlacesInv'
        BY <1>5, PlacesUntouched DEF vars, TypeInv, Creating
    <2> QED
        BY <1>5, <2>1 DEF vars, TypeInv, MessagesInv, UnitsInv, ThreadsInv
<1> QED
    BY <1>1, <1>2, <1>3, <1>4, <1>5, ReceiveTyped, HandleGameUnitTyped, RegisterTyped,
       InsertTyped, CallTyped, ResetTyped
    DEF Next, Network, UserInterface

\* The type invariant, with its bounds: handleGameUnit creates a unit only for an
\* ID it does not find, so that the list never grows beyond the units there are,
\* whatever GameClient::stop empties meanwhile.
THEOREM TypeCorrect == Spec => []TypeOK
<1>1. IInv /\ TypeInv => TypeOK
    <2> SUFFICES ASSUME IInv, TypeInv PROVE TypeOK
        OBVIOUS
    <2>1. /\ received \in BoundedSeq(Item \cup {EVENT}, MaxMessages)
        <3>1. received \in [1..Len(received) -> Item \cup {EVENT}] /\ Len(received) \in Nat
            BY LenProperties DEF IInv
        <3>2. Len(received) \in 0..MaxMessages
            BY <3>1, InstanceAssumption DEF TypeInv, MessagesInv
        <3> QED
            BY <3>1, <3>2 DEF BoundedSeq, SeqOf
    <2>2. /\ Range(gameUnits) \subseteq Number \cup {None}
          /\ Len(gameUnits) <= Cardinality(Item)
        <3> DEFINE n == Len(gameUnits)
        <3>1. gameUnits \in Seq(Number \cup {None})
            BY DEF TypeInv, UnitsInv
        <3>2. DOMAIN gameUnits = 1..n /\ n \in Nat
            BY <3>1, LenProperties
        <3>3. PICK f : f \in [1..n -> Item] /\ IsInjective(f)
            BY <3>2 DEF TypeInv, PlacesInv, Places
        <3>4. Range(gameUnits) \subseteq Number \cup {None}
            BY <3>1, RangeOfSeq
        <3> HIDE DEF n
        <3>5. f \in Injection(1..n, Item)
            BY <3>3 DEF Injection, IsInjective
        <3>6. Cardinality(1..n) <= Cardinality(Item)
            BY <3>5, InstanceAssumption, FS_Injection
        <3>7. Cardinality(1..n) = n
            BY <3>2, FS_Interval
        <3> QED
            BY <3>4, <3>6, <3>7 DEF n
    <2> QED
        BY <2>1, <2>2 DEF TypeOK, TypeInv, MessagesInv, UnitsInv, ThreadsInv
<1> QED
    BY <1>1, InitIInv, NextIInv, InitTyped, NextTyped, PTL DEF Spec
=============================================================================
