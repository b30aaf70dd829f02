------------------------ MODULE GameReplicationProofs ------------------------
(***************************************************************************)
(* What the model of the replicated game keeps, for any level, any finite  *)
(* set of clients and any bounds on changes, frames and messages.          *)
(*                                                                         *)
(* IInv: two threads send an item's contents to the same client.  The      *)
(* mutex of the item makes the order of sending the order of copying:      *)
(* while the broadcast holds a copy of an item, nothing newer of that item *)
(* is sent by anyone.  Newest(i) names the newest state that can have been *)
(* sent, and VersionsInv says that along a connection, from the client's   *)
(* copy to the last message, the states of an item rise up to it.          *)
(*                                                                         *)
(* AcceptInv: only accepted clients take part, and each knows no player ID *)
(* but its own, which no other client has.                                 *)
(*                                                                         *)
(* HighlightInv: requests are under way in frames, for units the server    *)
(* has; what is still highlighted is what the rest of the frame will put   *)
(* out; a unit moves for its own player only.                              *)
(*                                                                         *)
(* CleanInv: a client accepted between two passes hears of every item      *)
(* behind all items before it, so that its list is the server's.           *)
(*                                                                         *)
(* BoundInv and RestInv: what the type invariant needs besides.            *)
(***************************************************************************)
EXTENDS GameReplication, SequenceTheorems, FiniteSetTheorems, FunctionTheorems, TLAPS

AnyItemMessage == [item : Item, version : Nat]
Sent == [player : Nat] \cup AnyItemMessage

Newest(i) == IF Locked(i) THEN broadcast.version ELSE version[i]

\* Of item i in the messages s: never older than v, rising, at most n.
Rising(s, i, v, n) ==
    /\ v <= n
    /\ \A k \in DOMAIN s :
        s[k] \in AnyItemMessage /\ s[k].item = i =>
            /\ v <= s[k].version /\ s[k].version <= n
            /\ \A l \in DOMAIN s :
                k <= l /\ s[l] \in AnyItemMessage /\ s[l].item = i =>
                    s[k].version <= s[l].version

ServerInv ==
    /\ version \in [Item -> Nat]
    /\ broadcast \in [item : Item \cup {Idle}, to : Nat, version : Nat]
    /\ broadcast.to > 0 => broadcast.item \in Item
    /\ broadcast.to > 0 => broadcast.version <= version[broadcast.item]
    /\ profiles \in Seq(Client)
    /\ greeting \in [client : Client \cup {NoClient}, item : Nat]
    /\ Greeting => greeting.client \in Range(profiles) /\ greeting.item <= NItems

ClientInv ==
    /\ toClient \in [Client -> Seq(Sent)]
    /\ copy \in [Client -> [Item -> Nat]]
    /\ list \in [Client -> Seq(Item)]
    /\ EachItemOnce

VersionsInv ==
    \A c \in Client, i \in Item : Rising(toClient[c], i, copy[c][i], Newest(i))

IInv == ServerInv /\ ClientInv /\ VersionsInv

-----------------------------------------------------------------------------
(* Lemmas about unitByIndex                                                  *)

\* How many places of S there are up to p.
Rank(S, p) == Cardinality({q \in S : q <= p})

\* Ranks number the places of a finite set from 1 on, each once.
LEMMA RanksNumber ==
    ASSUME NEW S, S \subseteq Nat, IsFiniteSet(S)
    PROVE  /\ Cardinality(S) \in Nat
           /\ \A p \in S : Rank(S, p) \in 1..Cardinality(S)
           /\ \A p, q \in S : Rank(S, p) = Rank(S, q) => p = q
           /\ \A k \in 1..Cardinality(S) : \E p \in S : Rank(S, p) = k
<1> DEFINE UpTo(p) == {q \in S : q <= p}
<1>0. Cardinality(S) \in Nat
    BY FS_CardinalityType
<1>1. \A p : IsFiniteSet(UpTo(p)) /\ Cardinality(UpTo(p)) \in Nat
             /\ Cardinality(UpTo(p)) <= Cardinality(S)
    <2> TAKE p
    <2>1. UpTo(p) \in SUBSET S
        OBVIOUS
    <2> HIDE DEF UpTo
    <2> QED
        BY <2>1, FS_Subset, FS_CardinalityType
<1>2. ASSUME NEW p \in S PROVE Rank(S, p) \in 1..Cardinality(S)
    <2>1. p \in UpTo(p)
        OBVIOUS
    <2> HIDE DEF UpTo
    <2>2. Cardinality(UpTo(p)) # 0
        BY <1>1, <2>1, FS_EmptySet
    <2> QED
        BY <1>0, <1>1, <2>2 DEF Rank, UpTo
<1>3. ASSUME NEW p \in S, NEW q \in S, p < q PROVE Rank(S, p) < Rank(S, q)
    <2>1. UpTo(p) \in SUBSET (UpTo(q) \ {q}) /\ q \in UpTo(q)
        <3>1. p \in Nat /\ q \in Nat /\ p < q /\ p # q
            BY <1>3
        <3>2. ASSUME NEW r \in S, r <= p PROVE r <= q /\ r # q
            BY <3>1, <3>2
        <3>3. q \in UpTo(q) /\ \A r \in UpTo(p) : r \in UpTo(q) \ {q}
            BY <3>1, <3>2
        <3> QED
            BY <3>3
    <2> HIDE DEF UpTo
    <2>2. /\ IsFiniteSet(UpTo(q) \ {q})
          /\ Cardinality(UpTo(q) \ {q}) = Cardinality(UpTo(q)) - 1
        BY <1>1, <2>1, FS_RemoveElement
    <2>3. Cardinality(UpTo(p)) <= Cardinality(UpTo(q) \ {q})
        BY <2>1, <2>2, FS_Subset
    <2>4. Cardinality(UpTo(p)) \in Nat /\ Cardinality(UpTo(q)) \in Nat
        BY <1>1
    <2>5. Cardinality(UpTo(p)) < Cardinality(UpTo(q))
        BY <2>2, <2>3, <2>4
    <2> QED
        BY <2>5 DEF Rank, UpTo
<1>4. ASSUME NEW p \in S, NEW q \in S, Rank(S, p) = Rank(S, q) PROVE p = q
    <2>1. Rank(S, p) \in Nat /\ Rank(S, q) \in Nat
        BY <1>0, <1>2
    <2>2. ~(p < q) /\ ~(q < p)
        BY <1>3, <1>4, <2>1
    <2> QED
        BY <2>2
<1>5. \A k \in 1..Cardinality(S) : \E p \in S : Rank(S, p) = k
    <2> DEFINE n == Cardinality(S)
               f == [p \in S |-> Rank(S, p)]
    <2>1. f \in Injection(S, 1..n)
        BY <1>2, <1>4 DEF Injection, IsInjective
    <2>2. IsFiniteSet(1..n) /\ Cardinality(1..n) = n
        BY <1>0, FS_Interval
    <2>3. f \in Surjection(S, 1..n)
        BY <2>1, <2>2, FS_Injection
    <2> QED
        BY <2>3 DEF Surjection
<1> QED
    BY <1>0, <1>2, <1>4, <1>5

\* The places of a player's units in a list.
LEMMA PlacesAreFinite ==
    ASSUME NEW s \in Seq(Item), NEW player
    PROVE  /\ PlacesOf(s, player) \subseteq Nat
           /\ PlacesOf(s, player) \subseteq 1..Len(s)
           /\ IsFiniteSet(PlacesOf(s, player))
<1>1. DOMAIN s = 1..Len(s) /\ Len(s) \in Nat
    BY LenProperties
<1>2. PlacesOf(s, player) \in SUBSET (1..Len(s))
    BY <1>1 DEF PlacesOf
<1>3. IsFiniteSet(1..Len(s))
    BY <1>1, FS_Interval
<1> QED
    BY <1>1, <1>2, <1>3, FS_Subset

\* unitByIndex finds the unit whose place has the index for its rank, and
\* nothing if the player has fewer units.
LEMMA UnitByIndexFinds ==
    ASSUME NEW s \in Seq(Item), NEW player, NEW k
    PROVE  /\ \A p \in PlacesOf(s, player) :
                Rank(PlacesOf(s, player), p) = k => UnitByIndex(s, player, k) = s[p]
           /\ UnitByIndex(s, player, k) # 0 =>
                /\ UnitByIndex(s, player, k) \in Item
                /\ Owner[UnitByIndex(s, player, k)] = player
                /\ player # ID_NONE
                /\ \E p \in PlacesOf(s, player) : Rank(PlacesOf(s, player), p) = k
           /\ UnitByIndex(s, player, k) # 0 <=> k \in 1..Cardinality(PlacesOf(s, player))
<1> DEFINE own == PlacesOf(s, player)
           found == {p \in own : Rank(own, p) = k}
           p0 == CHOOSE p \in found : TRUE
<1>0. /\ own \subseteq 1..Len(s) /\ own \subseteq Nat /\ IsFiniteSet(own)
      /\ DOMAIN s = 1..Len(s) /\ Len(s) \in Nat /\ s \in [1..Len(s) -> Item]
    BY PlacesAreFinite, LenProperties
<1>1. UnitByIndex(s, player, k) = IF found = {} THEN 0 ELSE s[p0]
    BY DEF UnitByIndex, Rank
<1>2. \A p \in own : s[p] \in Item /\ s[p] # 0 /\ Owner[s[p]] = player /\ player # ID_NONE
    BY <1>0 DEF PlacesOf, Item
<1> HIDE DEF own
<1>3. /\ \A p, q \in own : Rank(own, p) = Rank(own, q) => p = q
      /\ \A p \in own : Rank(own, p) \in 1..Cardinality(own)
      /\ \A j \in 1..Cardinality(own) : \E p \in own : Rank(own, p) = j
    BY <1>0, RanksNumber
<1>4. found # {} => p0 \in found
    OBVIOUS
<1> HIDE DEF p0
<1>5. found # {} <=> k \in 1..Cardinality(own)
    BY <1>3
<1>6. ASSUME NEW p \in own, Rank(own, p) = k PROVE UnitByIndex(s, player, k) = s[p]
    BY <1>1, <1>3, <1>4, <1>6
<1>7. UnitByIndex(s, player, k) # 0 <=> found # {}
    BY <1>1, <1>2, <1>4
<1>8. ASSUME UnitByIndex(s, player, k) # 0
      PROVE  /\ UnitByIndex(s, player, k) \in Item
             /\ Owner[UnitByIndex(s, player, k)] = player
             /\ player # ID_NONE
             /\ \E p \in own : Rank(own, p) = k
    BY <1>1, <1>2, <1>4, <1>7, <1>8
<1> QED
    BY <1>5, <1>6, <1>7, <1>8 DEF own

\* load creates the server's items one behind the other: its own list is 1, 2, ...
LEMMA ServerListIsASeq == ServerList \in Seq(Item) /\ Len(ServerList) = NItems
                          /\ \A i \in Item : ServerList[i] = i
<1>1. NItems \in Nat
    BY InstanceAssumption
<1>2. ServerList \in [1..NItems -> Item]
    BY DEF ServerList, Item
<1>3. ServerList \in Seq(Item)
    BY <1>1, <1>2, SeqDef
<1> QED
    BY <1>1, <1>2, <1>3, LenProperties DEF ServerList, Item

\* Where a list in the server's order has a unit, the server has the same.
LEMMA SameOrderSameUnit ==
    ASSUME NEW s \in Seq(Item), \A p \in DOMAIN s : s[p] = p, NEW player, NEW k,
           UnitByIndex(s, player, k) # 0
    PROVE  UnitByIndex(ServerList, player, k) = UnitByIndex(s, player, k)
<1> DEFINE own == PlacesOf(s, player)
           all == PlacesOf(ServerList, player)
<1>0. /\ DOMAIN s = 1..Len(s) /\ Len(s) \in Nat /\ s \in [1..Len(s) -> Item]
      /\ ServerList \in Seq(Item) /\ DOMAIN ServerList = Item
      /\ \A i \in Item : ServerList[i] = i
    BY LenProperties, ServerListIsASeq DEF ServerList
<1>1. PICK p \in own : Rank(own, p) = k
    BY UnitByIndexFinds
<1>2. UnitByIndex(s, player, k) = s[p]
    BY <1>1, UnitByIndexFinds
<1>3. p \in 1..Len(s) /\ s[p] = p /\ p \in Item
    BY <1>0, PlacesAreFinite
<1>4. \A q \in 1..Len(s) : q \in Item /\ s[q] = q
    BY <1>0
<1>5. p \in all /\ {q \in all : q <= p} = {q \in own : q <= p}
    <2>1. \A q \in 1..Len(s) : q \in all <=> q \in own
        BY <1>0, <1>4 DEF PlacesOf
    <2>2. \A q \in Item : q <= p => q \in 1..Len(s)
        BY <1>0, <1>3 DEF Item
    <2>3. own \subseteq 1..Len(s) /\ all \subseteq Item
        BY <1>0 DEF PlacesOf
    <2> HIDE DEF own, all
    <2> QED
        BY <1>1, <2>1, <2>2, <2>3
<1>6. Rank(all, p) = k
    BY <1>1, <1>5 DEF Rank
<1>7. UnitByIndex(ServerList, player, k) = ServerList[p]
    BY <1>0, <1>5, <1>6, UnitByIndexFinds
<1> QED
    BY <1>0, <1>2, <1>3, <1>7

\* A list without repetitions has no more units of a player than the server.
LEMMA ServerHasAsMany ==
    ASSUME NEW s \in Seq(Item), IsInjective(s), NEW player, NEW k,
           UnitByIndex(s, player, k) # 0
    PROVE  UnitByIndex(ServerList, player, k) # 0
<1> DEFINE own == PlacesOf(s, player)
           all == PlacesOf(ServerList, player)
           f == [p \in own |-> s[p]]
<1>0. /\ DOMAIN s = 1..Len(s) /\ Len(s) \in Nat /\ s \in [1..Len(s) -> Item]
      /\ ServerList \in Seq(Item) /\ DOMAIN ServerList = Item
      /\ \A i \in Item : ServerList[i] = i
      /\ own \subseteq 1..Len(s) /\ IsFiniteSet(own) /\ IsFiniteSet(all)
    BY LenProperties, ServerListIsASeq, PlacesAreFinite DEF ServerList
<1>1. \A p \in own : s[p] \in all
    BY <1>0 DEF PlacesOf
<1>2. f \in Injection(own, all)
    BY <1>0, <1>1 DEF Injection, IsInjective
<1> HIDE DEF own, all, f
<1>3. Cardinality(own) <= Cardinality(all) /\ Cardinality(own) \in Nat /\ Cardinality(all) \in Nat
    BY <1>0, <1>2, FS_Injection, FS_CardinalityType
<1>4. k \in 1..Cardinality(own)
    BY UnitByIndexFinds DEF own
<1>5. k \in 1..Cardinality(all)
    BY <1>3, <1>4
<1> QED
    BY <1>0, <1>5, UnitByIndexFinds DEF all

-----------------------------------------------------------------------------
(* Lemmas about messages on their way                                        *)

\* An empty connection is rising.
LEMMA RisingEmpty ==
    ASSUME NEW i, NEW v, NEW n, v <= n
    PROVE  Rising(<<>>, i, v, n)
<1>1. DOMAIN <<>> = {}
    OBVIOUS
<1> QED
    BY <1>1 DEF Rising

\* A newer state of the server's item leaves a connection rising.
LEMMA RisingMore ==
    ASSUME NEW s \in Seq(Sent), NEW i, NEW v \in Nat, NEW n \in Nat, NEW m \in Nat,
           n <= m, Rising(s, i, v, n)
    PROVE  Rising(s, i, v, m)
<1>1. ASSUME NEW k \in DOMAIN s, s[k] \in AnyItemMessage, s[k].item = i
      PROVE  s[k].version <= m
    BY <1>1 DEF Rising, AnyItemMessage
<1>2. v <= m
    BY DEF Rising
<1> QED
    BY <1>1, <1>2 DEF Rising

\* Sending the newest state of an item, or a player ID, keeps it rising.
LEMMA RisingAppend ==
    ASSUME NEW s \in Seq(Sent), NEW i, NEW v \in Nat, NEW n \in Nat, NEW m \in Sent,
           Rising(s, i, v, n),
           m \in AnyItemMessage /\ m.item = i => m.version = n
    PROVE  Rising(Append(s, m), i, v, n)
<1> DEFINE t == Append(s, m)
<1>0. /\ Len(s) \in Nat /\ DOMAIN s = 1..Len(s)
      /\ DOMAIN t = 1..Len(s) + 1
      /\ \A k \in 1..Len(s) : t[k] = s[k]
      /\ t[Len(s) + 1] = m
    <2>1. t \in Seq(Sent) /\ Len(t) = Len(s) + 1
        BY AppendProperties
    <2> QED
        BY <2>1, LenProperties, AppendProperties
<1> HIDE DEF t
<1>1. v <= n
    BY DEF Rising
<1>2. ASSUME NEW k \in DOMAIN t, t[k] \in AnyItemMessage, t[k].item = i
      PROVE  v <= t[k].version /\ t[k].version <= n
    <2>1. CASE k \in DOMAIN s
        BY <1>0, <1>2, <2>1 DEF Rising
    <2>2. CASE k = Len(s) + 1
        BY <1>0, <1>1, <1>2, <2>2
    <2> QED
        BY <1>0, <2>1, <2>2
<1>3. ASSUME NEW k \in DOMAIN t, t[k] \in AnyItemMessage, t[k].item = i,
             NEW l \in DOMAIN t, k <= l, t[l] \in AnyItemMessage, t[l].item = i
      PROVE  t[k].version <= t[l].version
    <2>1. CASE l \in DOMAIN s
        BY <1>0, <1>3, <2>1 DEF Rising
    <2>2. CASE l = Len(s) + 1
        BY <1>0, <1>2, <1>3, <2>2
    <2> QED
        BY <1>0, <2>1, <2>2
<1>4. Rising(t, i, v, n)
    BY <1>1, <1>2, <1>3 DEF Rising
<1> QED
    BY <1>4 DEF t

\* Taking the first message: the rest rises from it.
LEMMA RisingTail ==
    ASSUME NEW s \in Seq(Sent), s # <<>>, NEW i, NEW v \in Nat, NEW n \in Nat, NEW w \in Nat,
           Rising(s, i, v, n),
           \/ w = v
           \/ Head(s) \in AnyItemMessage /\ Head(s).item = i /\ w = Head(s).version
    PROVE  Rising(Tail(s), i, w, n) /\ v <= w
<1> DEFINE t == Tail(s)
<1>0. /\ Len(s) \in Nat \ {0} /\ DOMAIN s = 1..Len(s)
      /\ DOMAIN t = 1..Len(s) - 1
      /\ \A k \in 1..Len(s) - 1 : t[k] = s[k + 1]
      /\ Head(s) = s[1]
    <2>1. t \in Seq(Sent) /\ Len(t) = Len(s) - 1
        BY HeadTailProperties
    <2> QED
        BY <2>1, LenProperties, HeadTailProperties, EmptySeq
<1> HIDE DEF t
<1>1. v <= w /\ w <= n
    BY <1>0 DEF Rising
<1>2. ASSUME NEW k \in DOMAIN t, t[k] \in AnyItemMessage, t[k].item = i
      PROVE  w <= t[k].version /\ t[k].version <= n
    <2>1. k + 1 \in DOMAIN s /\ 1 \in DOMAIN s /\ t[k] = s[k + 1] /\ 1 <= k + 1
        BY <1>0
    <2> QED
        BY <1>0, <1>2, <2>1 DEF Rising
<1>3. ASSUME NEW k \in DOMAIN t, t[k] \in AnyItemMessage, t[k].item = i,
             NEW l \in DOMAIN t, k <= l, t[l] \in AnyItemMessage, t[l].item = i
      PROVE  t[k].version <= t[l].version
    <2>1. k + 1 \in DOMAIN s /\ l + 1 \in DOMAIN s /\ k + 1 <= l + 1
        BY <1>0, <1>3
    <2>2. t[k] = s[k + 1] /\ t[l] = s[l + 1]
        BY <1>0
    <2> QED
        BY <1>3, <2>1, <2>2 DEF Rising
<1>4. Rising(t, i, w, n)
    BY <1>1, <1>2, <1>3 DEF Rising
<1> QED
    BY <1>1, <1>4 DEF t

\* A list without an item lists every item once after the item is appended.
LEMMA AppendedOnce ==
    ASSUME NEW s \in Seq(Item), IsInjective(s), NEW i \in Item, i \notin Range(s)
    PROVE  Append(s, i) \in Seq(Item) /\ IsInjective(Append(s, i))
<1> DEFINE t == Append(s, i)
<1>0. /\ Len(s) \in Nat /\ DOMAIN s = 1..Len(s)
      /\ t \in Seq(Item) /\ DOMAIN t = 1..Len(s) + 1
      /\ \A k \in 1..Len(s) : t[k] = s[k] /\ s[k] # i
      /\ t[Len(s) + 1] = i
    <2>1. t \in Seq(Item) /\ Len(t) = Len(s) + 1
        BY AppendProperties
    <2>2. DOMAIN s = 1..Len(s) /\ \A k \in DOMAIN s : s[k] # i
        BY LenProperties DEF Range
    <2> QED
        BY <2>1, <2>2, LenProperties, AppendProperties
<1> HIDE DEF t
<1>1. ASSUME NEW a \in DOMAIN t, NEW b \in DOMAIN t, t[a] = t[b]
      PROVE  a = b
    BY <1>0, <1>1 DEF IsInjective
<1> QED
    BY <1>0, <1>1 DEF IsInjective, t

-----------------------------------------------------------------------------
(* The invariant                                                             *)

\* What Newest needs to be a version.
LEMMA NewestIsVersion ==
    ASSUME IInv
    PROVE  \A i \in Item : Newest(i) \in Nat /\ Newest(i) <= version[i]
BY DEF IInv, ServerInv, Newest, Locked

\* Steps that touch no connection and no copy: it is enough that nothing
\* newest gets older.
LEMMA NewestOnlyGrows ==
    ASSUME IInv, ServerInv', UNCHANGED <<toClient, copy, list>>,
           \A i \in Item : Newest(i)' \in Nat /\ Newest(i) <= Newest(i)'
    PROVE  IInv'
<1>1. ClientInv'
    BY DEF IInv, ClientInv, EachItemOnce
<1>2. ASSUME NEW c \in Client, NEW i \in Item
      PROVE  Rising(toClient[c], i, copy[c][i], Newest(i)')
    <2>1. /\ toClient[c] \in Seq(Sent) /\ copy[c][i] \in Nat /\ Newest(i) \in Nat
          /\ Newest(i)' \in Nat /\ Newest(i) <= Newest(i)'
        BY NewestIsVersion DEF IInv, ClientInv
    <2>2. Rising(toClient[c], i, copy[c][i], Newest(i))
        BY DEF IInv, VersionsInv
    <2> QED
        BY <2>1, <2>2, RisingMore
<1>3. VersionsInv'
    BY <1>2 DEF VersionsInv
<1> QED
    BY <1>1, <1>3 DEF IInv

\* Steps that send one message and change no version.
LEMMA SendingKeepsInv ==
    ASSUME IInv, ServerInv', UNCHANGED <<copy, list>>,
           NEW d \in Client, NEW m \in Sent, toClient' = SentTo(d, m),
           \A i \in Item : Newest(i)' = Newest(i),
           m \in AnyItemMessage => m.version = Newest(m.item)
    PROVE  IInv'
<1>1. CASE d \in crashed
    <2>1. toClient' = toClient
        BY <1>1 DEF SentTo
    <2>2. \A i \in Item : Newest(i)' \in Nat /\ Newest(i) <= Newest(i)'
        BY NewestIsVersion
    <2> QED
        BY <2>1, <2>2, NewestOnlyGrows
<1>2. CASE d \notin crashed
    <2>0. toClient \in [Client -> Seq(Sent)]
        BY DEF IInv, ClientInv
    <2>1. toClient' = [toClient EXCEPT ![d] = Append(@, m)]
        BY <1>2 DEF SentTo
    <2>2. Append(toClient[d], m) \in Seq(Sent)
        BY <2>0, AppendProperties
    <2>3. ClientInv'
        BY <2>0, <2>1, <2>2 DEF IInv, ClientInv, EachItemOnce
    <2>4. ASSUME NEW c \in Client, NEW i \in Item
          PROVE  Rising(toClient'[c], i, copy[c][i], Newest(i)')
        <3>1. Rising(toClient[c], i, copy[c][i], Newest(i))
            BY DEF IInv, VersionsInv
        <3>2. /\ toClient[c] \in Seq(Sent) /\ copy[c][i] \in Nat
              /\ Newest(i) \in Nat /\ Newest(i)' = Newest(i)
            BY NewestIsVersion DEF IInv, ClientInv
        <3>3. m \in AnyItemMessage /\ m.item = i => m.version = Newest(i)
            OBVIOUS
        <3>4. CASE c = d
            <4>1. toClient'[c] = Append(toClient[c], m)
                BY <2>0, <2>1, <3>4
            <4> QED
                BY <3>1, <3>2, <3>3, <4>1, RisingAppend
        <3>5. CASE c # d
            BY <2>0, <2>1, <3>1, <3>2, <3>5
        <3> QED
            BY <3>4, <3>5
    <2>5. VersionsInv'
        BY <2>4 DEF VersionsInv
    <2> QED
        BY <2>3, <2>5 DEF IInv
<1> QED
    BY <1>1, <1>2

\* A level just loaded: no message has been sent.
LEMMA InitInv == Init => IInv
<1> SUFFICES ASSUME Init PROVE IInv
    OBVIOUS
<1>1. <<>> \in Seq(Sent) /\ <<>> \in Seq(Item) /\ <<>> \in Seq(Client)
    BY EmptySeq
<1>2. ServerInv
    BY <1>1 DEF Init, ServerInv, Greeting, Idle
<1>3. ClientInv
    BY <1>1 DEF Init, ClientInv, EachItemOnce, IsInjective
<1>4. ASSUME NEW c \in Client, NEW i \in Item
      PROVE  Rising(toClient[c], i, copy[c][i], Newest(i))
    <2>1. toClient[c] = <<>> /\ copy[c][i] = 0 /\ Newest(i) = 0
        BY DEF Init, Newest, Locked
    <2> QED
        BY <2>1, RisingEmpty
<1> QED
    BY <1>2, <1>3, <1>4 DEF IInv, VersionsInv

\* The game thread: while it holds a copy, the newest state is that copy.
LEMMA GameLoopKeepsInv == IInv /\ GameLoop => IInv'
<1> SUFFICES ASSUME IInv, GameLoop PROVE IInv'
    OBVIOUS
<1>0. Item \subseteq Nat \ {0} /\ (NItems \in Nat \ {0}) /\ Len(profiles) \in Nat
      /\ DOMAIN profiles = 1..Len(profiles)
    BY InstanceAssumption, LenProperties DEF Item, IInv, ServerInv
<1>1. CASE Proceed
    <2>1. PICK changed \in SUBSET {i \in Item : Owner[i] # ID_NONE} :
            version' = [i \in Item |-> version[i] + (IF i \in changed THEN 1 ELSE 0)]
        BY <1>1 DEF Proceed
    <2>2. version' \in [Item -> Nat] /\ \A i \in Item : version[i] <= version'[i]
        BY <2>1 DEF IInv, ServerInv
    <2>3. /\ broadcast.item = Idle
          /\ broadcast' = [item |-> FirstItem, to |-> 0, version |-> 0]
          /\ UNCHANGED <<profiles, greeting, toClient, copy, list>>
        BY <1>1 DEF Proceed, clientVars
    <2>4. ServerInv'
        BY <1>0, <2>2, <2>3 DEF IInv, ServerInv, FirstItem, Item, Greeting
    <2>5. \A i \in Item : Newest(i)' \in Nat /\ Newest(i) <= Newest(i)'
        BY <1>0, <2>2, <2>3 DEF IInv, ServerInv, Newest, Locked, Idle
    <2> QED
        BY <2>3, <2>4, <2>5, NewestOnlyGrows
<1>2. CASE TakeItem
    <2>1. /\ broadcast.item # Idle /\ broadcast.to = 0
          /\ broadcast' = [broadcast EXCEPT !.to = 1, !.version = version[broadcast.item]]
          /\ UNCHANGED <<version, profiles, greeting, toClient, copy, list>>
        BY <1>2 DEF TakeItem, clientVars
    <2>2. ServerInv'
        <3>1. broadcast.item \in Item /\ version[broadcast.item] \in Nat
            BY <2>1 DEF IInv, ServerInv
        <3>2. /\ broadcast' \in [item : Item \cup {Idle}, to : Nat, version : Nat]
              /\ broadcast'.item = broadcast.item
              /\ broadcast'.version = version[broadcast.item]
            BY <2>1, <3>1 DEF IInv, ServerInv
        <3>3. broadcast'.version <= version'[broadcast'.item]
            BY <2>1, <3>1, <3>2
        <3> QED
            BY <2>1, <3>1, <3>2, <3>3 DEF IInv, ServerInv, Greeting
    <2>3. \A i \in Item : Newest(i)' \in Nat /\ Newest(i) <= Newest(i)'
        BY <2>1 DEF IInv, ServerInv, Newest, Locked
    <2> QED
        BY <2>1, <2>2, <2>3, NewestOnlyGrows
<1>3. CASE SendToProfile
    <2> DEFINE d == profiles[broadcast.to]
               m == [item |-> broadcast.item, version |-> broadcast.version]
    <2>1. /\ broadcast.to \in DOMAIN profiles
          /\ toClient' = SentTo(d, m)
          /\ broadcast' = [broadcast EXCEPT !.to = @ + 1]
          /\ UNCHANGED <<version, profiles, greeting, copy, list>>
        BY <1>3 DEF SendToProfile, clientVars
    <2>2. broadcast.to \in Nat /\ broadcast.to > 0 /\ broadcast.item \in Item
        BY <1>0, <2>1 DEF IInv, ServerInv
    <2>3. d \in Client
        BY <1>0, <2>1, ElementOfSeq DEF IInv, ServerInv
    <2>4. m \in AnyItemMessage /\ m.version = Newest(m.item)
        BY <2>2 DEF IInv, ServerInv, AnyItemMessage, Newest, Locked
    <2>5. ServerInv'
        <3>1. /\ broadcast' \in [item : Item \cup {Idle}, to : Nat, version : Nat]
              /\ broadcast'.item = broadcast.item
              /\ broadcast'.version = broadcast.version
            BY <2>1, <2>2 DEF IInv, ServerInv
        <3>2. broadcast.version <= version[broadcast.item]
            BY <2>2 DEF IInv, ServerInv
        <3> QED
            BY <2>1, <2>2, <3>1, <3>2 DEF IInv, ServerInv, Greeting
    <2>6. \A i \in Item : Newest(i)' = Newest(i)
        BY <2>1, <2>2 DEF IInv, ServerInv, Newest, Locked
    <2> HIDE DEF d, m
    <2> QED
        BY <2>1, <2>3, <2>4, <2>5, <2>6, SendingKeepsInv DEF Sent
<1>4. CASE ReleaseItem
    <2>1. /\ broadcast.to > Len(profiles)
          /\ broadcast' = [item |-> NextItem(broadcast.item), to |-> 0, version |-> 0]
          /\ UNCHANGED <<version, profiles, greeting, toClient, copy, list>>
        BY <1>4 DEF ReleaseItem, clientVars
    <2>2. broadcast.to > 0 /\ broadcast.item \in Item
        BY <1>0, <2>1 DEF IInv, ServerInv
    <2>3. NextItem(broadcast.item) \in Item \cup {Idle}
        BY <1>0, <2>2 DEF NextItem, Item, Idle
    <2>4. ServerInv'
        BY <2>1, <2>3 DEF IInv, ServerInv, Greeting
    <2>5. \A i \in Item : Newest(i)' \in Nat /\ Newest(i) <= Newest(i)'
        BY <2>1, <2>2 DEF IInv, ServerInv, Newest, Locked
    <2> QED
        BY <2>1, <2>4, <2>5, NewestOnlyGrows
<1> QED
    BY <1>1, <1>2, <1>3, <1>4 DEF GameLoop

\* The network thread: it sends only what nobody holds a copy of.
LEMMA NetworkKeepsInv ==
    ASSUME IInv, Greet \/ \E c \in Client : HandleSessionAccepted(c) \/ HandleRequest(c)
    PROVE  IInv'
<1>0. /\ NItems \in Nat \ {0} /\ Item = 1..NItems
      /\ \A i \in Item : Newest(i) \in Nat
    BY InstanceAssumption, NewestIsVersion DEF Item
<1>1. CASE SendPlayerID
    <2> DEFINE d == greeting.client
               m == [player |-> PlayerIDOf(d)]
    <2>1. /\ Greeting /\ toClient' = SentTo(d, m)
          /\ greeting' = [greeting EXCEPT !.item = 1]
          /\ UNCHANGED <<version, profiles, broadcast, copy, list>>
        BY <1>1 DEF SendPlayerID, clientVars
    <2>2. d \in Client /\ d \in Range(profiles)
        BY <2>1 DEF IInv, ServerInv, Greeting
    <2>3. PlayerIDOf(d) \in Nat
        <3>1. DOMAIN profiles = 1..Len(profiles) /\ Len(profiles) \in Nat
            BY LenProperties DEF IInv, ServerInv
        <3>2. (CHOOSE i \in DOMAIN profiles : profiles[i] = d) \in DOMAIN profiles
            BY <2>2 DEF Range
        <3> QED
            BY <3>1, <3>2 DEF PlayerIDOf, ID_FIRST_CLIENT
    <2>4. m \in Sent /\ m \notin AnyItemMessage
        BY <2>3 DEF Sent, AnyItemMessage
    <2>5. ServerInv'
        <3>1. /\ greeting' \in [client : Client \cup {NoClient}, item : Nat]
              /\ greeting'.client = d /\ greeting'.item = 1 /\ 1 <= NItems
            BY <1>0, <2>1 DEF IInv, ServerInv
        <3> QED
            BY <2>1, <2>2, <3>1 DEF IInv, ServerInv, Greeting
    <2>6. \A i \in Item : Newest(i)' = Newest(i)
        BY <2>1 DEF Newest, Locked
    <2> HIDE DEF d, m
    <2> QED
        BY <2>1, <2>2, <2>4, <2>5, <2>6, SendingKeepsInv
<1>2. CASE SendItem
    <2> DEFINE d == greeting.client
               m == [item |-> greeting.item, version |-> version[greeting.item]]
    <2>1. /\ Greeting /\ greeting.item > 0 /\ ~Locked(greeting.item)
          /\ toClient' = SentTo(d, m)
          /\ greeting' = IF greeting.item < NItems
                         THEN [greeting EXCEPT !.item = @ + 1]
                         ELSE [client |-> NoClient, item |-> 0]
          /\ UNCHANGED <<version, profiles, broadcast, copy, list>>
        BY <1>2 DEF SendItem, clientVars
    <2>2. d \in Client /\ greeting.item \in Item
        BY <1>0, <2>1 DEF IInv, ServerInv, Greeting
    <2>3. m \in AnyItemMessage /\ m.version = Newest(m.item)
        BY <2>1, <2>2 DEF IInv, ServerInv, AnyItemMessage, Newest
    <2>4. ServerInv'
        BY <1>0, <2>1, <2>2 DEF IInv, ServerInv, Greeting
    <2>5. \A i \in Item : Newest(i)' = Newest(i)
        BY <2>1 DEF Newest, Locked
    <2> HIDE DEF d, m
    <2> QED
        BY <2>1, <2>2, <2>3, <2>4, <2>5, SendingKeepsInv DEF Sent
<1>3. ASSUME NEW c \in Client, HandleSessionAccepted(c) PROVE IInv'
    <2>1. /\ profiles' = Append(profiles, c)
          /\ greeting' = [client |-> c, item |-> 0]
          /\ UNCHANGED <<version, broadcast, toClient, copy, list>>
        BY <1>3 DEF HandleSessionAccepted, clientVars
    <2>2. /\ profiles' \in Seq(Client) /\ c \in Range(profiles')
        <3>1. profiles \in Seq(Client)
            BY DEF IInv, ServerInv
        <3>2. /\ profiles' \in Seq(Client) /\ Len(profiles') = Len(profiles) + 1
              /\ profiles'[Len(profiles) + 1] = c /\ Len(profiles) \in Nat
            BY <2>1, <3>1, AppendProperties, LenProperties
        <3>3. Len(profiles) + 1 \in DOMAIN profiles'
            BY <3>2, LenProperties
        <3> QED
            BY <3>2, <3>3 DEF Range
    <2>3. ServerInv'
        BY <1>0, <2>1, <2>2 DEF IInv, ServerInv, Greeting
    <2>4. \A i \in Item : Newest(i)' = Newest(i)
        BY <2>1 DEF Newest, Locked
    <2> QED
        BY <1>0, <2>1, <2>3, <2>4, NewestOnlyGrows
<1>4. ASSUME NEW c \in Client, HandleRequest(c) PROVE IInv'
    <2>1. UNCHANGED <<profiles, broadcast, greeting, toClient, copy, list>>
        BY <1>4 DEF HandleRequest, clientVars
    <2>2. version' = version \/ \E unit : version' = [version EXCEPT ![unit] = @ + 1]
        BY <1>4 DEF HandleRequest
    <2>3. version' \in [Item -> Nat] /\ \A i \in Item : version[i] <= version'[i]
        BY <2>2 DEF IInv, ServerInv
    <2>4. ServerInv'
        BY <2>1, <2>3 DEF IInv, ServerInv, Greeting
    <2>5. \A i \in Item : Newest(i)' \in Nat /\ Newest(i) <= Newest(i)'
        BY <1>0, <2>1, <2>3 DEF IInv, ServerInv, Newest, Locked
    <2> QED
        BY <2>1, <2>4, <2>5, NewestOnlyGrows
<1> QED
    BY <1>1, <1>2, <1>3, <1>4 DEF Greet

\* A client takes the first message: its copy goes on, never back.
LEMMA HandleMessageKeepsInv ==
    ASSUME IInv, NEW d \in Client, HandleMessage(d)
    PROVE  IInv' /\ \A c \in Client, i \in Item : copy'[c][i] >= copy[c][i]
<1> DEFINE m == Head(toClient[d])
<1>0. /\ toClient \in [Client -> Seq(Sent)]
      /\ copy \in [Client -> [Item -> Nat]]
      /\ list \in [Client -> Seq(Item)]
      /\ \A c \in Client : IsInjective(list[c])
    BY DEF IInv, ClientInv, EachItemOnce
<1>1. /\ toClient[d] # <<>>
      /\ toClient' = [toClient EXCEPT ![d] = Tail(@)]
      /\ UNCHANGED <<version, profiles, broadcast, greeting>>
    BY DEF HandleMessage, serverVars
<1>2. ServerInv'
    BY <1>1 DEF IInv, ServerInv, Greeting
<1>3. \A i \in Item : Newest(i)' = Newest(i) /\ Newest(i) \in Nat
    BY <1>1, NewestIsVersion DEF Newest, Locked
<1>4. Tail(toClient[d]) \in Seq(Sent)
    BY <1>0, <1>1, HeadTailProperties
<1>5. \/ UNCHANGED <<copy, list>>
      \/ /\ m \in ItemMessage
         /\ copy' = [copy EXCEPT ![d][m.item] = m.version]
         /\ list' = IF Known(d, m.item) THEN list
                    ELSE [list EXCEPT ![d] = WithNew(d, m.item)]
    BY DEF HandleMessage
<1>6. m \in ItemMessage => m \in AnyItemMessage
    BY DEF ItemMessage, AnyItemMessage
<1> HIDE DEF m
<1>7. /\ list' \in [Client -> Seq(Item)]
      /\ \A c \in Client : IsInjective(list'[c])
    <2>1. CASE list' = list
        BY <1>0, <2>1
    <2>2. CASE list' # list
        <3>1. /\ m.item \in Item /\ m.item \notin Range(list[d])
              /\ list' = [list EXCEPT ![d] = Append(list[d], m.item)]
            BY <1>5, <1>6, <2>2 DEF Known, WithNew, AnyItemMessage
        <3>2. Append(list[d], m.item) \in Seq(Item) /\ IsInjective(Append(list[d], m.item))
            BY <1>0, <3>1, AppendedOnce
        <3> QED
            BY <1>0, <3>1, <3>2
    <2> QED
        BY <2>1, <2>2
<1>8. copy' \in [Client -> [Item -> Nat]]
    <2>1. CASE m \in ItemMessage /\ copy' = [copy EXCEPT ![d][m.item] = m.version]
        <3>1. m.version \in Nat
            BY <1>6, <2>1 DEF AnyItemMessage
        <3>2. [copy[d] EXCEPT ![m.item] = m.version] \in [Item -> Nat]
            BY <1>0, <3>1
        <3> QED
            BY <1>0, <2>1, <3>2
    <2> QED
        BY <1>0, <1>5, <2>1
<1>9. ClientInv'
    BY <1>0, <1>1, <1>4, <1>7, <1>8 DEF ClientInv, EachItemOnce
<1>10. ASSUME NEW c \in Client, NEW i \in Item
       PROVE  Rising(toClient'[c], i, copy'[c][i], Newest(i)') /\ copy[c][i] <= copy'[c][i]
    <2>1. Rising(toClient[c], i, copy[c][i], Newest(i))
        BY DEF IInv, VersionsInv
    <2>2. CASE c = d
        <3>1. toClient'[c] = Tail(toClient[c])
            BY <1>0, <1>1, <2>2
        <3>2. \/ copy'[c][i] = copy[c][i]
              \/ m \in AnyItemMessage /\ m.item = i /\ copy'[c][i] = m.version
            BY <1>0, <1>5, <1>6, <2>2
        <3>3. copy[c][i] \in Nat /\ copy'[c][i] \in Nat /\ toClient[c] \in Seq(Sent)
            BY <1>0, <1>8
        <3>4. Newest(i) \in Nat /\ Newest(i)' = Newest(i) /\ toClient[c] # <<>>
            BY <1>1, <1>3, <2>2
        <3>5. \/ copy'[c][i] = copy[c][i]
              \/ /\ Head(toClient[c]) \in AnyItemMessage /\ Head(toClient[c]).item = i
                 /\ copy'[c][i] = Head(toClient[c]).version
            BY <2>2, <3>2 DEF m
        <3>6. /\ Rising(Tail(toClient[c]), i, copy'[c][i], Newest(i))
              /\ copy[c][i] <= copy'[c][i]
            BY <2>1, <3>3, <3>4, <3>5, RisingTail
        <3> QED
            BY <3>1, <3>4, <3>6
    <2>3. CASE c # d
        <3>1. toClient'[c] = toClient[c] /\ copy'[c][i] = copy[c][i] /\ copy[c][i] \in Nat
            BY <1>0, <1>1, <1>5, <2>3
        <3> QED
            BY <1>3, <2>1, <3>1
    <2> QED
        BY <2>2, <2>3
<1>11. VersionsInv'
    BY <1>10 DEF VersionsInv
<1> QED
    BY <1>0, <1>2, <1>8, <1>9, <1>10, <1>11 DEF IInv

\* A frame leaves the connection alone or, if it is fatal, closes it.
LEMMA ProcessFrameKeepsInv ==
    ASSUME IInv, NEW d \in Client, ProcessFrame(d)
    PROVE  IInv'
<1>1. /\ UNCHANGED <<version, profiles, broadcast, greeting, copy, list>>
      /\ toClient' = toClient \/ toClient' = [toClient EXCEPT ![d] = <<>>]
    BY DEF ProcessFrame, serverVars
<1>2. ServerInv'
    BY <1>1 DEF IInv, ServerInv, Greeting
<1>3. \A i \in Item : Newest(i)' = Newest(i) /\ Newest(i) \in Nat
    BY <1>1, NewestIsVersion DEF Newest, Locked
<1>4. toClient \in [Client -> Seq(Sent)] /\ <<>> \in Seq(Sent)
    BY EmptySeq DEF IInv, ClientInv
<1>5. ClientInv'
    BY <1>1, <1>4 DEF IInv, ClientInv, EachItemOnce
<1>6. ASSUME NEW c \in Client, NEW i \in Item
      PROVE  Rising(toClient'[c], i, copy[c][i], Newest(i)')
    <2>1. Rising(toClient[c], i, copy[c][i], Newest(i))
        BY DEF IInv, VersionsInv
    <2>2. copy[c][i] <= Newest(i)
        BY <2>1 DEF Rising
    <2>3. toClient'[c] = toClient[c] \/ toClient'[c] = <<>>
        BY <1>1, <1>4
    <2> QED
        BY <1>3, <2>1, <2>2, <2>3, RisingEmpty
<1>7. VersionsInv'
    BY <1>1, <1>6 DEF VersionsInv
<1> QED
    BY <1>2, <1>5, <1>7 DEF IInv

\* No step of any thread breaks the order of the versions.
LEMMA NextKeepsInv == IInv /\ [Next]_vars => IInv'
<1> SUFFICES ASSUME IInv, [Next]_vars PROVE IInv'
    OBVIOUS
<1>1. CASE UNCHANGED vars
    <2>1. UNCHANGED <<version, profiles, broadcast, greeting, toClient, copy, list>>
        BY <1>1 DEF vars, serverVars, clientVars
    <2>2. ServerInv'
        BY <2>1 DEF IInv, ServerInv, Greeting
    <2>3. \A i \in Item : Newest(i)' \in Nat /\ Newest(i) <= Newest(i)'
        BY <2>1, NewestIsVersion DEF Newest, Locked
    <2> QED
        BY <2>1, <2>2, <2>3, NewestOnlyGrows
<1> QED
    BY <1>1, GameLoopKeepsInv, NetworkKeepsInv, HandleMessageKeepsInv, ProcessFrameKeepsInv
       DEF Next

\* The induction.
LEMMA Invariant == Spec => []IInv
<1> QED
    BY InitInv, NextKeepsInv, PTL DEF Spec

-----------------------------------------------------------------------------

\* handleGameUnit and handleGameObstacle look an item up before they append
\* it: the greeting and the broadcast never leave it in the list twice.
THEOREM ListedOnce == Spec => []EachItemOnce
<1>1. IInv => EachItemOnce
    BY DEF IInv, ClientInv
<1> QED
    BY <1>1, Invariant, PTL

\* The mutex of each registered item: whatever the game thread and the
\* network thread send, a client's items only ever get newer.
THEOREM OnlyNewer == Spec => NeverBackwards
<1> DEFINE Step == \A c \in Client, i \in Item : copy'[c][i] >= copy[c][i]
<1>1. ASSUME IInv, [Next]_vars PROVE [Step]_vars
    <2>0. \A c \in Client, i \in Item : copy[c][i] \in Nat
        BY <1>1 DEF IInv, ClientInv
    <2>1. ASSUME NEW d \in Client, HandleMessage(d) PROVE Step
        BY <1>1, <2>1, HandleMessageKeepsInv
    <2>2. ASSUME copy' = copy PROVE Step
        BY <2>0, <2>2
    <2>3. CASE GameLoop
        BY <2>2, <2>3 DEF GameLoop, Proceed, TakeItem, SendToProfile, ReleaseItem, clientVars
    <2>4. CASE Greet
        BY <2>2, <2>4 DEF Greet, SendPlayerID, SendItem, clientVars
    <2>5. ASSUME NEW d \in Client,
                 HandleSessionAccepted(d) \/ HandleRequest(d) \/ ProcessFrame(d)
          PROVE  Step
        BY <2>2, <2>5 DEF HandleSessionAccepted, HandleRequest, ProcessFrame, clientVars
    <2> QED
        BY <1>1, <2>1, <2>3, <2>4, <2>5 DEF Next
<1> QED
    BY <1>1, Invariant, PTL DEF Spec, NeverBackwards

-----------------------------------------------------------------------------
(* The server's game and its replicas                                        *)

\* A request gives or takes the highlight of one of the server's units.
LEMMA RequestIsAChange ==
    ASSUME IInv, NEW c \in Client, HandleRequest(c)
    PROVE  Replica!Change \/ UNCHANGED <<version, copy, list>>
<1> DEFINE request == Head(toServer[c])
           unit == UnitByIndex(ServerList, PlayerIDOf(c), request.index)
<1>0. highlighted' =
        CASE unit # 0 /\ request.kind = "highlight" -> highlighted \cup {unit}
          [] unit # 0 /\ request.kind = "unhighlight" -> highlighted \ {unit}
          [] OTHER -> highlighted
    BY DEF HandleRequest
<1>1. /\ version' = IF highlighted' = highlighted THEN version
                    ELSE [version EXCEPT ![unit] = @ + 1]
      /\ UNCHANGED <<copy, list>>
    BY DEF HandleRequest, clientVars
<1>2. version \in [Item -> Nat]
    BY DEF IInv, ServerInv
<1>3. unit # 0 => unit \in Item /\ Owner[unit] # ID_NONE
    BY ServerListIsASeq, UnitByIndexFinds
<1> HIDE DEF unit, request
<1>4. CASE highlighted' = highlighted
    BY <1>1, <1>4
<1>5. CASE highlighted' # highlighted
    <2>1. unit \in Item /\ Owner[unit] # ID_NONE
        BY <1>0, <1>3, <1>5
    <2>2. version' = [version EXCEPT ![unit] = @ + 1]
        BY <1>1, <1>5
    <2>3. version' = [i \in Item |-> version[i] + (IF i \in {unit} THEN 1 ELSE 0)]
        <3>1. \A i \in Item : version'[i] = version[i] + (IF i \in {unit} THEN 1 ELSE 0)
            <4> TAKE i \in Item
            <4>1. version[i] \in Nat
                BY <1>2
            <4>2. CASE i = unit
                BY <1>2, <2>1, <2>2, <4>2
            <4>3. CASE i # unit
                BY <1>2, <2>1, <2>2, <4>1, <4>3
            <4> QED
                BY <4>2, <4>3
        <3>2. version' \in [Item -> Nat]
            BY <1>2, <2>1, <2>2
        <3> QED
            BY <3>1, <3>2
    <2>4. {unit} \in SUBSET ({i \in Item : Owner[i] # ID_NONE} \cap Item)
        BY <2>1
    <2> QED
        BY <1>1, <2>3, <2>4 DEF Replica!Change
<1> QED
    BY <1>4, <1>5

\* A message shows the client a state between the one it shows and the
\* server's.
LEMMA MessageIsFollowed ==
    ASSUME IInv, NEW c \in Client, HandleMessage(c)
    PROVE  (\E i \in Item : Replica!Follow(c, i)) \/ UNCHANGED <<version, copy, list>>
<1> DEFINE m == Head(toClient[c])
<1>1. /\ toClient[c] # <<>> /\ version' = version
      /\ \/ UNCHANGED <<copy, list>>
         \/ /\ m \in ItemMessage
            /\ copy' = [copy EXCEPT ![c][m.item] = m.version]
            /\ list' = IF Known(c, m.item) THEN list
                       ELSE [list EXCEPT ![c] = WithNew(c, m.item)]
    BY DEF HandleMessage, serverVars
<1>2. CASE UNCHANGED <<copy, list>>
    BY <1>1, <1>2
<1>3. CASE ~UNCHANGED <<copy, list>>
    <2>1. m \in AnyItemMessage /\ m.item \in Item /\ m.version \in Nat
        BY <1>1, <1>3 DEF ItemMessage, AnyItemMessage
    <2>2. Rising(toClient[c], m.item, copy[c][m.item], Newest(m.item))
        BY <2>1 DEF IInv, VersionsInv
    <2>3. toClient[c] \in Seq(Sent) /\ 1 \in DOMAIN toClient[c] /\ m = toClient[c][1]
        <3>1. toClient[c] \in Seq(Sent)
            BY DEF IInv, ClientInv
        <3> QED
            BY <1>1, <3>1, EmptySeq, LenProperties, HeadTailProperties
    <2>4. copy[c][m.item] <= m.version /\ m.version <= Newest(m.item)
        BY <2>1, <2>2, <2>3 DEF Rising
    <2>5. /\ copy[c][m.item] \in Nat /\ version[m.item] \in Nat
          /\ Newest(m.item) \in Nat /\ Newest(m.item) <= version[m.item]
        <3>1. copy[c] \in [Item -> Nat] /\ version \in [Item -> Nat]
            BY DEF IInv, ServerInv, ClientInv
        <3> QED
            BY <2>1, <3>1, NewestIsVersion
    <2> HIDE DEF m
    <2>6. m.version \in copy[c][m.item]..version[m.item]
        BY <2>1, <2>4, <2>5
    <2>7. Replica!Follow(c, m.item)
        BY <1>1, <1>3, <2>6 DEF Replica!Follow, Replica!Range, Known, WithNew, Range
    <2> QED
        BY <2>1, <2>7
<1> QED
    BY <1>2, <1>3

\* Message::synchronize and the handlers of GameServer and Game: the greeting,
\* the broadcast and the requests implement one game and copies that follow it.
THEOREM ReplicasOfOneGame == Spec => ClientsFollow
<1>1. Init => Replica!GameInit
    BY DEF Init, Replica!GameInit
<1>2. IInv /\ [Next]_vars => [Replica!GameNext]_(Replica!gameVars)
    <2> SUFFICES ASSUME IInv, [Next]_vars
                 PROVE  Replica!GameNext \/ UNCHANGED <<version, copy, list>>
        BY DEF Replica!gameVars
    <2>1. CASE Proceed
        <3>1. PICK changed \in SUBSET {i \in Item : Owner[i] # ID_NONE} :
                version' = [i \in Item |-> version[i] + (IF i \in changed THEN 1 ELSE 0)]
            BY <2>1 DEF Proceed
        <3>2. changed \in SUBSET ({i \in Item : Owner[i] # ID_NONE} \cap Item)
            OBVIOUS
        <3> QED
            BY <2>1, <3>1, <3>2 DEF Proceed, clientVars, Replica!GameNext, Replica!Change
    <2>2. CASE TakeItem \/ SendToProfile \/ ReleaseItem \/ Greet
        BY <2>2 DEF TakeItem, SendToProfile, ReleaseItem, Greet, SendPlayerID, SendItem, clientVars
    <2>3. ASSUME NEW c \in Client, HandleSessionAccepted(c) \/ ProcessFrame(c)
          PROVE  UNCHANGED <<version, copy, list>>
        BY <2>3 DEF HandleSessionAccepted, ProcessFrame, clientVars, serverVars
    <2>4. ASSUME NEW c \in Client, HandleRequest(c)
          PROVE  Replica!GameNext \/ UNCHANGED <<version, copy, list>>
        BY <2>4, RequestIsAChange DEF Replica!GameNext
    <2>5. ASSUME NEW c \in Client, HandleMessage(c)
          PROVE  Replica!GameNext \/ UNCHANGED <<version, copy, list>>
        BY <2>5, MessageIsFollowed DEF Replica!GameNext
    <2>6. CASE UNCHANGED vars
        BY <2>6 DEF vars, serverVars, clientVars
    <2> QED
        BY <2>1, <2>2, <2>3, <2>4, <2>5, <2>6 DEF Next, GameLoop
<1> QED
    BY <1>1, <1>2, Invariant, PTL DEF Spec, ClientsFollow, Replica!GameSpec

-----------------------------------------------------------------------------
(* Who has been accepted, and under which player ID                          *)

Accepted(c) == c \in Range(profiles)

\* A client that is not accepted has heard of nothing and asked for nothing.
Outside(c) ==
    /\ toClient[c] = <<>> /\ toServer[c] = <<>> /\ list[c] = <<>>
    /\ ownPlayerID[c] = ID_NONE
    /\ frames[c] > 0 => c \in crashed

\* The only player ID a client is told is its own.
ToldOwnID(c) ==
    /\ ownPlayerID[c] \in {ID_NONE, PlayerIDOf(c)}
    /\ \A k \in DOMAIN toClient[c] :
        toClient[c][k] \notin AnyItemMessage => toClient[c][k].player = PlayerIDOf(c)

AcceptInv ==
    /\ IsInjective(profiles)
    /\ ownPlayerID \in [Client -> Nat]
    /\ frames \in [Client -> Nat]
    /\ toServer \in [Client -> Seq(Request)]
    /\ \A c \in Client : IF Accepted(c) THEN ToldOwnID(c) ELSE Outside(c)

\* The ID that goes with a client's place in a list of profiles.
IDIn(s, c) == ID_FIRST_CLIENT - 1 + CHOOSE i \in DOMAIN s : s[i] = c

\* The first client accepted has ID_FIRST_CLIENT, the next ID the next client.
LEMMA IDsAreOrdered ==
    ASSUME NEW s \in Seq(Client), IsInjective(s), NEW i \in DOMAIN s
    PROVE  IDIn(s, s[i]) = ID_FIRST_CLIENT - 1 + i
<1>1. (CHOOSE j \in DOMAIN s : s[j] = s[i]) = i
    BY DEF IsInjective
<1> QED
    BY <1>1 DEF IDIn

\* Player IDs are given in the order of acceptance: no two clients share one.
LEMMA PlayerIDs ==
    ASSUME profiles \in Seq(Client), IsInjective(profiles)
    PROVE  /\ \A i \in DOMAIN profiles : PlayerIDOf(profiles[i]) = ID_FIRST_CLIENT - 1 + i
           /\ \A c \in Range(profiles) : /\ PlayerIDOf(c) \in Nat
                                         /\ PlayerIDOf(c) >= ID_FIRST_CLIENT
                                         /\ PlayerIDOf(c) < ID_FIRST_CLIENT + Len(profiles)
                                         /\ PlayerIDOf(c) # ID_NONE
           /\ \A c, d \in Range(profiles) : PlayerIDOf(c) = PlayerIDOf(d) => c = d
<1>0. DOMAIN profiles = 1..Len(profiles) /\ Len(profiles) \in Nat
    BY LenProperties
<1>1. \A i \in DOMAIN profiles : PlayerIDOf(profiles[i]) = ID_FIRST_CLIENT - 1 + i
    BY IDsAreOrdered DEF PlayerIDOf, IDIn
<1>2. \A c \in Range(profiles) : \E i \in DOMAIN profiles : c = profiles[i]
    BY DEF Range
<1>3. \A c \in Range(profiles) : \E i \in 1..Len(profiles) :
            c = profiles[i] /\ PlayerIDOf(c) = 3 + i
    BY <1>0, <1>1, <1>2 DEF ID_FIRST_CLIENT
<1> QED
    BY <1>0, <1>1, <1>3 DEF ID_FIRST_CLIENT, ID_NONE

\* Accepting one more client leaves the others their player IDs.
LEMMA AcceptingOneMore ==
    ASSUME profiles \in Seq(Client), IsInjective(profiles), NEW c \in Client,
           c \notin Range(profiles), profiles' = Append(profiles, c)
    PROVE  /\ profiles' \in Seq(Client) /\ IsInjective(profiles')
           /\ Len(profiles') = Len(profiles) + 1
           /\ DOMAIN profiles \subseteq DOMAIN profiles'
           /\ \A i \in DOMAIN profiles : profiles'[i] = profiles[i]
           /\ profiles'[Len(profiles) + 1] = c
           /\ Range(profiles') = Range(profiles) \cup {c}
           /\ \A d \in Range(profiles) :
                PlayerIDOf(d)' = PlayerIDOf(d) /\ PlayerIDOf(c)' # PlayerIDOf(d)
<1>0. /\ DOMAIN profiles = 1..Len(profiles) /\ Len(profiles) \in Nat
      /\ profiles' \in Seq(Client) /\ Len(profiles') = Len(profiles) + 1
      /\ \A i \in 1..Len(profiles) : profiles'[i] = profiles[i]
      /\ profiles'[Len(profiles) + 1] = c
    BY LenProperties, AppendProperties
<1>1. DOMAIN profiles' = 1..Len(profiles) + 1
    BY <1>0, LenProperties
<1>2. \A i \in 1..Len(profiles) : profiles[i] # c
    BY <1>0 DEF Range
<1>3. IsInjective(profiles')
    BY <1>0, <1>1, <1>2 DEF IsInjective
<1>4. Range(profiles') = Range(profiles) \cup {c}
    BY <1>0, <1>1 DEF Range
<1>5. /\ \A i \in 1..Len(profiles) : PlayerIDOf(profiles[i]) = 3 + i
      /\ \A i \in 1..Len(profiles) : (PlayerIDOf(profiles[i]))' = 3 + i
      /\ PlayerIDOf(c)' = 3 + (Len(profiles) + 1)
    <2>1. \A d : PlayerIDOf(d) = IDIn(profiles, d) /\ PlayerIDOf(d)' = IDIn(profiles', d)
        BY DEF PlayerIDOf, IDIn
    <2>2. \A i \in 1..Len(profiles) : IDIn(profiles, profiles[i]) = 3 + i
        BY <1>0, IDsAreOrdered DEF ID_FIRST_CLIENT
    <2>3. \A i \in 1..Len(profiles) + 1 : IDIn(profiles', profiles'[i]) = 3 + i
        <3>1. \A i \in DOMAIN profiles' : IDIn(profiles', profiles'[i]) = ID_FIRST_CLIENT - 1 + i
            BY <1>0, <1>3, IDsAreOrdered
        <3> QED
            BY <1>0, <1>1, <3>1 DEF ID_FIRST_CLIENT
    <2> QED
        BY <1>0, <2>1, <2>2, <2>3
<1>6. \A d \in Range(profiles) : \E i \in 1..Len(profiles) : d = profiles[i]
    BY <1>0 DEF Range
<1>7. \A d \in Range(profiles) :
        PlayerIDOf(d)' = PlayerIDOf(d) /\ PlayerIDOf(c)' # PlayerIDOf(d)
    BY <1>0, <1>5, <1>6
<1> QED
    BY <1>0, <1>1, <1>3, <1>4, <1>7

\* The two kinds of messages of a connection.
LEMMA MessageKinds ==
    /\ \A m \in PlayerIDMessage : m \notin AnyItemMessage
    /\ \A m \in ItemMessage : m \in AnyItemMessage
    /\ PlayerIDMessage \subseteq [player : Player]
<1>1. \A m \in PlayerIDMessage : DOMAIN m = {"player"}
    BY DEF PlayerIDMessage
<1>2. \A m \in AnyItemMessage : DOMAIN m = {"item", "version"}
    BY DEF AnyItemMessage
<1>3. "item" \notin {"player"}
    OBVIOUS
<1>4. \A m \in ItemMessage : m \in AnyItemMessage
    BY DEF ItemMessage, AnyItemMessage
<1> QED
    BY <1>1, <1>2, <1>3, <1>4 DEF PlayerIDMessage

\* Nothing changes but one connection, on which a profile is sent a message.
LEMMA SendingKeepsAccept ==
    ASSUME IInv, AcceptInv, NEW d \in Client, Accepted(d), NEW m \in Sent,
           m \in AnyItemMessage \/ m.player = PlayerIDOf(d),
           toClient' = SentTo(d, m),
           UNCHANGED <<profiles, toServer, list, ownPlayerID, frames, crashed>>
    PROVE  AcceptInv'
<1>0. toClient \in [Client -> Seq(Sent)]
    BY DEF IInv, ClientInv
<1>1. ASSUME NEW c \in Client
      PROVE  IF Accepted(c)' THEN ToldOwnID(c)' ELSE Outside(c)'
    <2>1. CASE toClient'[c] = toClient[c]
        BY <2>1 DEF AcceptInv, Accepted, ToldOwnID, Outside, PlayerIDOf
    <2>2. CASE c = d /\ d \notin crashed
        <3>1. toClient'[c] = Append(toClient[c], m)
            BY <1>0, <2>2 DEF SentTo
        <3>2. /\ DOMAIN toClient[c] = 1..Len(toClient[c]) /\ Len(toClient[c]) \in Nat
              /\ DOMAIN toClient'[c] = 1..Len(toClient[c]) + 1
              /\ \A k \in 1..Len(toClient[c]) : toClient'[c][k] = toClient[c][k]
              /\ toClient'[c][Len(toClient[c]) + 1] = m
            <4>1. toClient'[c] \in Seq(Sent) /\ Len(toClient'[c]) = Len(toClient[c]) + 1
                BY <1>0, <3>1, AppendProperties
            <4> QED
                BY <1>0, <3>1, <4>1, AppendProperties, LenProperties
        <3>3. ToldOwnID(c)
            BY <2>2 DEF AcceptInv
        <3>4. PlayerIDOf(c)' = PlayerIDOf(c)
            BY DEF PlayerIDOf
        <3>5. ToldOwnID(c)'
            BY <2>2, <3>2, <3>3, <3>4 DEF ToldOwnID
        <3> QED
            BY <2>2, <3>5 DEF Accepted
    <2>3. toClient'[c] = toClient[c] \/ (c = d /\ d \notin crashed)
        BY <1>0 DEF SentTo
    <2> QED
        BY <2>1, <2>2, <2>3
<1> QED
    BY <1>1 DEF AcceptInv

\* The server's steps.
LEMMA ServerKeepsAccept ==
    ASSUME IInv, AcceptInv, GameLoop \/ Greet
    PROVE  AcceptInv'
<1>1. CASE Proceed \/ TakeItem \/ ReleaseItem
    <2>1. UNCHANGED <<profiles, toClient, toServer, list, ownPlayerID, frames, crashed>>
        BY <1>1 DEF Proceed, TakeItem, ReleaseItem, clientVars
    <2> QED
        BY <2>1 DEF AcceptInv, Accepted, ToldOwnID, Outside, PlayerIDOf
<1>2. CASE SendToProfile
    <2> DEFINE d == profiles[broadcast.to]
               m == [item |-> broadcast.item, version |-> broadcast.version]
    <2>1. /\ broadcast.to \in DOMAIN profiles
          /\ toClient' = SentTo(d, m)
          /\ UNCHANGED <<profiles, toServer, list, ownPlayerID, frames, crashed>>
        BY <1>2 DEF SendToProfile, clientVars
    <2>2. profiles \in Seq(Client) /\ DOMAIN profiles = 1..Len(profiles)
        BY LenProperties DEF IInv, ServerInv
    <2>3. d \in Client /\ Accepted(d)
        BY <2>1, <2>2, ElementOfSeq DEF Accepted, Range
    <2>4. m \in AnyItemMessage
        <3>1. broadcast.to > 0
            BY <2>1, <2>2
        <3> QED
            BY <3>1 DEF IInv, ServerInv, AnyItemMessage
    <2> HIDE DEF d, m
    <2> QED
        BY <2>1, <2>3, <2>4, SendingKeepsAccept DEF Sent
<1>3. CASE SendPlayerID
    <2> DEFINE d == greeting.client
               m == [player |-> PlayerIDOf(d)]
    <2>1. /\ Greeting /\ toClient' = SentTo(d, m)
          /\ UNCHANGED <<profiles, toServer, list, ownPlayerID, frames, crashed>>
        BY <1>3 DEF SendPlayerID, clientVars
    <2>2. d \in Client /\ Accepted(d)
        BY <2>1 DEF IInv, ServerInv, Greeting, Accepted
    <2>3. PlayerIDOf(d) \in Nat
        BY <2>2, PlayerIDs DEF IInv, ServerInv, AcceptInv, Accepted
    <2>4. m \in Sent /\ m.player = PlayerIDOf(d)
        BY <2>3 DEF Sent
    <2> HIDE DEF d, m
    <2> QED
        BY <2>1, <2>2, <2>4, SendingKeepsAccept
<1>4. CASE SendItem
    <2> DEFINE d == greeting.client
               m == [item |-> greeting.item, version |-> version[greeting.item]]
    <2>1. /\ Greeting /\ greeting.item > 0 /\ toClient' = SentTo(d, m)
          /\ UNCHANGED <<profiles, toServer, list, ownPlayerID, frames, crashed>>
        BY <1>4 DEF SendItem, clientVars
    <2>2. d \in Client /\ Accepted(d) /\ greeting.item \in Item
        BY <2>1, InstanceAssumption DEF IInv, ServerInv, Greeting, Accepted, Item
    <2>3. m \in AnyItemMessage
        BY <2>2 DEF IInv, ServerInv, AnyItemMessage
    <2> HIDE DEF d, m
    <2> QED
        BY <2>1, <2>2, <2>3, SendingKeepsAccept DEF Sent
<1> QED
    BY <1>1, <1>2, <1>3, <1>4 DEF GameLoop, Greet

\* The rest of a sequence, place by place.
LEMMA TailShifts ==
    ASSUME NEW S, NEW s \in Seq(S), s # <<>>
    PROVE  /\ Len(s) \in Nat \ {0} /\ DOMAIN s = 1..Len(s)
           /\ Head(s) = s[1] /\ Head(s) \in S
           /\ Tail(s) \in Seq(S) /\ Len(Tail(s)) = Len(s) - 1
           /\ DOMAIN Tail(s) = 1..Len(s) - 1
           /\ \A k \in 1..Len(s) - 1 : Tail(s)[k] = s[k + 1]
           /\ Tail(s) = <<>> <=> Len(s) = 1
<1>1. Tail(s) \in Seq(S) /\ Len(Tail(s)) = Len(s) - 1 /\ Head(s) \in S
    BY HeadTailProperties
<1>2. Len(s) \in Nat \ {0} /\ DOMAIN s = 1..Len(s)
    BY LenProperties, EmptySeq
<1>3. DOMAIN Tail(s) = 1..Len(s) - 1 /\ \A k \in 1..Len(s) - 1 : Tail(s)[k] = s[k + 1]
    BY <1>1, HeadTailProperties, LenProperties
<1>4. Tail(s) = <<>> <=> Len(s) = 1
    <2>1. Tail(s) # <<>> => Len(Tail(s)) \in Nat \ {0}
        BY <1>1, EmptySeq
    <2>2. Len(<<>>) = 0
        BY EmptySeq
    <2>3. CASE Tail(s) = <<>>
        <3>1. Len(Tail(s)) = 0
            BY <2>2, <2>3
        <3> QED
            BY <1>1, <1>2, <2>3, <3>1
    <2>4. CASE Tail(s) # <<>>
        BY <1>1, <1>2, <2>1, <2>4
    <2> QED
        BY <2>3, <2>4
<1> QED
    BY <1>1, <1>2, <1>3, <1>4

\* One sequence behind the other, place by place.
LEMMA ConcatIs ==
    ASSUME NEW S, NEW s \in Seq(S), NEW t \in Seq(S)
    PROVE  /\ s \o t \in Seq(S)
           /\ Len(s) \in Nat /\ Len(t) \in Nat /\ Len(s \o t) = Len(s) + Len(t)
           /\ \A k \in 1..Len(s) : (s \o t)[k] = s[k]
           /\ \A k \in 1..Len(t) : (s \o t)[Len(s) + k] = t[k]
<1>1. s \o t \in Seq(S) /\ Len(s \o t) = Len(s) + Len(t)
    BY ConcatProperties
<1>2. \A k \in 1..Len(s) + Len(t) :
        (s \o t)[k] = IF k <= Len(s) THEN s[k] ELSE t[k - Len(s)]
    BY ConcatProperties
<1>3. Len(s) \in Nat /\ Len(t) \in Nat
    BY LenProperties
<1>4. ASSUME NEW k \in 1..Len(s) PROVE (s \o t)[k] = s[k]
    <2>1. k \in 1..Len(s) + Len(t) /\ k <= Len(s)
        BY <1>3
    <2> QED
        BY <1>2, <2>1
<1>5. ASSUME NEW k \in 1..Len(t) PROVE (s \o t)[Len(s) + k] = t[k]
    <2>1. /\ Len(s) + k \in 1..Len(s) + Len(t) /\ ~(Len(s) + k <= Len(s))
          /\ Len(s) + k - Len(s) = k
        BY <1>3
    <2> QED
        BY <1>2, <2>1
<1> QED
    BY <1>1, <1>3, <1>4, <1>5

\* The requests to put out the first m units.
LEMMA OffIs ==
    ASSUME NEW m \in Nat, m <= FrameUnits
    PROVE  /\ HighlightOff(m) \in Seq(Request) /\ Len(HighlightOff(m)) = m
           /\ \A k \in 1..m : /\ HighlightOff(m)[k].kind = "unhighlight"
                             /\ HighlightOff(m)[k].index = k
<1> DEFINE off == [i \in 1..m |-> [kind |-> "unhighlight", index |-> i, touched |-> 0]]
<1>0. FrameUnits \in Nat /\ HighlightOff(m) = off
    BY InstanceAssumption DEF HighlightOff
<1>1. \A i \in 1..m : i \in 1..FrameUnits
    BY <1>0
<1>2. off \in [1..m -> Request]
    BY <1>1 DEF Request
<1>3. off \in Seq(Request)
    BY <1>2, SeqDef
<1>4. DOMAIN off = 1..m
    OBVIOUS
<1>5. \A k \in 1..m : off[k].kind = "unhighlight" /\ off[k].index = k
    OBVIOUS
<1> HIDE DEF off
<1>6. 1..Len(off) = 1..m /\ Len(off) \in Nat
    BY <1>3, <1>4, LenProperties
<1>7. Len(off) = m
    BY <1>6
<1> QED
    BY <1>0, <1>3, <1>5, <1>7

\* The requests of a frame: all units off, one moved, the same one on.
LEMMA FrameIs ==
    ASSUME NEW n \in 1..FrameUnits, NEW u \in Item
    PROVE  LET f == FrameRequests(n, u) IN
           /\ f \in Seq(Request) /\ Len(f) = FrameUnits + 2
           /\ \A k \in 1..FrameUnits : f[k].kind = "unhighlight" /\ f[k].index = k
           /\ f[FrameUnits + 1].kind = "move"
           /\ f[FrameUnits + 1].index = n /\ f[FrameUnits + 1].touched = u
           /\ f[FrameUnits + 2].kind = "highlight" /\ f[FrameUnits + 2].index = n
<1> DEFINE off == HighlightOff(FrameUnits)
           a == [kind |-> "move", index |-> n, touched |-> u]
           b == [kind |-> "highlight", index |-> n, touched |-> u]
           on == <<a, b>>
<1>0. FrameUnits \in Nat
    BY InstanceAssumption
<1>2. off \in Seq(Request) /\ Len(off) = FrameUnits
    BY <1>0, OffIs
<1>3. a \in Request /\ b \in Request
    BY DEF Request
<1>4. on \in Seq(Request) /\ Len(on) = 2 /\ on[1] = a /\ on[2] = b
    <2> HIDE DEF a, b
    <2> QED
        BY <1>3
<1>5. /\ off \o on \in Seq(Request) /\ Len(off \o on) = FrameUnits + 2
      /\ \A k \in 1..FrameUnits : (off \o on)[k] = off[k]
      /\ (off \o on)[FrameUnits + 1] = on[1] /\ (off \o on)[FrameUnits + 2] = on[2]
    <2> HIDE DEF off, on
    <2>1. /\ off \o on \in Seq(Request)
          /\ Len(off \o on) = Len(off) + Len(on)
          /\ \A k \in 1..Len(off) : (off \o on)[k] = off[k]
          /\ \A k \in 1..Len(on) : (off \o on)[Len(off) + k] = on[k]
        <3>1. off \in Seq(Request) /\ on \in Seq(Request)
            BY <1>2, <1>4
        <3> QED
            BY <3>1, ConcatIs
    <2>2. 1 \in 1..Len(on) /\ 2 \in 1..Len(on)
        BY <1>4
    <2> QED
        BY <1>2, <1>4, <2>1, <2>2
<1>6. FrameRequests(n, u) = off \o on
    BY DEF FrameRequests
<1>7. \A k \in 1..FrameUnits : off[k].kind = "unhighlight" /\ off[k].index = k
    BY <1>0, OffIs
<1>8. /\ a.kind = "move" /\ a.index = n /\ a.touched = u
      /\ b.kind = "highlight" /\ b.index = n
    OBVIOUS
<1> HIDE DEF off, a, b
<1>9. on[1] = a /\ on[2] = b
    BY <1>4
<1> HIDE DEF on
<1>10. /\ \A k \in 1..FrameUnits : (off \o on)[k] = off[k]
      /\ (off \o on)[FrameUnits + 1] = a /\ (off \o on)[FrameUnits + 2] = b
    BY <1>5, <1>9
<1>11. \A k \in 1..FrameUnits :
            (off \o on)[k].kind = "unhighlight" /\ (off \o on)[k].index = k
    BY <1>7, <1>10
<1>12. /\ (off \o on)[FrameUnits + 1].kind = "move"
       /\ (off \o on)[FrameUnits + 1].index = n /\ (off \o on)[FrameUnits + 1].touched = u
       /\ (off \o on)[FrameUnits + 2].kind = "highlight"
       /\ (off \o on)[FrameUnits + 2].index = n
    BY <1>8, <1>10
<1> QED
    BY <1>5, <1>6, <1>11, <1>12

\* The handlers of a client.
LEMMA ClientKeepsAccept ==
    ASSUME IInv, AcceptInv, NEW d \in Client, HandleMessage(d) \/ ProcessFrame(d)
    PROVE  AcceptInv'
<1>0. /\ toClient \in [Client -> Seq(Sent)] /\ list \in [Client -> Seq(Item)]
      /\ profiles' = profiles /\ \A c : PlayerIDOf(c)' = PlayerIDOf(c)
      /\ \A c \in Client : Accepted(c)' = Accepted(c)
    BY DEF IInv, ClientInv, HandleMessage, ProcessFrame, serverVars, PlayerIDOf, Accepted
<1>1. CASE HandleMessage(d)
    <2> DEFINE m == Head(toClient[d])
    <2>1. /\ toClient[d] # <<>>
          /\ toClient' = [toClient EXCEPT ![d] = Tail(@)]
          /\ UNCHANGED <<toServer, frames, crashed>>
          /\ \/ /\ m \in PlayerIDMessage
                /\ ownPlayerID' = [ownPlayerID EXCEPT ![d] = m.player]
                /\ list' = list
             \/ /\ ownPlayerID' = ownPlayerID
                /\ list' = list \/ \E t : list' = [list EXCEPT ![d] = t]
        BY <1>1 DEF HandleMessage
    <2>2. Accepted(d) /\ ToldOwnID(d)
        BY <2>1 DEF AcceptInv, Outside
    <2>3. /\ Len(toClient[d]) \in Nat \ {0} /\ DOMAIN toClient[d] = 1..Len(toClient[d])
          /\ m = toClient[d][1] /\ DOMAIN Tail(toClient[d]) = 1..Len(toClient[d]) - 1
          /\ \A k \in 1..Len(toClient[d]) - 1 : Tail(toClient[d])[k] = toClient[d][k + 1]
        BY <1>0, <2>1, TailShifts
    <2>4. m \in PlayerIDMessage => m.player = PlayerIDOf(d)
        BY <2>2, <2>3, MessageKinds DEF ToldOwnID
    <2>5. PlayerIDOf(d) \in Nat
        BY <2>2, PlayerIDs DEF IInv, ServerInv, AcceptInv, Accepted
    <2> HIDE DEF m
    <2>6. ownPlayerID' \in [Client -> Nat]
        BY <2>1, <2>4, <2>5 DEF AcceptInv
    <2>7. ToldOwnID(d)'
        <3>1. ownPlayerID'[d] \in {ID_NONE, PlayerIDOf(d)}
            BY <2>1, <2>2, <2>4 DEF AcceptInv, ToldOwnID
        <3>2. toClient'[d] = Tail(toClient[d])
            BY <1>0, <2>1
        <3>3. \A k \in DOMAIN toClient'[d] :
                k + 1 \in DOMAIN toClient[d] /\ toClient'[d][k] = toClient[d][k + 1]
            BY <2>3, <3>2
        <3>4. \A k \in DOMAIN toClient'[d] :
                toClient'[d][k] \notin AnyItemMessage => toClient'[d][k].player = PlayerIDOf(d)
            BY <2>2, <3>3 DEF ToldOwnID
        <3> QED
            BY <1>0, <3>1, <3>4 DEF ToldOwnID
    <2>8. ASSUME NEW c \in Client, c # d
          PROVE  IF Accepted(c)' THEN ToldOwnID(c)' ELSE Outside(c)'
        <3>1. /\ toClient'[c] = toClient[c] /\ toServer'[c] = toServer[c]
              /\ list'[c] = list[c] /\ ownPlayerID'[c] = ownPlayerID[c]
              /\ frames'[c] = frames[c] /\ crashed' = crashed
            BY <1>0, <2>1, <2>8 DEF AcceptInv
        <3> QED
            BY <1>0, <3>1 DEF AcceptInv, ToldOwnID, Outside
    <2> QED
        BY <1>0, <2>1, <2>2, <2>6, <2>7, <2>8 DEF AcceptInv, Accepted
<1>2. CASE ProcessFrame(d)
    <2>1. /\ frames' = [frames EXCEPT ![d] = @ + 1]
          /\ UNCHANGED <<ownPlayerID, list>>
          /\ \/ /\ crashed' = crashed /\ toClient' = toClient
                /\ \E nearest \in 1..FrameUnits :
                    /\ OwnUnit(d, nearest) # 0
                    /\ toServer' = [toServer EXCEPT
                                ![d] = @ \o FrameRequests(nearest, OwnUnit(d, nearest))]
             \/ /\ crashed' = crashed \cup {d}
                /\ toClient' = [toClient EXCEPT ![d] = <<>>]
                /\ \E first \in 1..FrameUnits :
                    /\ \A i \in 1..first - 1 : OwnUnit(d, i) # 0
                    /\ toServer' = [toServer EXCEPT ![d] = @ \o HighlightOff(first - 1)]
        BY <1>2 DEF ProcessFrame
    <2>2. ASSUME NEW k, OwnUnit(d, k) # 0
          PROVE  OwnUnit(d, k) \in Item /\ Accepted(d)
        <3>1. OwnUnit(d, k) \in Item /\ ownPlayerID[d] # ID_NONE
            BY <1>0, <2>2, UnitByIndexFinds DEF OwnUnit
        <3> QED
            BY <3>1 DEF AcceptInv, Outside
    <2>3. toServer' \in [Client -> Seq(Request)]
        <3>1. ASSUME NEW nearest \in 1..FrameUnits, OwnUnit(d, nearest) # 0
              PROVE  toServer[d] \o FrameRequests(nearest, OwnUnit(d, nearest)) \in Seq(Request)
            BY <2>2, <3>1, FrameIs, ConcatProperties DEF AcceptInv
        <3>2. ASSUME NEW first \in 1..FrameUnits
              PROVE  toServer[d] \o HighlightOff(first - 1) \in Seq(Request)
            <4>1. first - 1 \in Nat /\ first - 1 <= FrameUnits
                BY InstanceAssumption
            <4>2. HighlightOff(first - 1) \in Seq(Request)
                BY <4>1, OffIs
            <4> QED
                BY <4>2, ConcatProperties DEF AcceptInv
        <3> QED
            BY <2>1, <3>1, <3>2 DEF AcceptInv
    <2>4. frames' \in [Client -> Nat] /\ \A c \in Client : c # d => frames'[c] = frames[c]
        BY <2>1 DEF AcceptInv
    <2>5. ASSUME NEW c \in Client
          PROVE  IF Accepted(c)' THEN ToldOwnID(c)' ELSE Outside(c)'
        <3>1. /\ toClient'[c] = toClient[c] \/ toClient'[c] = <<>>
              /\ list'[c] = list[c] /\ ownPlayerID'[c] = ownPlayerID[c]
            BY <1>0, <2>1
        <3>2. CASE Accepted(c)
            <4>1. ToldOwnID(c) /\ DOMAIN <<>> = {}
                BY <3>2 DEF AcceptInv
            <4> QED
                BY <1>0, <3>1, <3>2, <4>1 DEF ToldOwnID
        <3>3. CASE ~Accepted(c)
            <4>1. Outside(c)
                BY <3>3 DEF AcceptInv
            <4>2. toServer'[c] = toServer[c]
                <5>1. CASE c = d
                    <6>1. ASSUME NEW first \in 1..FrameUnits,
                                 \A i \in 1..first - 1 : OwnUnit(d, i) # 0
                          PROVE  toServer[d] \o HighlightOff(first - 1) = toServer[d]
                        <7>1. first = 1
                            <8>1. 1 \notin 1..first - 1
                                BY <2>2, <3>3, <5>1, <6>1
                            <8>2. first \in Nat \ {0}
                                BY InstanceAssumption
                            <8> QED
                                BY <8>1, <8>2
                        <7>2. HighlightOff(0) \in Seq(Request) /\ Len(HighlightOff(0)) = 0
                            BY InstanceAssumption, OffIs
                        <7>3. HighlightOff(0) = <<>> /\ first - 1 = 0
                            BY <7>1, <7>2, EmptySeq
                        <7> QED
                            BY <7>3, ConcatEmptySeq DEF AcceptInv
                    <6> QED
                        BY <2>1, <2>2, <3>3, <5>1, <6>1 DEF AcceptInv
                <5>2. CASE c # d
                    BY <2>1, <5>2 DEF AcceptInv
                <5> QED
                    BY <5>1, <5>2
            <4>3. frames'[c] > 0 => c \in crashed'
                BY <2>1, <2>2, <2>4, <3>3, <4>1 DEF Outside
            <4> QED
                BY <1>0, <3>1, <3>3, <4>1, <4>2, <4>3 DEF Outside
        <3> QED
            BY <3>2, <3>3
    <2> QED
        BY <1>0, <2>1, <2>3, <2>4, <2>5 DEF AcceptInv
<1> QED
    BY <1>1, <1>2

\* Nobody is accepted yet.
LEMMA InitAccept == Init => AcceptInv
<1> SUFFICES ASSUME Init PROVE AcceptInv
    OBVIOUS
<1>1. <<>> \in Seq(Request) /\ Range(profiles) = {} /\ IsInjective(profiles)
    BY EmptySeq DEF Init, IsInjective, Range
<1> QED
    BY <1>1 DEF Init, AcceptInv, Accepted, Outside, ID_NONE

\* Accepting appends a profile, and only profiles are sent anything.
LEMMA NextKeepsAccept == IInv /\ AcceptInv /\ [Next]_vars => AcceptInv'
<1> SUFFICES ASSUME IInv, AcceptInv, [Next]_vars PROVE AcceptInv'
    OBVIOUS
<1>1. ASSUME NEW d \in Client, HandleSessionAccepted(d) PROVE AcceptInv'
    <2>1. /\ d \notin Range(profiles) /\ profiles' = Append(profiles, d)
          /\ UNCHANGED <<toClient, toServer, list, ownPlayerID, frames, crashed>>
        BY <1>1 DEF HandleSessionAccepted, clientVars
    <2>2. /\ IsInjective(profiles') /\ Range(profiles') = Range(profiles) \cup {d}
          /\ \A c \in Range(profiles) : PlayerIDOf(c)' = PlayerIDOf(c)
        BY <2>1, AcceptingOneMore DEF IInv, ServerInv, AcceptInv
    <2>3. ASSUME NEW c \in Client
          PROVE  IF Accepted(c)' THEN ToldOwnID(c)' ELSE Outside(c)'
        <3>1. CASE Accepted(c)
            BY <2>1, <2>2, <3>1 DEF AcceptInv, Accepted, ToldOwnID
        <3>2. CASE c = d
            <4>1. Outside(d) /\ DOMAIN <<>> = {}
                BY <2>1 DEF AcceptInv, Accepted
            <4> QED
                BY <2>1, <2>2, <3>2, <4>1 DEF Accepted, Outside, ToldOwnID
        <3>3. CASE ~Accepted(c) /\ c # d
            BY <2>1, <2>2, <3>3 DEF AcceptInv, Accepted, Outside
        <3> QED
            BY <3>1, <3>2, <3>3
    <2> QED
        BY <2>1, <2>2, <2>3 DEF AcceptInv
<1>2. ASSUME NEW d \in Client, HandleRequest(d) PROVE AcceptInv'
    <2>1. /\ toServer[d] # <<>> /\ toServer' = [toServer EXCEPT ![d] = Tail(@)]
          /\ UNCHANGED <<profiles, toClient, list, ownPlayerID, frames, crashed>>
        BY <1>2 DEF HandleRequest, clientVars
    <2>2. toServer' \in [Client -> Seq(Request)]
        BY <2>1, TailShifts DEF AcceptInv
    <2>3. \A c \in Client : c # d => toServer'[c] = toServer[c]
        BY <2>1 DEF AcceptInv
    <2>4. Accepted(d)
        BY <2>1 DEF AcceptInv, Outside
    <2>5. ASSUME NEW c \in Client
          PROVE  IF Accepted(c)' THEN ToldOwnID(c)' ELSE Outside(c)'
        <3>1. CASE Accepted(c)
            BY <2>1, <3>1 DEF AcceptInv, Accepted, ToldOwnID, PlayerIDOf
        <3>2. CASE ~Accepted(c)
            BY <2>1, <2>3, <2>4, <3>2 DEF AcceptInv, Accepted, Outside
        <3> QED
            BY <3>1, <3>2
    <2> QED
        BY <2>1, <2>2, <2>5 DEF AcceptInv
<1>3. CASE UNCHANGED vars
    BY <1>3 DEF vars, serverVars, clientVars, AcceptInv, Accepted, Outside, ToldOwnID, PlayerIDOf
<1> QED
    BY <1>1, <1>2, <1>3, ServerKeepsAccept, ClientKeepsAccept DEF Next

-----------------------------------------------------------------------------
(* Requests arrive in frames, and frames leave one unit highlighted          *)

\* The unit that a request of c for index k is for, on the server.
ServerUnit(c, k) == UnitByIndex(ServerList, PlayerIDOf(c), k)

\* What processFrame sends behind r, within a frame or with the next one.
FollowedBy(r, s) ==
    \/ /\ r.kind = "unhighlight" /\ r.index < FrameUnits
       /\ s.kind = "unhighlight" /\ s.index = r.index + 1
    \/ r.kind = "unhighlight" /\ r.index = FrameUnits /\ s.kind = "move"
    \/ r.kind = "move" /\ s.kind = "highlight"
    \/ r.kind = "highlight" /\ s.kind = "unhighlight" /\ s.index = 1

\* Requests in the order of frames, the first and the last of which may be cut.
InFrames(s) == \A k \in 1..Len(s) - 1 : FollowedBy(s[k], s[k + 1])
Complete(s) == s # <<>> => s[Len(s)].kind = "highlight"

\* The indices that requests are for.
Asked(s) == {s[k].index : k \in DOMAIN s}

\* Only a client that died leaves a frame cut, and the server has all the
\* units that requests under way are for.
RequestInv ==
    \A c \in Client :
        /\ InFrames(toServer[c])
        /\ c \notin crashed => Complete(toServer[c])
        /\ \A k \in Asked(toServer[c]) : ServerUnit(c, k) # 0

Lit(c) == {u \in highlighted : Owner[u] = PlayerIDOf(c)}
LitFrom(c, k) == \A u \in Lit(c) : \E j \in k..FrameUnits : u = ServerUnit(c, j)

\* The first unit that may be highlighted when r is the next request.
FirstLit(r) == IF r.kind = "unhighlight" THEN r.index ELSE FrameUnits + 1

LightOf(c) ==
    /\ LitFrom(c, 1)
    /\ toServer[c] # <<>> => LitFrom(c, FirstLit(Head(toServer[c])))
    /\ toServer[c] = <<>> /\ frames[c] > 0 /\ c \notin crashed => \E u : Lit(c) = {u}

LightInv ==
    /\ highlighted \subseteq Item
    /\ \A u \in highlighted : \E c \in Client : Accepted(c) /\ u \in Lit(c)
    /\ \A c \in Client : Accepted(c) => LightOf(c)

MoveInv ==
    lastMove.moved # 0 =>
        /\ lastMove.client \in Client /\ Accepted(lastMove.client)
        /\ Owner[lastMove.moved] = PlayerIDOf(lastMove.client)

\* handleMoveRequest or handleHighlightRequest takes the first request.
LEMMA TailInFrames ==
    ASSUME NEW s \in Seq(Request), s # <<>>, InFrames(s)
    PROVE  /\ InFrames(Tail(s))
           /\ Tail(s) # <<>> => FollowedBy(Head(s), Head(Tail(s)))
           /\ Complete(s) => Complete(Tail(s))
           /\ Complete(s) /\ Tail(s) = <<>> => Head(s).kind = "highlight"
           /\ Asked(Tail(s)) \subseteq Asked(s) /\ Head(s).index \in Asked(s)
<1>1. /\ Len(s) \in Nat \ {0} /\ Head(s) = s[1] /\ DOMAIN s = 1..Len(s)
      /\ Tail(s) \in Seq(Request) /\ Len(Tail(s)) = Len(s) - 1
      /\ DOMAIN Tail(s) = 1..Len(s) - 1
      /\ \A k \in 1..Len(s) - 1 : Tail(s)[k] = s[k + 1]
      /\ Tail(s) = <<>> <=> Len(s) = 1
    BY TailShifts
<1>2. Tail(s) # <<>> => Head(Tail(s)) = Tail(s)[1]
    BY <1>1, TailShifts
<1>3. InFrames(Tail(s))
    <2> SUFFICES ASSUME NEW k \in 1..Len(s) - 1 - 1
                 PROVE  FollowedBy(Tail(s)[k], Tail(s)[k + 1])
        BY <1>1 DEF InFrames
    <2>1. k + 1 \in 1..Len(s) - 1 /\ k \in 1..Len(s) - 1
        BY <1>1
    <2>2. Tail(s)[k] = s[k + 1] /\ Tail(s)[k + 1] = s[k + 1 + 1]
        BY <1>1, <2>1
    <2> QED
        BY <2>1, <2>2 DEF InFrames
<1>4. Tail(s) # <<>> => FollowedBy(Head(s), Head(Tail(s)))
    <2> SUFFICES ASSUME Tail(s) # <<>> PROVE FollowedBy(Head(s), Head(Tail(s)))
        OBVIOUS
    <2>1. 1 \in 1..Len(s) - 1
        BY <1>1
    <2>2. Tail(s)[1] = s[1 + 1]
        BY <1>1, <2>1
    <2> QED
        BY <1>1, <1>2, <2>1, <2>2 DEF InFrames
<1>5. ASSUME Complete(s), Tail(s) # <<>> PROVE Complete(Tail(s))
    <2>1. Len(s) - 1 \in 1..Len(s) - 1 /\ Len(s) - 1 + 1 = Len(s)
        BY <1>1, <1>5
    <2>2. Tail(s)[Len(s) - 1] = s[Len(s)]
        BY <1>1, <2>1
    <2> QED
        BY <1>1, <1>5, <2>2 DEF Complete
<1>6. Complete(s) => Complete(Tail(s))
    BY <1>5 DEF Complete
<1>7. Complete(s) /\ Tail(s) = <<>> => Head(s).kind = "highlight"
    BY <1>1 DEF Complete
<1>8. Asked(Tail(s)) \subseteq Asked(s) /\ Head(s).index \in Asked(s)
    <2>1. \A k \in 1..Len(s) - 1 : k + 1 \in 1..Len(s)
        BY <1>1
    <2>2. 1 \in 1..Len(s)
        BY <1>1
    <2> QED
        BY <1>1, <2>1, <2>2 DEF Asked
<1> QED
    BY <1>3, <1>4, <1>6, <1>7, <1>8

\* processFrame sends its requests behind those under way.
LEMMA JoinedFrames ==
    ASSUME NEW s \in Seq(Request), InFrames(s), Complete(s),
           NEW f \in Seq(Request), InFrames(f),
           f # <<>> => f[1].kind = "unhighlight" /\ f[1].index = 1
    PROVE  /\ InFrames(s \o f)
           /\ f # <<>> /\ Complete(f) => Complete(s \o f)
           /\ f # <<>> => s \o f # <<>>
           /\ s # <<>> => s \o f # <<>> /\ Head(s \o f) = Head(s)
           /\ s = <<>> /\ s \o f # <<>> =>
                Head(s \o f).kind = "unhighlight" /\ Head(s \o f).index = 1
           /\ Asked(s \o f) = Asked(s) \cup Asked(f)
<1> DEFINE t == s \o f
<1>1. /\ t \in Seq(Request)
      /\ Len(s) \in Nat /\ Len(f) \in Nat /\ Len(t) = Len(s) + Len(f)
      /\ \A k \in 1..Len(s) : t[k] = s[k]
      /\ \A k \in 1..Len(f) : t[Len(s) + k] = f[k]
    BY ConcatIs
<1> HIDE DEF t
<1>2. /\ DOMAIN t = 1..Len(t) /\ DOMAIN s = 1..Len(s) /\ DOMAIN f = 1..Len(f)
      /\ t # <<>> <=> Len(t) # 0
      /\ s # <<>> <=> Len(s) # 0
      /\ f # <<>> <=> Len(f) # 0
    BY <1>1, EmptySeq, LenProperties
<1>3. t # <<>> => Head(t) = t[1]
    BY <1>1, TailShifts
<1>4. ASSUME NEW k \in 1..Len(t) - 1 PROVE FollowedBy(t[k], t[k + 1])
    <2>1. CASE k < Len(s)
        <3>1. k \in 1..Len(s) /\ k + 1 \in 1..Len(s) /\ k \in 1..Len(s) - 1
            BY <1>1, <2>1
        <3>2. t[k] = s[k] /\ t[k + 1] = s[k + 1]
            BY <1>1, <3>1
        <3> QED
            BY <3>1, <3>2 DEF InFrames
    <2>2. CASE k = Len(s)
        <3>1. k \in 1..Len(s) /\ 1 \in 1..Len(f)
            BY <1>1, <2>2
        <3>2. t[k] = s[k] /\ t[k + 1] = f[1]
            BY <1>1, <2>2, <3>1
        <3>3. s[k].kind = "highlight"
            BY <1>1, <1>2, <2>2, <3>1 DEF Complete
        <3>4. f[1].kind = "unhighlight" /\ f[1].index = 1
            BY <1>1, <1>2, <3>1
        <3> QED
            BY <3>2, <3>3, <3>4 DEF FollowedBy
    <2>3. CASE k > Len(s)
        <3> DEFINE j == k - Len(s)
        <3>1. /\ j \in 1..Len(f) - 1 /\ k = Len(s) + j /\ k + 1 = Len(s) + (j + 1)
              /\ j \in 1..Len(f) /\ j + 1 \in 1..Len(f)
            BY <1>1, <2>3
        <3> HIDE DEF j
        <3>2. t[k] = f[j] /\ t[k + 1] = f[j + 1]
            BY <1>1, <3>1
        <3> QED
            BY <3>1, <3>2 DEF InFrames
    <2> QED
        BY <1>1, <2>1, <2>2, <2>3
<1>5. InFrames(t)
    BY <1>4 DEF InFrames
<1>6. ASSUME f # <<>>, Complete(f) PROVE Complete(t)
    <2>1. Len(f) \in 1..Len(f)
        BY <1>1, <1>2, <1>6
    <2>2. t[Len(t)] = f[Len(f)]
        BY <1>1, <2>1
    <2> QED
        BY <1>6, <2>2 DEF Complete
<1>7. /\ f # <<>> => t # <<>>
      /\ s # <<>> => t # <<>>
    BY <1>1, <1>2
<1>8. s # <<>> => Head(t) = Head(s)
    <2> SUFFICES ASSUME s # <<>> PROVE Head(t) = Head(s)
        OBVIOUS
    <2>1. Head(s) = s[1] /\ 1 \in 1..Len(s)
        BY TailShifts
    <2> QED
        BY <1>1, <1>3, <1>7, <2>1
<1>9. ASSUME s = <<>>, t # <<>> PROVE Head(t).kind = "unhighlight" /\ Head(t).index = 1
    <2>1. Len(s) = 0 /\ 1 \in 1..Len(f) /\ f # <<>>
        BY <1>1, <1>2, <1>9
    <2>2. t[0 + 1] = f[1]
        BY <1>1, <2>1
    <2> QED
        BY <1>3, <1>9, <2>1, <2>2
<1>10. Asked(t) = Asked(s) \cup Asked(f)
    <2>1. ASSUME NEW k \in 1..Len(t) PROVE t[k].index \in Asked(s) \cup Asked(f)
        <3>1. CASE k <= Len(s)
            <4>1. k \in DOMAIN s /\ t[k] = s[k]
                BY <1>1, <1>2, <3>1
            <4> QED
                BY <4>1 DEF Asked
        <3>2. CASE ~(k <= Len(s))
            <4>1. k - Len(s) \in 1..Len(f) /\ Len(s) + (k - Len(s)) = k
                BY <1>1, <3>2
            <4>2. t[k] = f[k - Len(s)]
                BY <1>1, <4>1
            <4> QED
                BY <1>2, <4>1, <4>2 DEF Asked
        <3> QED
            BY <3>1, <3>2
    <2>2. ASSUME NEW k \in 1..Len(s) PROVE s[k].index \in Asked(t)
        <3>1. k \in 1..Len(t) /\ t[k] = s[k]
            BY <1>1
        <3> QED
            BY <1>2, <3>1 DEF Asked
    <2>3. ASSUME NEW k \in 1..Len(f) PROVE f[k].index \in Asked(t)
        <3>1. Len(s) + k \in 1..Len(t) /\ t[Len(s) + k] = f[k]
            BY <1>1
        <3> QED
            BY <1>2, <3>1 DEF Asked
    <2> QED
        BY <1>2, <2>1, <2>2, <2>3 DEF Asked
<1> QED
    BY <1>5, <1>6, <1>7, <1>8, <1>9, <1>10 DEF t

\* A fatal frame puts out the units there are.
LEMMA OffInFrames ==
    ASSUME NEW m \in Nat, m <= FrameUnits
    PROVE  /\ HighlightOff(m) \in Seq(Request) /\ InFrames(HighlightOff(m))
           /\ HighlightOff(m) # <<>> =>
                HighlightOff(m)[1].kind = "unhighlight" /\ HighlightOff(m)[1].index = 1
           /\ Asked(HighlightOff(m)) \subseteq 1..m
<1> DEFINE f == HighlightOff(m)
<1>0. FrameUnits \in Nat
    BY InstanceAssumption
<1>1. /\ f \in Seq(Request) /\ Len(f) = m
      /\ \A k \in 1..m : f[k].kind = "unhighlight" /\ f[k].index = k
    BY OffIs
<1> HIDE DEF f
<1>2. DOMAIN f = 1..m /\ (f # <<>> => m # 0)
    BY <1>1, EmptySeq, LenProperties
<1>3. ASSUME NEW k \in 1..m - 1 PROVE FollowedBy(f[k], f[k + 1])
    <2>1. k \in 1..m /\ k + 1 \in 1..m /\ k < FrameUnits
        BY <1>0
    <2> QED
        BY <1>1, <2>1 DEF FollowedBy
<1>4. InFrames(f)
    BY <1>1, <1>3 DEF InFrames
<1>5. f # <<>> => f[1].kind = "unhighlight" /\ f[1].index = 1
    BY <1>1, <1>2
<1>6. Asked(f) \subseteq 1..m
    BY <1>1, <1>2 DEF Asked
<1> QED
    BY <1>1, <1>4, <1>5, <1>6 DEF f

\* What a frame that is not fatal sends is one whole frame.
LEMMA FrameInFrames ==
    ASSUME NEW n \in 1..FrameUnits, NEW u \in Item
    PROVE  /\ FrameRequests(n, u) \in Seq(Request) /\ InFrames(FrameRequests(n, u))
           /\ FrameRequests(n, u) # <<>> /\ Complete(FrameRequests(n, u))
           /\ FrameRequests(n, u)[1].kind = "unhighlight" /\ FrameRequests(n, u)[1].index = 1
           /\ Asked(FrameRequests(n, u)) \subseteq 1..FrameUnits
<1> DEFINE f == FrameRequests(n, u)
<1>0. FrameUnits \in Nat \ {0}
    BY InstanceAssumption
<1>1. /\ f \in Seq(Request) /\ Len(f) = FrameUnits + 2
      /\ \A k \in 1..FrameUnits : f[k].kind = "unhighlight" /\ f[k].index = k
      /\ f[FrameUnits + 1].kind = "move" /\ f[FrameUnits + 1].index = n
      /\ f[FrameUnits + 2].kind = "highlight" /\ f[FrameUnits + 2].index = n
    BY FrameIs
<1> HIDE DEF f
<1>2. DOMAIN f = 1..FrameUnits + 2 /\ f # <<>>
    BY <1>0, <1>1, EmptySeq, LenProperties
<1>3. ASSUME NEW j \in 1..FrameUnits + 2 - 1 PROVE FollowedBy(f[j], f[j + 1])
    <2>1. CASE j < FrameUnits
        <3>1. j \in 1..FrameUnits /\ j + 1 \in 1..FrameUnits
            BY <1>0, <2>1
        <3> QED
            BY <1>1, <2>1, <3>1 DEF FollowedBy
    <2>2. CASE j = FrameUnits
        <3>1. f[j].kind = "unhighlight" /\ f[j].index = FrameUnits /\ f[j + 1].kind = "move"
            BY <1>0, <1>1, <2>2
        <3> QED
            BY <3>1 DEF FollowedBy
    <2>3. CASE j = FrameUnits + 1
        <3>1. j + 1 = FrameUnits + 2
            BY <1>0, <2>3
        <3>2. f[j].kind = "move" /\ f[j + 1].kind = "highlight"
            BY <1>1, <2>3, <3>1
        <3> QED
            BY <3>2 DEF FollowedBy
    <2> QED
        BY <1>0, <2>1, <2>2, <2>3
<1>4. InFrames(f)
    <2>1. Len(f) - 1 = FrameUnits + 2 - 1
        BY <1>0, <1>1
    <2> QED
        BY <1>3, <2>1 DEF InFrames
<1>5. Complete(f)
    BY <1>1 DEF Complete
<1>6. f[1].kind = "unhighlight" /\ f[1].index = 1
    BY <1>0, <1>1
<1>7. Asked(f) \subseteq 1..FrameUnits
    <2>1. ASSUME NEW k \in 1..FrameUnits + 2 PROVE f[k].index \in 1..FrameUnits
        <3>1. k \in 1..FrameUnits \/ k = FrameUnits + 1 \/ k = FrameUnits + 2
            BY <1>0
        <3> QED
            BY <1>1, <3>1
    <2> QED
        BY <1>2, <2>1 DEF Asked
<1> QED
    BY <1>1, <1>2, <1>4, <1>5, <1>6, <1>7 DEF f

HighlightInv == RequestInv /\ LightInv /\ MoveInv

\* While no profile is added, player IDs and the server's lookups stay.
LEMMA SameProfiles ==
    ASSUME profiles' = profiles
    PROVE  \A c : /\ PlayerIDOf(c)' = PlayerIDOf(c)
                  /\ Accepted(c)' = Accepted(c)
                  /\ \A k : ServerUnit(c, k)' = ServerUnit(c, k)
BY DEF PlayerIDOf, Accepted, ServerUnit

\* Whoever has sent requests is accepted, and they are for units of its own.
LEMMA RequestedUnits ==
    ASSUME IInv, AcceptInv, RequestInv, NEW c \in Client, toServer[c] # <<>>,
           NEW k \in Asked(toServer[c])
    PROVE  /\ Accepted(c)
           /\ ServerUnit(c, k) \in Item /\ ServerUnit(c, k) # 0
           /\ Owner[ServerUnit(c, k)] = PlayerIDOf(c)
<1>1. Accepted(c)
    BY DEF AcceptInv, Outside
<1>2. ServerUnit(c, k) # 0
    BY DEF RequestInv
<1> QED
    BY <1>1, <1>2, UnitByIndexFinds, ServerListIsASeq DEF ServerUnit

\* Steps that neither send nor follow a request.
LEMMA NothingHighlighted ==
    ASSUME HighlightInv,
           UNCHANGED <<profiles, toServer, highlighted, frames, crashed, lastMove>>
    PROVE  HighlightInv'
<1>1. \A c : /\ PlayerIDOf(c)' = PlayerIDOf(c) /\ Accepted(c)' = Accepted(c)
             /\ \A k : ServerUnit(c, k)' = ServerUnit(c, k)
    BY SameProfiles
<1>2. \A c : Lit(c)' = Lit(c)
    BY <1>1 DEF Lit
<1>3. \A c, k : LitFrom(c, k)' <=> LitFrom(c, k)
    BY <1>1, <1>2 DEF LitFrom
<1>4. RequestInv'
    BY <1>1 DEF HighlightInv, RequestInv
<1>5. LightInv'
    BY <1>1, <1>2, <1>3 DEF HighlightInv, LightInv, LightOf
<1>6. MoveInv'
    BY <1>1 DEF HighlightInv, MoveInv
<1> QED
    BY <1>4, <1>5, <1>6 DEF HighlightInv

\* A new client has sent nothing, and no unit of its player is highlighted.
LEMMA AcceptKeepsHighlight ==
    ASSUME IInv, AcceptInv, HighlightInv, NEW d \in Client, HandleSessionAccepted(d)
    PROVE  HighlightInv'
<1>1. /\ d \notin Range(profiles) /\ profiles' = Append(profiles, d)
      /\ UNCHANGED <<toServer, highlighted, frames, crashed, lastMove>>
    BY DEF HandleSessionAccepted, clientVars
<1>2. /\ Range(profiles') = Range(profiles) \cup {d}
      /\ \A c \in Range(profiles) :
            PlayerIDOf(c)' = PlayerIDOf(c) /\ PlayerIDOf(d)' # PlayerIDOf(c)
    BY <1>1, AcceptingOneMore DEF IInv, ServerInv, AcceptInv
<1>3. Outside(d)
    BY <1>1 DEF AcceptInv, Accepted
<1>4. \A c \in Client : Accepted(c)' <=> Accepted(c) \/ c = d
    BY <1>2 DEF Accepted
<1>5. \A c \in Client : Accepted(c) =>
        /\ PlayerIDOf(c)' = PlayerIDOf(c) /\ Lit(c)' = Lit(c)
        /\ \A k : ServerUnit(c, k)' = ServerUnit(c, k)
    BY <1>1, <1>2 DEF Accepted, Lit, ServerUnit
<1>6. \A u \in highlighted : \E c \in Client : Accepted(c) /\ Owner[u] = PlayerIDOf(c)
    BY DEF HighlightInv, LightInv, Lit
<1>7. Lit(d)' = {}
    BY <1>1, <1>2, <1>6 DEF Lit, Accepted
<1>8. RequestInv'
    <2> SUFFICES ASSUME NEW c \in Client
                 PROVE  /\ InFrames(toServer[c])
                        /\ c \notin crashed => Complete(toServer[c])
                        /\ \A k \in Asked(toServer[c]) : ServerUnit(c, k)' # 0
        BY <1>1 DEF RequestInv
    <2>1. /\ InFrames(toServer[c])
          /\ c \notin crashed => Complete(toServer[c])
          /\ \A k \in Asked(toServer[c]) : ServerUnit(c, k) # 0
        BY DEF HighlightInv, RequestInv
    <2>2. toServer[c] # <<>> => Accepted(c)
        BY DEF AcceptInv, Outside
    <2>3. Asked(<<>>) = {}
        BY DEF Asked
    <2> QED
        BY <1>5, <2>1, <2>2, <2>3
<1>9. LightInv'
    <2>1. ASSUME NEW u \in highlighted' PROVE \E c \in Client : Accepted(c)' /\ (u \in Lit(c))'
        BY <1>1, <1>4, <1>5, <2>1 DEF HighlightInv, LightInv
    <2>2. ASSUME NEW c \in Client, Accepted(c) PROVE LightOf(c)'
        <3>1. LightOf(c)
            BY <2>2 DEF HighlightInv, LightInv
        <3>2. \A k : LitFrom(c, k)' <=> LitFrom(c, k)
            BY <1>5, <2>2 DEF LitFrom
        <3> QED
            BY <1>1, <1>5, <2>2, <3>1, <3>2 DEF LightOf
    <2>3. LightOf(d)'
        BY <1>1, <1>3, <1>7 DEF LightOf, LitFrom, Outside
    <2> QED
        BY <1>1, <1>4, <2>1, <2>2, <2>3 DEF HighlightInv, LightInv
<1>10. MoveInv'
    BY <1>1, <1>4, <1>5 DEF HighlightInv, MoveInv
<1> QED
    BY <1>8, <1>9, <1>10 DEF HighlightInv

\* A frame begins by putting out the first unit.
LEMMA FrameKeepsHighlight ==
    ASSUME IInv, AcceptInv, HighlightInv, NEW d \in Client, ProcessFrame(d)
    PROVE  HighlightInv'
<1>0. /\ UNCHANGED <<profiles, highlighted, lastMove>> /\ d \notin crashed
      /\ frames' = [frames EXCEPT ![d] = @ + 1]
      /\ \/ /\ crashed' = crashed
            /\ \A i \in 1..FrameUnits : OwnUnit(d, i) # 0
            /\ \E nearest \in 1..FrameUnits :
                toServer' = [toServer EXCEPT
                                ![d] = @ \o FrameRequests(nearest, OwnUnit(d, nearest))]
         \/ /\ crashed' = crashed \cup {d}
            /\ \E first \in 1..FrameUnits :
                /\ \A i \in 1..first - 1 : OwnUnit(d, i) # 0
                /\ toServer' = [toServer EXCEPT ![d] = @ \o HighlightOff(first - 1)]
    BY DEF ProcessFrame, serverVars, history
<1>1. \A c : /\ PlayerIDOf(c)' = PlayerIDOf(c) /\ Accepted(c)' = Accepted(c)
             /\ \A k : ServerUnit(c, k)' = ServerUnit(c, k)
    BY <1>0, SameProfiles
<1>2. \A c : Lit(c)' = Lit(c)
    BY <1>0, <1>1 DEF Lit
<1>3. \A c, k : LitFrom(c, k)' <=> LitFrom(c, k)
    BY <1>1, <1>2 DEF LitFrom
<1>4. MoveInv'
    BY <1>0, <1>1 DEF HighlightInv, MoveInv
<1>5. ASSUME NEW c \in Client, c # d
      PROVE  /\ toServer'[c] = toServer[c] /\ frames'[c] = frames[c]
             /\ c \in crashed' <=> c \in crashed
    BY <1>0, <1>5 DEF AcceptInv
<1>6. /\ list[d] \in Seq(Item) /\ IsInjective(list[d]) /\ toServer[d] \in Seq(Request)
      /\ InFrames(toServer[d]) /\ Complete(toServer[d])
      /\ \A k \in Asked(toServer[d]) : ServerUnit(d, k) # 0
    BY <1>0 DEF IInv, ClientInv, EachItemOnce, AcceptInv, HighlightInv, RequestInv
<1>7. ASSUME NEW k, OwnUnit(d, k) # 0
      PROVE  /\ OwnUnit(d, k) \in Item /\ Accepted(d)
             /\ ServerUnit(d, k) # 0
    <2>1. OwnUnit(d, k) \in Item /\ ownPlayerID[d] # ID_NONE
        BY <1>6, <1>7, UnitByIndexFinds DEF OwnUnit
    <2>2. Accepted(d) /\ ownPlayerID[d] = PlayerIDOf(d)
        BY <2>1 DEF AcceptInv, Outside, ToldOwnID
    <2> QED
        BY <1>6, <1>7, <2>1, <2>2, ServerHasAsMany DEF OwnUnit, ServerUnit
\* What is sent, whether the frame is fatal or not.
<1>8. PICK f \in Seq(Request) :
        /\ toServer'[d] = toServer[d] \o f
        /\ InFrames(f)
        /\ f # <<>> => f[1].kind = "unhighlight" /\ f[1].index = 1
        /\ \A k \in Asked(f) : ServerUnit(d, k) # 0
        /\ d \notin crashed' => f # <<>> /\ Complete(f)
    <2>1. ASSUME \A i \in 1..FrameUnits : OwnUnit(d, i) # 0, NEW n \in 1..FrameUnits,
                 toServer' = [toServer EXCEPT ![d] = @ \o FrameRequests(n, OwnUnit(d, n))]
          PROVE  \E f \in Seq(Request) :
                    /\ toServer'[d] = toServer[d] \o f
                    /\ InFrames(f)
                    /\ f # <<>> => f[1].kind = "unhighlight" /\ f[1].index = 1
                    /\ \A k \in Asked(f) : ServerUnit(d, k) # 0
                    /\ d \notin crashed' => f # <<>> /\ Complete(f)
        <3> DEFINE f == FrameRequests(n, OwnUnit(d, n))
        <3>1. OwnUnit(d, n) \in Item
            BY <1>7, <2>1
        <3>2. /\ f \in Seq(Request) /\ InFrames(f) /\ f # <<>> /\ Complete(f)
              /\ f[1].kind = "unhighlight" /\ f[1].index = 1
              /\ Asked(f) \subseteq 1..FrameUnits
            BY <3>1, FrameInFrames
        <3>3. toServer'[d] = toServer[d] \o f
            BY <2>1 DEF AcceptInv
        <3> HIDE DEF f
        <3> QED
            BY <1>7, <2>1, <3>2, <3>3
    <2>2. ASSUME crashed' = crashed \cup {d}, NEW first \in 1..FrameUnits,
                 \A i \in 1..first - 1 : OwnUnit(d, i) # 0,
                 toServer' = [toServer EXCEPT ![d] = @ \o HighlightOff(first - 1)]
          PROVE  \E f \in Seq(Request) :
                    /\ toServer'[d] = toServer[d] \o f
                    /\ InFrames(f)
                    /\ f # <<>> => f[1].kind = "unhighlight" /\ f[1].index = 1
                    /\ \A k \in Asked(f) : ServerUnit(d, k) # 0
                    /\ d \notin crashed' => f # <<>> /\ Complete(f)
        <3> DEFINE f == HighlightOff(first - 1)
        <3>1. first - 1 \in Nat /\ first - 1 <= FrameUnits
            BY InstanceAssumption
        <3>2. /\ f \in Seq(Request) /\ InFrames(f)
              /\ f # <<>> => f[1].kind = "unhighlight" /\ f[1].index = 1
              /\ Asked(f) \subseteq 1..first - 1
            BY <3>1, OffInFrames
        <3>3. toServer'[d] = toServer[d] \o f
            BY <2>2 DEF AcceptInv
        <3> HIDE DEF f
        <3>4. \A i \in 1..first - 1 : ServerUnit(d, i) # 0
            BY <1>7, <2>2
        <3>5. \A k \in Asked(f) : ServerUnit(d, k) # 0
            BY <3>2, <3>4
        <3>6. d \in crashed'
            BY <2>2
        <3> QED
            BY <3>2, <3>3, <3>5, <3>6
    <2> QED
        BY <1>0, <2>1, <2>2
<1> DEFINE t == toServer[d] \o f
<1>9. /\ InFrames(t)
      /\ d \notin crashed' => Complete(t) /\ t # <<>>
      /\ toServer[d] # <<>> => t # <<>> /\ Head(t) = Head(toServer[d])
      /\ toServer[d] = <<>> /\ t # <<>> => Head(t).kind = "unhighlight" /\ Head(t).index = 1
      /\ Asked(t) = Asked(toServer[d]) \cup Asked(f)
    BY <1>6, <1>8, JoinedFrames
<1>10. toServer'[d] = t
    BY <1>8
<1> HIDE DEF t
<1>11. RequestInv'
    <2>1. ASSUME NEW c \in Client, c # d
          PROVE  /\ InFrames(toServer'[c])
                 /\ c \notin crashed' => Complete(toServer'[c])
                 /\ \A k \in Asked(toServer'[c]) : ServerUnit(c, k)' # 0
        BY <1>1, <1>5, <2>1 DEF HighlightInv, RequestInv
    <2>2. /\ InFrames(toServer'[d])
          /\ d \notin crashed' => Complete(toServer'[d])
          /\ \A k \in Asked(toServer'[d]) : ServerUnit(d, k)' # 0
        BY <1>1, <1>6, <1>8, <1>9, <1>10
    <2> QED
        BY <2>1, <2>2 DEF RequestInv
<1>12. ASSUME Accepted(d) PROVE LightOf(d)'
    <2>1. LightOf(d)
        BY <1>12 DEF HighlightInv, LightInv
    <2>2. t # <<>> => LitFrom(d, FirstLit(Head(t)))
        BY <1>9, <2>1 DEF LightOf, FirstLit
    <2> QED
        BY <1>2, <1>3, <1>9, <1>10, <2>1, <2>2 DEF LightOf
<1>13. ASSUME NEW c \in Client, Accepted(c), c # d PROVE LightOf(c)'
    <2>1. LightOf(c)
        BY <1>13 DEF HighlightInv, LightInv
    <2> QED
        BY <1>2, <1>3, <1>5, <1>13, <2>1 DEF LightOf
<1>14. LightInv'
    BY <1>0, <1>1, <1>2, <1>12, <1>13 DEF HighlightInv, LightInv
<1> QED
    BY <1>4, <1>11, <1>14 DEF HighlightInv

\* The server follows one request.
LEMMA RequestKeepsHighlight ==
    ASSUME IInv, AcceptInv, HighlightInv, NEW d \in Client, HandleRequest(d)
    PROVE  HighlightInv'
<1> DEFINE r == Head(toServer[d])
           unit == ServerUnit(d, r.index)
           rest == Tail(toServer[d])
<1>0. /\ toServer[d] # <<>> /\ toServer[d] \in Seq(Request)
      /\ InFrames(toServer[d])
    BY DEF HandleRequest, AcceptInv, HighlightInv, RequestInv
<1>1. /\ toServer' = [toServer EXCEPT ![d] = rest]
      /\ highlighted' =
            CASE unit # 0 /\ r.kind = "highlight" -> highlighted \cup {unit}
              [] unit # 0 /\ r.kind = "unhighlight" -> highlighted \ {unit}
              [] OTHER -> highlighted
      /\ lastMove' = IF r.kind = "move"
                     THEN [client |-> d, touched |-> r.touched, moved |-> unit]
                     ELSE lastMove
      /\ UNCHANGED <<profiles, frames, crashed>>
    BY DEF HandleRequest, clientVars, ServerUnit
<1>2. /\ InFrames(rest) /\ (rest # <<>> => FollowedBy(r, Head(rest)))
      /\ Complete(toServer[d]) => Complete(rest) /\ (rest = <<>> => r.kind = "highlight")
      /\ Asked(rest) \subseteq Asked(toServer[d]) /\ r.index \in Asked(toServer[d])
    BY <1>0, TailInFrames
<1>3. r \in Request
    BY <1>0, TailShifts
<1> HIDE DEF r
<1>4. r.kind \in {"move", "highlight", "unhighlight"} /\ r.index \in 1..FrameUnits
    BY <1>3 DEF Request
<1>5. Accepted(d) /\ unit \in Item /\ unit # 0 /\ Owner[unit] = PlayerIDOf(d)
    BY <1>0, <1>2, RequestedUnits DEF HighlightInv
<1> HIDE DEF unit, rest
<1>6. \A c : /\ PlayerIDOf(c)' = PlayerIDOf(c) /\ Accepted(c)' = Accepted(c)
             /\ \A k : ServerUnit(c, k)' = ServerUnit(c, k)
    BY <1>1, SameProfiles
<1>7. highlighted' = CASE r.kind = "highlight" -> highlighted \cup {unit}
                       [] r.kind = "unhighlight" -> highlighted \ {unit}
                       [] OTHER -> highlighted
    BY <1>1, <1>5
<1>8. MoveInv'
    BY <1>1, <1>5, <1>6 DEF HighlightInv, MoveInv
<1>9. toServer'[d] = rest /\ \A c \in Client : c # d => toServer'[c] = toServer[c]
    BY <1>1 DEF AcceptInv
<1>10. RequestInv'
    BY <1>1, <1>2, <1>6, <1>9 DEF HighlightInv, RequestInv
<1>11. ASSUME NEW c \in Client, Accepted(c), c # d
       PROVE  LightOf(c)' /\ Lit(c)' = Lit(c)
    <2>1. PlayerIDOf(c) # PlayerIDOf(d)
        BY <1>5, <1>11, PlayerIDs DEF IInv, ServerInv, AcceptInv, Accepted
    <2>2. Lit(c)' = Lit(c)
        BY <1>5, <1>6, <1>7, <2>1 DEF Lit
    <2>3. \A k : LitFrom(c, k)' <=> LitFrom(c, k)
        BY <1>6, <2>2 DEF LitFrom
    <2>4. LightOf(c)
        BY <1>11 DEF HighlightInv, LightInv
    <2> QED
        BY <1>1, <1>9, <1>11, <2>2, <2>3, <2>4 DEF LightOf
<1>12. LightOf(d)' /\ Lit(d)' \subseteq Lit(d) \cup {unit}
    <2>0. /\ LightOf(d) /\ FrameUnits \in Nat
          /\ d \notin crashed /\ rest = <<>> => r.kind = "highlight"
        BY <1>2, <1>5, InstanceAssumption DEF HighlightInv, LightInv, RequestInv
    <2>1. LitFrom(d, 1) /\ LitFrom(d, FirstLit(r))
        BY <1>0, <2>0 DEF LightOf, r
    <2>6. crashed' = crashed
        BY <1>1
    <2>2. \A k : LitFrom(d, k)' <=> \A u \in Lit(d)' : \E j \in k..FrameUnits : u = ServerUnit(d, j)
        BY <1>6 DEF LitFrom
    <2>3. CASE r.kind = "unhighlight"
        <3>1. Lit(d)' = Lit(d) \ {unit}
            BY <1>5, <1>6, <1>7, <2>3 DEF Lit
        <3>2. rest # <<>> => FirstLit(Head(rest)) = r.index + 1
            BY <1>2, <2>0, <2>3 DEF FollowedBy, FirstLit
        <3>3. LitFrom(d, 1)'
            BY <2>1, <2>2, <3>1 DEF LitFrom
        <3>4. ASSUME NEW u \in Lit(d)'
              PROVE  \E j \in r.index + 1..FrameUnits : u = ServerUnit(d, j)
            <4>1. PICK j \in r.index..FrameUnits : u = ServerUnit(d, j)
                BY <2>1, <2>3, <3>1 DEF LitFrom, FirstLit
            <4>2. j # r.index
                BY <3>1, <4>1 DEF unit
            <4> QED
                BY <1>4, <2>0, <4>1, <4>2
        <3>5. rest = <<>> => d \in crashed
            BY <2>0, <2>3
        <3>6. rest # <<>> => LitFrom(d, FirstLit(Head(toServer[d])))'
            BY <1>9, <2>2, <3>2, <3>4 DEF LitFrom, FirstLit
        <3> QED
            BY <1>9, <2>6, <3>1, <3>3, <3>5, <3>6 DEF LightOf
    <2>4. CASE r.kind = "move"
        <3>1. Lit(d)' = Lit(d)
            BY <1>5, <1>6, <1>7, <2>4 DEF Lit
        <3>2. rest # <<>> => FirstLit(Head(rest)) = FirstLit(r)
            BY <1>2, <2>0, <2>4 DEF FollowedBy, FirstLit
        <3>3. LitFrom(d, 1)'
            BY <2>1, <2>2, <3>1 DEF LitFrom
        <3>4. rest # <<>> => LitFrom(d, FirstLit(Head(toServer[d])))'
            BY <1>9, <2>1, <2>2, <3>1, <3>2 DEF LitFrom, FirstLit
        <3>5. rest = <<>> => d \in crashed
            BY <2>0, <2>4
        <3> QED
            BY <1>9, <2>6, <3>1, <3>3, <3>4, <3>5 DEF LightOf
    <2>5. CASE r.kind = "highlight"
        <3>1. Lit(d) = {}
            <4>1. LitFrom(d, FrameUnits + 1)
                BY <2>1, <2>5 DEF FirstLit
            <4>2. FrameUnits + 1..FrameUnits = {}
                BY <2>0
            <4> QED
                BY <4>1, <4>2 DEF LitFrom
        <3>2. Lit(d)' = {unit}
            BY <1>5, <1>6, <1>7, <2>5, <3>1 DEF Lit
        <3>3. LitFrom(d, 1)'
            BY <1>4, <2>2, <3>2 DEF unit
        <3>4. rest # <<>> => FirstLit(Head(rest)) = 1
            BY <1>2, <2>5 DEF FollowedBy, FirstLit
        <3>5. rest # <<>> => LitFrom(d, FirstLit(Head(toServer[d])))'
            BY <1>4, <1>9, <2>2, <3>2, <3>4 DEF unit, LitFrom, FirstLit
        <3> QED
            BY <1>9, <3>2, <3>3, <3>5 DEF LightOf
    <2> QED
        BY <1>4, <2>3, <2>4, <2>5
<1>13. LightInv'
    <2>1. highlighted' \subseteq Item
        BY <1>5, <1>7 DEF HighlightInv, LightInv
    <2>2. ASSUME NEW u \in highlighted' PROVE \E c \in Client : Accepted(c)' /\ (u \in Lit(c))'
        <3>1. CASE u = unit
            BY <1>5, <1>6, <2>2, <3>1 DEF Lit
        <3>2. CASE u # unit
            <4>1. u \in highlighted
                BY <1>7, <2>2, <3>2
            <4>2. PICK c \in Client : Accepted(c) /\ u \in Lit(c)
                BY <4>1 DEF HighlightInv, LightInv
            <4> QED
                BY <1>6, <2>2, <4>2 DEF Lit
        <3> QED
            BY <3>1, <3>2
    <2> QED
        BY <1>6, <1>11, <1>12, <2>1, <2>2 DEF LightInv
<1> QED
    BY <1>8, <1>10, <1>13 DEF HighlightInv

\* Nothing is highlighted in a level just loaded.
LEMMA InitHighlight == Init => HighlightInv
<1> SUFFICES ASSUME Init PROVE HighlightInv
    OBVIOUS
<1>1. \A c \in Client : toServer[c] = <<>> /\ ~Accepted(c) /\ Len(toServer[c]) = 0
    BY EmptySeq DEF Init, Accepted, Range
<1>2. highlighted = {} /\ lastMove.moved = 0
    BY DEF Init
<1> QED
    BY <1>1, <1>2 DEF HighlightInv, RequestInv, InFrames, Complete, Asked, LightInv, MoveInv

\* Only requests change what is highlighted.
LEMMA NextKeepsHighlight == IInv /\ AcceptInv /\ HighlightInv /\ [Next]_vars => HighlightInv'
<1> SUFFICES ASSUME IInv, AcceptInv, HighlightInv, [Next]_vars PROVE HighlightInv'
    OBVIOUS
<1>1. CASE GameLoop
    BY <1>1, NothingHighlighted
    DEF GameLoop, Proceed, TakeItem, SendToProfile, ReleaseItem, clientVars, history
<1>2. CASE Greet
    BY <1>2, NothingHighlighted DEF Greet, SendPlayerID, SendItem, clientVars, history
<1>3. ASSUME NEW d \in Client, HandleMessage(d) PROVE HighlightInv'
    BY <1>3, NothingHighlighted DEF HandleMessage, serverVars, history
<1>4. CASE UNCHANGED vars
    BY <1>4, NothingHighlighted DEF vars, serverVars, clientVars, history
<1> QED
    BY <1>1, <1>2, <1>3, <1>4, AcceptKeepsHighlight, FrameKeepsHighlight, RequestKeepsHighlight
    DEF Next

\* The three invariants together.
LEMMA HighlightInvariant == Spec => [](IInv /\ AcceptInv /\ HighlightInv)
<1> DEFINE Inv == IInv /\ AcceptInv /\ HighlightInv
<1>1. Init => Inv
    BY InitInv, InitAccept, InitHighlight
<1>2. Inv /\ [Next]_vars => Inv'
    BY NextKeepsInv, NextKeepsAccept, NextKeepsHighlight
<1> HIDE DEF Inv
<1>3. Spec => []Inv
    BY <1>1, <1>2, PTL DEF Spec
<1> QED
    BY <1>3 DEF Inv

\* handleMoveRequest looks the index up among the sender's own units: whatever
\* order the client's list has, no player ever moves a unit of another.
THEOREM OwnMoves == Spec => []OnlyOwnUnitsMove
<1>1. HighlightInv => OnlyOwnUnitsMove
    BY DEF HighlightInv, MoveInv, OnlyOwnUnitsMove
<1> QED
    BY <1>1, HighlightInvariant, PTL

\* processFrame puts all units out and one on: once the server has followed all
\* requests of a player, exactly one of its units is highlighted, whatever the
\* broadcast, the greeting and the requests of the others do in between.
THEOREM OneHighlight == Spec => []OneUnitHighlighted
<1>1. IInv /\ AcceptInv /\ HighlightInv => OneUnitHighlighted
    <2> SUFFICES ASSUME IInv, AcceptInv, HighlightInv, NEW c \in Range(profiles),
                        frames[c] > 0, c \notin crashed, toServer[c] = <<>>
                 PROVE  Cardinality({i \in highlighted : Owner[i] = PlayerIDOf(c)}) = 1
        BY DEF OneUnitHighlighted
    <2>1. c \in Client
        BY RangeOfSeq DEF IInv, ServerInv
    <2>2. \E u : Lit(c) = {u}
        BY <2>1 DEF HighlightInv, LightInv, LightOf, Accepted
    <2> QED
        BY <2>2, FS_Singleton DEF Lit
<1> QED
    BY <1>1, HighlightInvariant, PTL

-----------------------------------------------------------------------------
(* A client accepted between two passes has the server's order               *)

\* The items in list L, or in one of the messages s before the n-th.
Announced(L, s, n) ==
    Range(L) \cup {i \in Item : \E k \in DOMAIN s :
                        k < n /\ s[k] \in AnyItemMessage /\ s[k].item = i}
Heard(L, s) == Announced(L, s, Len(s) + 1)

\* L has the server's order, and every item in s comes behind all before it.
InOrder(L, s) ==
    /\ \A p \in DOMAIN L : L[p] = p
    /\ \A k \in DOMAIN s : s[k] \in AnyItemMessage => 1..s[k].item - 1 \subseteq Announced(L, s, k)

\* Whatever is sent to c next comes behind all items before it.
ToCome(c) ==
    /\ 1..broadcast.item - 1 \subseteq Heard(list[c], toClient[c])
    /\ \A k \in DOMAIN profiles :
        profiles[k] = c /\ k < broadcast.to => broadcast.item \in Heard(list[c], toClient[c])
    /\ greeting.client = c => 1..greeting.item - 1 \subseteq Heard(list[c], toClient[c])

\* Under its index the server finds the unit that was touched.
MovesTouched(c) ==
    \A k \in DOMAIN toServer[c] :
        toServer[c][k].kind = "move" =>
            toServer[c][k].touched = ServerUnit(c, toServer[c][k].index)

CleanOf(c) ==
    /\ Accepted(c)
    /\ InOrder(list[c], toClient[c])
    /\ c \notin crashed => ToCome(c)
    /\ MovesTouched(c)

CleanInv ==
    /\ cleanAccept \subseteq Client
    /\ \A c \in cleanAccept : CleanOf(c)
    /\ lastMove.client \in Client => Accepted(lastMove.client)
    /\ CleanTouchMovesTouched

\* Append, place by place.
LEMMA AppendIs ==
    ASSUME NEW S, NEW s \in Seq(S), NEW m \in S
    PROVE  /\ Append(s, m) \in Seq(S)
           /\ Len(s) \in Nat /\ DOMAIN s = 1..Len(s)
           /\ Len(Append(s, m)) = Len(s) + 1
           /\ DOMAIN Append(s, m) = 1..Len(s) + 1
           /\ \A k \in 1..Len(s) : Append(s, m)[k] = s[k]
           /\ Append(s, m)[Len(s) + 1] = m
<1>1. Append(s, m) \in Seq(S) /\ Len(Append(s, m)) = Len(s) + 1
    BY AppendProperties
<1> QED
    BY <1>1, LenProperties, AppendProperties

\* Sending an item behind all items before it keeps the order.
LEMMA InOrderAppend ==
    ASSUME NEW L \in Seq(Item), NEW s \in Seq(Sent), NEW m \in Sent, InOrder(L, s),
           m \in AnyItemMessage => 1..m.item - 1 \subseteq Heard(L, s)
    PROVE  LET t == Append(s, m) IN
           /\ InOrder(L, t)
           /\ Heard(L, s) \subseteq Heard(L, t)
           /\ m \in AnyItemMessage => m.item \in Heard(L, t)
<1> DEFINE t == Append(s, m)
<1>0. /\ t \in Seq(Sent) /\ Len(s) \in Nat /\ DOMAIN s = 1..Len(s)
      /\ Len(t) = Len(s) + 1 /\ DOMAIN t = 1..Len(s) + 1
      /\ \A k \in 1..Len(s) : t[k] = s[k]
      /\ t[Len(s) + 1] = m
    BY AppendIs
<1> HIDE DEF t
<1>1. \A n \in 1..Len(s) + 1 : Announced(L, t, n) = Announced(L, s, n)
    <2> TAKE n \in 1..Len(s) + 1
    <2>1. \A k \in DOMAIN t : k < n => k \in DOMAIN s /\ t[k] = s[k]
        BY <1>0
    <2>2. \A k \in DOMAIN s : k \in DOMAIN t /\ t[k] = s[k]
        BY <1>0
    <2> QED
        BY <2>1, <2>2 DEF Announced
<1>2. ASSUME NEW k \in DOMAIN t, t[k] \in AnyItemMessage
      PROVE  1..t[k].item - 1 \subseteq Announced(L, t, k)
    <2>1. CASE k \in DOMAIN s
        BY <1>0, <1>1, <1>2, <2>1 DEF InOrder
    <2>2. CASE k = Len(s) + 1
        <3>1. t[k] = m /\ Announced(L, t, k) = Heard(L, s)
            BY <1>0, <1>1, <2>2 DEF Heard
        <3> QED
            BY <1>2, <3>1
    <2> QED
        BY <1>0, <2>1, <2>2
<1>3. Heard(L, s) \subseteq Heard(L, t)
    <2>1. \A k \in DOMAIN s : k \in DOMAIN t /\ t[k] = s[k] /\ k < Len(t) + 1
        BY <1>0
    <2> QED
        BY <2>1 DEF Heard, Announced
<1>4. m \in AnyItemMessage => m.item \in Heard(L, t)
    <2>1. Len(s) + 1 \in DOMAIN t /\ Len(s) + 1 < Len(t) + 1
        BY <1>0
    <2> QED
        BY <1>0, <2>1 DEF Heard, Announced, AnyItemMessage
<1>5. InOrder(L, t)
    BY <1>2 DEF InOrder
<1> QED
    BY <1>3, <1>4, <1>5 DEF t

\* The list that handleMessage leaves.
Listed(L, m) == IF m \in AnyItemMessage /\ m.item \notin Range(L) THEN Append(L, m.item) ELSE L

\* Handling the first message keeps the order.
LEMMA InOrderTail ==
    ASSUME NEW L \in Seq(Item), NEW s \in Seq(Sent), s # <<>>, InOrder(L, s)
    PROVE  /\ InOrder(Listed(L, Head(s)), Tail(s))
           /\ Heard(L, s) \subseteq Heard(Listed(L, Head(s)), Tail(s))
<1> DEFINE t == Tail(s)
           m == Head(s)
           K == Listed(L, m)
<1>0. /\ Len(s) \in Nat \ {0} /\ DOMAIN s = 1..Len(s)
      /\ m = s[1] /\ t \in Seq(Sent) /\ Len(t) = Len(s) - 1
      /\ DOMAIN t = 1..Len(s) - 1
      /\ \A k \in 1..Len(s) - 1 : t[k] = s[k + 1]
    BY TailShifts
<1> HIDE DEF t, m
<1>1. DOMAIN L = 1..Len(L) /\ Len(L) \in Nat /\ \A p \in 1..Len(L) : L[p] = p
    BY LenProperties DEF InOrder
<1>2. Range(L) = 1..Len(L)
    BY <1>1 DEF Range
<1>3. /\ \A p \in DOMAIN K : K[p] = p
      /\ Range(L) \subseteq Range(K)
      /\ m \in AnyItemMessage => m.item \in Range(K)
    <2>1. CASE m \in AnyItemMessage /\ m.item \notin Range(L)
        <3>1. m.item \in Item /\ K = Append(L, m.item)
            BY <2>1 DEF Listed, AnyItemMessage
        <3>2. Announced(L, s, 1) = Range(L)
            BY <1>0 DEF Announced
        <3>3. 1..m.item - 1 \subseteq 1..Len(L)
            <4>1. 1 \in DOMAIN s
                BY <1>0
            <4> QED
                BY <1>0, <1>2, <2>1, <3>2, <4>1 DEF InOrder
        <3>4. m.item = Len(L) + 1
            <4>1. m.item \in Nat \ {0}
                BY <3>1, InstanceAssumption DEF Item
            <4>2. m.item > Len(L)
                BY <1>1, <1>2, <2>1, <4>1
            <4>3. ASSUME m.item > Len(L) + 1 PROVE FALSE
                <5>1. m.item - 1 \in 1..m.item - 1 /\ m.item - 1 \notin 1..Len(L)
                    BY <1>1, <4>1, <4>3
                <5> QED
                    BY <3>3, <5>1
            <4> QED
                BY <1>1, <4>1, <4>2, <4>3
        <3>5. /\ DOMAIN K = 1..Len(L) + 1 /\ K[Len(L) + 1] = Len(L) + 1
              /\ \A p \in 1..Len(L) : K[p] = p
            BY <1>1, <3>1, <3>4, AppendIs
        <3>6. \A p \in 1..Len(L) + 1 : K[p] = p
            BY <1>1, <3>5
        <3>7. Range(K) = 1..Len(L) + 1
            BY <3>5, <3>6 DEF Range
        <3>8. m.item \in 1..Len(L) + 1 /\ 1..Len(L) \subseteq 1..Len(L) + 1
            BY <1>1, <3>4
        <3> QED
            BY <1>2, <3>5, <3>6, <3>7, <3>8
    <2>2. CASE ~(m \in AnyItemMessage /\ m.item \notin Range(L))
        <3>1. K = L
            BY <2>2 DEF Listed
        <3> QED
            BY <1>1, <2>2, <3>1
    <2> QED
        BY <2>1, <2>2
<1> HIDE DEF K
<1>4. \A n \in 1..Len(s) : Announced(L, s, n + 1) \subseteq Announced(K, t, n)
    <2> SUFFICES ASSUME NEW n \in 1..Len(s), NEW i \in Item, NEW k \in DOMAIN s,
                        k < n + 1, s[k] \in AnyItemMessage, s[k].item = i
                 PROVE  i \in Announced(K, t, n)
        BY <1>3 DEF Announced
    <2>1. CASE k = 1
        BY <1>0, <1>3, <2>1 DEF Announced
    <2>2. CASE k # 1
        <3>1. k - 1 \in DOMAIN t /\ t[k - 1] = s[k - 1 + 1] /\ k - 1 + 1 = k /\ k - 1 < n
            BY <1>0, <2>2
        <3> QED
            BY <3>1 DEF Announced
    <2> QED
        BY <2>1, <2>2
<1>5. ASSUME NEW k \in DOMAIN t, t[k] \in AnyItemMessage
      PROVE  1..t[k].item - 1 \subseteq Announced(K, t, k)
    <2>1. k + 1 \in DOMAIN s /\ t[k] = s[k + 1] /\ k \in 1..Len(s)
        BY <1>0
    <2>2. 1..t[k].item - 1 \subseteq Announced(L, s, k + 1)
        BY <1>5, <2>1 DEF InOrder
    <2> QED
        BY <1>4, <2>1, <2>2
<1>6. Heard(L, s) \subseteq Heard(K, t)
    <2>1. Len(t) + 1 = Len(s) /\ Len(s) \in 1..Len(s)
        BY <1>0
    <2> QED
        BY <1>4, <2>1 DEF Heard
<1>7. InOrder(K, t)
    BY <1>3, <1>5 DEF InOrder
<1> QED
    BY <1>6, <1>7 DEF K, t, m

\* What CleanInv says of one of its clients.
LEMMA CleanClients ==
    ASSUME CleanInv, NEW c \in cleanAccept
    PROVE  c \in Client /\ Accepted(c) /\ CleanOf(c)
BY DEF CleanInv, CleanOf

\* Steps that leave the connections alone.
LEMMA NothingSent ==
    ASSUME CleanInv,
           UNCHANGED <<profiles, toClient, toServer, list, crashed, lastMove, cleanAccept>>,
           \A c \in cleanAccept \ crashed : ToCome(c) => ToCome(c)'
    PROVE  CleanInv'
<1>1. \A c : /\ PlayerIDOf(c)' = PlayerIDOf(c) /\ Accepted(c)' = Accepted(c)
             /\ \A k : ServerUnit(c, k)' = ServerUnit(c, k)
    BY SameProfiles
<1>2. ASSUME NEW c \in cleanAccept PROVE CleanOf(c)'
    <2>1. CleanOf(c)
        BY CleanClients
    <2>2. MovesTouched(c)'
        BY <1>1, <2>1 DEF CleanOf, MovesTouched
    <2> QED
        BY <1>1, <2>1, <2>2 DEF CleanOf
<1> QED
    BY <1>1, <1>2 DEF CleanInv, CleanTouchMovesTouched

\* Steps that send d one message, an item only behind all before it.
LEMMA SendingKeepsClean ==
    ASSUME IInv, CleanInv, NEW d \in Client, NEW m \in Sent, toClient' = SentTo(d, m),
           UNCHANGED <<profiles, toServer, list, crashed, lastMove, cleanAccept>>,
           d \in cleanAccept \ crashed /\ ToCome(d) /\ m \in AnyItemMessage =>
                1..m.item - 1 \subseteq Heard(list[d], toClient[d]),
           \A c \in cleanAccept \ crashed :
                /\ Heard(list[c], toClient[c]) \subseteq Heard(list[c], toClient'[c])
                /\ c = d /\ m \in AnyItemMessage => m.item \in Heard(list[c], toClient'[c])
                /\ ToCome(c)
                => ToCome(c)'
    PROVE  CleanInv'
<1>0. toClient \in [Client -> Seq(Sent)] /\ list \in [Client -> Seq(Item)]
    BY DEF IInv, ClientInv
<1>1. \A c : /\ PlayerIDOf(c)' = PlayerIDOf(c) /\ Accepted(c)' = Accepted(c)
             /\ \A k : ServerUnit(c, k)' = ServerUnit(c, k)
    BY SameProfiles
<1>2. ASSUME NEW c \in cleanAccept PROVE CleanOf(c)'
    <2>1. c \in Client /\ CleanOf(c)
        BY CleanClients
    <2>2. MovesTouched(c)'
        BY <1>1, <2>1 DEF CleanOf, MovesTouched
    <2>3. CASE c \in crashed
        <3>1. toClient'[c] = toClient[c]
            BY <1>0, <2>1, <2>3 DEF SentTo
        <3> QED
            BY <1>1, <2>1, <2>2, <2>3, <3>1 DEF CleanOf
    <2>4. CASE c \notin crashed /\ c = d
        <3>1. toClient'[c] = Append(toClient[c], m)
            BY <1>0, <2>4 DEF SentTo
        <3>2. InOrder(list[c], toClient[c]) /\ ToCome(c)
            BY <2>1, <2>4 DEF CleanOf
        <3>3. m \in AnyItemMessage => 1..m.item - 1 \subseteq Heard(list[c], toClient[c])
            BY <2>4, <3>2
        <3>4. /\ InOrder(list[c], toClient'[c])
              /\ Heard(list[c], toClient[c]) \subseteq Heard(list[c], toClient'[c])
              /\ m \in AnyItemMessage => m.item \in Heard(list[c], toClient'[c])
            BY <1>0, <2>1, <3>1, <3>2, <3>3, InOrderAppend
        <3>5. ToCome(c)'
            BY <2>4, <3>2, <3>4
        <3> QED
            BY <1>1, <2>1, <2>2, <3>4, <3>5 DEF CleanOf
    <2>5. CASE c \notin crashed /\ c # d
        <3>1. toClient'[c] = toClient[c]
            BY <1>0, <2>1, <2>5 DEF SentTo
        <3>2. InOrder(list[c], toClient[c]) /\ ToCome(c)
            BY <2>1, <2>5 DEF CleanOf
        <3>3. ToCome(c)'
            BY <2>5, <3>1, <3>2
        <3> QED
            BY <1>1, <2>1, <2>2, <3>1, <3>2, <3>3 DEF CleanOf
    <2> QED
        BY <2>3, <2>4, <2>5
<1> QED
    BY <1>1, <1>2 DEF CleanInv, CleanTouchMovesTouched

\* The game thread sends the items in order, each to everybody.
LEMMA GameLoopKeepsClean ==
    ASSUME IInv, AcceptInv, CleanInv, GameLoop
    PROVE  CleanInv'
<1>0. /\ profiles \in Seq(Client) /\ DOMAIN profiles = 1..Len(profiles) /\ Len(profiles) \in Nat
      /\ IsInjective(profiles) /\ NItems \in Nat
      /\ broadcast \in [item : Item \cup {Idle}, to : Nat, version : Nat]
      /\ broadcast.to > 0 => broadcast.item \in Item
    BY LenProperties, InstanceAssumption DEF IInv, ServerInv, AcceptInv
<1>1. CASE Proceed
    <2>1. /\ broadcast' = [item |-> FirstItem, to |-> 0, version |-> 0]
          /\ UNCHANGED <<profiles, greeting, toClient, toServer, list, crashed>>
          /\ UNCHANGED <<lastMove, cleanAccept>>
        BY <1>1 DEF Proceed, clientVars, history
    <2>2. /\ broadcast'.item = 1 /\ 1..0 = {}
          /\ \A k \in DOMAIN profiles : ~(k < broadcast'.to)
        BY <1>0, <2>1 DEF FirstItem
    <2>3. \A c : ToCome(c) => ToCome(c)'
        BY <2>1, <2>2 DEF ToCome
    <2> QED
        BY <2>1, <2>3, NothingSent
<1>2. CASE TakeItem
    <2>1. /\ broadcast' = [broadcast EXCEPT !.to = 1, !.version = version[broadcast.item]]
          /\ UNCHANGED <<profiles, greeting, toClient, toServer, list, crashed>>
          /\ UNCHANGED <<lastMove, cleanAccept>>
        BY <1>2 DEF TakeItem, clientVars, history
    <2>2. /\ broadcast'.item = broadcast.item
          /\ \A k \in DOMAIN profiles : ~(k < broadcast'.to)
        BY <1>0, <2>1
    <2>3. \A c : ToCome(c) => ToCome(c)'
        BY <2>1, <2>2 DEF ToCome
    <2> QED
        BY <2>1, <2>3, NothingSent
<1>3. CASE SendToProfile
    <2> DEFINE d == profiles[broadcast.to]
               m == [item |-> broadcast.item, version |-> broadcast.version]
    <2>1. /\ broadcast.to \in DOMAIN profiles /\ toClient' = SentTo(d, m)
          /\ broadcast' = [broadcast EXCEPT !.to = @ + 1]
          /\ UNCHANGED <<profiles, toServer, list, crashed, lastMove, cleanAccept, greeting>>
        BY <1>3 DEF SendToProfile, clientVars, history
    <2>2. d \in Client
        BY <1>0, <2>1, ElementOfSeq
    <2>3. m \in AnyItemMessage /\ m \in Sent /\ m.item = broadcast.item
        BY <1>0, <2>1 DEF AnyItemMessage, Sent
    <2>4. /\ broadcast'.item = broadcast.item /\ broadcast'.to = broadcast.to + 1
          /\ \A k \in DOMAIN profiles : k < broadcast'.to => k < broadcast.to \/ k = broadcast.to
        BY <1>0, <2>1
    <2>5. \A k \in DOMAIN profiles : k = broadcast.to => profiles[k] = d
        OBVIOUS
    <2> HIDE DEF d, m
    <2>6. ASSUME NEW c,
                 Heard(list[c], toClient[c]) \subseteq Heard(list[c], toClient'[c]),
                 c = d => m.item \in Heard(list[c], toClient'[c]),
                 ToCome(c)
          PROVE  ToCome(c)'
        <3>1. \A k \in DOMAIN profiles : profiles[k] = c /\ k < broadcast'.to =>
                broadcast.item \in Heard(list[c], toClient'[c])
            BY <2>3, <2>4, <2>5, <2>6 DEF ToCome
        <3> QED
            BY <2>1, <2>4, <2>6, <3>1 DEF ToCome
    <2>7. ToCome(d) => 1..m.item - 1 \subseteq Heard(list[d], toClient[d])
        BY <2>3 DEF ToCome
    <2> QED
        BY <2>1, <2>2, <2>3, <2>6, <2>7, SendingKeepsClean
<1>4. CASE ReleaseItem
    <2>1. /\ broadcast.to > Len(profiles)
          /\ broadcast' = [item |-> NextItem(broadcast.item), to |-> 0, version |-> 0]
          /\ UNCHANGED <<profiles, greeting, toClient, toServer, list, crashed>>
          /\ UNCHANGED <<lastMove, cleanAccept>>
        BY <1>4 DEF ReleaseItem, clientVars, history
    <2>2. /\ broadcast.item \in Item /\ broadcast'.item = NextItem(broadcast.item)
          /\ \A k \in DOMAIN profiles : ~(k < broadcast'.to) /\ k < broadcast.to
        BY <1>0, <2>1
    <2>3. \A j \in 1..NextItem(broadcast.item) - 1 :
            j \in 1..broadcast.item - 1 \/ j = broadcast.item
        BY <1>0, <2>2 DEF NextItem, Item, Idle
    <2>4. ASSUME NEW c \in cleanAccept, ToCome(c) PROVE ToCome(c)'
        <3>1. \E k \in DOMAIN profiles : profiles[k] = c
            BY CleanClients DEF Accepted, Range
        <3>2. broadcast.item \in Heard(list[c], toClient[c])
            BY <2>2, <2>4, <3>1 DEF ToCome
        <3>3. 1..broadcast'.item - 1 \subseteq Heard(list[c], toClient[c])
            BY <2>2, <2>3, <2>4, <3>2 DEF ToCome
        <3> QED
            BY <2>1, <2>2, <2>4, <3>3 DEF ToCome
    <2> QED
        BY <2>1, <2>4, NothingSent
<1> QED
    BY <1>1, <1>2, <1>3, <1>4 DEF GameLoop

\* So does the network thread.
LEMMA GreetKeepsClean ==
    ASSUME IInv, AcceptInv, CleanInv, Greet
    PROVE  CleanInv'
<1>0. /\ greeting \in [client : Client \cup {NoClient}, item : Nat]
      /\ Greeting => greeting.client \in Range(profiles) /\ greeting.item <= NItems
      /\ NItems \in Nat /\ NoClient \notin Client
    BY InstanceAssumption DEF IInv, ServerInv
<1>1. CASE SendPlayerID
    <2> DEFINE d == greeting.client
               m == [player |-> PlayerIDOf(d)]
    <2>1. /\ Greeting /\ toClient' = SentTo(d, m)
          /\ greeting' = [greeting EXCEPT !.item = 1]
          /\ UNCHANGED <<profiles, toServer, list, crashed, lastMove, cleanAccept, broadcast>>
        BY <1>1 DEF SendPlayerID, clientVars, history
    <2>2. d \in Client
        BY <1>0, <2>1 DEF Greeting
    <2>3. PlayerIDOf(d) \in Nat
        BY <1>0, <2>1, PlayerIDs DEF IInv, ServerInv, AcceptInv
    <2>4. m \in Sent /\ m \notin AnyItemMessage
        BY <2>3 DEF Sent, AnyItemMessage
    <2>5. greeting'.client = d /\ greeting'.item = 1 /\ 1..0 = {}
        BY <1>0, <2>1
    <2> HIDE DEF d, m
    <2>6. ASSUME NEW c,
                 Heard(list[c], toClient[c]) \subseteq Heard(list[c], toClient'[c]),
                 ToCome(c)
          PROVE  ToCome(c)'
        BY <2>1, <2>5, <2>6 DEF ToCome
    <2> QED
        BY <2>1, <2>2, <2>4, <2>6, SendingKeepsClean
<1>2. CASE SendItem
    <2> DEFINE d == greeting.client
               m == [item |-> greeting.item, version |-> version[greeting.item]]
    <2>1. /\ Greeting /\ greeting.item > 0 /\ toClient' = SentTo(d, m)
          /\ greeting' = IF greeting.item < NItems
                         THEN [greeting EXCEPT !.item = @ + 1]
                         ELSE [client |-> NoClient, item |-> 0]
          /\ UNCHANGED <<profiles, toServer, list, crashed, lastMove, cleanAccept, broadcast>>
        BY <1>2 DEF SendItem, clientVars, history
    <2>2. d \in Client /\ greeting.item \in Item
        BY <1>0, <2>1 DEF Greeting, Item
    <2>3. m \in AnyItemMessage /\ m \in Sent /\ m.item = greeting.item
        BY <2>2 DEF IInv, ServerInv, AnyItemMessage, Sent
    <2>4. greeting'.client \in Client =>
            /\ greeting'.client = d
            /\ \A j \in 1..greeting'.item - 1 : j \in 1..greeting.item - 1 \/ j = greeting.item
        BY <1>0, <2>1
    <2>5. ToCome(d) => 1..m.item - 1 \subseteq Heard(list[d], toClient[d])
        BY <2>3 DEF ToCome
    <2>6. greeting.client = d
        OBVIOUS
    <2> HIDE DEF d, m
    <2>7. ASSUME NEW c \in Client,
                 Heard(list[c], toClient[c]) \subseteq Heard(list[c], toClient'[c]),
                 c = d => m.item \in Heard(list[c], toClient'[c]),
                 ToCome(c)
          PROVE  ToCome(c)'
        <3>1. greeting'.client = c => 1..greeting'.item - 1 \subseteq Heard(list[c], toClient'[c])
            BY <2>3, <2>4, <2>6, <2>7 DEF ToCome
        <3> QED
            BY <2>1, <2>7, <3>1 DEF ToCome
    <2> QED
        BY <2>1, <2>2, <2>3, <2>5, <2>7, SendingKeepsClean, CleanClients
<1> QED
    BY <1>1, <1>2 DEF Greet

\* A client accepted while the game thread is idle: it is sent all items next.
LEMMA AcceptKeepsClean ==
    ASSUME IInv, AcceptInv, CleanInv, NEW d \in Client, HandleSessionAccepted(d)
    PROVE  CleanInv'
<1>1. /\ d \notin Range(profiles) /\ profiles' = Append(profiles, d)
      /\ greeting' = [client |-> d, item |-> 0]
      /\ cleanAccept' = IF broadcast.item = Idle THEN cleanAccept \cup {d} ELSE cleanAccept
      /\ UNCHANGED <<broadcast, toClient, toServer, list, crashed, lastMove>>
    BY DEF HandleSessionAccepted, clientVars
<1>2. /\ Range(profiles') = Range(profiles) \cup {d}
      /\ \A c \in Range(profiles) : PlayerIDOf(c)' = PlayerIDOf(c)
      /\ profiles \in Seq(Client)
    BY <1>1, AcceptingOneMore DEF IInv, ServerInv, AcceptInv
<1>3. \A c : Accepted(c)' <=> Accepted(c) \/ c = d
    BY <1>2 DEF Accepted
<1>4. \A c : Accepted(c) => c # d /\ \A k : ServerUnit(c, k)' = ServerUnit(c, k)
    BY <1>1, <1>2 DEF Accepted, ServerUnit
<1>5. /\ DOMAIN profiles' = 1..Len(profiles) + 1 /\ DOMAIN profiles = 1..Len(profiles)
      /\ \A k \in 1..Len(profiles) : profiles'[k] = profiles[k]
      /\ profiles'[Len(profiles) + 1] = d /\ Len(profiles) \in Nat
    BY <1>1, <1>2, AppendIs
<1>6. ASSUME NEW c \in cleanAccept PROVE CleanOf(c)'
    <2>1. c \in Client /\ Accepted(c) /\ CleanOf(c)
        BY CleanClients
    <2>2. MovesTouched(c)'
        BY <1>1, <1>4, <2>1 DEF CleanOf, MovesTouched
    <2>3. \A k \in DOMAIN profiles' : profiles'[k] = c => k \in DOMAIN profiles /\ profiles[k] = c
        BY <1>4, <1>5, <2>1
    <2>4. ToCome(c) => ToCome(c)'
        BY <1>1, <1>4, <2>1, <2>3 DEF ToCome
    <2> QED
        BY <1>1, <1>3, <2>1, <2>2, <2>4 DEF CleanOf
<1>7. ASSUME broadcast.item = Idle PROVE CleanOf(d)'
    <2>1. list[d] = <<>> /\ toClient[d] = <<>> /\ toServer[d] = <<>> /\ DOMAIN <<>> = {}
        BY <1>1 DEF AcceptInv, Outside, Accepted
    <2>2. broadcast.to = 0
        BY <1>7, InstanceAssumption DEF IInv, ServerInv, Idle, Item
    <2>3. /\ \A k \in DOMAIN profiles' : ~(k < broadcast.to)
          /\ 1..broadcast.item - 1 = {} /\ 1..greeting'.item - 1 = {}
        BY <1>1, <1>5, <1>7, <2>2 DEF Idle
    <2>4. ToCome(d)'
        BY <1>1, <2>3 DEF ToCome
    <2>5. InOrder(list[d], toClient[d])
        BY <2>1 DEF InOrder
    <2>6. MovesTouched(d)'
        BY <1>1, <2>1 DEF MovesTouched
    <2> QED
        BY <1>1, <1>3, <2>4, <2>5, <2>6 DEF CleanOf
<1>8. CleanTouchMovesTouched'
    <2>1. lastMove.client \in cleanAccept' => lastMove.client \in cleanAccept
        BY <1>1, <1>4 DEF CleanInv
    <2> QED
        BY <1>1, <2>1 DEF CleanInv, CleanTouchMovesTouched
<1> QED
    BY <1>1, <1>3, <1>6, <1>7, <1>8 DEF CleanInv

\* The server looks up what the player touched.
LEMMA RequestKeepsClean ==
    ASSUME IInv, AcceptInv, CleanInv, NEW d \in Client, HandleRequest(d)
    PROVE  CleanInv'
<1> DEFINE r == Head(toServer[d])
<1>1. /\ toServer[d] # <<>> /\ toServer' = [toServer EXCEPT ![d] = Tail(@)]
      /\ lastMove' = IF r.kind = "move"
                     THEN [client |-> d, touched |-> r.touched, moved |-> ServerUnit(d, r.index)]
                     ELSE lastMove
      /\ UNCHANGED <<profiles, broadcast, greeting, toClient, list, crashed, cleanAccept>>
    BY DEF HandleRequest, clientVars, ServerUnit
<1>2. \A c : /\ PlayerIDOf(c)' = PlayerIDOf(c) /\ Accepted(c)' = Accepted(c)
             /\ \A k : ServerUnit(c, k)' = ServerUnit(c, k)
    BY <1>1, SameProfiles
<1>3. /\ toServer \in [Client -> Seq(Request)] /\ toServer'[d] = Tail(toServer[d])
      /\ \A c \in Client : c # d => toServer'[c] = toServer[c]
    BY <1>1 DEF AcceptInv
<1>4. /\ 1 \in DOMAIN toServer[d] /\ r = toServer[d][1]
      /\ \A k \in DOMAIN Tail(toServer[d]) :
            k + 1 \in DOMAIN toServer[d] /\ Tail(toServer[d])[k] = toServer[d][k + 1]
    <2>1. /\ Len(toServer[d]) \in Nat \ {0} /\ DOMAIN toServer[d] = 1..Len(toServer[d])
          /\ Head(toServer[d]) = toServer[d][1]
          /\ DOMAIN Tail(toServer[d]) = 1..Len(toServer[d]) - 1
          /\ \A k \in 1..Len(toServer[d]) - 1 : Tail(toServer[d])[k] = toServer[d][k + 1]
        BY <1>1, <1>3, TailShifts
    <2> QED
        BY <2>1
<1>5. Accepted(d)
    BY <1>1 DEF AcceptInv, Outside
<1> HIDE DEF r
<1>6. ASSUME NEW c \in cleanAccept PROVE CleanOf(c)'
    <2>1. c \in Client /\ CleanOf(c)
        BY CleanClients
    <2>2. MovesTouched(c)'
        <3>1. MovesTouched(c)
            BY <2>1 DEF CleanOf
        <3>2. \A k \in DOMAIN toServer'[c] :
                \E l \in DOMAIN toServer[c] : toServer'[c][k] = toServer[c][l]
            BY <1>3, <1>4, <2>1
        <3>3. \A k \in DOMAIN toServer'[c] : toServer'[c][k].kind = "move" =>
                toServer'[c][k].touched = ServerUnit(c, toServer'[c][k].index)
            BY <3>1, <3>2 DEF MovesTouched
        <3> QED
            BY <1>2, <3>3 DEF MovesTouched
    <2>3. ToCome(c) => ToCome(c)'
        BY <1>1 DEF ToCome
    <2> QED
        BY <1>1, <1>2, <2>1, <2>2, <2>3 DEF CleanOf
<1>7. CleanTouchMovesTouched'
    <2>1. CASE r.kind = "move" /\ d \in cleanAccept
        <3>1. r.touched = ServerUnit(d, r.index)
            BY <1>4, <2>1, CleanClients DEF CleanOf, MovesTouched
        <3> QED
            BY <1>1, <2>1, <3>1 DEF CleanTouchMovesTouched
    <2>2. CASE ~(r.kind = "move" /\ d \in cleanAccept)
        BY <1>1, <2>2 DEF CleanInv, CleanTouchMovesTouched
    <2> QED
        BY <2>1, <2>2
<1> QED
    BY <1>1, <1>2, <1>5, <1>6, <1>7 DEF CleanInv

\* A client lists the items in the order in which it hears of them.
LEMMA MessageKeepsClean ==
    ASSUME IInv, AcceptInv, CleanInv, NEW d \in Client, HandleMessage(d)
    PROVE  CleanInv'
<1> DEFINE m == Head(toClient[d])
<1>0. toClient \in [Client -> Seq(Sent)] /\ list \in [Client -> Seq(Item)]
    BY DEF IInv, ClientInv
<1>1. /\ toClient[d] # <<>> /\ toClient' = [toClient EXCEPT ![d] = Tail(@)]
      /\ UNCHANGED <<profiles, broadcast, greeting, toServer, crashed, lastMove, cleanAccept>>
      /\ \/ m \in PlayerIDMessage /\ list' = list
         \/ /\ m \in ItemMessage
            /\ list' = IF m.item \in Range(list[d]) THEN list
                       ELSE [list EXCEPT ![d] = Append(list[d], m.item)]
    BY DEF HandleMessage, serverVars, history, Known, WithNew
<1>2. list'[d] = Listed(list[d], m) /\ \A c \in Client : c # d => list'[c] = list[c]
    <2>1. /\ m \in PlayerIDMessage => m \notin AnyItemMessage
          /\ m \in ItemMessage => m \in AnyItemMessage
        BY MessageKinds
    <2> HIDE DEF m
    <2> QED
        BY <1>0, <1>1, <2>1 DEF Listed
<1>3. toClient'[d] = Tail(toClient[d]) /\ \A c \in Client : c # d => toClient'[c] = toClient[c]
    BY <1>0, <1>1
<1>4. \A c : /\ PlayerIDOf(c)' = PlayerIDOf(c) /\ Accepted(c)' = Accepted(c)
             /\ \A k : ServerUnit(c, k)' = ServerUnit(c, k)
    BY <1>1, SameProfiles
<1>5. ASSUME NEW c \in cleanAccept PROVE CleanOf(c)'
    <2>1. c \in Client /\ CleanOf(c)
        BY CleanClients
    <2>2. MovesTouched(c)'
        BY <1>1, <1>4, <2>1 DEF CleanOf, MovesTouched
    <2>3. /\ InOrder(list'[c], toClient'[c])
          /\ Heard(list[c], toClient[c]) \subseteq Heard(list'[c], toClient'[c])
        <3>1. CASE c = d
            <4>1. /\ list[d] \in Seq(Item) /\ toClient[d] \in Seq(Sent)
                  /\ InOrder(list[d], toClient[d])
                BY <1>0, <2>1, <3>1 DEF CleanOf
            <4> QED
                BY <1>1, <1>2, <1>3, <3>1, <4>1, InOrderTail
        <3>2. CASE c # d
            BY <1>2, <1>3, <2>1, <3>2 DEF CleanOf
        <3> QED
            BY <3>1, <3>2
    <2>4. ToCome(c) => ToCome(c)'
        BY <1>1, <2>3 DEF ToCome
    <2> QED
        BY <1>1, <1>4, <2>1, <2>2, <2>3, <2>4 DEF CleanOf
<1> QED
    BY <1>1, <1>4, <1>5 DEF CleanInv, CleanTouchMovesTouched

\* Of two sequences whose moves are for the units touched, so is the joined one.
LEMMA MovesJoined ==
    ASSUME NEW c, NEW s \in Seq(Request), NEW f \in Seq(Request),
           \A k \in DOMAIN s : s[k].kind = "move" =>
                s[k].touched = ServerUnit(c, s[k].index),
           \A k \in DOMAIN f : f[k].kind = "move" =>
                f[k].touched = ServerUnit(c, f[k].index)
    PROVE  \A k \in DOMAIN (s \o f) : (s \o f)[k].kind = "move" =>
                (s \o f)[k].touched = ServerUnit(c, (s \o f)[k].index)
<1> DEFINE t == s \o f
<1>1. /\ t \in Seq(Request)
      /\ Len(s) \in Nat /\ Len(f) \in Nat /\ Len(t) = Len(s) + Len(f)
      /\ \A k \in 1..Len(s) : t[k] = s[k]
      /\ \A k \in 1..Len(f) : t[Len(s) + k] = f[k]
    BY ConcatIs
<1> HIDE DEF t
<1>2. DOMAIN t = 1..Len(t) /\ DOMAIN s = 1..Len(s) /\ DOMAIN f = 1..Len(f)
    BY <1>1, LenProperties
<1>3. ASSUME NEW k \in DOMAIN t
      PROVE  t[k].kind = "move" => t[k].touched = ServerUnit(c, t[k].index)
    <2>1. CASE k <= Len(s)
        <3>1. k \in DOMAIN s /\ t[k] = s[k]
            BY <1>1, <1>2, <2>1
        <3> QED
            BY <3>1
    <2>2. CASE ~(k <= Len(s))
        <3>1. k - Len(s) \in DOMAIN f /\ Len(s) + (k - Len(s)) = k
            BY <1>1, <1>2, <2>2
        <3>2. t[k] = f[k - Len(s)]
            BY <1>1, <1>2, <3>1
        <3> QED
            BY <3>1, <3>2
    <2> QED
        BY <2>1, <2>2
<1> QED
    BY <1>3 DEF t

\* A touched unit is asked for under the index the server has it.
LEMMA FrameKeepsClean ==
    ASSUME IInv, AcceptInv, CleanInv, NEW d \in Client, ProcessFrame(d)
    PROVE  CleanInv'
<1>0. /\ toClient \in [Client -> Seq(Sent)] /\ list \in [Client -> Seq(Item)]
      /\ toServer \in [Client -> Seq(Request)] /\ FrameUnits \in Nat
    BY InstanceAssumption DEF IInv, ClientInv, AcceptInv
<1>1. /\ UNCHANGED <<profiles, broadcast, greeting, list, lastMove, cleanAccept>>
      /\ \/ /\ \A i \in 1..FrameUnits : OwnUnit(d, i) # 0
            /\ \E nearest \in 1..FrameUnits :
                toServer' = [toServer EXCEPT
                                ![d] = @ \o FrameRequests(nearest, OwnUnit(d, nearest))]
            /\ crashed' = crashed /\ toClient' = toClient
         \/ /\ crashed' = crashed \cup {d}
            /\ \E first \in 1..FrameUnits :
                toServer' = [toServer EXCEPT ![d] = @ \o HighlightOff(first - 1)]
            /\ toClient' = [toClient EXCEPT ![d] = <<>>]
    BY DEF ProcessFrame, serverVars, history
<1>2. \A c : /\ PlayerIDOf(c)' = PlayerIDOf(c) /\ Accepted(c)' = Accepted(c)
             /\ \A k : ServerUnit(c, k)' = ServerUnit(c, k)
    BY <1>1, SameProfiles
<1>3. ASSUME NEW c \in Client, c # d
      PROVE  /\ toServer'[c] = toServer[c] /\ toClient'[c] = toClient[c]
             /\ c \in crashed' <=> c \in crashed
    BY <1>0, <1>1, <1>3
<1>4. ASSUME NEW c \in cleanAccept, c # d PROVE CleanOf(c)'
    <2>1. c \in Client /\ Accepted(c) /\ CleanOf(c)
        BY CleanClients
    <2>2. toServer'[c] = toServer[c] /\ toClient'[c] = toClient[c]
          /\ (c \in crashed' <=> c \in crashed)
        BY <1>3, <1>4, <2>1
    <2>3. MovesTouched(c)'
        BY <1>2, <2>1, <2>2 DEF CleanOf, MovesTouched
    <2>4. ToCome(c) => ToCome(c)'
        BY <1>1, <2>2 DEF ToCome
    <2> QED
        BY <1>1, <1>2, <2>1, <2>2, <2>3, <2>4 DEF CleanOf
\* All that a frame moves is the unit that was touched.
<1>5. ASSUME d \in cleanAccept PROVE MovesTouched(d)'
    <2>0. Accepted(d) /\ CleanOf(d)
        BY <1>5, CleanClients
    <2>1. \A k \in DOMAIN toServer[d] : toServer[d][k].kind = "move" =>
            toServer[d][k].touched = ServerUnit(d, toServer[d][k].index)
        BY <2>0 DEF CleanOf, MovesTouched
    <2>2. ASSUME NEW f \in Seq(Request), toServer'[d] = toServer[d] \o f,
                 \A k \in DOMAIN f : f[k].kind = "move" =>
                    f[k].touched = ServerUnit(d, f[k].index)
          PROVE  MovesTouched(d)'
        <3>1. \A k \in DOMAIN toServer'[d] : toServer'[d][k].kind = "move" =>
                toServer'[d][k].touched = ServerUnit(d, toServer'[d][k].index)
            BY <1>0, <2>1, <2>2, MovesJoined
        <3> QED
            BY <1>2, <3>1 DEF MovesTouched
    <2>3. ASSUME \A i \in 1..FrameUnits : OwnUnit(d, i) # 0, NEW n \in 1..FrameUnits,
                 toServer' = [toServer EXCEPT ![d] = @ \o FrameRequests(n, OwnUnit(d, n))]
          PROVE  MovesTouched(d)'
        <3> DEFINE f == FrameRequests(n, OwnUnit(d, n))
        <3>1. OwnUnit(d, n) \in Item /\ ownPlayerID[d] # ID_NONE
            BY <1>0, <2>3, UnitByIndexFinds DEF OwnUnit
        <3>2. ownPlayerID[d] = PlayerIDOf(d)
            BY <2>0, <3>1 DEF AcceptInv, ToldOwnID
        <3>3. OwnUnit(d, n) = ServerUnit(d, n)
            <4>1. list[d] \in Seq(Item) /\ \A p \in DOMAIN list[d] : list[d][p] = p
                BY <1>0, <2>0 DEF CleanOf, InOrder
            <4>2. UnitByIndex(list[d], PlayerIDOf(d), n) # 0
                BY <2>3, <3>2 DEF OwnUnit
            <4>3. UnitByIndex(ServerList, PlayerIDOf(d), n)
                    = UnitByIndex(list[d], PlayerIDOf(d), n)
                BY <4>1, <4>2, SameOrderSameUnit
            <4> QED
                BY <3>2, <4>3 DEF OwnUnit, ServerUnit
        <3>4. /\ f \in Seq(Request) /\ Len(f) = FrameUnits + 2
              /\ \A k \in 1..FrameUnits : f[k].kind = "unhighlight"
              /\ f[FrameUnits + 1].index = n /\ f[FrameUnits + 1].touched = OwnUnit(d, n)
              /\ f[FrameUnits + 2].kind = "highlight"
            BY <3>1, FrameIs
        <3>5. toServer'[d] = toServer[d] \o f
            BY <1>0, <2>3
        <3> HIDE DEF f
        <3>6. DOMAIN f = 1..FrameUnits + 2
            BY <3>4, LenProperties
        <3>7. ASSUME NEW k \in 1..FrameUnits + 2, f[k].kind = "move"
              PROVE  f[k].touched = ServerUnit(d, f[k].index)
            <4>1. k \notin 1..FrameUnits /\ k # FrameUnits + 2
                BY <3>4, <3>7
            <4>2. k = FrameUnits + 1
                BY <1>0, <4>1
            <4> QED
                BY <3>3, <3>4, <4>2
        <3> QED
            BY <2>2, <3>4, <3>5, <3>6, <3>7
    <2>4. ASSUME NEW first \in 1..FrameUnits,
                 toServer' = [toServer EXCEPT ![d] = @ \o HighlightOff(first - 1)]
          PROVE  MovesTouched(d)'
        <3> DEFINE f == HighlightOff(first - 1)
        <3>1. first - 1 \in Nat /\ first - 1 <= FrameUnits
            BY <1>0
        <3>2. /\ f \in Seq(Request) /\ Len(f) = first - 1
              /\ \A k \in 1..first - 1 : f[k].kind = "unhighlight"
            BY <3>1, OffIs
        <3>3. toServer'[d] = toServer[d] \o f
            BY <1>0, <2>4
        <3> HIDE DEF f
        <3>4. \A k \in DOMAIN f : f[k].kind # "move"
            BY <3>2, LenProperties
        <3> QED
            BY <2>2, <3>2, <3>3, <3>4
    <2> QED
        BY <1>1, <2>3, <2>4
<1>6. ASSUME d \in cleanAccept PROVE CleanOf(d)'
    <2>1. Accepted(d) /\ CleanOf(d) /\ MovesTouched(d)'
        BY <1>5, <1>6, CleanClients
    <2>2. CASE crashed' = crashed /\ toClient' = toClient
        <3>1. ToCome(d) => ToCome(d)'
            BY <1>1, <2>2 DEF ToCome
        <3> QED
            BY <1>1, <1>2, <2>1, <2>2, <3>1 DEF CleanOf
    <2>3. CASE crashed' = crashed \cup {d} /\ toClient' = [toClient EXCEPT ![d] = <<>>]
        <3>1. toClient'[d] = <<>> /\ DOMAIN <<>> = {}
            BY <1>0, <2>3
        <3>2. InOrder(list[d], toClient'[d])
            BY <2>1, <3>1 DEF CleanOf, InOrder
        <3> QED
            BY <1>1, <1>2, <2>1, <2>3, <3>2 DEF CleanOf
    <2> QED
        BY <1>1, <2>2, <2>3
<1> QED
    BY <1>1, <1>2, <1>4, <1>6 DEF CleanInv, CleanTouchMovesTouched

\* Nobody has been accepted in time yet.
LEMMA InitClean == Init => CleanInv
<1> QED
    BY InstanceAssumption DEF Init, CleanInv, CleanTouchMovesTouched

\* All steps keep the clients accepted in time in the server's order.
LEMMA NextKeepsClean == IInv /\ AcceptInv /\ CleanInv /\ [Next]_vars => CleanInv'
<1> SUFFICES ASSUME IInv, AcceptInv, CleanInv, [Next]_vars PROVE CleanInv'
    OBVIOUS
<1>1. CASE UNCHANGED vars
    <2>1. UNCHANGED <<profiles, broadcast, greeting, toClient, toServer, list, crashed,
                      lastMove, cleanAccept>>
        BY <1>1 DEF vars, serverVars, clientVars, history
    <2>2. \A c : ToCome(c) => ToCome(c)'
        BY <2>1 DEF ToCome
    <2> QED
        BY <2>1, <2>2, NothingSent
<1> QED
    BY <1>1, GameLoopKeepsClean, GreetKeepsClean, AcceptKeepsClean, RequestKeepsClean,
       MessageKeepsClean, FrameKeepsClean
    DEF Next

\* A client accepted while GameServer::loop is between two passes hears of the
\* items in the order of the server's list, from both threads: index and list
\* agree on both sides, and a touch moves the unit that was touched.
THEOREM CleanMoves == Spec => []CleanTouchMovesTouched
<1> DEFINE Inv == IInv /\ AcceptInv /\ CleanInv
<1>1. Init => Inv
    BY InitInv, InitAccept, InitClean
<1>2. Inv /\ [Next]_vars => Inv'
    BY NextKeepsInv, NextKeepsAccept, NextKeepsClean
<1>3. Inv => CleanTouchMovesTouched
    BY DEF CleanInv
<1> HIDE DEF Inv
<1> QED
    BY <1>1, <1>2, <1>3, PTL DEF Spec

-----------------------------------------------------------------------------
(* How often an item can have changed                                        *)

\* The highlights under way, one for each frame.
Marks(s) == {k \in DOMAIN s : s[k].kind = "highlight"}
Pending(s) == Cardinality(Marks(s))

LitIn(lit, i) == IF i \in lit THEN 1 ELSE 0

\* A frame changes a unit twice at most: it takes the highlight from one and
\* gives it to one.
BoundInv ==
    /\ ticks \in 0..MaxTicks
    /\ frames \in [Client -> 0..MaxFrames]
    /\ \A i \in Item :
        /\ (\A c \in Client : Accepted(c) => Owner[i] # PlayerIDOf(c)) => version[i] <= ticks
        /\ \A c \in Client : Accepted(c) /\ Owner[i] = PlayerIDOf(c) =>
            version[i] + LitIn(highlighted, i) + 2 * Pending(toServer[c]) <= ticks + 2 * frames[c]

\* The marks of a sequence can be counted.
LEMMA PendingIsNat ==
    ASSUME NEW s \in Seq(Request)
    PROVE  Pending(s) \in Nat /\ IsFiniteSet(Marks(s))
<1>1. DOMAIN s = 1..Len(s) /\ Len(s) \in Nat
    BY LenProperties
<1>2. IsFiniteSet(1..Len(s)) /\ Marks(s) \in SUBSET (1..Len(s))
    BY <1>1, FS_Interval DEF Marks
<1>3. IsFiniteSet(Marks(s))
    BY <1>2, FS_Subset
<1> QED
    BY <1>3, FS_CardinalityType DEF Pending

\* No request under way, no mark.
LEMMA PendingNone == Pending(<<>>) = 0
<1>1. Marks(<<>>) = {}
    BY DEF Marks
<1> QED
    BY <1>1, FS_EmptySet DEF Pending

\* Following a request takes one mark if it is a highlight.
LEMMA PendingTail ==
    ASSUME NEW s \in Seq(Request), s # <<>>
    PROVE  Pending(s) = Pending(Tail(s)) + (IF Head(s).kind = "highlight" THEN 1 ELSE 0)
<1> DEFINE t == Tail(s)
           f == [k \in Marks(t) |-> k + 1]
           moved == Marks(s) \ {1}
<1>0. /\ Len(s) \in Nat \ {0} /\ DOMAIN s = 1..Len(s) /\ Head(s) = s[1]
      /\ t \in Seq(Request) /\ DOMAIN t = 1..Len(s) - 1
      /\ \A k \in 1..Len(s) - 1 : t[k] = s[k + 1]
    BY TailShifts
<1> HIDE DEF t
<1>1. IsFiniteSet(Marks(s)) /\ IsFiniteSet(Marks(t)) /\ Pending(s) \in Nat /\ Pending(t) \in Nat
    BY <1>0, PendingIsNat
<1>2. f \in Bijection(Marks(t), moved)
    <2>1. ASSUME NEW k \in Marks(t) PROVE k + 1 \in moved /\ k \in Nat
        BY <1>0, <2>1 DEF Marks
    <2>2. ASSUME NEW j \in moved PROVE \E k \in Marks(t) : f[k] = j
        <3>1. j - 1 \in 1..Len(s) - 1 /\ j - 1 + 1 = j /\ s[j].kind = "highlight"
            BY <1>0, <2>2 DEF Marks
        <3>2. j - 1 \in Marks(t)
            BY <1>0, <3>1 DEF Marks
        <3> QED
            BY <3>1, <3>2
    <2>3. f \in [Marks(t) -> moved] /\ \A a, b \in Marks(t) : f[a] = f[b] => a = b
        BY <2>1
    <2> HIDE DEF f, moved
    <2> QED
        BY <2>2, <2>3, Fun_IsBij
<1> HIDE DEF f
<1>3. Cardinality(moved) = Pending(t)
    <2>1. ExistsBijection(Marks(t), moved)
        BY <1>2 DEF ExistsBijection
    <2> QED
        BY <1>1, <2>1, FS_Bijection DEF Pending
<1>4. Cardinality(moved) = IF 1 \in Marks(s) THEN Pending(s) - 1 ELSE Pending(s)
    BY <1>1, FS_RemoveElement DEF Pending
<1>5. 1 \in Marks(s) <=> Head(s).kind = "highlight"
    BY <1>0 DEF Marks
<1> HIDE DEF moved
<1> QED
    BY <1>1, <1>3, <1>4, <1>5 DEF t

\* The requests a fatal frame sends have none.
LEMMA PendingOff ==
    ASSUME NEW s \in Seq(Request), NEW m \in Nat, m <= FrameUnits
    PROVE  Pending(s \o HighlightOff(m)) = Pending(s)
<1> DEFINE f == HighlightOff(m)
           t == s \o f
<1>1. f \in Seq(Request) /\ Len(f) = m /\ \A k \in 1..m : f[k].kind = "unhighlight"
    BY OffIs
<1> HIDE DEF f
<1>2. /\ t \in Seq(Request)
      /\ Len(s) \in Nat /\ Len(t) = Len(s) + m
      /\ \A k \in 1..Len(s) : t[k] = s[k]
      /\ \A k \in 1..m : t[Len(s) + k] = f[k]
    <2>1. f \in Seq(Request)
        BY <1>1
    <2>2. /\ t \in Seq(Request)
          /\ Len(s) \in Nat /\ Len(t) = Len(s) + Len(f)
          /\ \A k \in 1..Len(s) : t[k] = s[k]
          /\ \A k \in 1..Len(f) : t[Len(s) + k] = f[k]
        BY <2>1, ConcatIs
    <2> HIDE DEF t
    <2> QED
        BY <1>1, <2>2
<1> HIDE DEF t
<1>3. DOMAIN t = 1..Len(s) + m /\ DOMAIN s = 1..Len(s)
    BY <1>2, LenProperties
<1>4. ASSUME NEW k \in DOMAIN t, t[k].kind = "highlight" PROVE k \in DOMAIN s
    <2>1. CASE ~(k <= Len(s))
        <3>1. k - Len(s) \in 1..m /\ Len(s) + (k - Len(s)) = k
            BY <1>2, <1>3, <2>1
        <3>2. t[k] = f[k - Len(s)]
            BY <1>2, <3>1
        <3> QED
            BY <1>1, <1>4, <3>1, <3>2
    <2> QED
        BY <1>2, <1>3, <2>1
<1>5. \A k \in DOMAIN s : k \in DOMAIN t /\ t[k] = s[k]
    BY <1>2, <1>3
<1>6. Marks(t) = Marks(s)
    BY <1>4, <1>5 DEF Marks
<1> QED
    BY <1>6 DEF Pending, t, f

\* The frame processFrame sends has one mark, at its end.
LEMMA PendingFrame ==
    ASSUME NEW s \in Seq(Request), NEW n \in 1..FrameUnits, NEW u \in Item
    PROVE  Pending(s \o FrameRequests(n, u)) = Pending(s) + 1
<1> DEFINE f == FrameRequests(n, u)
           t == s \o f
           last == Len(s) + FrameUnits + 2
<1>0. FrameUnits \in Nat /\ DOMAIN s = 1..Len(s) /\ Len(s) \in Nat
    BY InstanceAssumption, LenProperties
<1>1. /\ f \in Seq(Request) /\ Len(f) = FrameUnits + 2
      /\ \A k \in 1..FrameUnits : f[k].kind = "unhighlight"
      /\ f[FrameUnits + 1].kind = "move"
      /\ f[FrameUnits + 2].kind = "highlight"
    BY FrameIs
<1> HIDE DEF f
<1>2. /\ t \in Seq(Request) /\ Len(t) = Len(s) + Len(f)
      /\ \A k \in 1..Len(s) + Len(f) :
            t[k] = IF k <= Len(s) THEN s[k] ELSE f[k - Len(s)]
    BY <1>1, ConcatProperties
<1>3. DOMAIN t = 1..Len(s) + Len(f)
    BY <1>2, LenProperties
<1> HIDE DEF t
<1>4. ASSUME NEW k \in 1..FrameUnits + 2
      PROVE  f[k].kind = "highlight" <=> k = FrameUnits + 2
    <2>1. k \in 1..FrameUnits \/ k = FrameUnits + 1 \/ k = FrameUnits + 2
        BY <1>0
    <2>2. FrameUnits + 2 \notin 1..FrameUnits /\ FrameUnits + 1 # FrameUnits + 2
        BY <1>0
    <2>3. CASE k \in 1..FrameUnits
        BY <1>1, <2>2, <2>3
    <2>4. CASE k = FrameUnits + 1
        BY <1>1, <2>2, <2>4
    <2> QED
        BY <1>1, <2>1, <2>3, <2>4
<1>5. ASSUME NEW k \in 1..Len(s) + Len(f)
      PROVE  t[k].kind = "highlight" <=> k \in Marks(s) \/ k = last
    <2>1. CASE k <= Len(s)
        <3>1. k \in DOMAIN s /\ t[k] = s[k] /\ k # last
            BY <1>0, <1>1, <1>2, <2>1
        <3> QED
            BY <3>1 DEF Marks
    <2>2. CASE ~(k <= Len(s))
        <3>1. /\ k \notin DOMAIN s /\ t[k] = f[k - Len(s)]
              /\ k - Len(s) \in 1..FrameUnits + 2
              /\ k - Len(s) = FrameUnits + 2 <=> k = last
            BY <1>0, <1>1, <1>2, <2>2
        <3>2. k \notin Marks(s)
            BY <3>1 DEF Marks
        <3>3. f[k - Len(s)].kind = "highlight" <=> k = last
            BY <1>4, <3>1
        <3> QED
            BY <3>1, <3>2, <3>3
    <2> QED
        BY <2>1, <2>2
<1>6. Marks(t) = Marks(s) \cup {last} /\ last \notin Marks(s)
    <2>1. last \in 1..Len(s) + Len(f) /\ last \notin DOMAIN s
        BY <1>0, <1>1
    <2>2. Marks(s) \subseteq 1..Len(s) + Len(f)
        BY <1>0, <1>1 DEF Marks
    <2>3. Marks(t) = {k \in 1..Len(s) + Len(f) : t[k].kind = "highlight"}
        BY <1>3 DEF Marks
    <2>4. last \notin Marks(s)
        BY <2>1 DEF Marks
    <2> HIDE DEF last
    <2> QED
        BY <1>5, <2>1, <2>2, <2>3, <2>4
<1> HIDE DEF last
<1>7. IsFiniteSet(Marks(s))
    BY PendingIsNat
<1> QED
    BY <1>6, <1>7, FS_AddElement DEF Pending, t, f

\* What the arithmetic below is about.
LEMMA BoundNumbers ==
    ASSUME IInv, AcceptInv, BoundInv
    PROVE  /\ ticks \in Nat /\ MaxTicks \in Nat /\ MaxFrames \in Nat
           /\ \A i \in Item : version[i] \in Nat /\ LitIn(highlighted, i) \in 0..1
           /\ \A c \in Client : frames[c] \in Nat /\ Pending(toServer[c]) \in Nat
BY InstanceAssumption, PendingIsNat DEF IInv, ServerInv, AcceptInv, BoundInv, LitIn

\* Steps of the server or a client that change no item.
LEMMA NothingChanged ==
    ASSUME BoundInv, UNCHANGED <<ticks, frames, version, highlighted, profiles, toServer>>
    PROVE  BoundInv'
<1>1. \A c : PlayerIDOf(c)' = PlayerIDOf(c) /\ Accepted(c)' = Accepted(c)
    BY SameProfiles
<1>2. \A i : LitIn(highlighted', i) = LitIn(highlighted, i)
    BY DEF LitIn
<1> QED
    BY <1>1, <1>2 DEF BoundInv

\* A pass that changes units counts once.
LEMMA ProceedKeepsBound ==
    ASSUME IInv, AcceptInv, BoundInv, Proceed
    PROVE  BoundInv'
<1>1. /\ UNCHANGED <<frames, highlighted, profiles, toServer>>
      /\ \E changed \in SUBSET {i \in Item : Owner[i] # ID_NONE} :
            /\ ticks + (IF changed = {} THEN 0 ELSE 1) <= MaxTicks
            /\ ticks' = ticks + (IF changed = {} THEN 0 ELSE 1)
            /\ version' = [i \in Item |-> version[i] + (IF i \in changed THEN 1 ELSE 0)]
    BY DEF Proceed, clientVars
<1>2. \A c : PlayerIDOf(c)' = PlayerIDOf(c) /\ Accepted(c)' = Accepted(c)
    BY <1>1, SameProfiles
<1>3. \A i : LitIn(highlighted', i) = LitIn(highlighted, i)
    BY <1>1 DEF LitIn
<1>4. ticks' \in 0..MaxTicks
    BY <1>1, BoundNumbers
<1>5. \A i \in Item : /\ version'[i] \in Nat
                      /\ version'[i] - version[i] <= ticks' - ticks
    <2> TAKE i \in Item
    <2>1. PICK changed :
            /\ ticks' = ticks + (IF changed = {} THEN 0 ELSE 1)
            /\ version' = [j \in Item |-> version[j] + (IF j \in changed THEN 1 ELSE 0)]
        BY <1>1
    <2>2. /\ version'[i] = version[i] + (IF i \in changed THEN 1 ELSE 0)
          /\ i \in changed => ticks' = ticks + 1
          /\ ticks' = ticks \/ ticks' = ticks + 1
        BY <2>1, BoundNumbers
    <2> QED
        BY <2>2, BoundNumbers
<1>6. ASSUME NEW i \in Item, \A c \in Client : Accepted(c) => Owner[i] # PlayerIDOf(c)
      PROVE  version'[i] <= ticks'
    <2>1. version[i] <= ticks
        BY <1>6 DEF BoundInv
    <2>2. version'[i] \in Nat /\ version'[i] - version[i] <= ticks' - ticks /\ ticks' \in Nat
          /\ version[i] \in Nat /\ ticks \in Nat
        BY <1>4, <1>5, BoundNumbers
    <2> QED
        BY <2>1, <2>2
<1>7. ASSUME NEW i \in Item, NEW c \in Client, Accepted(c), Owner[i] = PlayerIDOf(c)
      PROVE  version'[i] + LitIn(highlighted, i) + 2 * Pending(toServer[c])
                <= ticks' + 2 * frames[c]
    <2>1. version[i] + LitIn(highlighted, i) + 2 * Pending(toServer[c]) <= ticks + 2 * frames[c]
        BY <1>7 DEF BoundInv
    <2>2. version'[i] \in Nat /\ version'[i] - version[i] <= ticks' - ticks /\ ticks' \in Nat
          /\ version[i] \in Nat /\ ticks \in Nat /\ LitIn(highlighted, i) \in Nat
          /\ Pending(toServer[c]) \in Nat /\ frames[c] \in Nat
        BY <1>4, <1>5, BoundNumbers
    <2> QED
        BY <2>1, <2>2
<1> QED
    BY <1>1, <1>2, <1>3, <1>4, <1>6, <1>7 DEF BoundInv

\* The units of a new client are not highlighted, and nothing is under way.
LEMMA AcceptKeepsBound ==
    ASSUME IInv, AcceptInv, HighlightInv, BoundInv, NEW d \in Client, HandleSessionAccepted(d)
    PROVE  BoundInv'
<1>1. /\ d \notin Range(profiles) /\ profiles' = Append(profiles, d)
      /\ UNCHANGED <<ticks, frames, version, highlighted, toServer>>
    BY DEF HandleSessionAccepted, clientVars
<1>2. /\ Range(profiles') = Range(profiles) \cup {d}
      /\ \A c \in Range(profiles) :
            PlayerIDOf(c)' = PlayerIDOf(c) /\ PlayerIDOf(d)' # PlayerIDOf(c)
    BY <1>1, AcceptingOneMore DEF IInv, ServerInv, AcceptInv
<1>3. \A c : Accepted(c)' <=> Accepted(c) \/ c = d
    BY <1>2 DEF Accepted
<1>4. \A c : Accepted(c) => PlayerIDOf(c)' = PlayerIDOf(c) /\ PlayerIDOf(d)' # PlayerIDOf(c)
    BY <1>2 DEF Accepted
<1>5. \A i : LitIn(highlighted', i) = LitIn(highlighted, i)
    BY <1>1 DEF LitIn
<1>6. ASSUME NEW i \in Item, Owner[i] = PlayerIDOf(d)'
      PROVE  version[i] + LitIn(highlighted, i) + 2 * Pending(toServer[d]) <= ticks + 2 * frames[d]
    <2>1. \A c \in Client : Accepted(c) => Owner[i] # PlayerIDOf(c)
        BY <1>4, <1>6
    <2>2. version[i] <= ticks
        BY <2>1 DEF BoundInv
    <2>3. LitIn(highlighted, i) = 0
        BY <2>1 DEF HighlightInv, LightInv, Lit, LitIn
    <2>4. Pending(toServer[d]) = 0
        BY <1>1, PendingNone DEF AcceptInv, Outside, Accepted
    <2>5. version[i] \in Nat /\ ticks \in Nat /\ frames[d] \in Nat
        BY BoundNumbers
    <2> QED
        BY <2>2, <2>3, <2>4, <2>5
<1>7. ASSUME NEW i \in Item, NEW c \in Client, Accepted(c)', Owner[i] = PlayerIDOf(c)'
      PROVE  version[i] + LitIn(highlighted, i) + 2 * Pending(toServer[c]) <= ticks + 2 * frames[c]
    <2>1. CASE c = d
        BY <1>6, <1>7, <2>1
    <2>2. CASE c # d
        <3>1. Accepted(c) /\ Owner[i] = PlayerIDOf(c)
            BY <1>3, <1>4, <1>7, <2>2
        <3> QED
            BY <3>1 DEF BoundInv
    <2> QED
        BY <2>1, <2>2
<1>8. ASSUME NEW i \in Item, \A c \in Client : Accepted(c)' => Owner[i] # PlayerIDOf(c)'
      PROVE  version[i] <= ticks
    <2>1. \A c \in Client : Accepted(c) => Owner[i] # PlayerIDOf(c)
        BY <1>3, <1>4, <1>8
    <2> QED
        BY <2>1 DEF BoundInv
<1> QED
    BY <1>1, <1>5, <1>7, <1>8 DEF BoundInv

\* A request changes its unit if it gives or takes the highlight.
LEMMA RequestKeepsBound ==
    ASSUME IInv, AcceptInv, HighlightInv, BoundInv, NEW d \in Client, HandleRequest(d)
    PROVE  BoundInv'
<1> DEFINE r == Head(toServer[d])
           unit == ServerUnit(d, r.index)
           rest == Tail(toServer[d])
           done == IF r.kind = "highlight" THEN 1 ELSE 0
<1>0. toServer[d] # <<>> /\ toServer[d] \in Seq(Request)
    BY DEF HandleRequest, AcceptInv
<1>1. /\ toServer' = [toServer EXCEPT ![d] = rest]
      /\ highlighted' =
            CASE unit # 0 /\ r.kind = "highlight" -> highlighted \cup {unit}
              [] unit # 0 /\ r.kind = "unhighlight" -> highlighted \ {unit}
              [] OTHER -> highlighted
      /\ version' = IF highlighted' = highlighted THEN version
                    ELSE [version EXCEPT ![unit] = @ + 1]
      /\ UNCHANGED <<profiles, frames, ticks>>
    BY DEF HandleRequest, clientVars, ServerUnit
<1>2. r \in Request /\ r.index \in Asked(toServer[d])
    BY <1>0, TailShifts, TailInFrames DEF HighlightInv, RequestInv
<1>3. Pending(toServer[d]) = Pending(rest) + done
    BY <1>0, PendingTail
<1>4. rest \in Seq(Request)
    BY <1>0, TailShifts
<1>5. r.kind \in {"move", "highlight", "unhighlight"} /\ r.index \in 1..FrameUnits
    BY <1>2 DEF Request
<1> HIDE DEF r
<1>6. Accepted(d) /\ unit \in Item /\ unit # 0 /\ Owner[unit] = PlayerIDOf(d)
    BY <1>0, <1>2, RequestedUnits DEF HighlightInv
<1> HIDE DEF unit, rest
<1>7. highlighted' = CASE r.kind = "highlight" -> highlighted \cup {unit}
                       [] r.kind = "unhighlight" -> highlighted \ {unit}
                       [] OTHER -> highlighted
    BY <1>1, <1>6
<1>8. \A c : PlayerIDOf(c)' = PlayerIDOf(c) /\ Accepted(c)' = Accepted(c)
    BY <1>1, SameProfiles
<1>9. toServer'[d] = rest /\ \A c \in Client : c # d => toServer'[c] = toServer[c]
    BY <1>1 DEF AcceptInv
<1>10. version \in [Item -> Nat]
    BY DEF IInv, ServerInv
<1>11. ASSUME NEW i \in Item, i # unit
       PROVE  version'[i] = version[i] /\ LitIn(highlighted', i) = LitIn(highlighted, i)
    BY <1>1, <1>7, <1>10, <1>11 DEF LitIn
<1>12. version'[unit] + LitIn(highlighted', unit)
            <= version[unit] + LitIn(highlighted, unit) + 2 * done
    <2>1. version[unit] \in Nat
        BY <1>6, <1>10
    <2>2. CASE highlighted' = highlighted
        BY <1>1, <2>1, <2>2 DEF LitIn
    <2>3. CASE highlighted' # highlighted
        <3>1. version'[unit] = version[unit] + 1
            BY <1>1, <1>6, <1>10, <2>3
        <3>2. CASE r.kind = "highlight"
            <4>1. done = 1 /\ LitIn(highlighted, unit) = 0 /\ LitIn(highlighted', unit) = 1
                BY <1>7, <2>3, <3>2 DEF LitIn
            <4> QED
                BY <2>1, <3>1, <4>1
        <3>3. CASE r.kind = "unhighlight"
            <4>1. done = 0 /\ LitIn(highlighted, unit) = 1 /\ LitIn(highlighted', unit) = 0
                BY <1>7, <2>3, <3>3 DEF LitIn
            <4> QED
                BY <2>1, <3>1, <4>1
        <3> QED
            BY <1>5, <1>7, <2>3, <3>2, <3>3
    <2> QED
        BY <2>2, <2>3
<1>13. ASSUME NEW i \in Item, \A c \in Client : Accepted(c) => Owner[i] # PlayerIDOf(c)
       PROVE  version'[i] <= ticks
    BY <1>6, <1>11, <1>13 DEF BoundInv
<1>14. ASSUME NEW i \in Item, NEW c \in Client, Accepted(c), Owner[i] = PlayerIDOf(c)
       PROVE  version'[i] + LitIn(highlighted', i) + 2 * Pending(toServer'[c])
                <= ticks + 2 * frames[c]
    <2>1. version[i] + LitIn(highlighted, i) + 2 * Pending(toServer[c]) <= ticks + 2 * frames[c]
        BY <1>14 DEF BoundInv
    <2>2. /\ ticks \in Nat /\ frames[c] \in Nat
          /\ version[i] \in Nat /\ LitIn(highlighted, i) \in Nat
          /\ Pending(toServer[c]) \in Nat /\ Pending(rest) \in Nat /\ done \in 0..1
        BY <1>4, BoundNumbers, PendingIsNat
    <2> HIDE DEF done
    <2>3. version'[i] \in Nat /\ LitIn(highlighted', i) \in Nat
        <3>1. version' \in [Item -> Nat]
            BY <1>1, <1>6, <1>10
        <3> QED
            BY <3>1 DEF LitIn
    <2>4. CASE i = unit
        <3>1. c = d
            BY <1>6, <1>14, <2>4, PlayerIDs DEF IInv, ServerInv, AcceptInv, Accepted
        <3>2. version'[i] + LitIn(highlighted', i) <= version[i] + LitIn(highlighted, i) + 2 * done
            BY <1>12, <2>4
        <3>3. Pending(toServer[c]) = Pending(rest) + done /\ toServer'[c] = rest
            BY <1>3, <1>9, <3>1
        <3> QED
            BY <2>1, <2>2, <2>3, <3>2, <3>3
    <2>5. CASE i # unit
        <3>1. version'[i] = version[i] /\ LitIn(highlighted', i) = LitIn(highlighted, i)
            BY <1>11, <2>5
        <3>2. Pending(toServer'[c]) <= Pending(toServer[c]) /\ Pending(toServer'[c]) \in Nat
            BY <1>3, <1>9, <2>2
        <3> QED
            BY <2>1, <2>2, <3>1, <3>2
    <2> QED
        BY <2>4, <2>5
<1> QED
    BY <1>1, <1>8, <1>13, <1>14 DEF BoundInv

\* A frame has one highlight.
LEMMA FrameKeepsBound ==
    ASSUME IInv, AcceptInv, BoundInv, NEW d \in Client, ProcessFrame(d)
    PROVE  BoundInv'
<1>0. /\ frames[d] < MaxFrames /\ frames' = [frames EXCEPT ![d] = @ + 1]
      /\ UNCHANGED <<ticks, version, highlighted, profiles>>
      /\ \/ \E first \in 1..FrameUnits :
                toServer' = [toServer EXCEPT ![d] = @ \o HighlightOff(first - 1)]
         \/ \E n \in 1..FrameUnits :
                /\ OwnUnit(d, n) # 0
                /\ toServer' = [toServer EXCEPT ![d] = @ \o FrameRequests(n, OwnUnit(d, n))]
    BY DEF ProcessFrame, serverVars
<1>1. \A c : PlayerIDOf(c)' = PlayerIDOf(c) /\ Accepted(c)' = Accepted(c)
    BY <1>0, SameProfiles
<1>2. \A i : LitIn(highlighted', i) = LitIn(highlighted, i)
    BY <1>0 DEF LitIn
<1>3. /\ frames' \in [Client -> 0..MaxFrames]
      /\ frames'[d] = frames[d] + 1
      /\ \A c \in Client : c # d => frames'[c] = frames[c] /\ toServer'[c] = toServer[c]
    <2>1. frames[d] + 1 \in 0..MaxFrames
        BY <1>0, BoundNumbers
    <2> QED
        BY <1>0, <2>1 DEF BoundInv, AcceptInv
<1>4. Pending(toServer'[d]) \in Nat /\ Pending(toServer'[d]) <= Pending(toServer[d]) + 1
    <2>1. ASSUME NEW first \in 1..FrameUnits,
                 toServer' = [toServer EXCEPT ![d] = @ \o HighlightOff(first - 1)]
          PROVE  Pending(toServer'[d]) = Pending(toServer[d])
        <3>1. /\ toServer[d] \in Seq(Request)
              /\ toServer'[d] = toServer[d] \o HighlightOff(first - 1)
            BY <2>1 DEF AcceptInv
        <3>2. first - 1 \in Nat /\ first - 1 <= FrameUnits
            BY InstanceAssumption
        <3> QED
            BY <3>1, <3>2, PendingOff
    <2>2. ASSUME NEW n \in 1..FrameUnits, OwnUnit(d, n) # 0,
                 toServer' = [toServer EXCEPT ![d] = @ \o FrameRequests(n, OwnUnit(d, n))]
          PROVE  Pending(toServer'[d]) = Pending(toServer[d]) + 1
        <3>1. /\ toServer[d] \in Seq(Request)
              /\ toServer'[d] = toServer[d] \o FrameRequests(n, OwnUnit(d, n))
            BY <2>2 DEF AcceptInv
        <3>2. OwnUnit(d, n) \in Item
            BY <2>2, UnitByIndexFinds DEF OwnUnit, IInv, ClientInv
        <3> QED
            BY <3>1, <3>2, PendingFrame
    <2>3. Pending(toServer[d]) \in Nat
        BY BoundNumbers
    <2>4. \/ Pending(toServer'[d]) = Pending(toServer[d])
          \/ Pending(toServer'[d]) = Pending(toServer[d]) + 1
        BY <1>0, <2>1, <2>2
    <2> QED
        BY <2>3, <2>4
<1>5. ASSUME NEW i \in Item, NEW c \in Client, Accepted(c), Owner[i] = PlayerIDOf(c)
      PROVE  version[i] + LitIn(highlighted, i) + 2 * Pending(toServer'[c])
                <= ticks + 2 * frames'[c]
    <2>1. version[i] + LitIn(highlighted, i) + 2 * Pending(toServer[c]) <= ticks + 2 * frames[c]
        BY <1>5 DEF BoundInv
    <2>2. /\ ticks \in Nat /\ frames[c] \in Nat
          /\ version[i] \in Nat /\ LitIn(highlighted, i) \in Nat
          /\ Pending(toServer[c]) \in Nat
        BY BoundNumbers
    <2>3. CASE c = d
        BY <1>3, <1>4, <2>1, <2>2, <2>3
    <2>4. CASE c # d
        BY <1>3, <2>1, <2>4
    <2> QED
        BY <2>3, <2>4
<1> QED
    BY <1>0, <1>1, <1>2, <1>3, <1>5 DEF BoundInv

\* Nothing has changed yet.
LEMMA InitBound == Init => BoundInv
<1> SUFFICES ASSUME Init PROVE BoundInv
    OBVIOUS
<1>1. /\ ticks = 0 /\ frames = [c \in Client |-> 0] /\ version = [i \in Item |-> 0]
      /\ \A c : ~Accepted(c)
    BY DEF Init, Accepted, Range
<1> QED
    BY <1>1, InstanceAssumption DEF BoundInv

\* Ticks and frames pay for every change of an item.
LEMMA NextKeepsBound ==
    IInv /\ AcceptInv /\ HighlightInv /\ BoundInv /\ [Next]_vars => BoundInv'
<1> SUFFICES ASSUME IInv, AcceptInv, HighlightInv, BoundInv, [Next]_vars PROVE BoundInv'
    OBVIOUS
<1>1. CASE TakeItem \/ SendToProfile \/ ReleaseItem
    BY <1>1, NothingChanged DEF TakeItem, SendToProfile, ReleaseItem, clientVars
<1>2. CASE Greet
    BY <1>2, NothingChanged DEF Greet, SendPlayerID, SendItem, clientVars
<1>3. ASSUME NEW d \in Client, HandleMessage(d) PROVE BoundInv'
    BY <1>3, NothingChanged DEF HandleMessage, serverVars
<1>4. CASE UNCHANGED vars
    BY <1>4, NothingChanged DEF vars, serverVars, clientVars
<1> QED
    BY <1>1, <1>2, <1>3, <1>4, ProceedKeepsBound, AcceptKeepsBound, RequestKeepsBound,
       FrameKeepsBound
    DEF Next, GameLoop

\* All changes of an item: one a tick, two a frame of its player.
LEMMA VersionsBounded ==
    ASSUME IInv, AcceptInv, BoundInv
    PROVE  \A i \in Item : version[i] <= MaxVersion
<1> SUFFICES ASSUME NEW i \in Item PROVE version[i] <= MaxVersion
    OBVIOUS
<1>1. /\ ticks \in 0..MaxTicks /\ MaxTicks \in Nat /\ MaxFrames \in Nat /\ version[i] \in Nat
      /\ LitIn(highlighted, i) \in Nat
    BY BoundNumbers DEF BoundInv
<1>2. CASE \A c \in Client : Accepted(c) => Owner[i] # PlayerIDOf(c)
    <2>1. version[i] <= ticks
        BY <1>2 DEF BoundInv
    <2> QED
        BY <1>1, <2>1 DEF MaxVersion
<1>3. ASSUME NEW c \in Client, Accepted(c), Owner[i] = PlayerIDOf(c)
      PROVE  version[i] <= MaxVersion
    <2>1. version[i] + LitIn(highlighted, i) + 2 * Pending(toServer[c]) <= ticks + 2 * frames[c]
        BY <1>3 DEF BoundInv
    <2>2. frames[c] \in 0..MaxFrames /\ Pending(toServer[c]) \in Nat
        BY BoundNumbers DEF BoundInv
    <2> QED
        BY <1>1, <2>1, <2>2 DEF MaxVersion
<1> QED
    BY <1>2, <1>3

-----------------------------------------------------------------------------
(* The type invariant                                                        *)

RestInv ==
    /\ broadcast.to <= Len(profiles) + 1
    /\ broadcast.to = 0 => broadcast.version = 0
    /\ ~Greeting => greeting.item = 0
    /\ crashed \subseteq Client
    /\ lastMove \in [client : Client \cup {NoClient}, touched : Item \cup {0},
                     moved : Item \cup {0}]

\* No broadcast, no greeting, no move yet.
LEMMA InitRest == Init => RestInv
<1> SUFFICES ASSUME Init PROVE RestInv
    OBVIOUS
<1>1. Len(profiles) = 0
    BY EmptySeq DEF Init
<1> QED
    BY <1>1 DEF Init, RestInv, Greeting

\* The broadcast stops behind the last profile; a greeting ends at zero.
LEMMA NextKeepsRest == IInv /\ AcceptInv /\ HighlightInv /\ RestInv /\ [Next]_vars => RestInv'
<1> SUFFICES ASSUME IInv, AcceptInv, HighlightInv, RestInv, [Next]_vars PROVE RestInv'
    OBVIOUS
<1>0. /\ profiles \in Seq(Client) /\ Len(profiles) \in Nat /\ DOMAIN profiles = 1..Len(profiles)
      /\ broadcast \in [item : Item \cup {Idle}, to : Nat, version : Nat]
      /\ greeting \in [client : Client \cup {NoClient}, item : Nat]
      /\ NoClient \notin Client
    BY LenProperties, InstanceAssumption DEF IInv, ServerInv
<1>1. CASE GameLoop
    <2>1. UNCHANGED <<profiles, greeting, crashed, lastMove>>
        BY <1>1 DEF GameLoop, Proceed, TakeItem, SendToProfile, ReleaseItem, clientVars, history
    <2>2. broadcast'.to <= Len(profiles) + 1 /\ (broadcast'.to = 0 => broadcast'.version = 0)
        <3>1. CASE Proceed \/ ReleaseItem
            <4>1. broadcast'.to = 0 /\ broadcast'.version = 0
                BY <3>1 DEF Proceed, ReleaseItem
            <4> QED
                BY <1>0, <4>1
        <3>2. CASE TakeItem
            <4>1. broadcast'.to = 1
                BY <1>0, <3>2 DEF TakeItem
            <4> QED
                BY <1>0, <4>1
        <3>3. CASE SendToProfile
            <4>1. broadcast.to \in DOMAIN profiles /\ broadcast'.to = broadcast.to + 1
                BY <1>0, <3>3 DEF SendToProfile
            <4> QED
                BY <1>0, <4>1
        <3> QED
            BY <1>1, <3>1, <3>2, <3>3 DEF GameLoop
    <2> QED
        BY <2>1, <2>2 DEF RestInv, Greeting
<1>2. CASE Greet
    <2>1. /\ UNCHANGED <<profiles, broadcast, crashed, lastMove>>
          /\ greeting'.client = NoClient => greeting'.item = 0
        BY <1>0, <1>2 DEF Greet, SendPlayerID, SendItem, clientVars, history, Greeting
    <2> QED
        BY <2>1 DEF RestInv, Greeting
<1>3. ASSUME NEW d \in Client, HandleSessionAccepted(d) PROVE RestInv'
    <2>1. /\ profiles' = Append(profiles, d) /\ greeting' = [client |-> d, item |-> 0]
          /\ UNCHANGED <<broadcast, crashed, lastMove>>
        BY <1>3 DEF HandleSessionAccepted, clientVars
    <2>2. Len(profiles') = Len(profiles) + 1
        BY <1>0, <2>1, AppendIs
    <2>3. broadcast.to <= Len(profiles') + 1
        BY <1>0, <2>2 DEF RestInv
    <2> QED
        BY <2>1, <2>3 DEF RestInv, Greeting
<1>4. ASSUME NEW d \in Client, HandleRequest(d) PROVE RestInv'
    <2> DEFINE r == Head(toServer[d])
               unit == ServerUnit(d, r.index)
    <2>1. /\ UNCHANGED <<profiles, broadcast, greeting, crashed>>
          /\ toServer[d] # <<>> /\ toServer[d] \in Seq(Request)
          /\ \/ lastMove' = lastMove
             \/ lastMove' = [client |-> d, touched |-> r.touched, moved |-> unit]
        BY <1>4 DEF HandleRequest, clientVars, ServerUnit, AcceptInv
    <2>2. r \in Request /\ r.index \in Asked(toServer[d])
        BY <2>1, TailShifts, TailInFrames DEF HighlightInv, RequestInv
    <2> HIDE DEF r
    <2>3. r.index \in 1..FrameUnits /\ r.touched \in Item \cup {0}
        BY <2>2 DEF Request
    <2>4. unit \in Item
        BY <2>1, <2>2, RequestedUnits DEF HighlightInv
    <2> HIDE DEF unit
    <2> QED
        BY <2>1, <2>3, <2>4 DEF RestInv, Greeting
<1>5. ASSUME NEW d \in Client, HandleMessage(d) PROVE RestInv'
    BY <1>5 DEF HandleMessage, serverVars, history, RestInv, Greeting
<1>6. ASSUME NEW d \in Client, ProcessFrame(d) PROVE RestInv'
    BY <1>6 DEF ProcessFrame, serverVars, history, RestInv, Greeting
<1>7. CASE UNCHANGED vars
    BY <1>7 DEF vars, serverVars, clientVars, history, RestInv, Greeting
<1> QED
    BY <1>1, <1>2, <1>3, <1>4, <1>5, <1>6, <1>7 DEF Next

\* A sequence without repetitions is no longer than its values are many.
LEMMA NoLonger ==
    ASSUME NEW S, IsFiniteSet(S), NEW s \in Seq(S), IsInjective(s)
    PROVE  /\ Cardinality(S) \in Nat /\ Len(s) \in Nat /\ Len(s) <= Cardinality(S)
           /\ s \in BoundedSeq(S, Cardinality(S))
<1>1. Cardinality(S) \in Nat /\ Len(s) \in Nat /\ s \in [1..Len(s) -> S] /\ DOMAIN s = 1..Len(s)
    BY FS_CardinalityType, LenProperties
<1>2. s \in Injection(1..Len(s), S)
    BY <1>1 DEF Injection, IsInjective
<1>3. Cardinality(1..Len(s)) <= Cardinality(S) /\ Cardinality(1..Len(s)) = Len(s)
    <2>1. Cardinality(1..Len(s)) = Len(s)
        <3> DEFINE n == Len(s)
        <3>1. n \in Nat
            BY <1>1
        <3> HIDE DEF n
        <3>2. Cardinality(1..n) = n
            BY <3>1, FS_Interval
        <3> QED
            BY <3>2 DEF n
    <2>2. Cardinality(1..Len(s)) <= Cardinality(S)
        BY <1>2, FS_Injection
    <2> QED
        BY <2>1, <2>2
<1>4. Len(s) \in 0..Cardinality(S)
    BY <1>1, <1>3
<1> QED
    BY <1>1, <1>3, <1>4 DEF BoundedSeq, SeqOf

\* A message carries the ID of a player, or a state the item has been in.
LEMMA MessagesTyped ==
    ASSUME IInv, AcceptInv, BoundInv, NEW c \in Client, NEW k \in DOMAIN toClient[c]
    PROVE  toClient[c][k] \in PlayerIDMessage \cup ItemMessage
<1> DEFINE m == toClient[c][k]
<1>0. toClient[c] \in Seq(Sent) /\ profiles \in Seq(Client) /\ IsInjective(profiles)
    BY DEF IInv, ClientInv, ServerInv, AcceptInv
<1>1. m \in Sent
    BY <1>0, ElementOfSeq, LenProperties
<1>2. Accepted(c)
    BY DEF AcceptInv, Outside
<1>3. CASE m \in AnyItemMessage
    <2>1. m.item \in Item /\ m.version \in Nat
        BY <1>3 DEF AnyItemMessage
    <2>2. m.version <= Newest(m.item)
        <3>1. Rising(toClient[c], m.item, copy[c][m.item], Newest(m.item))
            BY <2>1 DEF IInv, VersionsInv
        <3> QED
            BY <1>3, <3>1 DEF Rising
    <2>3. /\ Newest(m.item) \in Nat /\ Newest(m.item) <= version[m.item]
          /\ version[m.item] <= MaxVersion /\ version[m.item] \in Nat /\ MaxVersion \in Nat
        BY <2>1, NewestIsVersion, VersionsBounded, BoundNumbers DEF MaxVersion
    <2> HIDE DEF m
    <2>4. m.version \in 0..MaxVersion
        BY <2>1, <2>2, <2>3
    <2>5. m \in ItemMessage
        BY <1>3, <2>4 DEF AnyItemMessage, ItemMessage
    <2> QED
        BY <2>5 DEF m
<1>4. CASE m \notin AnyItemMessage
    <2>1. m \in [player : Nat] /\ m.player = PlayerIDOf(c)
        BY <1>1, <1>2, <1>4 DEF Sent, AcceptInv, ToldOwnID
    <2>2. PlayerIDOf(c) \in Player
        <3>1. /\ PlayerIDOf(c) \in Nat /\ PlayerIDOf(c) >= ID_FIRST_CLIENT
              /\ PlayerIDOf(c) < ID_FIRST_CLIENT + Len(profiles)
            BY <1>0, <1>2, PlayerIDs DEF Accepted
        <3>2. /\ Cardinality(Client) \in Nat /\ Len(profiles) \in Nat
              /\ Len(profiles) <= Cardinality(Client)
            BY <1>0, InstanceAssumption, NoLonger
        <3> QED
            BY <3>1, <3>2 DEF Player, ID_FIRST_CLIENT
    <2> HIDE DEF m
    <2>3. m \in PlayerIDMessage
        BY <2>1, <2>2 DEF PlayerIDMessage
    <2> QED
        BY <2>3 DEF m
<1> QED
    BY <1>3, <1>4

\* The type invariant, from all of the above.
LEMMA AllTyped ==
    IInv /\ AcceptInv /\ CleanInv /\ HighlightInv /\ BoundInv /\ RestInv => TypeOK
<1> SUFFICES ASSUME IInv, AcceptInv, CleanInv, HighlightInv, BoundInv, RestInv PROVE TypeOK
    OBVIOUS
<1>0. /\ MaxVersion \in Nat /\ MaxTicks \in Nat /\ MaxFrames \in Nat
      /\ NItems \in Nat /\ NoClient \notin Client
      /\ profiles \in Seq(Client) /\ IsInjective(profiles)
    BY InstanceAssumption DEF MaxVersion, IInv, ServerInv, AcceptInv
<1>1. version \in [Item -> 0..MaxVersion]
    <2>1. \A i \in Item : version[i] \in 0..MaxVersion
        BY <1>0, BoundNumbers, VersionsBounded
    <2> QED
        BY <2>1 DEF IInv, ServerInv
<1>2. highlighted \subseteq Item /\ ticks \in 0..MaxTicks
    BY DEF HighlightInv, LightInv, BoundInv
<1>3. /\ Cardinality(Client) \in Nat /\ Len(profiles) \in Nat
      /\ Len(profiles) <= Cardinality(Client)
      /\ profiles \in BoundedSeq(Client, Cardinality(Client))
    BY <1>0, InstanceAssumption, NoLonger
<1>4. broadcast \in [item : Item \cup {Idle}, to : 0..Cardinality(Client) + 1,
                     version : 0..MaxVersion]
    <2>1. broadcast \in [item : Item \cup {Idle}, to : Nat, version : Nat]
        BY DEF IInv, ServerInv
    <2>2. broadcast.to \in 0..Cardinality(Client) + 1
        BY <1>3, <2>1 DEF RestInv
    <2>3. broadcast.version \in 0..MaxVersion
        <3>1. CASE broadcast.to = 0
            BY <1>0, <3>1 DEF RestInv
        <3>2. CASE broadcast.to # 0
            <4>1. broadcast.item \in Item /\ broadcast.version <= version[broadcast.item]
                BY <2>1, <3>2 DEF IInv, ServerInv
            <4>2. version[broadcast.item] \in 0..MaxVersion /\ broadcast.version \in Nat
                BY <1>1, <2>1, <4>1
            <4> QED
                BY <1>0, <4>1, <4>2
        <3> QED
            BY <3>1, <3>2
    <2> QED
        BY <2>1, <2>2, <2>3
<1>5. greeting \in [client : Client \cup {NoClient}, item : 0..NItems]
    <2>1. greeting \in [client : Client \cup {NoClient}, item : Nat]
        BY DEF IInv, ServerInv
    <2>2. greeting.item \in 0..NItems
        BY <1>0, <2>1 DEF IInv, ServerInv, RestInv
    <2> QED
        BY <2>1, <2>2
<1>6. ASSUME NEW c \in Client
      PROVE  /\ \A k \in DOMAIN toServer[c] : toServer[c][k] \in Request
             /\ Range(list[c]) \subseteq Item
    <2>1. toServer[c] \in Seq(Request) /\ list[c] \in Seq(Item)
        BY DEF AcceptInv, IInv, ClientInv
    <2> QED
        BY <2>1, ElementOfSeq, LenProperties, RangeOfSeq
<1>7. ownPlayerID \in [Client -> Player \cup {ID_NONE}]
    <2> SUFFICES ASSUME NEW c \in Client PROVE ownPlayerID[c] \in Player \cup {ID_NONE}
        BY DEF AcceptInv
    <2>1. CASE Accepted(c)
        <3>1. /\ PlayerIDOf(c) \in Nat /\ PlayerIDOf(c) >= ID_FIRST_CLIENT
              /\ PlayerIDOf(c) < ID_FIRST_CLIENT + Len(profiles)
            BY <1>0, <2>1, PlayerIDs DEF Accepted
        <3>2. PlayerIDOf(c) \in Player
            BY <1>3, <3>1 DEF Player, ID_FIRST_CLIENT
        <3> QED
            BY <2>1, <3>2 DEF AcceptInv, ToldOwnID
    <2>2. CASE ~Accepted(c)
        BY <2>2 DEF AcceptInv, Outside
    <2> QED
        BY <2>1, <2>2
<1>8. copy \in [Client -> [Item -> 0..MaxVersion]]
    <2> SUFFICES ASSUME NEW c \in Client, NEW i \in Item PROVE copy[c][i] \in 0..MaxVersion
        BY DEF IInv, ClientInv
    <2>1. copy[c][i] <= Newest(i)
        BY DEF IInv, VersionsInv, Rising
    <2>2. /\ copy[c][i] \in Nat /\ Newest(i) \in Nat /\ Newest(i) <= version[i]
          /\ version[i] \in 0..MaxVersion
        BY <1>1, NewestIsVersion DEF IInv, ClientInv
    <2> QED
        BY <1>0, <2>1, <2>2
<1> QED
    BY <1>1, <1>2, <1>3, <1>4, <1>5, <1>6, <1>7, <1>8, MessagesTyped
    DEF TypeOK, BoundInv, RestInv, CleanInv

\* The type invariant, with its bounds: profiles and lists never repeat a client
\* or an item, and every change of an item is paid for by a tick or a frame.
THEOREM TypeCorrect == Spec => []TypeOK
<1> DEFINE Inv == IInv /\ AcceptInv /\ CleanInv /\ HighlightInv /\ BoundInv /\ RestInv
<1>1. Init => Inv
    BY InitInv, InitAccept, InitClean, InitHighlight, InitBound, InitRest
<1>2. Inv /\ [Next]_vars => Inv'
    BY NextKeepsInv, NextKeepsAccept, NextKeepsClean, NextKeepsHighlight, NextKeepsBound,
       NextKeepsRest
<1>3. Inv => TypeOK
    BY AllTyped
<1> HIDE DEF Inv
<1> QED
    BY <1>1, <1>2, <1>3, PTL DEF Spec
=============================================================================
