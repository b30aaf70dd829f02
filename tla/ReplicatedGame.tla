--------------------------- MODULE ReplicatedGame ---------------------------
(***************************************************************************)
(* What the game server promises to the clients: one game, which only the  *)
(* server changes, one change of a unit at a time, and in each client a    *)
(* copy that follows it.  What a client shows of an item is a state in     *)
(* which the item has been, never an older one than before; an item it has *)
(* listed keeps its place.  How soon a client follows is open.             *)
(***************************************************************************)
EXTENDS Naturals, Sequences, Functions

CONSTANTS
    Client,
    Item,               \* units and obstacles
    Unit                \* the items that may change

VARIABLES
    game,               \* changes made to each item
    shown,              \* how many of them each client shows
    listed              \* the items each client has heard of, oldest first

gameVars == <<game, shown, listed>>

GameInit ==
    /\ game = [i \in Item |-> 0]
    /\ shown = [c \in Client |-> [i \in Item |-> 0]]
    /\ listed = [c \in Client |-> <<>>]

\* The rules of the game, or a request of a player, change some units.
Change ==
    /\ \E changed \in SUBSET (Unit \cap Item) :
        game' = [i \in Item |-> game[i] + (IF i \in changed THEN 1 ELSE 0)]
    /\ UNCHANGED <<shown, listed>>

\* A client hears of an item as it is, or was since the client last heard.
Follow(c, i) ==
    /\ \E v \in shown[c][i]..game[i] : shown' = [shown EXCEPT ![c][i] = v]
    /\ listed' = IF i \in Range(listed[c]) THEN listed
                 ELSE [listed EXCEPT ![c] = Append(@, i)]
    /\ UNCHANGED game

GameNext == Change \/ \E c \in Client, i \in Item : Follow(c, i)

GameSpec == GameInit /\ [][GameNext]_gameVars
=============================================================================
