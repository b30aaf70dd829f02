-------------------------------- MODULE Game --------------------------------
(***************************************************************************)
(* The rules of the game as Game::proceed plays them on the server's game  *)
(* thread, and Game::start, which the user-interface thread calls without  *)
(* a lock whenever 'r' is pressed.  proceed acts on what it has read of the *)
(* flag and the timer before: start may run in between.                    *)
(*                                                                         *)
(* Sheep try to reach the goal line, hunters try to touch them.  Where a   *)
(* unit goes is the players' business: a unit that may move goes anywhere  *)
(* within the walls.  Obstacles only turn velocities (separateFrom returns *)
(* for every unit that collides, its overlappingDistance being negative),  *)
(* so they change nothing that is modelled here.  Time is the value of     *)
(* m_durationTimer in units of which a game lasts Limit.                   *)
(***************************************************************************)
EXTENDS Integers, FiniteSets

CONSTANTS
    Sheep, Hunter,      \* the units of the two players
    Place,              \* positions within the walls
    Goal,               \* those at or below the goal line
    Close,              \* pairs of places nearer than two radii
    Spawn,              \* where load puts each unit
    Limit,              \* how long a game lasts (60 seconds)
    MaxStarts           \* bound: how often 'r' is pressed

Unit == Sheep \cup Hunter

\* What every level of load provides; Close is the distance test of collidesWith.
ASSUME LevelAssumption ==
    /\ Sheep \cap Hunter = {}
    /\ IsFiniteSet(Sheep)
    /\ Goal \subseteq Place
    /\ Close \subseteq Place \X Place
    /\ \A p, q \in Place : <<p, q>> \in Close => <<q, p>> \in Close
    /\ Spawn \in [Unit -> Place]
    /\ \A s \in Sheep : Spawn[s] \notin Goal
    /\ \A s \in Sheep, h \in Hunter : <<Spawn[s], Spawn[h]>> \notin Close
    /\ Limit \in Nat /\ MaxStarts \in Nat

VARIABLES
    at,                 \* position of each unit
    living,             \* units with isLiving set
    arrived,            \* units with hasArrived set
    hasStarted,         \* m_hasStarted
    hasFinished,        \* m_hasFinished
    elapsed,            \* m_durationTimer.elapsed()
    lastUnitTime,       \* m_lastUnitTime
    report,             \* the score printed at the end
    frame,              \* what proceed has yet to do, having read the timer
    starting,           \* the UI thread is in the middle of start()
    starts,             \* how often start() was called
    sinceStart,         \* history: time since start() was last called
    overlapped          \* history: start() has run since proceed read the timer,
                        \* or was half done then

boardVars == <<at, living, arrived, lastUnitTime>>
uiVars == <<starting, starts>>
historyVars == <<sinceStart, overlapped>>
vars == <<at, living, arrived, hasStarted, hasFinished, elapsed, lastUnitTime,
          report, frame, starting, starts, sinceStart, overlapped>>

NoReport == [arrived |-> -1, survived |-> -1]

TypeOK ==
    /\ at \in [Unit -> Place]
    /\ living \subseteq Unit
    /\ arrived \subseteq Unit
    /\ hasStarted \in BOOLEAN
    /\ hasFinished \in BOOLEAN
    /\ elapsed \in 0..Limit + 1
    /\ lastUnitTime \in -1..Limit + 1
    /\ report \in [arrived : -1..Cardinality(Sheep), survived : -1..Cardinality(Sheep)]
    /\ frame \in {"none", "moving", "ending"}
    /\ starting \in BOOLEAN
    /\ starts \in 0..MaxStarts
    /\ sinceStart \in 0..Limit + 1
    /\ overlapped \in BOOLEAN

(* The constructors and load, which also start the timers.                  *)
Init ==
    /\ at = Spawn
    /\ living = Unit
    /\ arrived = {}
    /\ hasStarted = FALSE
    /\ hasFinished = FALSE
    /\ elapsed = 0
    /\ lastUnitTime = -1
    /\ report = NoReport
    /\ frame = "none"
    /\ starting = FALSE
    /\ starts = 0
    /\ sinceStart = 0
    /\ overlapped = FALSE

(***************************************************************************)
(* Game::start, in two steps: nothing keeps proceed from running between.  *)
(***************************************************************************)

StartSetsFlag ==
    /\ ~starting
    /\ starts < MaxStarts
    /\ starting' = TRUE
    /\ starts' = starts + 1
    /\ hasStarted' = TRUE
    /\ sinceStart' = 0
    /\ overlapped' = TRUE
    /\ UNCHANGED <<hasFinished, elapsed, report, frame>>
    /\ UNCHANGED boardVars

StartKeepsTimer ==      \* mutant: the timer runs on from the construction of the game
    /\ starting
    /\ starting' = FALSE
    /\ UNCHANGED <<starts, hasStarted, hasFinished, elapsed, report, frame>>
    /\ UNCHANGED boardVars /\ UNCHANGED historyVars

StartRestartsTimer ==
    /\ starting
    /\ starting' = FALSE
    /\ elapsed' = 0
    /\ UNCHANGED <<starts, hasStarted, hasFinished, report, frame>>
    /\ UNCHANGED boardVars /\ UNCHANGED historyVars

(***************************************************************************)
(* Game::proceed, in two steps: it reads flag and timer, then it ends the   *)
(* game or moves the units.  Nothing keeps start from running between.     *)
(***************************************************************************)

Movers == living \ arrived      \* the units move moves

\* Where the units may be after move and reflectOnWalls.
Moves == {to \in [Unit -> Place] : \A u \in Unit \ Movers : to[u] = at[u]}

ReachedBefore(to) == {s \in Sheep : at[s] \in Goal}         \* mutant: looks before moving
Reached(to) == {s \in Sheep : to[s] \in Goal}

Caught(from, prey, hunters) ==
    {u \in prey : \E h \in hunters : <<from[u], from[h]>> \in Close}
TouchedBefore(to) == Caught(at, Sheep, Hunter)  \* mutant: collisions before moves
Touched(to) == Caught(to, Sheep, Hunter)

NewArrivals(to) == Reached(to) \ arrived

\* The score: sheep that arrived, and sheep that neither arrived nor died.
ScoredArrived == Sheep \cap living \cap arrived
AnySurvived == living \ arrived        \* mutant: counts hunters
Survived == Sheep \cap (living \ arrived)
Tally == [arrived |-> Cardinality(ScoredArrived), survived |-> Cardinality(Survived)]

TimeIsExactlyUp == elapsed = Limit /\ ~hasFinished     \* mutant: = for >
TimeIsUp == elapsed > Limit /\ ~hasFinished

GoesOn == hasStarted            \* mutant: no return once finished
Playing == hasStarted /\ ~hasFinished

\* The flags, which no thread resets, and the timer are read.
ReadTimer ==
    /\ frame = "none"
    /\ Playing
    /\ frame' = IF TimeIsUp THEN "ending" ELSE "moving"
    /\ overlapped' = starting
    /\ UNCHANGED <<hasStarted, hasFinished, elapsed, report, sinceStart>>
    /\ UNCHANGED boardVars
    /\ UNCHANGED uiVars

\* The time was up.
Finish ==
    /\ frame = "ending"
    /\ frame' = "none"
    /\ hasFinished' = TRUE
    /\ report' = Tally
    /\ UNCHANGED <<hasStarted, elapsed>>
    /\ UNCHANGED boardVars
    /\ UNCHANGED uiVars /\ UNCHANGED historyVars

\* It was not: the units move; the timer is read again for an arrival.
Proceed ==
    /\ frame = "moving"
    /\ frame' = "none"
    /\ \E to \in Moves :
        /\ at' = to
        /\ arrived' = arrived \cup Reached(to)
        /\ living' = living \ Touched(to)
        /\ lastUnitTime' = IF NewArrivals(to) = {} THEN lastUnitTime ELSE elapsed
    /\ UNCHANGED <<hasStarted, hasFinished, elapsed, report>>
    /\ UNCHANGED uiVars /\ UNCHANGED historyVars

\* Time passes, whatever the threads do; the last value stands for all later ones.
Clock ==
    /\ elapsed <= Limit \/ sinceStart <= Limit
    /\ elapsed' = IF elapsed <= Limit THEN elapsed + 1 ELSE elapsed
    /\ sinceStart' = IF sinceStart <= Limit THEN sinceStart + 1 ELSE sinceStart
    /\ UNCHANGED <<hasStarted, hasFinished, report, frame, overlapped>>
    /\ UNCHANGED boardVars
    /\ UNCHANGED uiVars

GameThread == ReadTimer \/ Finish \/ Proceed

Next == StartSetsFlag \/ StartRestartsTimer \/ GameThread \/ Clock

Spec == Init /\ [][Next]_vars

\* The timer runs, the game loop calls proceed every 20 ms, start() returns.
FairSpec == Spec /\ WF_vars(Clock) /\ WF_vars(GameThread) /\ WF_vars(StartRestartsTimer)

-----------------------------------------------------------------------------
(***************************************************************************)
(* Properties                                                              *)
(***************************************************************************)

\* A sheep stands in the goal exactly if it has arrived: no arrival is missed,
\* and a sheep that died elsewhere is never carried there.
GoalMeansArrived == \A s \in Sheep : at[s] \in Goal <=> s \in arrived

\* No living sheep is touched by a hunter, whichever of them moved there.
LivingAreUntouched ==
    \A s \in Sheep \cap living, h \in Hunter : <<at[s], at[h]>> \notin Close

\* The printed score is, and stays, that of the board: living sheep in the goal
\* and living sheep outside it, however often 'r' is pressed after the end.
Standing(places) == {s \in Sheep \cap living : at[s] \in places}
ReportIsFinal ==
    hasFinished => /\ report.arrived = Cardinality(Standing(Goal))
                   /\ report.survived = Cardinality(Standing(Place \ Goal))

\* The time of the last arrival is kept exactly if some sheep has arrived.
LastTimeMeansArrival == lastUnitTime # -1 <=> arrived # {}

\* A game that was started comes to its end.
StartedFinishes == hasStarted ~> hasFinished

\* A level that is run lasts its full time, but for the frame that start()
\* overlaps: one that read the timer before start() restarted it may end the
\* new game, also after start() has returned.  No later frame does.
EarlyEndOnlyAcrossStart ==
    [][~hasFinished /\ hasFinished' => overlapped \/ sinceStart > Limit]_vars
=============================================================================
