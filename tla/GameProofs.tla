----------------------------- MODULE GameProofs -----------------------------
(***************************************************************************)
(* The rules of Game hold for every set of units, every floor and every    *)
(* length of the game.  The inductive invariant is the conjunction of the  *)
(* checked invariants and of FrameInv: none of them is inductive alone     *)
(* (what stands in the goal stays there because what has arrived does not  *)
(* move, the score stays the board's because nothing moves once it is      *)
(* printed: no frame is under way in a game that has finished).            *)
(***************************************************************************)
EXTENDS Game, FiniteSetTheorems, TLAPS

\* A frame is under way only in a game that goes on.
FrameInv == frame # "none" => hasStarted /\ ~hasFinished

IInv ==
    /\ TypeOK
    /\ FrameInv
    /\ GoalMeansArrived
    /\ LivingAreUntouched
    /\ LastTimeMeansArrival
    /\ ReportIsFinal

USE DEF boardVars, uiVars, historyVars

-----------------------------------------------------------------------------
(* What a frame can do to the sets of units.                                *)

\* The counts that proceed prints lie between 0 and the number of sheep.
LEMMA TallyInRange ==
    Tally \in [arrived : -1..Cardinality(Sheep), survived : -1..Cardinality(Sheep)]
<1>1. IsFiniteSet(Sheep)
    BY LevelAssumption
<1>2. Cardinality(Sheep) \in Nat
    BY <1>1, FS_CardinalityType
<1>3. ASSUME NEW S, S \subseteq Sheep
      PROVE  Cardinality(S) \in -1..Cardinality(Sheep)
    <2>1. IsFiniteSet(S) /\ Cardinality(S) <= Cardinality(Sheep)
        BY <1>1, <1>3, FS_Subset
    <2>2. Cardinality(S) \in Nat
        BY <2>1, FS_CardinalityType
    <2> QED
        BY <1>2, <2>1, <2>2
<1>4. Cardinality(ScoredArrived) \in -1..Cardinality(Sheep)
    <2>1. ScoredArrived \subseteq Sheep
        BY DEF ScoredArrived
    <2> QED
        BY <1>3, <2>1
<1>5. Cardinality(Survived) \in -1..Cardinality(Sheep)
    <2>1. Survived \subseteq Sheep
        BY DEF Survived
    <2> QED
        BY <1>3, <2>1
<1> QED
    BY <1>4, <1>5 DEF Tally

\* The score counts the living sheep in the goal and those outside it.
LEMMA TallyIsOfTheBoard ==
    ASSUME TypeOK, GoalMeansArrived
    PROVE  /\ Tally.arrived = Cardinality(Standing(Goal))
           /\ Tally.survived = Cardinality(Standing(Place \ Goal))
<1>1. ScoredArrived = Standing(Goal)
    BY DEF ScoredArrived, Standing, GoalMeansArrived
<1>2. Survived = Standing(Place \ Goal)
    BY DEF Survived, Standing, GoalMeansArrived, TypeOK, Unit
<1> QED
    BY <1>1, <1>2 DEF Tally

-----------------------------------------------------------------------------

LEMMA InitInv == Init => IInv
<1> SUFFICES ASSUME Init PROVE IInv
    OBVIOUS
<1> USE DEF Init
<1>1. TypeOK
    <2>1. Cardinality(Sheep) \in Nat
        BY LevelAssumption, FS_CardinalityType
    <2>2. report \in [arrived : -1..Cardinality(Sheep), survived : -1..Cardinality(Sheep)]
        BY <2>1 DEF NoReport
    <2>3. at \in [Unit -> Place] /\ living \subseteq Unit /\ arrived \subseteq Unit
        BY LevelAssumption
    <2>4. /\ hasStarted \in BOOLEAN /\ hasFinished \in BOOLEAN /\ starting \in BOOLEAN
          /\ overlapped \in BOOLEAN /\ frame \in {"none", "moving", "ending"}
        OBVIOUS
    <2>5. /\ elapsed \in 0..Limit + 1 /\ sinceStart \in 0..Limit + 1
          /\ lastUnitTime \in -1..Limit + 1 /\ starts \in 0..MaxStarts
        BY LevelAssumption
    <2> QED
        BY <2>2, <2>3, <2>4, <2>5 DEF TypeOK
<1>2. GoalMeansArrived
    BY LevelAssumption DEF GoalMeansArrived
<1>3. LivingAreUntouched
    BY LevelAssumption DEF LivingAreUntouched
<1>4. LastTimeMeansArrival /\ ReportIsFinal /\ FrameInv
    BY DEF LastTimeMeansArrival, ReportIsFinal, FrameInv
<1> QED
    BY <1>1, <1>2, <1>3, <1>4 DEF IInv

\* Steps that leave the board alone keep what IInv says of it.
LEMMA BoardKept ==
    ASSUME IInv, UNCHANGED boardVars
    PROVE  /\ GoalMeansArrived' /\ LivingAreUntouched' /\ LastTimeMeansArrival'
BY DEF IInv, GoalMeansArrived, LivingAreUntouched, LastTimeMeansArrival

LEMMA ReportKept ==
    ASSUME IInv, UNCHANGED boardVars, UNCHANGED <<hasFinished, report>>
    PROVE  ReportIsFinal'
BY DEF IInv, ReportIsFinal, Standing

LEMMA ProceedKeepsInv == IInv /\ Proceed => IInv'
<1> SUFFICES ASSUME IInv, Proceed PROVE IInv'
    OBVIOUS
<1> USE DEF IInv
<1>1. PICK to \in Moves :
        /\ at' = to
        /\ arrived' = arrived \cup Reached(to)
        /\ living' = living \ Touched(to)
        /\ lastUnitTime' = IF NewArrivals(to) = {} THEN lastUnitTime ELSE elapsed
    BY DEF Proceed
<1>2. /\ UNCHANGED <<hasStarted, hasFinished, elapsed, report, starting, starts,
                      sinceStart, overlapped>>
      /\ frame' = "none"
    BY DEF Proceed
<1>3. to \in [Unit -> Place] /\ \A u \in Unit : u \notin Movers => to[u] = at[u]
    BY DEF Moves
<1>4. Reached(to) \subseteq Sheep /\ Touched(to) \subseteq Sheep
    BY DEF Reached, Touched, Caught
<1>5. TypeOK'
    <2>1. at' \in [Unit -> Place] /\ living' \subseteq Unit /\ arrived' \subseteq Unit
        BY <1>1, <1>3, <1>4 DEF TypeOK, Unit
    <2>2. lastUnitTime' \in -1..Limit + 1
        BY <1>1, LevelAssumption DEF TypeOK
    <2> QED
        BY <1>2, <2>1, <2>2 DEF TypeOK
<1>6. GoalMeansArrived'
    <2> SUFFICES ASSUME NEW s \in Sheep
                 PROVE  to[s] \in Goal <=> s \in arrived \cup Reached(to)
        BY <1>1 DEF GoalMeansArrived
    <2>1. s \in arrived => to[s] \in Goal
        BY <1>3 DEF Movers, GoalMeansArrived, Unit
    <2> QED
        BY <2>1 DEF Reached
<1>7. LivingAreUntouched'
    BY <1>1 DEF LivingAreUntouched, Touched, Caught
<1>8. LastTimeMeansArrival'
    <2>1. CASE NewArrivals(to) = {}
        <3>1. arrived' = arrived /\ lastUnitTime' = lastUnitTime
            BY <1>1, <2>1 DEF NewArrivals
        <3> QED
            BY <3>1 DEF LastTimeMeansArrival
    <2>2. CASE NewArrivals(to) # {}
        <3>1. arrived' # {}
            BY <1>1, <2>2 DEF NewArrivals
        <3>2. elapsed # -1
            BY LevelAssumption DEF TypeOK
        <3> QED
            BY <1>1, <2>2, <3>1, <3>2 DEF LastTimeMeansArrival
    <2> QED
        BY <2>1, <2>2
<1>9. ReportIsFinal'
    BY <1>2 DEF Proceed, FrameInv, ReportIsFinal
<1>10. FrameInv'
    BY <1>2 DEF FrameInv
<1> QED
    BY <1>5, <1>6, <1>7, <1>8, <1>9, <1>10

LEMMA NextKeepsInv == IInv /\ [Next]_vars => IInv'
<1> SUFFICES ASSUME IInv, [Next]_vars PROVE IInv'
    OBVIOUS
<1>1. CASE StartSetsFlag
    <2>1. TypeOK'
        BY <1>1, LevelAssumption DEF IInv, TypeOK, StartSetsFlag
    <2>2. FrameInv'
        BY <1>1 DEF IInv, FrameInv, StartSetsFlag
    <2>3. UNCHANGED boardVars /\ UNCHANGED <<hasFinished, report>>
        BY <1>1 DEF StartSetsFlag
    <2> QED
        BY <2>1, <2>2, <2>3, BoardKept, ReportKept DEF IInv
<1>2. CASE StartRestartsTimer
    <2>1. TypeOK'
        <3>1. starting' \in BOOLEAN
            BY <1>2 DEF StartRestartsTimer
        <3>2. elapsed' \in 0..Limit + 1
            BY <1>2, LevelAssumption DEF StartRestartsTimer
        <3> QED
            BY <1>2, <3>1, <3>2 DEF IInv, TypeOK, StartRestartsTimer
    <2>2. FrameInv'
        BY <1>2 DEF IInv, FrameInv, StartRestartsTimer
    <2>3. UNCHANGED boardVars /\ UNCHANGED <<hasFinished, report>>
        BY <1>2 DEF StartRestartsTimer
    <2> QED
        BY <2>1, <2>2, <2>3, BoardKept, ReportKept DEF IInv
<1>3. CASE ReadTimer
    <2>1. TypeOK'
        BY <1>3 DEF IInv, TypeOK, ReadTimer
    <2>2. FrameInv'
        BY <1>3 DEF FrameInv, ReadTimer, Playing
    <2>3. UNCHANGED boardVars /\ UNCHANGED <<hasFinished, report>>
        BY <1>3 DEF ReadTimer
    <2> QED
        BY <2>1, <2>2, <2>3, BoardKept, ReportKept DEF IInv
<1>4. CASE Finish
    <2>1. TypeOK'
        BY <1>4, TallyInRange DEF IInv, TypeOK, Finish
    <2>2. FrameInv'
        BY <1>4 DEF Finish, FrameInv
    <2>3. UNCHANGED boardVars
        BY <1>4 DEF Finish
    <2>4. /\ Tally.arrived = Cardinality(Standing(Goal))
          /\ Tally.survived = Cardinality(Standing(Place \ Goal))
        BY TallyIsOfTheBoard DEF IInv
    <2>5. ReportIsFinal'
        BY <1>4, <2>3, <2>4 DEF Finish, ReportIsFinal, Standing
    <2> QED
        BY <2>1, <2>2, <2>3, <2>5, BoardKept DEF IInv
<1>5. CASE Proceed
    BY <1>5, ProceedKeepsInv
<1>6. CASE Clock
    <2>1. TypeOK'
        BY <1>6, LevelAssumption DEF IInv, TypeOK, Clock
    <2>2. FrameInv'
        BY <1>6 DEF IInv, FrameInv, Clock
    <2>3. UNCHANGED boardVars /\ UNCHANGED <<hasFinished, report>>
        BY <1>6 DEF Clock
    <2> QED
        BY <2>1, <2>2, <2>3, BoardKept, ReportKept DEF IInv
<1>7. CASE UNCHANGED vars
    <2>1. TypeOK'
        BY <1>7 DEF IInv, TypeOK, vars
    <2>2. FrameInv'
        BY <1>7 DEF IInv, FrameInv, vars
    <2>3. UNCHANGED boardVars /\ UNCHANGED <<hasFinished, report>>
        BY <1>7 DEF vars
    <2> QED
        BY <2>1, <2>2, <2>3, BoardKept, ReportKept DEF IInv
<1> QED
    BY <1>1, <1>2, <1>3, <1>4, <1>5, <1>6, <1>7 DEF Next, GameThread

\* The inductive invariant holds in every reachable state.
THEOREM InvHolds == Spec => []IInv
<1> QED
    BY InitInv, NextKeepsInv, PTL DEF Spec

-----------------------------------------------------------------------------
(* The theorems.                                                             *)

\* Positions, flags, timers and the printed score keep their types.
THEOREM TypeCorrect == Spec => []TypeOK
<1>1. IInv => TypeOK
    BY DEF IInv
<1> QED
    BY <1>1, InvHolds, PTL

\* A sheep stands in the goal exactly if proceed has marked it as arrived.
THEOREM GoalIsArrival == Spec => []GoalMeansArrived
<1>1. IInv => GoalMeansArrived
    BY DEF IInv
<1> QED
    BY <1>1, InvHolds, PTL

\* After every frame no living sheep is within reach of a hunter.
THEOREM LivingUntouched == Spec => []LivingAreUntouched
<1>1. IInv => LivingAreUntouched
    BY DEF IInv
<1> QED
    BY <1>1, InvHolds, PTL

\* m_lastUnitTime tells whether a sheep has arrived.
THEOREM LastTime == Spec => []LastTimeMeansArrival
<1>1. IInv => LastTimeMeansArrival
    BY DEF IInv
<1> QED
    BY <1>1, InvHolds, PTL

\* The printed score remains the score of the board.
THEOREM ScoreIsFinal == Spec => []ReportIsFinal
<1>1. IInv => ReportIsFinal
    BY DEF IInv
<1> QED
    BY <1>1, InvHolds, PTL

\* Unless a start is under way, the game has not been timed longer than since
\* the last start; a frame that is going to end the game, and that no start has
\* overlapped, does so after the time of that start was up.
TimerInv ==
    /\ hasStarted /\ ~starting => elapsed <= sinceStart
    /\ frame = "ending" /\ ~overlapped => sinceStart > Limit

LEMMA NextKeepsTimer == TypeOK /\ TimerInv /\ [Next]_vars => TimerInv'
<1> SUFFICES ASSUME TypeOK, TimerInv, [Next]_vars
             PROVE  TimerInv'
    OBVIOUS
<1>1. /\ elapsed \in Int /\ sinceStart \in Int /\ Limit \in Int
      /\ elapsed <= Limit + 1 /\ sinceStart >= 0
    BY LevelAssumption DEF TypeOK
<1>2. CASE StartSetsFlag
    BY <1>2 DEF StartSetsFlag, TimerInv
<1>3. CASE StartRestartsTimer
    BY <1>1, <1>3 DEF StartRestartsTimer, TimerInv
<1>4. CASE ReadTimer
    <2>1. /\ hasStarted /\ overlapped' = starting
          /\ frame' = "ending" => elapsed > Limit
          /\ UNCHANGED <<hasStarted, starting, elapsed, sinceStart>>
        BY <1>4 DEF ReadTimer, Playing, TimeIsUp
    <2> QED
        BY <1>1, <2>1 DEF TimerInv
<1>5. CASE Finish \/ Proceed
    BY <1>5 DEF Finish, Proceed, TimerInv
<1>6. CASE Clock
    BY <1>1, <1>6 DEF Clock, TimerInv
<1>7. CASE UNCHANGED vars
    BY <1>7 DEF TimerInv, vars
<1> QED
    BY <1>2, <1>3, <1>4, <1>5, <1>6, <1>7 DEF Next, GameThread

\* A game is cut short only by a frame that start has overlapped, one that has
\* read the timer of before; not by any frame that begins later.
THEOREM EarlyEnd == Spec => EarlyEndOnlyAcrossStart
<1>1. Init => TimerInv
    BY DEF Init, TimerInv
<1>2. TimerInv /\ [Next]_vars =>
        [~hasFinished /\ hasFinished' => overlapped \/ sinceStart > Limit]_vars
    <2> SUFFICES ASSUME TimerInv, Next, ~hasFinished, hasFinished'
                 PROVE  overlapped \/ sinceStart > Limit
        OBVIOUS
    <2>1. Finish
        BY DEF Next, GameThread, StartSetsFlag, StartRestartsTimer, ReadTimer, Proceed, Clock
    <2> QED
        BY <2>1 DEF Finish, TimerInv
<1> QED
    BY <1>1, <1>2, TypeCorrect, NextKeepsTimer, PTL DEF Spec, EarlyEndOnlyAcrossStart
=============================================================================
