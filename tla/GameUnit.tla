------------------------------ MODULE GameUnit ------------------------------
(***************************************************************************)
(* How a unit moves: GameUnit::move, reflectOnWalls, collidesWith and      *)
(* separateFrom, in the order in which Game::proceed calls them, and       *)
(* setAcceleration, which the network thread calls at any time (no lock    *)
(* is shared).                                                             *)
(*                                                                         *)
(* The unit is on a vertical line through the centres of a column of       *)
(* obstacles, as x = 240 in levels 2 to 4, and never leaves that line      *)
(* because every force on it is along the line.  Floating-point numbers    *)
(* are integers in small units, Grain of them per pixel, and products are  *)
(* rounded towards zero; time is in ticks, Second of them per second.      *)
(***************************************************************************)
EXTENDS Integers, Sequences

CONSTANTS
    Columns,            \* columns of obstacles, each in load's order
    Radius,             \* s_radius, in pixels
    Grain,              \* small units per pixel
    Low, High,          \* where reflectOnWalls stops a unit
    Goal,               \* where a sheep has arrived
    MaxSpeed,           \* s_maximalVelocity
    Accelerations,      \* what handleMoveRequest may ask for
    Brake,              \* s_brakeFactor
    Second,             \* ticks of the clock per second
    Frames              \* how many ticks a frame may last

Obstacles == [centre : Int, radius : Nat]

ASSUME PhysicsAssumption ==
    /\ Columns \subseteq Seq(Obstacles)
    /\ Radius \in Nat
    /\ Grain \in Nat \ {0}
    /\ Low \in Nat /\ High \in Nat /\ Low <= High
    /\ Goal \in Nat
    /\ MaxSpeed \in Nat
    /\ Accelerations \subseteq Int
    /\ Brake \in Nat
    /\ Second \in Nat \ {0}
    /\ Frames \subseteq Nat

VARIABLES
    column,             \* the obstacles on the line, by load
    isHunting,          \* m_isHunting, by load
    y,                  \* m_gameUnitData.y
    velocity,           \* m_velocity along the line
    acceleration,       \* m_acceleration along the line
    nan,                \* which of these are not a number
    isLiving, hasArrived,
    obstacle,           \* obstacle proceed tests next; 0 between two frames
    coasted             \* history: the last frame was short and unforced

vars == <<column, isHunting, y, velocity, acceleration, nan, isLiving,
          hasArrived, obstacle, coasted>>

\* Whatever is asked of it, a unit stays within the walls and below the speed
\* limit, at every point of a frame: the obstacles, which are tested behind
\* the walls, do not move it.
TypeOK ==
    /\ column \in Columns
    /\ isHunting \in BOOLEAN
    /\ y \in Low..High
    /\ velocity \in -MaxSpeed..MaxSpeed
    /\ acceleration \in Accelerations \cup {0}
    /\ nan \in {"none", "velocity", "position"}
    /\ isLiving \in BOOLEAN
    /\ hasArrived \in BOOLEAN
    /\ obstacle \in 0..Len(column) + 1
    /\ coasted \in BOOLEAN

-----------------------------------------------------------------------------
(***************************************************************************)
(* Numbers and geometry                                                    *)
(***************************************************************************)

Abs(n) == IF n < 0 THEN -n ELSE n
Sign(n) == IF n < 0 THEN -1 ELSE 1

\* a / b for b > 0, rounded towards zero as the conversion to int does.
Quotient(a, b) == Sign(a) * (Abs(a) \div b)

\* position() truncates to a cv::Point of whole pixels.
Position(at) == at \div Grain

Reach(i) == Radius + column[i].radius
Direction(at, i) == Position(at) - column[i].centre
Distance(at, i) == Abs(Direction(at, i))

\* collidesWith(gameObstacle); a position that is not a number is near nothing.
CollidesAt(at, i) == Distance(at, i) < Reach(i)
CollidesWith(i) == nan # "position" /\ CollidesAt(y, i)

\* load puts every unit clear of all obstacles, beside the line; a push to the
\* side, which is not modelled, brings it onto the line, where it rests.
Init ==
    /\ column \in Columns
    /\ isHunting \in BOOLEAN
    /\ y \in {at \in Low..High : /\ isHunting \/ at < Goal
                                 /\ \A i \in DOMAIN column : ~CollidesAt(at, i)}
    /\ velocity = 0
    /\ acceleration = 0
    /\ nan = "none"
    /\ isLiving = TRUE
    /\ hasArrived = FALSE
    /\ obstacle = 0
    /\ coasted = TRUE

\* GameServer::handleMoveRequest, on the network thread; it asks neither
\* whether the unit lives nor what the game thread is doing.
SetAcceleration ==
    /\ acceleration' \in Accelerations
    /\ UNCHANGED <<column, isHunting, y, velocity, nan, isLiving, hasArrived,
                   obstacle, coasted>>

-----------------------------------------------------------------------------
(***************************************************************************)
(* Game::proceed                                                           *)
(***************************************************************************)

Moving == isLiving /\ ~hasArrived

Unlimited(v) == v       \* mutant: no speed limit
Limited(v) == IF Abs(v) > MaxSpeed THEN Sign(v) * MaxSpeed ELSE v

\* The velocity move gives a unit in a frame of d ticks.
Accelerated(d) ==
    Limited(velocity + Quotient((acceleration - velocity * Brake) * d, Second))

Within(at) == IF at < Low THEN Low ELSE IF at > High THEN High ELSE at

Short(d) == Brake * d <= Second

\* move and reflectOnWalls, then the goal line: dead and arrived units lose
\* their velocity, one whose velocity is not a number loses its position.
Move(d) ==
    /\ obstacle = 0
    /\ obstacle' = 1
    /\ \/ /\ ~Moving
          /\ velocity' = 0
          /\ acceleration' = 0
          /\ nan' = IF nan = "velocity" THEN "none" ELSE nan
          /\ coasted' = TRUE
          /\ UNCHANGED <<y, hasArrived>>
       \/ /\ Moving
          /\ nan # "none"
          /\ nan' = "position"
          /\ UNCHANGED <<y, velocity, acceleration, hasArrived, coasted>>
       \/ /\ Moving
          /\ nan = "none"
          /\ LET v == Accelerated(d)
                 to == y + Quotient(v * d, Second)
             IN
                /\ y' = Within(to)
                /\ velocity' = IF Within(to) = to THEN v ELSE -v
          /\ hasArrived' = (~isHunting /\ y' >= Goal)
          /\ coasted' = (acceleration = 0 /\ Short(d))
          /\ UNCHANGED <<acceleration, nan>>
    /\ UNCHANGED <<column, isHunting, isLiving>>

\* reflectOn: the velocity points away from the obstacle's centre.
Reversed(i) ==           \* mutant: no fabs
    Sign(Direction(y, i)) * (0 - velocity * Sign(Direction(y, i)))
Reflected(i) == Sign(Direction(y, i)) * Abs(velocity)

\* separateFrom(gameObstacle); for a unit that collides overlappingDistance is
\* negative.  reflectOn divides by the distance to the centre.
Separate(i) ==
    LET overlappingDistance == Distance(y, i) - Reach(i) IN
    /\ y' = IF overlappingDistance <= 0 THEN y
            ELSE y + Quotient(Sign(Direction(y, i)) * overlappingDistance * Grain * 6, 5)
    /\ IF Direction(y, i) = 0 THEN /\ nan' = "velocity"
                                   /\ UNCHANGED velocity
                              ELSE /\ velocity' = Reflected(i)
                                   /\ UNCHANGED nan

TestObstacle ==
    /\ obstacle \in DOMAIN column
    /\ obstacle' = obstacle + 1
    /\ IF CollidesWith(obstacle) THEN Separate(obstacle)
                                 ELSE UNCHANGED <<y, velocity, nan>>
    /\ UNCHANGED <<column, isHunting, acceleration, isLiving, hasArrived, coasted>>

\* The collisions of units, which Game has, end the frame.
CollideWithUnits ==
    /\ obstacle = Len(column) + 1
    /\ obstacle' = 0
    /\ \/ UNCHANGED isLiving
       \/ ~isHunting /\ isLiving' = FALSE
    /\ UNCHANGED <<column, isHunting, y, velocity, acceleration, nan,
                   hasArrived, coasted>>

Next ==
    \/ SetAcceleration
    \/ \E d \in Frames : Move(d)
    \/ TestObstacle
    \/ CollideWithUnits

Spec == Init /\ [][Next]_vars

-----------------------------------------------------------------------------
(***************************************************************************)
(* Properties                                                              *)
(***************************************************************************)

\* The last obstacle tested so far that the unit touches turned it round.
LastTouched(i) ==
    /\ CollidesWith(i)
    /\ \A j \in DOMAIN column : CollidesWith(j) => j <= i

\* A unit nobody pushes never gets deeper into the obstacle that turned it
\* round, in frames short enough for the brake not to reverse it (100 ms),
\* though nothing ever separates the two.
CoastersDoNotSink ==
    [][obstacle = 0 /\ obstacle' = 1 /\ coasted' /\ nan = "none" =>
        \A i \in DOMAIN column :
            LastTouched(i) => Distance(y', i) >= Distance(y, i)]_vars

\* A unit in play that is not being pushed, and sees no long frame, never comes
\* to the centre of an obstacle, where reflectOn makes its velocity a NaN and
\* takes it out of the game for good.
OnlyPushedUnitsBreak ==
    [][Moving /\ nan = "none" /\ nan' # "none" => ~coasted]_vars
=============================================================================
