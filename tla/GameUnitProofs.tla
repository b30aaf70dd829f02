--------------------------- MODULE GameUnitProofs ---------------------------
(***************************************************************************)
(* Proofs about GameUnit, for any columns of obstacles, any sizes and any  *)
(* clock: a unit stays within the walls and below the speed limit, and one *)
(* nobody pushes does not sink into the obstacle that turned it round.     *)
(***************************************************************************)
EXTENDS GameUnit, TLAPS

-----------------------------------------------------------------------------
(* Integer arithmetic. *)

LEMMA Multiples ==
    ASSUME NEW x \in Nat, NEW p \in Int, NEW q \in Int, p <= q
    PROVE  x * p <= x * q
OBVIOUS

LEMMA QuotientIsBounded ==
    ASSUME NEW a \in Nat, NEW b \in Nat \ {0}, NEW m \in Nat, a <= m * b
    PROVE  a \div b \in 0..m
<1> DEFINE q == a \div b
<1>1. q \in Nat /\ b * q <= a
  BY SMT
<1> HIDE DEF q
<1>2. ASSUME q >= m + 1  PROVE FALSE
  <2>1. b * (m + 1) <= b * q
    BY <1>1, <1>2, Multiples
  <2> QED
    BY <1>1, <2>1
<1> QED
  BY <1>1, <1>2 DEF q

LEMMA DivisionIsMonotone ==
    ASSUME NEW a \in Int, NEW c \in Int, NEW b \in Nat \ {0}, a <= c
    PROVE  a \div b <= c \div b
<1> DEFINE q == a \div b
           r == c \div b
<1>1. /\ q \in Int /\ r \in Int
      /\ b * q <= a /\ c < b * (r + 1)
  BY SMT
<1> HIDE DEF q, r
<1>2. ASSUME q >= r + 1  PROVE FALSE
  <2>1. b * (r + 1) <= b * q
    BY <1>1, <1>2, Multiples
  <2> QED
    BY <1>1, <2>1
<1> QED
  BY <1>1, <1>2 DEF q, r

\* Rounding towards zero keeps the sign.
LEMMA QuotientSign ==
    ASSUME NEW a \in Int, NEW b \in Nat \ {0}
    PROVE  /\ Quotient(a, b) \in Int
           /\ a >= 0 => Quotient(a, b) = a \div b /\ Quotient(a, b) >= 0
           /\ a < 0 => Quotient(a, b) = -((-a) \div b) /\ Quotient(a, b) <= 0
           /\ a = 0 => Quotient(a, b) = 0
<1>1. Abs(a) \in Nat /\ Abs(a) \div b \in Nat
  BY DEF Abs
<1>2. CASE a >= 0
  BY <1>1, <1>2 DEF Quotient, Sign, Abs
<1>3. CASE a < 0
  <2>1. Quotient(a, b) = (-1) * ((-a) \div b)
    BY <1>3 DEF Quotient, Sign, Abs
  <2>2. (-a) \div b \in Nat
    BY <1>1, <1>3 DEF Abs
  <2> QED
    BY <2>1, <2>2, <1>3
<1> QED
  BY <1>2, <1>3

LEMMA QuotientBounds ==
    ASSUME NEW a \in Int, NEW b \in Nat \ {0}, NEW m \in Nat
    PROVE  /\ a >= 0 /\ a <= m * b => Quotient(a, b) \in 0..m
           /\ a <= 0 /\ -a <= m * b => Quotient(a, b) \in -m..0
<1>1. CASE a >= 0 /\ a <= m * b
  <2>1. a \div b \in 0..m
    BY <1>1, QuotientIsBounded
  <2> QED
    BY <1>1, <2>1, QuotientSign
<1>2. CASE a < 0 /\ -a <= m * b
  <2> DEFINE q == (-a) \div b
  <2>1. -a \in Nat
    BY <1>2
  <2>2. q \in 0..m
    BY <1>2, <2>1, QuotientIsBounded
  <2>3. Quotient(a, b) = -q
    BY <1>2, QuotientSign
  <2> HIDE DEF q
  <2> QED
    BY <1>2, <2>2, <2>3
<1>3. a = 0 => Quotient(a, b) = 0
  BY QuotientSign
<1> QED
  BY <1>1, <1>2, <1>3

LEMMA LimitedIsBounded ==
    ASSUME NEW v \in Int, MaxSpeed \in Nat
    PROVE  /\ Limited(v) \in -MaxSpeed..MaxSpeed
           /\ v >= 0 => Limited(v) >= 0
           /\ v <= 0 => Limited(v) <= 0
BY DEF Limited, Abs, Sign

-----------------------------------------------------------------------------
(* Types: within the walls, below the limit. *)

LEMMA ColumnTypes ==
    ASSUME column \in Columns, NEW i \in DOMAIN column
    PROVE  column[i].centre \in Int /\ column[i].radius \in Nat
<1>1. column \in Seq(Obstacles)
  BY PhysicsAssumption
<1>2. column[i] \in Obstacles
  BY <1>1
<1> QED
  BY <1>2 DEF Obstacles

LEMMA GeometryTypes ==
    ASSUME column \in Columns, NEW i \in DOMAIN column, NEW at \in Int
    PROVE  /\ Position(at) \in Int
           /\ Direction(at, i) \in Int
           /\ Distance(at, i) \in Nat
           /\ Reach(i) \in Nat
BY ColumnTypes, PhysicsAssumption DEF Position, Direction, Distance, Reach, Abs

\* A collision is an overlap: separateFrom returns before it moves the unit.
LEMMA CollisionsDoNotMove ==
    ASSUME TypeOK, NEW i \in DOMAIN column, CollidesWith(i), Separate(i)
    PROVE  y' = y
<1>1. y \in Int
  BY PhysicsAssumption DEF TypeOK
<1>2. Distance(y, i) \in Nat /\ Reach(i) \in Nat
  BY <1>1, GeometryTypes DEF TypeOK
<1>3. Distance(y, i) < Reach(i)
  BY DEF CollidesWith, CollidesAt
<1> QED
  BY <1>2, <1>3 DEF Separate

\* What a moving unit's frame does to its position and velocity.
LEMMA MoveTypes ==
    ASSUME TypeOK, NEW d \in Frames, Move(d)
    PROVE  y' \in Low..High /\ velocity' \in -MaxSpeed..MaxSpeed
<1> USE PhysicsAssumption
<1>1. CASE ~Moving \/ nan # "none"
  BY <1>1 DEF Move, TypeOK
<1>2. CASE Moving /\ nan = "none"
  <2> DEFINE v == Accelerated(d)
             to == y + Quotient(v * d, Second)
  <2>0. d \in Nat /\ y \in Int /\ velocity \in Int /\ acceleration \in Int
    BY DEF TypeOK
  <2>1. v \in -MaxSpeed..MaxSpeed
    <3> DEFINE change == (acceleration - velocity * Brake) * d
    <3>1. change \in Int
      BY <2>0
    <3> HIDE DEF change
    <3>2. Quotient(change, Second) \in Int
      BY <3>1, QuotientSign
    <3>3. v = Limited(velocity + Quotient(change, Second))
      BY DEF Accelerated, change
    <3> QED
      BY <2>0, <3>2, <3>3, LimitedIsBounded
  <2>2. to \in Int
    <3> DEFINE way == v * d
    <3>1. way \in Int
      <4> HIDE DEF v
      <4> QED
        BY <2>0, <2>1
    <3>2. to = y + Quotient(way, Second)
      OBVIOUS
    <3> HIDE DEF way, v, to
    <3>3. Quotient(way, Second) \in Int
      BY <3>1, QuotientSign
    <3> QED
      BY <3>2, <3>3, <2>0
  <2>3. y' = Within(to) /\ velocity' = IF Within(to) = to THEN v ELSE -v
    BY <1>2 DEF Move
  <2> HIDE DEF v, to
  <2> QED
    BY <2>1, <2>2, <2>3 DEF Within
<1> QED
  BY <1>1, <1>2

LEMMA InitTypes == Init => TypeOK
<1> SUFFICES ASSUME Init  PROVE TypeOK
  OBVIOUS
<1>1. column \in Seq(Obstacles) /\ Len(column) \in Nat
  BY PhysicsAssumption DEF Init
<1>2. y \in Low..High /\ velocity \in -MaxSpeed..MaxSpeed
  BY PhysicsAssumption DEF Init
<1>3. obstacle \in 0..Len(column) + 1
  BY <1>1 DEF Init
<1> QED
  BY <1>2, <1>3 DEF Init, TypeOK

LEMMA NextTypes == TypeOK /\ [Next]_vars => TypeOK'
<1> SUFFICES ASSUME TypeOK, [Next]_vars
             PROVE  TypeOK'
  OBVIOUS
<1> USE PhysicsAssumption
<1>0. column \in Seq(Obstacles) /\ Len(column) \in Nat /\ DOMAIN column = 1..Len(column)
  BY DEF TypeOK
<1>1. CASE SetAcceleration
  BY <1>1 DEF SetAcceleration, TypeOK
<1>2. ASSUME NEW d \in Frames, Move(d)  PROVE TypeOK'
  <2>1. y' \in Low..High /\ velocity' \in -MaxSpeed..MaxSpeed
    BY <1>2, MoveTypes
  <2>2. acceleration' \in Accelerations \cup {0} /\ nan' \in {"none", "velocity", "position"}
    BY <1>2 DEF Move, TypeOK
  <2>3. hasArrived' \in BOOLEAN /\ coasted' \in BOOLEAN
    BY <1>2 DEF Move, TypeOK
  <2>4. column' = column /\ isHunting' = isHunting /\ isLiving' = isLiving /\ obstacle' = 1
    BY <1>2 DEF Move
  <2> QED
    BY <1>0, <2>1, <2>2, <2>3, <2>4 DEF TypeOK
<1>3. CASE TestObstacle
  <2>1. CASE CollidesWith(obstacle)
    <3>1. obstacle \in DOMAIN column /\ Separate(obstacle)
      BY <1>3, <2>1 DEF TestObstacle
    <3>2. y' = y
      BY <2>1, <3>1, CollisionsDoNotMove
    <3>3. velocity' \in -MaxSpeed..MaxSpeed /\ nan' \in {"none", "velocity", "position"}
      <4>1. CASE Direction(y, obstacle) = 0
        BY <3>1, <4>1 DEF Separate, TypeOK
      <4>2. CASE Direction(y, obstacle) # 0
        <5>1. velocity' = Reflected(obstacle) /\ nan' = nan
          BY <3>1, <4>2 DEF Separate
        <5>2. Reflected(obstacle) \in -MaxSpeed..MaxSpeed
          BY DEF Reflected, Sign, Abs, TypeOK
        <5> QED
          BY <5>1, <5>2 DEF TypeOK
      <4> QED
        BY <4>1, <4>2
    <3> QED
      BY <1>0, <1>3, <3>1, <3>2, <3>3 DEF TestObstacle, TypeOK
  <2>2. CASE ~CollidesWith(obstacle)
    BY <1>0, <1>3, <2>2 DEF TestObstacle, TypeOK
  <2> QED
    BY <2>1, <2>2
<1>4. CASE CollideWithUnits
  <2>1. isLiving' \in BOOLEAN
    BY <1>4 DEF CollideWithUnits, TypeOK
  <2>2. obstacle' \in 0..Len(column)' + 1 /\ UNCHANGED column
    BY <1>0, <1>4 DEF CollideWithUnits
  <2> QED
    BY <1>4, <2>1, <2>2 DEF CollideWithUnits, TypeOK
<1>5. CASE UNCHANGED vars
  BY <1>5 DEF vars, TypeOK
<1> QED
  BY <1>1, <1>2, <1>3, <1>4, <1>5 DEF Next

\* Whatever requests arrive and however long frames last, a unit is within the
\* walls and no faster than the limit: obstacles only turn its velocity.
THEOREM TypeCorrect == Spec => []TypeOK
<1> QED
  BY InitTypes, NextTypes, PTL DEF Spec

-----------------------------------------------------------------------------
(* Coasting. *)

Tested(i) == obstacle = 0 \/ i < obstacle

\* The last obstacle tested so far, of those the unit touches.
TurnedBy(i) ==
    /\ CollidesWith(i) /\ Tested(i)
    /\ \A j \in DOMAIN column : CollidesWith(j) /\ Tested(j) => j <= i

\* Signs rather than products: the velocity does not point to its centre.
PointsAway(i) == IF Direction(y, i) < 0 THEN velocity <= 0 ELSE velocity >= 0

TurnedRound == nan = "none" => \A i \in DOMAIN column : TurnedBy(i) => PointsAway(i)

IInv == TypeOK /\ TurnedRound

LEMMA InitTurned == Init => TurnedRound
BY DEF Init, TurnedRound, PointsAway

LEMMA NextTurned == IInv /\ [Next]_vars => TurnedRound'
<1> SUFFICES ASSUME TypeOK, TurnedRound, [Next]_vars, nan' = "none",
                    NEW i \in DOMAIN column', TurnedBy(i)'
             PROVE  PointsAway(i)'
  BY DEF IInv, TurnedRound
<1> USE PhysicsAssumption
<1>0. column' = column /\ column \in Seq(Obstacles) /\ i \in Nat /\ i >= 1
      /\ i <= Len(column) /\ Len(column) \in Nat /\ DOMAIN column = 1..Len(column)
  BY DEF TypeOK, Next, SetAcceleration, Move, TestObstacle, CollideWithUnits, vars
<1>1. CASE SetAcceleration \/ UNCHANGED vars
  <2>1. UNCHANGED <<y, velocity, nan, obstacle, column>>
    BY <1>1 DEF SetAcceleration, vars
  <2>2. TurnedBy(i)
    BY <2>1 DEF TurnedBy, CollidesWith, CollidesAt, Distance, Direction, Reach, Tested
  <2> QED
    BY <2>1, <2>2, <1>0 DEF TurnedRound, PointsAway, Direction
<1>2. ASSUME NEW d \in Frames, Move(d)  PROVE PointsAway(i)'
  <2>1. obstacle' = 1
    BY <1>2 DEF Move
  <2> QED
    BY <1>0, <2>1 DEF TurnedBy, Tested
<1>3. CASE TestObstacle
  <2>1. CASE CollidesWith(obstacle)
    <3>1. obstacle \in DOMAIN column /\ Separate(obstacle) /\ obstacle' = obstacle + 1
      BY <1>3, <2>1 DEF TestObstacle
    <3>2. y' = y
      BY <2>1, <3>1, CollisionsDoNotMove
    <3>3. Direction(y, obstacle) # 0 /\ velocity' = Reflected(obstacle) /\ nan' = nan
      BY <3>1 DEF Separate
    <3>4. i = obstacle
      <4>1. PICK k \in DOMAIN column : k = obstacle
        BY <3>1
      <4>2. i <= k
        BY <3>1, <4>1, <1>0 DEF TurnedBy, Tested
      <4>3. CollidesWith(k)' /\ Tested(k)'
        <5>1. CollidesWith(k)
          BY <2>1, <4>1
        <5> QED
          BY <5>1, <3>1, <3>2, <3>3, <4>1, <1>0
          DEF CollidesWith, CollidesAt, Distance, Direction, Reach, Tested
      <4>4. k <= i
        BY <4>1, <4>3, <1>0 DEF TurnedBy
      <4> QED
        BY <4>1, <4>2, <4>4, <1>0
    <3>5. Direction(y, i) \in Int /\ velocity \in Int
      BY GeometryTypes, <1>0 DEF TypeOK
    <3>6. Direction(y, i)' = Direction(y, i)
      BY <1>0, <3>2 DEF Direction
    <3> QED
      BY <3>3, <3>4, <3>5, <3>6 DEF PointsAway, Reflected, Sign, Abs
  <2>2. CASE ~CollidesWith(obstacle)
    <3>1. UNCHANGED <<y, velocity, nan, column>> /\ obstacle \in DOMAIN column /\ obstacle' = obstacle + 1
      BY <1>3, <2>2 DEF TestObstacle
    <3>2. \A j \in DOMAIN column : CollidesWith(j)' <=> CollidesWith(j)
      BY <3>1 DEF CollidesWith, CollidesAt, Distance, Direction, Reach
    <3>3. \A j \in DOMAIN column : CollidesWith(j) => (Tested(j)' <=> Tested(j))
      BY <3>1, <2>2, <1>0 DEF Tested
    <3>4. TurnedBy(i)
      BY <1>0, <3>2, <3>3 DEF TurnedBy
    <3> QED
      BY <3>1, <3>4, <1>0 DEF TurnedRound, PointsAway, Direction
  <2> QED
    BY <2>1, <2>2
<1>4. CASE CollideWithUnits
  <2>1. UNCHANGED <<y, velocity, nan, column>> /\ obstacle = Len(column) + 1 /\ obstacle' = 0
    BY <1>4 DEF CollideWithUnits
  <2>2. \A j \in DOMAIN column : Tested(j) /\ Tested(j)' /\ (CollidesWith(j)' <=> CollidesWith(j))
    BY <2>1, <1>0 DEF CollidesWith, CollidesAt, Distance, Direction, Reach, Tested
  <2>3. TurnedBy(i)
    BY <1>0, <2>2 DEF TurnedBy
  <2> QED
    BY <2>1, <2>3, <1>0 DEF TurnedRound, PointsAway, Direction
<1> QED
  BY <1>1, <1>2, <1>3, <1>4 DEF Next

\* A unit that coasts for one short frame keeps the direction of its velocity.
LEMMA BrakeKeepsDirection ==
    ASSUME TypeOK, NEW d \in Frames, Short(d), acceleration = 0
    PROVE  /\ Accelerated(d) \in Int
           /\ velocity >= 0 => Accelerated(d) >= 0
           /\ velocity <= 0 => Accelerated(d) <= 0
<1> USE PhysicsAssumption
<1> DEFINE change == (acceleration - velocity * Brake) * d
<1>1. d \in Nat /\ velocity \in Int /\ Brake * d \in Nat /\ Brake * d <= Second
  BY DEF TypeOK, Short
<1>2. change \in Int /\ change = -(velocity * (Brake * d))
  BY <1>1
<1> HIDE DEF change
<1>3. Accelerated(d) = Limited(velocity + Quotient(change, Second))
  BY DEF Accelerated, change
<1>4. Quotient(change, Second) \in Int
  BY <1>2, QuotientSign
<1> DEFINE q == Quotient(change, Second)
<1>5. CASE velocity >= 0
  <2>1. velocity * (Brake * d) \in Nat /\ velocity * (Brake * d) <= velocity * Second
    BY <1>1, <1>5, Multiples
  <2>2. velocity \in Nat /\ change <= 0 /\ -change <= velocity * Second
    BY <1>1, <1>2, <1>5, <2>1
  <2>3. q \in -velocity..0
    BY <2>2, <1>2, QuotientBounds
  <2> HIDE DEF q
  <2>4. velocity + q \in Nat /\ (velocity = 0 => velocity + q = 0)
    BY <2>2, <2>3
  <2>5. velocity + q \in Int /\ Accelerated(d) = Limited(velocity + q)
    BY <1>3, <2>4 DEF q
  <2> QED
    BY <1>1, <1>5, <2>4, <2>5, LimitedIsBounded
<1>6. CASE velocity < 0
  <2>1. (-velocity) * (Brake * d) \in Nat /\ (-velocity) * (Brake * d) <= (-velocity) * Second
    BY <1>1, <1>6, Multiples
  <2>2. -velocity \in Nat /\ change >= 0 /\ change <= (-velocity) * Second
    BY <1>1, <1>2, <1>6, <2>1
  <2>3. q \in 0..-velocity
    BY <2>2, <1>2, QuotientBounds
  <2> HIDE DEF q
  <2>4. velocity + q \in Int /\ velocity + q <= 0
    BY <1>1, <2>3
  <2>5. Accelerated(d) = Limited(velocity + q)
    BY <1>3 DEF q
  <2> QED
    BY <1>1, <1>6, <2>4, <2>5, LimitedIsBounded
<1> QED
  BY <1>1, <1>5, <1>6

\* A velocity takes a unit no further towards what is behind it.
LEMMA WaysFollowVelocity ==
    ASSUME TypeOK, NEW d \in Frames, NEW v \in Int
    PROVE  /\ Within(y + Quotient(v * d, Second)) \in Int
           /\ v >= 0 => Within(y + Quotient(v * d, Second)) >= y
           /\ v <= 0 => Within(y + Quotient(v * d, Second)) <= y
<1> USE PhysicsAssumption
<1> DEFINE way == v * d
           q == Quotient(way, Second)
<1>1. y \in Int /\ Low <= y /\ y <= High /\ Low \in Int /\ High \in Int
  BY DEF TypeOK
<1>2. way \in Int /\ (v >= 0 => way >= 0) /\ (v <= 0 => way <= 0)
  OBVIOUS
<1> HIDE DEF way
<1>3. q \in Int /\ (way >= 0 => q >= 0) /\ (way <= 0 => q <= 0)
  BY <1>2, QuotientSign
<1> HIDE DEF q
<1>4. /\ Within(y + q) \in Int
      /\ v >= 0 => Within(y + q) >= y
      /\ v <= 0 => Within(y + q) <= y
  BY <1>1, <1>2, <1>3 DEF Within
<1> QED
  BY <1>4 DEF q, way

\* A unit nobody pushes keeps its distance from the obstacle that turned it
\* round, in frames of at most the brake's time.
THEOREM CoastersKeepOut == Spec => CoastersDoNotSink
<1>1. ASSUME IInv, [Next]_vars, obstacle = 0, obstacle' = 1, coasted', nan = "none",
             NEW i \in DOMAIN column, LastTouched(i)
      PROVE  Distance(y', i) >= Distance(y, i)
  <2> USE PhysicsAssumption
  <2>a. TypeOK /\ TurnedRound /\ y \in Int
    BY <1>1 DEF IInv, TypeOK
  <2>b. TurnedBy(i)
    BY <1>1 DEF TurnedBy, LastTouched, Tested
  <2>0. TypeOK /\ y \in Int /\ PointsAway(i)
    BY <1>1, <2>a, <2>b DEF TurnedRound
  <2>c. DOMAIN column = 1..Len(column) /\ Len(column) \in Nat
    BY <2>a DEF TypeOK
  <2>1. PICK d \in Frames : Move(d)
    <3>1. ~TestObstacle /\ ~CollideWithUnits
      BY <1>1, <2>c DEF TestObstacle, CollideWithUnits
    <3>2. ~SetAcceleration /\ ~UNCHANGED vars
      BY <1>1 DEF SetAcceleration, vars
    <3> QED
      BY <1>1, <3>1, <3>2 DEF Next
  <2>2. CASE ~Moving
    <3>1. y' = y
      BY <2>1, <2>2 DEF Move
    <3>2. Distance(y, i) \in Nat
      BY <1>1, <2>0, GeometryTypes DEF TypeOK
    <3> QED
      BY <3>1, <3>2
  <2>3. CASE Moving
    <3> DEFINE v == Accelerated(d)
    <3>1. y' = Within(y + Quotient(v * d, Second)) /\ acceleration = 0 /\ Short(d)
      BY <1>1, <2>1, <2>3 DEF Move
    <3>2. v \in Int /\ (velocity >= 0 => v >= 0) /\ (velocity <= 0 => v <= 0)
      BY <2>0, <3>1, BrakeKeepsDirection
    <3> HIDE DEF v
    <3>3. y' \in Int /\ (v >= 0 => y' >= y) /\ (v <= 0 => y' <= y)
      BY <2>0, <3>1, <3>2, WaysFollowVelocity
    <3>4. /\ Position(y) \in Int /\ Position(y') \in Int
          /\ y' >= y => Position(y') >= Position(y)
          /\ y' <= y => Position(y') <= Position(y)
      <4>1. Grain \in Nat \ {0}
        OBVIOUS
      <4>2. Position(y) \in Int /\ Position(y') \in Int
        BY <2>0, <3>3, <4>1 DEF Position
      <4>3. y' >= y => Position(y') >= Position(y)
        BY <2>0, <3>3, <4>1, <4>2, DivisionIsMonotone DEF Position
      <4>4. y' <= y => Position(y') <= Position(y)
        BY <2>0, <3>3, <4>1, <4>2, DivisionIsMonotone DEF Position
      <4> QED
        BY <4>2, <4>3, <4>4
    <3>5. column[i].centre \in Int
      BY <2>0, ColumnTypes DEF TypeOK
    <3>6. CASE Direction(y, i) < 0
      BY <2>0, <3>2, <3>3, <3>4, <3>5, <3>6 DEF PointsAway, Distance, Direction, Abs
    <3>7. CASE Direction(y, i) >= 0
      <4>1. ~(Direction(y, i) < 0)
        BY <3>4, <3>5, <3>7 DEF Direction
      <4> QED
        BY <2>0, <3>2, <3>3, <3>4, <3>5, <3>7, <4>1 DEF PointsAway, Distance, Direction, Abs
    <3> QED
      BY <3>4, <3>5, <3>6, <3>7 DEF Direction
  <2> QED
    BY <2>2, <2>3
<1>2. IInv /\ [Next]_vars =>
        [obstacle = 0 /\ obstacle' = 1 /\ coasted' /\ nan = "none" =>
            \A i \in DOMAIN column : LastTouched(i) => Distance(y', i) >= Distance(y, i)]_vars
  BY <1>1
<1>3. Init => IInv
  BY InitTypes, InitTurned DEF IInv
<1>4. IInv /\ [Next]_vars => IInv'
  BY NextTypes, NextTurned DEF IInv
<1> QED
  BY <1>2, <1>3, <1>4, PTL DEF Spec, CoastersDoNotSink
=============================================================================
