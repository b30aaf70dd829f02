# A verification development for footscreen

footscreen is a game played with the feet: a projector shows a floor on which
sheep try to cross and hunters try to touch them, a depth camera sees where a
player steps, and a game server plays the rules and shows every client the
same board. The code is under `src/`; this directory holds TLA+ models of it,
the TLC runs that check them and the proofs that TLAPS checks.

## 1. Inventory

### Threads

| Thread | Runs | Started by |
|---|---|---|
| user interface | `Application::loop`, the calls of `GameClient`, `GameServer::startGame` | `main` |
| game | `GameServer::loop`: `Game::proceed`, then broadcast, every 20 ms | `GameServer::run` |
| server network | `NetworkServer::run`: accepts sessions, runs their handlers | `GameNetworkServer::run` |
| client network | `NetworkClient::run`: connects, reads, writes, again and again | `GameNetworkClient::run` |

### Components

* **NetworkServerSession** keeps `m_writeMessageQueue` for one client, with a
  mutex. `deliver` is called by the game thread (broadcast) and the network
  thread (greeting); `handleWrite` pops the front and starts the next write.
  Correct if the client reads what was delivered, in order, whole and once.
* **NetworkClient** (behind `GameNetworkClient` and `GameClient`) keeps the
  address, an `io_service` and a socket per attempt, `m_isConnected` and a write
  queue. The UI thread sets the address, spins in `send`, posts `unload`.
  Correct if nothing is used after it is gone, a message accepted is written,
  and a lost connection brings the thread back.
* **GameServer / GameNetworkServer / NetworkServer** hold the game, the player
  profiles, the sessions and `m_stopMutex`. Correct if greeting, broadcast and
  stop cannot meet in a state where what one needs is missing.
* **Game on the server** holds units, flags, `m_durationTimer` and the score.
  Correct if arrivals, deaths and score agree with where the units have been.
* **GameUnit and GameObstacle** hold position, velocity and acceleration of a
  unit, centre and radius of an obstacle. Each frame `proceed` moves every unit,
  turns it round at the walls and then at each obstacle it overlaps; the network
  thread sets accelerations meanwhile. Correct if a unit stays on the floor,
  below its speed limit, and does not sink into obstacles.
* **Game on the client** holds its own list of units and obstacles, filled by
  `handleGameUnit` and `handleGameObstacle`. Requests name units by their index
  in it. Correct if it converges to the server's game and indices mean the same
  on both sides.
* **Message** takes a lock per item while it is sent, so copies of one item
  leave in the order in which they were taken.
* **Application / Calibration** run the wizard (eight clicks, two homographies)
  and then, for every frame, touch recognition and requests. Correct if frames
  wait for the wizard and only a touch selects a unit.
* **GameNetworkInterface / MessageHandler** dispatch messages to handlers from a
  list that is copied under a mutex and used after it. On a client each unit
  registers a handler of its own when its first message creates it, and removes
  it when it is destroyed. Correct if a message reaches the living object it is
  about, and handling one always ends.
* **SkeletonTracker, KinectMotor** are not instantiated. **DepthCamera,
  Logging, main** are input and output.

### Interaction

Application calls GameClient and GameServer directly. The two meet only through
TCP: requests up (`MoveRequest`, `HighlightRequest`, answered in
`GameServer::handleMoveRequest`), items and the player ID down. Components above
the network are told of events by boost signals, called on the network threads.
`PROJECT.json` lists what is hard to test in this, each at its line.

## 2. The modules

| Module | Models | Sources |
|---|---|---|
| `MessageStream` | abstract: a reliable ordered stream of messages | what `send` and `onMessageReceived` promise |
| `NetworkServerSession` | write queue, two delivering threads, partial writes, the client's read loop | `NetworkServerSession.cpp`, reading in `NetworkClient.cpp` |
| `NetworkClient` | attempts to connect and everything that can end one | `NetworkClient.cpp` |
| `GameReplication` | broadcast, greeting, requests and the clients' lists, over ordered connections | `GameServer.cpp`, `GameNetworkServer.cpp`, `Message.cpp`, `Game.cpp`, `Application::processFrame` |
| `ReplicatedGame` | abstract: one game and copies that follow it | what the broadcast promises the clients |
| `Game` | the rules: movement, arrival, collision, time, score, start | `Game.cpp`, `GameUnit.cpp` |
| `GameUnit` | how a unit moves: acceleration, brake, walls, a line of obstacles | `GameUnit.cpp`, `GameObstacle.cpp`, `Game::proceed`, `GameServer::handleMoveRequest` |
| `GameServer` | start-up, loop, network thread, stop | `GameServer.cpp`, `NetworkServer.cpp` |
| `Application` | wizard, touch calibration, frames | `Application.cpp`, `Calibration.cpp` |
| `MessageDispatch` | a client's handlers, units and list between network thread and user interface, `GameClient::stop` | `GameNetworkInterface.cpp`, `MessageHandler.cpp`, `Message.cpp`, `GameClient.cpp`, `GameNetworkClient.cpp`, `Game.cpp` |
| `NetworkServerSessionProofs`, `NetworkClientProofs`, `GameReplicationProofs`, `GameProofs`, `GameUnitProofs`, `GameServerProofs`, `ApplicationProofs`, `MessageDispatchProofs` | theorems | |

`MC...` modules give the constants of a module their values for TLC; modules
without one take theirs from the `.cfg` alone. Operators marked *mutant* are
wrong versions of the definition that follows them, as a programmer might have
written it; no specification uses them. They show that each property depends on
the code it is about.

How code and model correspond:

* **Variables** carry the code's member names. What is not a member is either a
  thread's place in its code (`phase`, `ui`, `loop`, `net`, `broadcast`,
  `greeting`), what the library holds (`posted`, `wire`, `writes`), or history
  used only by properties (marked so).
* **One action** is what a thread does without another being able to see or
  change what it uses. `deliver`, `handleWrite` and the other bodies under one
  mutex are one action. `Game::start` is two, and so is a frame of
  `Game::proceed`, because neither takes a lock: `proceed` reads flag and timer
  (`ReadTimer`) and acts on what it has read (`Finish` or `Proceed`), and `start`
  sets the flag and restarts the timer; either may run between the halves of the
  other. `NetworkClient::send` and `stop` are a test
  and, later, a post. A broadcast is one action per item and receiver, a
  greeting one per item. The handlers of one `io_service` never run together.
* **Numbers.** `GameUnit` replaces floats by integers in a small unit and rounds
  products towards zero; `position()`, which the code truncates to whole pixels
  before it measures a distance, is truncated there too. A velocity or a
  position that is not a number is a flag (`nan`); what is compared with it is
  false, as in the code.
* **Undefined behaviour** is a choice. Use of a deleted object may go unnoticed
  or set `crashed`; use of an empty pointer sets it. `unload` and `release`
  delete the `io_service` that is running them, so each may end the program.
* **Composition.** `GameReplication` assumes what `NetworkServerSession` is
  proved to provide (`SessionIsAStream`): its connections are sequences. It
  keeps of a unit only how often it was changed; `Game` says how the rules
  change it. `Game` lets a living unit go anywhere within the walls and ignores
  obstacles; `GameUnit` follows one unit through the same frame, move, walls,
  obstacles, and takes from `Game` that a collision of units may kill it.
  `Application` says when a frame is processed, `GameReplication`
  what it requests. `GameReplication`'s `HandleMessage` is one step of a client;
  `MessageDispatch` shows what it takes (`ShowsLatest`), and that it ends.

## 3. The runs

| Run | Instance | Shows |
|---|---|---|
| `session` | two messages, 3 deliveries, sockets holding 3 pieces | one write at a time whose buffer is the live front; no lost wakeup; nothing skipped, doubled or out of its place; refines `MessageStream`; delivered messages arrive unless the link breaks |
| `client` | 3 connects, 4 sends, 2 disconnects | no write without socket, one at a time and of a queued message; the first connection writes what is queued; no address forgotten; lost connections return the thread |
| `client_again` | 2 connects | **violated**: a queue left from a lost connection blocks all later messages |
| `client_listening` | 1 connect | **violated**: `isConnected` stays true after a read error |
| `replication_one` | one client, 2 units and an obstacle, 2 frames | convergence; exactly one highlight; a client accepted between passes moves what it touched |
| `replication_two` | two clients, one unit each | items never go backwards, and nobody moves another player's unit; refines `ReplicatedGame`, in which an item is listed once |
| `replication_touch` | as `replication_one` | **violated**: a client accepted during a pass moves another unit than it touched |
| `game` | 2 sheep, 1 hunter, 4 places, 2 starts | arrivals, deaths, score and time agree; a started game ends, and before its time only by a frame that `start` overlapped |
| `unit` | the column x = 240 of levels 2 and 3 | a unit stays inside the walls and below the speed limit, also pushed and in long frames; unless it is pushed it sinks into no obstacle and never gets a NaN |
| `server` | own and foreign client, 2 stops | no broadcast through a deleted server; own client greeted with a loaded level; the loop ends |
| `application` | 2 places to click, 2 scenes | frames use matrices of exactly eight clicks; the wizard ends; the calibrated floor is no touch |
| `dispatch` | 2 units, 4 messages | only living units are registered; the client shows the last message of each; a dispatch ends |

### Bounds, and why they are enough

* `MaxDeliveries = 3`: a message being written, one queued behind it and one
  arriving at the moment of the callback. `Window = 3` pieces is less than two
  messages, so a writer stops in the middle of one and a reader too. Two
  messages make an exchange visible.
* `MaxConnects = 3`: whatever a connection leaves behind meets the next one, and
  what that one leaves the one after it. Four sends put one message under way,
  one behind it and one after each loss.
* One client and three items give every relative position of one greeting and
  one broadcast pass; two clients show what one sees of the other's. `Backlog`
  bounds messages under way: a thread that would send more waits, which removes
  no order in which messages can be handled. `MaxTicks`, `MaxFrames` bound how
  often the game changes.
* Two sheep let one arrive while the other dies; four places leave room before
  the goal and beside the hunter. Collision there is standing on the same place.
  `Limit = 2` separates early, last and late frames. `MaxStarts = 2` gives a
  start and a restart at any time.
* `GameUnit` runs with the code's numbers divided by four (radius 2, speed limit
  27.5 pixels per second, walls at 1 and 119) in half pixels, frames of 50 ms,
  which the brake allows, and of 150 ms, which it does not. Every start on the
  line is an initial state. Level 2 has a single obstacle there, level 3 two
  pairs that overlap each other, whose order of testing matters.
* Four messages of two units and a player ID: both units are created, and one of
  them is updated before or after the other appears; or one unit is created,
  taken away by `stop` and created again.
* `MaxStops = 2`: the second stop meets what the first has left.
* Counters that TLC would otherwise let grow have a guard with the bound's name.

`CHECK_DEADLOCK FALSE` is set where the bounds or the program end all activity:
the user has made all calls, the game is over, the program has crashed or was
quit. `GameReplication` broadcasts and `GameUnit` plays for ever; both are checked for
deadlock.

### Fairness

Threads run and `io_service::run` calls every ready handler: weak fairness of
each thread. Nothing the user does is fair: no clicks, keys, connects, sends or
stops are promised. A `start` once called returns. `GameReplication` assumes strong fairness of the greeting,
which competes with the game thread for the lock of one item at a time; the game
thread sleeps 20 ms in every pass without holding any. In `Game` the clock and
the game thread are fair, and since starts are bounded it is not reset for ever: a player who
presses `r` every minute does prevent the end. In `GameServer` nothing promises
that `stop` gets the mutex, which the loop releases only to take it again.

## 4. The proofs

All theorems hold for every value of the constants that satisfies the named
assumptions; these say only that numbers are numbers, that clients and items are
finitely many and that placeholders differ from what they stand for, and for `Game` what every level of `Game::load`
provides (`LevelAssumption`: nobody starts in the goal or in reach of a hunter).

**NetworkServerSession.** The checked invariants are not inductive: that the
wire ends with the right piece depends on where each delivered message is now.
`IInv` adds that: `QueueInv` (the queue is the delivered messages that have not
been popped), `WriteInv` (at most one write, of the front, and how many pieces
the wire then holds), `WireInv` (message *k* is pieces *2k-1* and *2k*) and
`ReadInv` (the reader is at a message boundary when it expects a header).
From it follow `TypeCorrect`, `WritesAreExclusive`, `BufferStaysAlive`,
`NoLostWakeup`, `NoMessageSkipped`, and `SessionIsAStream`: the session
implements `MessageStream`, with the delivered messages as the ones sent.
`NoMessageSkipped` compares contents: the queue is the delivered messages from
the first unpopped one on, in their order, and every popped message stands on
the wire, header and body, where its number puts it.

**Game.** `IInv` is the conjunction of the checked invariants and `FrameInv`: a
frame is under way only in a started game that has not ended. `GoalIsArrival`
needs that what has arrived does not move, `ScoreIsFinal` needs
`GoalMeansArrived` (the flags that are counted are the positions) and that
nothing moves once the score is printed. `LivingUntouched` rests on the
collisions being tested after all moves. `EarlyEnd` is an action property. It
needs `TimerInv` beside `IInv`: once `start` has returned the timer shows no more than the time
since, so a frame that is about to end the game and that no `start` overlapped
has read the timer of a game that has lasted its time. `LastTime`: a time of the last arrival is
kept exactly if there was one.

**GameUnit.** `TypeCorrect` says that a unit stays between the walls and below
the speed limit, for any obstacles, accelerations and lengths of frames: the
clamps come last on each path, and turning round keeps the speed.
`CoastersKeepOut` needs `TurnedRound`: the velocity points away from the last
obstacle that the unit overlaps and that has been tested in this frame. A frame
within the brake's limit cannot reverse it, so the truncated distance does not
shrink. Quotients are nonlinear and stay behind lemmas on division.

**NetworkClient.** The flag `isConnected` is no proof of a socket by itself:
`IInv` adds `SocketInv` (an operation outstanding has a socket), `OutcomeInv`
(no outcome before `async_connect` completes), `ServedInv` (outside its wait
`run` has read the address it will clear) and `FirstAttempt` (before the first
connection stands, nothing is queued). From it `WritesSafe`, `FirstConnection`,
`AddressKept` and `SingleOutcome` (an attempt is not reported as failed and
established).

**GameReplication.** `OnlyNewer` needs to know what is under way. `Newest(i)` is
the newest state of item *i* that can have been sent: the broadcast's copy while
it holds the item's mutex, the server's state otherwise. `VersionsInv`: from the
client's copy along its connection to the last message, the states of an item
rise up to `Newest(i)`. Each thread sends `Newest(i)`, and `Newest(i)` never
falls. `ListedOnce` follows from the lookup before the append.
`ReplicasOfOneGame` shows that the model implements `ReplicatedGame`, with the
server's versions as the game and the clients' copies and lists as the replicas.
A handled message is a step of one replica, because its version lies between the
copy and `Newest(i)`, hence between the copy and the server's item; a frame of
the rules and a request are changes of the game; everything else stutters.

The index of a unit is its rank among the places of the player's units
(`PlacesOf`, `UnitByIndex`). Ranks number a finite set of places from 1 on, each
once (`RanksNumber`), from which `UnitByIndexFinds` says what a lookup returns
and when it is empty, `SameOrderSameUnit` that a list in the server's order finds
the server's unit, and `ServerHasAsMany` that the server has every unit that a
client can ask for. On these rest three invariants:

* `AcceptInv`: a client that has no profile has heard and asked nothing, and one
  that has is told no player ID but its own, which nobody shares (`PlayerIDs`).
  Without it a request could be for another player's units.
* `HighlightInv`: requests under way are the rest of a frame and whole frames
  behind it, the last of them cut short if the client died in it, for units the
  server has (`RequestInv`). The highlighted units of a
  player are among those the rest of the frame has still to put out, and once
  nothing is under way there is exactly one (`LightInv`). This is what
  `OneUnitHighlighted` says only of the end; it is not inductive without the
  middle. It gives `OneHighlight` and, with `MoveInv`, `OwnMoves`.
* `CleanInv`, for the clients accepted while the game thread was between two
  passes: list and messages mention no item before all items in front of it
  (`InOrder`), and whatever the broadcast or the greeting sends next does so too
  (`ToCome`): where the broadcast stands, the client has heard of everything
  before it, whoever sent it. Hence the list is the server's, a request under way
  names the unit that was touched (`MovesTouched`), and `CleanMoves` follows.

A frame that dies at an empty pointer leaves its first requests behind
(`HighlightOff`), so only the requests of a living client are whole frames at
their end (`Complete`).

`TypeCorrect` contains the bounds. That no more clients have profiles than exist
is an injection. How often an item changes is paid for: `BoundInv` says that a
unit's changes, plus one while it is lit, plus two for every highlight under way,
are at most the ticks and twice the frames of its player, since a frame takes the
light from one unit and gives it to one.

**GameServer.** `BroadcastIsSafe` needs `MutexInv` (who holds `m_stopMutex` when
a thread stands where) and `ReleaseInv` (sessions are deleted only after a stop
has posted `release`, and then the stop still holds the mutex or the server
pointer is empty). `StopExcludesLoop` (no frame is
played while `stop` is under way) follows from the same. `OwnClientGreeted`
needs `OwnInv`: the own client connects after the signal is connected and the
level is loaded, and one client is greeted at a time.

**Application.** `WizardInv`: the flags never fall behind the lists of points,
and once the matrices are computed there is nothing left to click; hence
`FramesCalibrated`. `StillFloor` adds `BackgroundInv`: what a frame is compared
with was amplified once, or is what the constructor found in memory, which shows
no scene (`SceneAssumption`).

**MessageDispatch.** `NoDestroyedHandler`: `~Message` removes handlers by message
ID, so `IInv` adds that a unit's handler carries the unit's ID (`RegisteredByID`)
and that the unit being created is alive and not yet in the list that a reset
empties (`InHand`). `LatestShown` follows the message in hand while the user
interface only renders: all earlier messages are shown (`EarlierShown`), the
units of the list are registered and no two share an ID (`ListInv`), and the
copy of the handlers still holds one that will show this message, or the unit is
being created behind it (`WillBeShown`). `TypeCorrect` bounds the list by the
number of units. Counting the pointers would not do: `stop` empties them while
the network thread may be creating one more. `PlacesInv` gives every place,
emptied or not, a unit of its own, and none the unit being created; such a choice
survives each reset, and one more place is found at `push_back` because
`handleGameUnit` has seen every place with the pointer still in it.

Model-checked only:

* all liveness (`EventuallyReceived`, `LossFreesThread`, `DispatchEnds`,
  `Converges`, `StartedFinishes`, `LoopEnds`, `WizardEnds`): TLAPS has no
  fairness reasoning here;
* `OnlyPushedUnitsBreak`: it does not hold for every size of obstacles, since a
  unit fast or small enough crosses one in a single frame.

## 5. Where code and documentation disagree

Three runs expect a violation; `PROJECT.json` quotes the lines.

1. After a reconnection nothing is sent any more if the lost connection left a
   message queued (`NetworkClient.cpp:281`).
2. `isConnected` is not cleared by a read error (`NetworkClient.cpp:197`).
3. A client that joins during a broadcast pass numbers its units differently
   from the server (`GameNetworkServer.cpp:124`).

Seen in the models and stated by no run: `start` sets its flag before it restarts
the timer (`Game.cpp:356`), and `proceed` tests the timer before it ends the game
(`Game.cpp:255`), so a frame that has read the old timer may end a game that has
just begun, also after `start` has returned; `EarlyEndOnlyAcrossStart` narrows
this down to that one frame;
`separateFrom` returns for every unit that overlaps an obstacle, so a unit that
is pushed on sinks in, and at the very centre `reflectOn` makes its velocity a
NaN and takes it out of the game; a frame of more than 100 ms lets the brake
reverse a unit; a second `GameServer::stop` waits for
ever for the mutex that `loop` returned with; `send` spins for ever if the
connection fails; an address that cannot be resolved is given up without
`onConnectionFailed`; a session whose write failed goes on queueing; the frame
that makes `detectTouch` calibrate compares an image amplified twice with one
amplified once; `processFrame` never reads `m_isTouching` and takes the point of
a frame without touch for one; `GameClient::stop` may destroy units that a
dispatch is about to update, reset pointers that `unitByID` looks into, and
delete the `GameNetworkClient` that a later message or `unload` calls; the user
interface walks through `m_gameUnits` while the network thread extends it; a
foreign client that connects during start-up may never be
greeted or may crash the server.

## 6. Not modelled

* Movement to the side and oblique reflections (`reflectOn` off the line through
  two centres): floating-point geometry. `Game` lets a unit go anywhere within
  the walls, which includes them.
* `SkeletonTracker` and `KinectMotor`: nothing creates them but commented-out
  code, so there is no caller whose order of calls a model could follow.
  `DepthCamera`, `Logging` and `main` are input, output and a loop.
* `render`, and the wording of messages.
* Rendering, windows, screenshots, logging; image processing beyond "differs or
  not"; the matrices' arithmetic; serialised fields of messages.
* Reallocation of `m_playerProfiles` while the game thread iterates over it.
* `GameNetworkServer::send` to a single player, whose test of the profile is
  inverted: nothing calls it. Likewise `reconnectToServer`.
* The keys w, a, s, d, space, h and u (`Application.cpp:279-309`), which send
  requests for the unit at index 0 to try the game without a camera. Each such
  pass of the loop goes on to `processFrame`, whose requests are modelled.

The other way round, `GameServer::stop` and `GameClient::stop` are modelled
although no path of the program reaches them today: the body of `~Application`,
which calls them, is commented out (`Application.cpp:397-408`).

## 7. Plan

1. `ReplicatedGame` keeps lists and versions; the highlight could be part of the
   game it abstracts, with `HighlightInv` as the inductive part.
2. An abstract client session for `NetworkClient`, as `MessageStream` is for
   `NetworkServerSession`, up to the loss of a connection.
3. A composition of `GameServer` and `NetworkServerSession`: release against
   sessions that are being written.
4. Movement in the plane, should distances be turned into integers by the code.
5. `SkeletonTracker`, should the program create one: a user's states against
   late callbacks.
