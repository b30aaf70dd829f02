------------------------ MODULE NetworkClientProofs ------------------------
(***************************************************************************)
(* Proofs about NetworkClient, for any number of connects, sends and       *)
(* disconnects.                                                            *)
(***************************************************************************)
EXTENDS NetworkClient, TLAPS

\* What one attempt has not yet done before its connection stands.
Fresh == /\ ~isConnected /\ ~linkUp
         /\ queued = 0 /\ writing = 0
         /\ uiStep # "send"
         /\ \A i \in DOMAIN posted : posted[i] # Deliver

\* Nothing is connected before the first call of connectToServer, and with only
\* one call there is one attempt, which finds the queue empty.
FirstAttempt ==
    /\ calls.connect = 0 => Fresh /\ phase = "waiting" /\ ~addressSet /\ ~connecting
    /\ calls.connect = 1 =>
        ((phase = "waiting" /\ addressSet) \/ phase = "resolving" \/ connecting => Fresh)

\* An operation outstanding on the socket means that there is one.
SocketInv == connecting => socket # "null"

\* An attempt has no outcome before async_connect completes.
OutcomeInv ==
    phase = "resolving" \/ connecting => signals \cap {"established", "failed"} = {}

\* Outside its wait, run has read the address it will clear.
ServedInv == phase # "waiting" => served

IInv ==
    /\ TypeOK /\ SocketInv /\ WritesAreSafe
    /\ OutcomeInv /\ OneOutcome
    /\ ServedInv
    /\ FirstAttempt /\ FirstConnectionWrites

LEMMA InitInv == Init => IInv
<1> SUFFICES ASSUME Init  PROVE IInv
  OBVIOUS
<1>1. posted = <<>> /\ posted \in Seq({Deliver, Unload, UnloadFailed})
  BY DEF Init
<1>2. TypeOK
  <2>1. calls \in [connect : 0..MaxConnects, send : 0..MaxSends, stop : 0..MaxStops]
    BY BoundAssumption DEF Init
  <2>2. addressSet \in BOOLEAN /\ connecting \in BOOLEAN /\ reading \in BOOLEAN /\ isConnected \in BOOLEAN
    BY DEF Init
  <2>3. linkUp \in BOOLEAN /\ served \in BOOLEAN /\ crashed \in BOOLEAN
    BY DEF Init
  <2> QED
    BY <1>1, <2>1, <2>2, <2>3 DEF Init, TypeOK
<1>3. SocketInv /\ WritesAreSafe /\ OutcomeInv /\ OneOutcome /\ ServedInv
  BY DEF Init, SocketInv, WritesAreSafe, OutcomeInv, OneOutcome, ServedInv
<1>4. FirstAttempt /\ FirstConnectionWrites
  BY <1>1 DEF Init, FirstAttempt, Fresh, FirstConnectionWrites, QueuedIsWritten
<1> QED
  BY <1>2, <1>3, <1>4 DEF IInv

LEMMA EmptyPosted == <<>> \in Seq({Deliver, Unload, UnloadFailed})
OBVIOUS

LEMMA AppendPosted ==
    ASSUME posted \in Seq({Deliver, Unload, UnloadFailed}),
           NEW h \in {Deliver, Unload, UnloadFailed}, posted' = Append(posted, h)
    PROVE  /\ posted' \in Seq({Deliver, Unload, UnloadFailed})
           /\ (h # Deliver /\ \A i \in DOMAIN posted : posted[i] # Deliver) =>
                \A i \in DOMAIN posted' : posted'[i] # Deliver
OBVIOUS

LEMMA TailPosted ==
    ASSUME posted \in Seq({Deliver, Unload, UnloadFailed}), posted # <<>>, posted' = Tail(posted)
    PROVE  posted' \in Seq({Deliver, Unload, UnloadFailed})
OBVIOUS

LEMMA NextTypes == TypeOK /\ WritesAreSafe /\ [Next]_vars => TypeOK'
<1> SUFFICES ASSUME TypeOK, WritesAreSafe, [Next]_vars
             PROVE  TypeOK'
  OBVIOUS
<1> USE BoundAssumption DEF TypeOK
<1>1. CASE ConnectToServer
  <2>1. calls' \in [connect : 0..MaxConnects, send : 0..MaxSends, stop : 0..MaxStops]
    BY <1>1 DEF ConnectToServer
  <2>2. addressSet' \in BOOLEAN /\ served' \in BOOLEAN
    BY <1>1 DEF ConnectToServer
  <2> QED
    BY <1>1, <2>1, <2>2 DEF ConnectToServer
<1>2. CASE BeginSend
  BY <1>2 DEF BeginSend, ioVars
<1>3. CASE SeesConnected
  BY <1>3 DEF SeesConnected, ioVars
<1>4. CASE BeginStop
  BY <1>4 DEF BeginStop, ioVars
<1>5. CASE StopWithoutService
  BY <1>5 DEF StopWithoutService
<1>6. CASE Post
  BY <1>6, AppendPosted DEF Post, ioVars
<1>7. CASE Load
  BY <1>7 DEF Load
<1>8. CASE Resolved
  BY <1>8 DEF Resolved
<1>9. CASE ResolveFails
  BY <1>9, AppendPosted DEF ResolveFails
<1>10. CASE RunReturns
  BY <1>10 DEF RunReturns
<1>11. CASE Finish
  <2>1. addressSet' \in BOOLEAN
    BY <1>11 DEF Finish
  <2> QED
    BY <1>11, <2>1, EmptyPosted DEF Finish
<1>12. CASE HandleConnect
  BY <1>12 DEF HandleConnect
<1>13. CASE HandleConnectError
  <2>1. posted' \in Seq({Deliver, Unload, UnloadFailed})
    BY <1>13, AppendPosted DEF HandleConnectError
  <2>2. connecting' \in BOOLEAN /\ signals' \subseteq {"established", "failed", "closed"}
    BY <1>13 DEF HandleConnectError, FailedSignal
  <2> QED
    BY <1>13, <2>1, <2>2 DEF HandleConnectError
<1>14. CASE HandleReadError
  BY <1>14 DEF HandleReadError, ReadsAfterError
<1>15. CASE HandleWrite
  BY <1>15 DEF HandleWrite, WritesAreSafe
<1>16. CASE HandleWriteError
  BY <1>16 DEF HandleWriteError
<1>17. CASE RunDeliver
  BY <1>17, TailPosted DEF RunDeliver
<1>18. CASE RunUnload
  <2>1. connecting' \in BOOLEAN /\ reading' \in BOOLEAN /\ isConnected' \in BOOLEAN
    BY <1>18 DEF RunUnload, ConnectedAfterUnload
  <2>2. linkUp' \in BOOLEAN /\ crashed' \in BOOLEAN /\ signals' \subseteq {"established", "failed", "closed"}
    BY <1>18 DEF RunUnload
  <2> QED
    BY <1>18, <2>1, <2>2, EmptyPosted DEF RunUnload
<1>19. CASE LinkLost
  BY <1>19 DEF LinkLost
<1>20. CASE UNCHANGED vars
  BY <1>20 DEF vars, ioVars
<1> QED
  BY <1>1, <1>2, <1>3, <1>4, <1>5, <1>6, <1>7, <1>8, <1>9, <1>10, <1>11, <1>12, <1>13, <1>14,
     <1>15, <1>16, <1>17, <1>18, <1>19, <1>20 DEF Next, UI, Run, Posted, Completions

-----------------------------------------------------------------------------
(* The rest of the invariant, one step per action. *)

LEMMA NextInv == IInv /\ [Next]_vars => IInv'
<1> SUFFICES ASSUME IInv, [Next]_vars
             PROVE  IInv'
  OBVIOUS
<1>0. TypeOK /\ TypeOK'
  BY NextTypes DEF IInv
<1> USE <1>0 DEF IInv, TypeOK, SocketInv, WritesAreSafe, OutcomeInv, OneOutcome, ServedInv,
                 FirstAttempt, Fresh, FirstConnectionWrites, QueuedIsWritten
<1>1. CASE ConnectToServer
  BY <1>1 DEF ConnectToServer, MutexFree
<1>2. CASE BeginSend
  BY <1>2 DEF BeginSend, ioVars
<1>3. CASE SeesConnected
  BY <1>3 DEF SeesConnected, ioVars
<1>4. CASE BeginStop
  BY <1>4 DEF BeginStop, ioVars
<1>5. CASE StopWithoutService
  BY <1>5 DEF StopWithoutService
<1>6. CASE Post
  BY <1>6, AppendPosted DEF Post, ioVars, Deliver, Unload
<1>7. CASE Load
  BY <1>7 DEF Load
<1>8. CASE Resolved
  BY <1>8 DEF Resolved
<1>9. CASE ResolveFails
  BY <1>9, AppendPosted DEF ResolveFails, Deliver, Unload, UnloadFailed
<1>10. CASE RunReturns
  BY <1>10 DEF RunReturns
<1>11. CASE Finish
  BY <1>11 DEF Finish
<1>12. CASE HandleConnect
  BY <1>12 DEF HandleConnect, Running
<1>13. CASE HandleConnectError
  BY <1>13 DEF HandleConnectError, FailedSignal, Running
<1>14. CASE HandleReadError
  BY <1>14 DEF HandleReadError, ReadsAfterError, Running
<1>15. CASE HandleWrite
  BY <1>15 DEF HandleWrite, Running
<1>16. CASE HandleWriteError
  BY <1>16 DEF HandleWriteError, Running
<1>17. CASE RunDeliver
  BY <1>17 DEF RunDeliver, Running, MayWrite
<1>18. CASE RunUnload
  BY <1>18 DEF RunUnload, ConnectedAfterUnload, Running
<1>19. CASE LinkLost
  BY <1>19 DEF LinkLost
<1>20. CASE UNCHANGED vars
  BY <1>20 DEF vars, ioVars
<1> QED
  BY <1>1, <1>2, <1>3, <1>4, <1>5, <1>6, <1>7, <1>8, <1>9, <1>10, <1>11, <1>12, <1>13, <1>14,
     <1>15, <1>16, <1>17, <1>18, <1>19, <1>20 DEF Next, UI, Run, Posted, Completions

\* The inductive invariant holds in every reachable state.
THEOREM InvHolds == Spec => []IInv
<1> QED
  BY InitInv, NextInv, PTL DEF Spec

-----------------------------------------------------------------------------
(* The theorems. *)

\* The thread, its handlers and the calls of the user interface keep their types.
THEOREM TypeCorrect == Spec => []TypeOK
<1>1. IInv => TypeOK
  BY DEF IInv
<1> QED
  BY <1>1, InvHolds, PTL

\* However often the user connects, sends and disconnects, deliver has a socket
\* and writes one message at a time.
THEOREM WritesSafe == Spec => []WritesAreSafe
<1>1. IInv => WritesAreSafe
  BY DEF IInv
<1> QED
  BY <1>1, InvHolds, PTL

\* No attempt is reported as established and as failed.
THEOREM SingleOutcome == Spec => []OneOutcome
<1>1. IInv => OneOutcome
  BY DEF IInv
<1> QED
  BY <1>1, InvHolds, PTL

\* On the first connection no queued message is left without a write.
THEOREM FirstConnection == Spec => []FirstConnectionWrites
<1>1. IInv => FirstConnectionWrites
  BY DEF IInv
<1> QED
  BY <1>1, InvHolds, PTL

\* run never forgets an address it has not tried.
THEOREM AddressKept == Spec => AddressNeverLost
<1>1. IInv /\ [Next]_vars => [addressSet /\ ~addressSet' => served]_vars
  <2> SUFFICES ASSUME IInv, Next, addressSet, ~addressSet'
               PROVE  served
    OBVIOUS
  <2>1. ResolveFails \/ Finish
    BY DEF Next, UI, Run, Posted, Completions, ConnectToServer, BeginSend, SeesConnected,
           BeginStop, StopWithoutService, Post, Load, Resolved, RunReturns, HandleConnect,
           HandleConnectError, HandleReadError, HandleWrite, HandleWriteError,
           RunDeliver, RunUnload, LinkLost, ioVars
  <2>2. phase # "waiting"
    BY <2>1 DEF ResolveFails, Finish
  <2> QED
    BY <2>2 DEF IInv, ServedInv
<1> QED
  BY <1>1, InvHolds, PTL DEF Spec, AddressNeverLost
=============================================================================
