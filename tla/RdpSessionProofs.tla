-------------------------- MODULE RdpSessionProofs --------------------------
(***************************************************************************)
(* Proofs about RdpSession for every set of error words, any number of     *)
(* connection attempts, and any threads that reach the object by mistake.  *)
(***************************************************************************)
EXTENDS RdpSession, TLAPS

\* The flags of the object and of the library stay Booleans.
LEMMA FlagsStayBoolean == FlagsOK /\ [Next]_vars => FlagsOK'
  BY Zenon DEF FlagsOK, Next, Server, Disconnect, PrepareRDP, ThreadFunc, Finished, vars,
     serverVars, refs, bounds, workerVars, libVars, ServerSpeaks, Construct, Credentials, Stray, ConnectTest,
     ConnectRequest, Register, ReturnPrepare, OnDisconnect, Replace, Destroy, DisconnectTest,
     DisconnectState, DisconnectClose, DisconnectLibrary, DisconnectJoin, Free, WorkerLoop,
     WorkerError, WorkerReport, WorkerShall, WorkerSwitch, ConnectSucceeds, WorkerConnected,
     ConnectFails, WorkerFailed, WorkerCheck, WorkerExit, WorkerAfterFree, WorkerUnheard

\* The constructor's state satisfies the inductive invariant.
LEMMA InitIInv == Init => IInv
  <1>1. Init => FlagsOK
    BY Zenon DEF Init, FlagsOK
  <1>2. QED
    BY <1>1, ErrorsAssumption
       DEF Init, IInv, TypeOK, WorkerInv, LoopInv, OwnerInv, CallInv, TextInv, Unanswered,
           OwnerPoints, WorkerPoints, CallPoints, Threads, States, Errors, TearDown, Freed,
           Working, Strayed, Away

\* Every step of a server thread and of the worker keeps it.
LEMMA NextIInv == IInv /\ [Next]_vars => IInv'
  <1> SUFFICES ASSUME IInv, [Next]_vars PROVE IInv'
    OBVIOUS
  <1>0. FlagsOK'
    BY FlagsStayBoolean DEF IInv, TypeOK
  <1> USE <1>0, ErrorsAssumption DEF IInv, TypeOK, WorkerInv, LoopInv, OwnerInv, CallInv, TextInv,
      Unanswered, OwnerPoints, WorkerPoints, CallPoints, Threads,
      States, Errors, TearDown, Freed, Working, Strayed, Away, ConnectFailed, serverVars, refs,
      bounds, workerVars, libVars
  <1>1. CASE Construct
    BY <1>1 DEF Construct
  <1>2. CASE Credentials
    BY <1>2 DEF Credentials
  <1>3. ASSUME NEW t \in Strangers, Stray(t) PROVE IInv'
    BY <1>3 DEF Stray
  <1>4. ASSUME NEW t \in Threads, ConnectTest(t) PROVE IInv'
    BY <1>4 DEF ConnectTest
  <1>5. ASSUME NEW t \in Threads, ConnectRequest(t) PROVE IInv'
    BY <1>5 DEF ConnectRequest
  <1>6. ASSUME NEW t \in Threads, Register(t) PROVE IInv'
    BY <1>6 DEF Register
  <1>7. ASSUME NEW t \in Threads, ReturnPrepare(t) PROVE IInv'
    BY <1>7 DEF ReturnPrepare
  <1>8. CASE OnDisconnect
    BY <1>8 DEF OnDisconnect
  <1>9. CASE Destroy
    BY <1>9 DEF Destroy
  <1>10. CASE DisconnectTest
    BY <1>10 DEF DisconnectTest
  <1>11. CASE DisconnectState
    BY <1>11 DEF DisconnectState
  <1>12. CASE DisconnectClose
    BY <1>12 DEF DisconnectClose
  <1>13. CASE DisconnectLibrary
    BY <1>13 DEF DisconnectLibrary
  <1>14. CASE DisconnectJoin
    BY <1>14 DEF DisconnectJoin
  <1>15. CASE Free
    BY <1>15 DEF Free
  <1>16. CASE WorkerLoop
    BY <1>16 DEF WorkerLoop, WorkerAt
  <1>17. CASE WorkerError
    <2>1. CASE errorInfo \in {0, lastError}
      <3>1. UNCHANGED <<lastError, threadLoop, errMsg>>
        BY <1>17, <2>1 DEF WorkerError
      <3>2. QED
        BY <1>17, <3>1 DEF WorkerError, WorkerAt
    <2>2. CASE errorInfo \in QuietErrors \ {lastError}
      <3>1. lastError' = errorInfo /\ ~threadLoop' /\ errMsg' = errMsg
        BY <1>17, <2>2 DEF WorkerError
      <3>2. QED
        BY <1>17, <2>2, <3>1 DEF WorkerError, WorkerAt
    <2>3. CASE errorInfo \in LoudErrors \ {lastError}
      <3>1. lastError' = errorInfo /\ threadLoop' = threadLoop /\ errMsg' = errMsg \cup {errorInfo}
        BY <1>17, <2>3 DEF WorkerError
      <3>2. QED
        BY <1>17, <2>3, <3>1 DEF WorkerError, WorkerAt
    <2>4. QED
      BY <2>1, <2>2, <2>3
  <1>18. CASE WorkerReport
    BY <1>18 DEF WorkerReport, WorkerAt
  <1>19. CASE WorkerShall
    BY <1>19 DEF WorkerShall, WorkerAt
  <1>20. CASE WorkerSwitch
    BY <1>20 DEF WorkerSwitch, WorkerAt
  <1>21. CASE ConnectSucceeds
    BY <1>21 DEF ConnectSucceeds, WorkerAt, ServerSpeaks
  <1>22. CASE WorkerConnected
    BY <1>22 DEF WorkerConnected, WorkerAt
  <1>23. CASE ConnectFails
    BY <1>23 DEF ConnectFails, WorkerAt, ServerSpeaks
  <1>24. CASE WorkerFailed
    BY <1>24 DEF WorkerFailed, WorkerAt
  <1>25. CASE WorkerCheck
    BY <1>25 DEF WorkerCheck, WorkerAt, ServerSpeaks
  <1>26. CASE WorkerExit
    BY <1>26 DEF WorkerExit, WorkerAt
  <1>27. CASE WorkerAfterFree
    BY <1>27 DEF WorkerAfterFree, Running
  <1>28. CASE WorkerUnheard
    BY <1>28 DEF WorkerUnheard
  <1>29. CASE UNCHANGED vars
    BY <1>29 DEF vars
  <1>30. CASE Replace
    BY <1>30 DEF Replace
  <1>31. QED
    BY <1>1, <1>2, <1>3, <1>4, <1>5, <1>6, <1>7, <1>8, <1>9, <1>10, <1>11, <1>12, <1>13, <1>14,
       <1>15, <1>16, <1>17, <1>18, <1>19, <1>20, <1>21, <1>22, <1>23, <1>24, <1>25, <1>26, <1>27,
       <1>28, <1>29, <1>30
       DEF Next, Server, Disconnect, PrepareRDP, ThreadFunc, Finished

\* The inductive invariant holds throughout.
THEOREM Invariance == Spec => []IInv
  <1>1. Init => IInv
    BY InitIInv
  <1>2. IInv /\ [Next]_vars => IInv'
    BY NextIInv
  <1>3. QED
    BY <1>1, <1>2, PTL DEF Spec

\* Every variable keeps its type.
THEOREM TypeCorrect == Spec => []TypeOK
  <1>1. IInv => TypeOK
    BY ErrorsAssumption DEF IInv
  <1>2. QED
    BY <1>1, Invariance, PTL

\* No thread disconnects while the worker connects, and the object's own visitor rewrites
\* the settings then only if a stranger's request is the one that is being served
\* (RDP.cpp, Connect and Disconnect against ThreadFunc).
THEOREM ConnectIsAlone == Spec => []LibraryExclusion
  <1>1. IInv => LibraryExclusion
    BY ErrorsAssumption DEF IInv, TypeOK, WorkerInv, OwnerInv, CallInv, LibraryExclusion
  <1>2. QED
    BY <1>1, Invariance, PTL

\* ~RDP frees a running worker's object only after the worker cleared
\* m_bThreadLoop itself or freerdp_disconnect failed.
THEOREM JoinedUnlessExplained == Spec => []UnjoinedExplained
  <1>1. IInv => UnjoinedExplained
    BY ErrorsAssumption DEF IInv, TypeOK, OwnerInv, Freed, Running, UnjoinedExplained
  <1>2. QED
    BY <1>1, Invariance, PTL

\* The library's connection outlives the object only in the named cases, of which
\* one needs a stranger's Connect.
THEOREM LeaksExplained == Spec => []LeakExplained
  <1>1. IInv => LeakExplained
    BY ErrorsAssumption DEF IInv, TypeOK, OwnerInv, Freed, LeakExplained
  <1>2. QED
    BY <1>1, Invariance, PTL

\* ThreadFunc sends the pending errors before it connects or reads again.
THEOREM ErrorsBeforeWork == Spec => []ReportedBeforeWork
  <1>1. IInv => ReportedBeforeWork
    BY ErrorsAssumption DEF IInv, WorkerInv, ReportedBeforeWork
  <1>2. QED
    BY <1>1, Invariance, PTL

\* ThreadFunc ends with an unsent error only in the named cases.
THEOREM ErrorsReachClient == Spec => []NoErrorLost
  <1>1. IInv => NoErrorLost
    BY ErrorsAssumption DEF IInv, TypeOK, WorkerInv, LoopInv, TearDown, OwnerPoints, NoErrorLost
  <1>2. QED
    BY <1>1, Invariance, PTL

\* A session is announced to its browser once, and once more at most for each request
\* of a stranger (PostConnect); its end is announced once (ThreadFunc).
THEOREM NoTextTwice == Spec => []TextsOnce
  <1>1. IInv => TextsOnce
    BY ErrorsAssumption DEF IInv, TypeOK, WorkerInv, TextInv, Unanswered, TextsOnce
  <1>2. QED
    BY <1>1, Invariance, PTL

\* A started session that ends by itself is announced as over, unless a stranger's
\* request had taken it out of STATE_CONNECTED.
THEOREM EndIsTold == Spec => []EndTold
  <1>1. IInv => EndTold
    BY ErrorsAssumption DEF IInv, TypeOK, WorkerInv, OwnerInv, Freed, Working, EndTold
  <1>2. QED
    BY <1>1, Invariance, PTL

-----------------------------------------------------------------------------
\* A step of any thread moves m_State along its order.
LEMMA StepKeepsStateOrder == IInv /\ [Next]_vars => [StateStep]_state
  <1> SUFFICES ASSUME IInv, [Next]_vars, state' # state PROVE StateStep
    BY Zenon
  <1>1. ASSUME NEW t \in Threads, ConnectRequest(t) PROVE StateStep
    <2>1. state \in {"INITIAL", "CONNECT", "CONNECTED"}
      BY <1>1 DEF ConnectRequest, IInv, TypeOK, States, OwnerInv, CallInv, Away
    <2>2. state = "CONNECTED" => Strayed'
      BY <1>1 DEF ConnectRequest, IInv, TypeOK, CallInv, Strayed
    <2>3. state' = "CONNECT"
      BY <1>1 DEF ConnectRequest
    <2>4. QED
      BY <2>1, <2>2, <2>3 DEF StateStep
  <1>2. CASE DisconnectClose
    BY <1>2 DEF DisconnectClose, IInv, OwnerInv, StateStep
  <1>3. CASE WorkerConnected
    BY <1>3 DEF WorkerConnected, WorkerAt, IInv, WorkerInv, StateStep
  <1>4. CASE WorkerFailed
    BY <1>4 DEF WorkerFailed, WorkerAt, IInv, WorkerInv, StateStep
  <1>5. QED
    BY <1>1, <1>2, <1>3, <1>4, Zenon
       DEF Next, Server, Disconnect, PrepareRDP, ThreadFunc, Finished, vars, Construct, Credentials,
           Stray, ConnectTest, Register, ReturnPrepare, OnDisconnect, Replace, Destroy, DisconnectTest,
           DisconnectState, DisconnectLibrary, DisconnectJoin, Free, WorkerLoop, WorkerError,
           WorkerReport, WorkerShall, WorkerSwitch, ConnectSucceeds, ConnectFails, WorkerCheck,
           WorkerExit, WorkerAfterFree, WorkerUnheard

\* m_State moves in order: nobody's write overtakes another thread's, but for a request
\* over a session that is up, which takes a stranger.
THEOREM StateMovesInOrder == Spec => StateOrder
  <1>1. IInv /\ [Next]_vars => [StateStep]_state
    BY StepKeepsStateOrder
  <1>2. QED
    BY <1>1, Invariance, PTL DEF Spec, StateOrder

-----------------------------------------------------------------------------
\* The fresh object is a session that waits.
LEMMA InitRefines == Init => Contract!Init
  BY DEF Init, Contract!Init, Phase, Freed, Working

\* Every step of the threads is a step of the contract or none.
LEMMA NextRefines == IInv /\ IInv' /\ [Next]_vars => [Contract!Next]_Phase
  <1> SUFFICES ASSUME IInv, IInv', [Next]_vars PROVE Contract!Next \/ Phase' = Phase
    OBVIOUS
  <1> USE DEF Contract!Next, Contract!Move, Contract!Attempt, Contract!Fail, Contract!Succeed,
      Contract!End, Contract!Leave, Phase, Freed, Working, IInv, TypeOK, WorkerInv, OwnerInv,
      serverVars, refs, bounds, workerVars, libVars
  <1>1. CASE Construct
    BY <1>1 DEF Construct
  <1>2. CASE Credentials
    BY <1>2 DEF Credentials
  <1>3. ASSUME NEW t \in Strangers, Stray(t) PROVE Contract!Next \/ Phase' = Phase
    BY <1>3 DEF Stray
  <1>4. ASSUME NEW t \in Threads, ConnectTest(t) PROVE Contract!Next \/ Phase' = Phase
    BY <1>4 DEF ConnectTest
  <1>5. ASSUME NEW t \in Threads, ConnectRequest(t) PROVE Contract!Next \/ Phase' = Phase
    BY <1>5 DEF ConnectRequest
  <1>6. ASSUME NEW t \in Threads, Register(t) PROVE Contract!Next \/ Phase' = Phase
    BY <1>6 DEF Register
  <1>7. ASSUME NEW t \in Threads, ReturnPrepare(t) PROVE Contract!Next \/ Phase' = Phase
    BY <1>7 DEF ReturnPrepare
  <1>8. CASE OnDisconnect
    BY <1>8 DEF OnDisconnect
  <1>9. CASE Destroy
    BY <1>9 DEF Destroy
  <1>10. CASE DisconnectTest
    BY <1>10 DEF DisconnectTest
  <1>11. CASE DisconnectState
    BY <1>11 DEF DisconnectState
  <1>12. CASE DisconnectClose
    BY <1>12 DEF DisconnectClose
  <1>13. CASE DisconnectLibrary
    BY <1>13 DEF DisconnectLibrary
  <1>14. CASE DisconnectJoin
    BY <1>14 DEF DisconnectJoin
  <1>15. CASE Free
    BY <1>15 DEF Free
  <1>16. CASE WorkerLoop
    BY <1>16 DEF WorkerLoop, WorkerAt
  <1>17. CASE WorkerError
    BY <1>17 DEF WorkerError, WorkerAt
  <1>18. CASE WorkerReport
    BY <1>18 DEF WorkerReport, WorkerAt
  <1>19. CASE WorkerShall
    BY <1>19 DEF WorkerShall, WorkerAt
  <1>20. CASE WorkerSwitch
    BY <1>20 DEF WorkerSwitch, WorkerAt
  <1>21. CASE ConnectSucceeds
    BY <1>21 DEF ConnectSucceeds, WorkerAt
  <1>22. CASE WorkerConnected
    BY <1>22 DEF WorkerConnected, WorkerAt
  <1>23. CASE ConnectFails
    BY <1>23 DEF ConnectFails, WorkerAt
  <1>24. CASE WorkerFailed
    BY <1>24 DEF WorkerFailed, WorkerAt
  <1>25. CASE WorkerCheck
    BY <1>25 DEF WorkerCheck, WorkerAt
  <1>26. CASE WorkerExit
    BY <1>26 DEF WorkerExit, WorkerAt
  <1>27. CASE WorkerAfterFree
    BY <1>27 DEF WorkerAfterFree, Running
  <1>28. CASE WorkerUnheard
    BY <1>28 DEF WorkerUnheard
  <1>29. CASE UNCHANGED vars
    BY <1>29 DEF vars
  <1>30. CASE Replace
    BY <1>30 DEF Replace
  <1>31. QED
    BY <1>1, <1>2, <1>3, <1>4, <1>5, <1>6, <1>7, <1>8, <1>9, <1>10, <1>11, <1>12, <1>13, <1>14,
       <1>15, <1>16, <1>17, <1>18, <1>19, <1>20, <1>21, <1>22, <1>23, <1>24, <1>25, <1>26, <1>27,
       <1>28, <1>29, <1>30
       DEF Next, Server, Disconnect, PrepareRDP, ThreadFunc, Finished

\* The session the threads make is the one the browser may rely on.
THEOREM Refinement == Spec => Contract!SafeSpec
  <1>1. Init => Contract!Init
    BY InitRefines
  <1>2. IInv /\ IInv' /\ [Next]_vars => [Contract!Next]_Phase
    BY NextRefines
  <1>3. QED
    BY <1>1, <1>2, Invariance, PTL DEF Spec, Contract!SafeSpec
=============================================================================
