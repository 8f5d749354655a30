-------------------------- MODULE WsEndpointProofs --------------------------
(***************************************************************************)
(* The safety of WsEndpoint for every set of errors the parser may raise   *)
(* and every bound.  The argument is IInv: a thread that has tested m_state*)
(* under m_lock finds it unchanged when it writes, and what is on the wire *)
(* is bounded by the state.                                                *)
(***************************************************************************)
EXTENDS WsEndpoint, TLAPS

\* What appending one frame does to the order of the frames on the wire.
LEMMA Appending ==
    ASSUME wire \in Seq(Sent), NEW frame \in Sent, wire' = Append(wire, frame)
    PROVE  /\ wire' \in Seq(Sent)
           /\ \A f \in Sent : InWire(f)' <=> (InWire(f) \/ f = frame)
           /\ \A f, g \in Sent :
                Before(f, g)' <=> (Before(f, g) \/ (g = frame /\ InWire(f)))
<1>1. /\ DOMAIN wire = 1..Len(wire)
      /\ DOMAIN wire' = 1..(Len(wire) + 1)
      /\ Len(wire) \in Nat
  OBVIOUS
<1>2. /\ \A i \in 1..Len(wire) : wire'[i] = wire[i]
      /\ wire'[Len(wire) + 1] = frame
  OBVIOUS
<1>3. \A f \in Sent : InWire(f)' <=> (InWire(f) \/ f = frame)
  <2> TAKE f \in Sent
  <2>1. InWire(f) => InWire(f)'
    BY <1>1, <1>2 DEF InWire
  <2>2. f = frame => InWire(f)'
    BY <1>1, <1>2 DEF InWire
  <2>3. InWire(f)' => InWire(f) \/ f = frame
    BY <1>1, <1>2 DEF InWire
  <2> QED BY <2>1, <2>2, <2>3
<1>4. ASSUME NEW f \in Sent, NEW g \in Sent
      PROVE  Before(f, g)' <=> (Before(f, g) \/ (g = frame /\ InWire(f)))
  <2>1. Before(f, g) => Before(f, g)'
    BY <1>1, <1>2 DEF Before
  <2>2. g = frame /\ InWire(f) => Before(f, g)'
    BY <1>1, <1>2 DEF Before, InWire
  <2>3. Before(f, g)' => Before(f, g) \/ (g = frame /\ InWire(f))
    BY <1>1, <1>2 DEF Before, InWire
  <2> QED BY <2>1, <2>2, <2>3
<1> QED
  BY <1>3, <1>4

LEMMA Initially == Init => IInv
  BY DEF Init, IInv, TypeOK, Codes, RxPoints, Sent, NoOne, LockInv, RxLocked,
     TestedInv, WireInv, InWire, Before, Quiet, AckThenData

\* A step that sends nothing keeps IInv if it keeps the first three parts and
\* what the state says of the wire.
LEMMA SilentStep ==
    ASSUME IInv, UNCHANGED wire, TypeOK', LockInv', TestedInv',
           st' = st,
           rx \in {"shutdown", "hangup"} => rx' \in {"shutdown", "hangup"} \/ st = "CLOSED"
    PROVE  IInv'
  BY DEF IInv, WireInv, InWire, Before, Quiet, AckThenData

LEMMA Step ==
    ASSUME IInv, [Next]_vars
    PROVE  IInv'
<1> USE EndpointAssumption DEF EndpointAssumption
<1> USE DEF TypeOK, LockInv, TestedInv, RxLocked, RxPoints, NoOne
<1>0. TypeOK /\ LockInv /\ TestedInv /\ WireInv /\ Quiet /\ AckThenData
  BY DEF IInv
<1>1. CASE Send
  <2>1. TypeOK' /\ LockInv' /\ TestedInv'
    BY <1>0, <1>1 DEF Send, Acquire, PassLock
  <2> QED BY <1>1, <2>1, SilentStep DEF Send
<1>2. CASE SendWrite
  <2>1. wire' = Append(wire, "data") /\ "data" \in Sent /\ wire \in Seq(Sent)
    BY <1>0, <1>2 DEF SendWrite, Emit, Sent
  <2>2. TypeOK' /\ LockInv' /\ TestedInv'
    BY <1>0, <1>2, <2>1, Appending DEF SendWrite, Release
  <2>3. WireInv' /\ Quiet' /\ AckThenData'
    BY <1>0, <1>2, <2>1, Appending DEF SendWrite, WireInv, Quiet, AckThenData, Sent
  <2> QED BY <2>2, <2>3 DEF IInv
<1>3. CASE AddRxData
  <2>1. TypeOK' /\ LockInv' /\ TestedInv'
    BY <1>0, <1>3 DEF AddRxData
  <2> QED BY <1>3, <2>1, SilentStep DEF AddRxData
<1>4. CASE LoopEnds
  <2>1. TypeOK' /\ LockInv' /\ TestedInv'
    BY <1>0, <1>4 DEF LoopEnds
  <2> QED BY <1>4, <2>1, SilentStep DEF LoopEnds
<1>5. ASSUME NEW point \in {"next", "pong", "close", "sendclose", "shutdown", "idle"},
             Take(point), code' \in Codes, escaped' \in {"no", "foreign", "here"}
      PROVE  IInv'
  <2>1. TypeOK' /\ LockInv' /\ TestedInv'
    BY <1>0, <1>5 DEF Take
  <2> QED BY <1>5, <2>1, SilentStep DEF Take
<1>6. CASE TakeQuiet \/ TakePing \/ TakeClose \/ TakeError \/ TakeForeign
  BY <1>0, <1>5, <1>6 DEF TakeQuiet, TakePing, TakeClose, TakeError, TakeForeign
<1>7. CASE ProcessClose
  <2>1. TypeOK' /\ LockInv' /\ TestedInv'
    BY <1>0, <1>7 DEF ProcessClose
  <2> QED BY <1>7, <2>1, SilentStep DEF ProcessClose
<1>8. CASE SendCloseAck
  <2>1. wire' = Append(wire, "ack") /\ "ack" \in Sent /\ wire \in Seq(Sent)
    BY <1>0, <1>8 DEF SendCloseAck, Emit, Sent
  <2>2. TypeOK' /\ LockInv' /\ TestedInv'
    BY <1>0, <1>8, <2>1, Appending DEF SendCloseAck
  <2>3. WireInv' /\ Quiet' /\ AckThenData'
    BY <1>0, <1>8, <2>1, Appending DEF SendCloseAck, WireInv, Quiet, AckThenData, Sent
  <2> QED BY <2>2, <2>3 DEF IInv
<1>9. CASE Shutdown
  <2>1. TypeOK' /\ LockInv' /\ TestedInv'
    BY <1>0, <1>9 DEF Shutdown, Acquire, PassLock
  <2> QED BY <1>9, <2>1, SilentStep DEF Shutdown
<1>10. CASE ShutdownHangup
  <2>1. wire' = Append(wire, "hangup") /\ "hangup" \in Sent /\ wire \in Seq(Sent)
    BY <1>0, <1>10 DEF ShutdownHangup, Emit, Sent
  <2>2. TypeOK' /\ LockInv' /\ TestedInv'
    BY <1>0, <1>10, <2>1, Appending DEF ShutdownHangup, Release
  <2>3. WireInv' /\ Quiet' /\ AckThenData'
    BY <1>0, <1>10, <2>1, Appending DEF ShutdownHangup, WireInv, Quiet, AckThenData, Sent
  <2> QED BY <2>2, <2>3 DEF IInv
<1>11. CASE Pong
  <2>1. TypeOK' /\ LockInv' /\ TestedInv'
    BY <1>0, <1>11 DEF Pong, Acquire, PassLock
  <2> QED BY <1>11, <2>1, SilentStep DEF Pong
<1>12. CASE PongWrite
  <2>1. wire' = Append(wire, "pong") /\ "pong" \in Sent /\ wire \in Seq(Sent)
    BY <1>0, <1>12 DEF PongWrite, Emit, Sent
  <2>2. TypeOK' /\ LockInv' /\ TestedInv'
    BY <1>0, <1>12, <2>1, Appending DEF PongWrite, Release
  <2>3. WireInv' /\ Quiet' /\ AckThenData'
    BY <1>0, <1>12, <2>1, Appending DEF PongWrite, WireInv, Quiet, AckThenData, Sent
  <2> QED BY <2>2, <2>3 DEF IInv
<1>13. CASE SendClose
  <2>1. TypeOK' /\ LockInv' /\ TestedInv'
    BY <1>0, <1>13 DEF SendClose, Acquire, PassLock
  <2> QED BY <1>13, <2>1, SilentStep DEF SendClose
<1>14. CASE SendCloseWrite
  <2>1. wire' = Append(wire, "close") /\ "close" \in Sent /\ wire \in Seq(Sent)
    BY <1>0, <1>14 DEF SendCloseWrite, Emit, Sent
  <2>2. TypeOK' /\ LockInv' /\ TestedInv'
    BY <1>0, <1>14, <2>1, Appending DEF SendCloseWrite, Release
  <2>3. WireInv' /\ Quiet' /\ AckThenData'
    BY <1>0, <1>14, <2>1, Appending DEF SendCloseWrite, WireInv, Quiet, AckThenData, Sent
  <2> QED BY <2>2, <2>3 DEF IInv
<1>15. CASE Done \/ UNCHANGED vars
  <2>1. TypeOK' /\ LockInv' /\ TestedInv'
    BY <1>0, <1>15 DEF Done, vars
  <2> QED BY <1>15, <2>1, SilentStep DEF Done, vars
<1> QED
  BY <1>1, <1>2, <1>3, <1>4, <1>6, <1>7, <1>8, <1>9, <1>10, <1>11, <1>12, <1>13, <1>14,
     <1>15 DEF Next, Handle

\* Types, the lock, what each thread has tested and the order on the wire, in
\* every state.
THEOREM Invariance == Spec => []IInv
<1>1. IInv /\ [Next]_vars => IInv'
  BY Step
<1> QED
  BY Initially, <1>1, PTL DEF Spec

\* m_state, the program points and the wire have their types.
THEOREM TypeCorrect == Spec => []TypeOK
<1>1. IInv => TypeOK
  BY DEF IInv
<1> QED
  BY Invariance, <1>1, PTL

\* send, pong and send_close write nothing once m_state has left OPEN: only the
\* hangup follows the endpoint's close frame, and nothing follows the hangup.
THEOREM QuietAfterClose == Spec => []Quiet
<1>1. IInv => Quiet
  BY DEF IInv
<1> QED
  BY Invariance, <1>1, PTL

\* send_close_ack answers once and only drawing orders can follow its answer.
THEOREM DataOnlyAfterAck == Spec => []AckThenData
<1>1. IInv => AckThenData
  BY DEF IInv
<1> QED
  BY Invariance, <1>1, PTL

\* process_control never acknowledges a close frame once send_close has run, and
\* an acknowledgement leads straight into shutdown.
THEOREM HandshakeOnce == Spec => []OneHandshake
<1>1. IInv => OneHandshake
  BY DEF IInv, TypeOK, WireInv, InWire, OneHandshake
<1> QED
  BY Invariance, <1>1, PTL

-----------------------------------------------------------------------------
(***************************************************************************)
(* The contract of the connection: each step is one of its steps, or is not*)
(* seen.                                                                   *)
(***************************************************************************)

LEMMA InitKeeps == Init => Contract!Init
  BY DEF Init, Contract!Init, Phase, InWire

\* A step that changes neither the frames nor m_state.
LEMMA Unseen ==
    ASSUME UNCHANGED <<wire, st>>
    PROVE  UNCHANGED Contract!contractVars
  BY DEF Contract!contractVars, Phase, InWire

\* What the phase is before and after a frame has been sent.
LEMMA PhaseAfter ==
    ASSUME IInv, IInv', NEW frame \in Sent, wire' = Append(wire, frame)
    PROVE  /\ st = "OPEN" => Phase = IF InWire("ack") THEN "answered" ELSE "open"
           /\ st = "CLOSING" => Phase = "closing"
           /\ st' = "CLOSED" => Phase' = "over"
           /\ st' = "CLOSING" => Phase' = "closing"
           /\ st' = "OPEN" => Phase' = IF InWire("ack") \/ frame = "ack" THEN "answered" ELSE "open"
<1>1. wire \in Seq(Sent) /\ "ack" \in Sent
  BY DEF IInv, TypeOK, Sent
<1>2. InWire("ack")' <=> (InWire("ack") \/ frame = "ack")
  BY <1>1, Appending
<1>3. Phase' = IF st' = "CLOSED" THEN "over"
               ELSE IF st' = "CLOSING" THEN "closing"
               ELSE IF InWire("ack")' THEN "answered" ELSE "open"
  BY DEF Phase
<1> QED
  BY <1>2, <1>3 DEF Phase

LEMMA NextKeeps ==
    ASSUME IInv, IInv', [Next]_vars
    PROVE  [Contract!Next]_(Contract!contractVars)
<1> USE DEF Sent
<1>0. TypeOK /\ TestedInv /\ WireInv
  BY DEF IInv
<1>1. CASE SendWrite
  <2>1. wire' = Append(wire, "data") /\ st = "OPEN" /\ st' = "OPEN"
    BY <1>0, <1>1 DEF SendWrite, Emit, TestedInv
  <2>2. Phase' = Phase /\ Phase \in {"open", "answered"}
    BY <2>1, PhaseAfter
  <2>3. Contract!Say \/ Contract!Straggle
    BY <2>1, <2>2 DEF Contract!Say, Contract!Straggle, Contract!Frame
  <2> QED
    BY <2>3 DEF Contract!Next
<1>2. CASE PongWrite
  <2>1. wire' = Append(wire, "pong") /\ st = "OPEN" /\ st' = "OPEN" /\ ~InWire("ack")
    BY <1>0, <1>2 DEF PongWrite, Emit, TestedInv, WireInv
  <2>2. Phase' = "open" /\ Phase = "open"
    BY <2>1, PhaseAfter
  <2>3. Contract!Say
    BY <2>1, <2>2 DEF Contract!Say, Contract!Frame
  <2> QED
    BY <2>3 DEF Contract!Next
<1>3. CASE SendCloseAck
  <2>1. wire' = Append(wire, "ack") /\ st = "OPEN" /\ st' = "OPEN" /\ ~InWire("ack")
    BY <1>0, <1>3 DEF SendCloseAck, Emit, TestedInv, WireInv
  <2>2. Phase' = "answered" /\ Phase = "open"
    BY <2>1, PhaseAfter
  <2>3. Contract!Answer
    BY <2>1, <2>2 DEF Contract!Answer, Contract!Frame
  <2> QED
    BY <2>3 DEF Contract!Next
<1>4. CASE SendCloseWrite
  <2>1. wire' = Append(wire, "close") /\ st = "OPEN" /\ st' = "CLOSING" /\ ~InWire("ack")
    BY <1>0, <1>4 DEF SendCloseWrite, Emit, TestedInv, WireInv
  <2>2. Phase' = "closing" /\ Phase = "open"
    BY <2>1, PhaseAfter
  <2>3. Contract!Close
    BY <2>1, <2>2 DEF Contract!Close, Contract!Frame
  <2> QED
    BY <2>3 DEF Contract!Next
<1>5. CASE ShutdownHangup
  <2>1. wire' = Append(wire, "hangup") /\ st \in {"OPEN", "CLOSING"} /\ st' = "CLOSED"
    BY <1>0, <1>5 DEF ShutdownHangup, Emit, TestedInv, TypeOK
  <2>2. Phase' = "over" /\ Phase \in {"open", "closing", "answered"}
    BY <2>1, PhaseAfter
  <2>3. Contract!HangUp
    BY <2>1, <2>2 DEF Contract!HangUp, Contract!Frame
  <2> QED
    BY <2>3 DEF Contract!Next
<1>6. CASE Send \/ AddRxData \/ LoopEnds
  BY <1>6, Unseen DEF Send, AddRxData, LoopEnds
<1>7. CASE TakeQuiet \/ TakePing \/ TakeClose \/ TakeError \/ TakeForeign
  BY <1>7, Unseen DEF TakeQuiet, TakePing, TakeClose, TakeError, TakeForeign, Take
<1>8. CASE ProcessClose \/ Shutdown \/ Pong \/ SendClose
  BY <1>8, Unseen DEF ProcessClose, Shutdown, Pong, SendClose
<1>9. CASE Done \/ UNCHANGED vars
  BY <1>9, Unseen DEF Done, vars
<1> QED
  BY <1>1, <1>2, <1>3, <1>4, <1>5, <1>6, <1>7, <1>8, <1>9 DEF Next, Handle

\* Every behaviour of the two threads (send, AddRxData and what they call) is one the
\* contract allows: m_lock and the tests of m_state under it are enough.
THEOREM Refinement == Spec => KeepsContract
<1>1. IInv /\ IInv' /\ [Next]_vars => [Contract!Next]_(Contract!contractVars)
  BY NextKeeps
<1> QED
  BY InitKeeps, <1>1, Invariance, PTL DEF Spec, KeepsContract, Contract!Spec
=============================================================================
