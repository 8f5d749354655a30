----------------------------- MODULE WsEndpoint -----------------------------
(***************************************************************************)
(* The server side of one WebSocket (wsendpoint.cpp): a server thread, rx, *)
(* feeds received bytes to AddRxData, and the RDP worker, tx, sends drawing*)
(* orders and texts with send.  send, pong, send_close and shutdown take   *)
(* the recursive lock m_lock; AddRxData, process_control, process_data and *)
(* send_close_ack do not.                                                  *)
(*                                                                         *)
(* A received frame is one of the cases the code tells apart, and a close  *)
(* frame carries the class of its status code.  What goes out to EHS is    *)
(* the sequence wire; closing the connection (on_close) is its element     *)
(* "hangup".                                                               *)
(***************************************************************************)
EXTENDS Naturals, Sequences

CONSTANTS
    Thrown,         \* codes of the wserrors that come out of the parser
    MaxWire,        \* bound: frames sent
    MaxChunk        \* bound: frames in one call of AddRxData

\* The wserror codes that start a close handshake in AddRxData, and all of them.
CloseErrors == {"PROTOCOL_VIOLATION", "PAYLOAD_VIOLATION", "INTERNAL_ENDPOINT_ERROR",
                "MESSAGE_TOO_BIG"}
ErrorCodes == CloseErrors \cup {"FATAL_ERROR", "SOFT_ERROR", "OUT_OF_MESSAGES"}

ASSUME EndpointAssumption ==
    /\ Thrown \subseteq ErrorCodes
    /\ MaxWire \in Nat /\ MaxChunk \in Nat \ {0}

VARIABLES
    st,         \* m_state
    lock,       \* the thread in a locked section
    rx,         \* program point of the server thread in AddRxData
    code,       \* status code class of the close frame being processed
    chunk,      \* frames left in the data of this call
    tx,         \* program point of the worker in send
    wire,       \* what was handed to EHS
    escaped     \* the last exception that left AddRxData

vars == <<st, lock, rx, code, chunk, tx, wire, escaped>>

\* Status codes of a close frame, as get_close_code and send_close_ack tell them
\* apart: none (empty payload), a proper one, one that is reserved or invalid on
\* the wire, 1006, and a payload of one byte, which has no code.
Codes == {"none", "proper", "improper", "abnormal", "short"}

NoOne == "none"
RxPoints == {"idle", "next", "close", "ack", "shutdown", "hangup",
             "pong", "pongwrite", "sendclose", "closewrite"}
Sent == {"data", "pong", "close", "ack", "hangup"}

TypeOK ==
    /\ st \in {"OPEN", "CLOSING", "CLOSED"}
    /\ lock \in {NoOne, "rx", "tx"}
    /\ rx \in RxPoints
    /\ code \in Codes
    /\ chunk \in Nat
    /\ tx \in {"idle", "write"}
    /\ wire \in Seq(Sent)
    /\ escaped \in {"no", "foreign", "here"}

Init ==
    /\ st = "OPEN" /\ lock = NoOne
    /\ rx = "idle" /\ code = "none" /\ chunk = 0
    /\ tx = "idle"
    /\ wire = <<>>
    /\ escaped = "no"

-----------------------------------------------------------------------------
\* boost::lock_guard<boost::recursive_mutex> lock(m_lock), the guard of a build
\* with HAVE_BOOST_LOCK_GUARD.
Acquire(thread) == lock = NoOne /\ lock' = thread

\* A section that finds nothing to do has to wait for the lock all the same.
PassLock == lock = NoOne /\ UNCHANGED lock

Release == lock' = NoOne

\* m_handler->do_response and on_close: the frame is queued with EHS.
Emit(frame) == wire' = Append(wire, frame)

-----------------------------------------------------------------------------
(***************************************************************************)
(* The worker: wshandler::send_text and send_binary.                       *)
(***************************************************************************)

Send_Unchecked ==
    /\ tx = "idle" /\ Len(wire) < MaxWire
    /\ Acquire("tx") /\ tx' = "write"
    /\ UNCHANGED <<st, rx, code, chunk, wire, escaped>>

Send ==
    /\ tx = "idle" /\ Len(wire) < MaxWire
    /\ \/ st = "OPEN" /\ Acquire("tx") /\ tx' = "write"
       \/ st # "OPEN" /\ PassLock /\ UNCHANGED tx
    /\ UNCHANGED <<st, rx, code, chunk, wire, escaped>>

SendWrite_KeepsLock ==
    /\ tx = "write"
    /\ Emit("data") /\ UNCHANGED lock
    /\ tx' = "idle"
    /\ UNCHANGED <<st, rx, code, chunk, escaped>>

SendWrite ==
    /\ tx = "write"
    /\ Emit("data") /\ Release
    /\ tx' = "idle"
    /\ UNCHANGED <<st, rx, code, chunk, escaped>>

-----------------------------------------------------------------------------
(***************************************************************************)
(* The server thread: AddRxData.                                           *)
(***************************************************************************)

\* OnData: the bytes of up to MaxChunk frames.
AddRxData ==
    /\ rx = "idle" /\ Len(wire) < MaxWire
    /\ rx' = "next"
    /\ chunk' \in 1..MaxChunk
    /\ UNCHANGED <<st, lock, code, tx, wire, escaped>>

\* while (m_state != CLOSED && in_avail()): the loop ends.
LoopEnds ==
    /\ rx = "next"
    /\ st = "CLOSED" \/ chunk = 0
    /\ rx' = "idle"
    /\ UNCHANGED <<st, lock, code, chunk, tx, wire, escaped>>

\* The loop goes round with the next frame; point is where its handling starts.
Take(point) ==
    /\ rx = "next" /\ st # "CLOSED" /\ chunk > 0
    /\ chunk' = chunk - 1
    /\ rx' = point
    /\ UNCHANGED <<st, lock, tx, wire>>

\* process_data (in any state but CLOSED), an unsolicited PONG, and a SOFT_ERROR
\* of the parser, which is ignored.
TakeQuiet == Take("next") /\ UNCHANGED <<code, escaped>>

TakePing == Take("pong") /\ UNCHANGED <<code, escaped>>

TakeClose == Take("close") /\ code' \in Codes /\ UNCHANGED escaped

\* A wserror of the parser that asks for a close handshake, an unrecoverable
\* one, and OUT_OF_MESSAGES, which just returns.
TakeError ==
    /\ \/ Thrown \cap CloseErrors # {} /\ Take("sendclose")
       \/ "FATAL_ERROR" \in Thrown /\ Take("shutdown")
       \/ "OUT_OF_MESSAGES" \in Thrown /\ Take("idle")
    /\ UNCHANGED <<code, escaped>>

\* An exception that is not a wserror is not caught here.
TakeForeign == Take("idle") /\ escaped' = "foreign" /\ UNCHANGED code

\* process_control, CLOSE: the state decides whose handshake this is.
ProcessClose ==
    /\ rx = "close"
    /\ \/ st = "OPEN" /\ code \in {"none", "proper", "improper"} /\ rx' = "ack" /\ UNCHANGED escaped
       \/ st = "OPEN" /\ code = "short" /\ rx' = "shutdown" /\ UNCHANGED escaped
       \/ st = "OPEN" /\ code = "abnormal" /\ rx' = "idle" /\ escaped' = "here"
       \/ st = "CLOSING" /\ rx' = "shutdown" /\ UNCHANGED escaped
    /\ UNCHANGED <<st, lock, code, chunk, tx, wire>>

\* send_close_ack: the answer goes out without the lock.
SendCloseAck ==
    /\ rx = "ack"
    /\ Emit("ack")
    /\ rx' = "shutdown"
    /\ UNCHANGED <<st, lock, code, chunk, tx, escaped>>

\* shutdown.
Shutdown ==
    /\ rx = "shutdown"
    /\ \/ st = "CLOSED" /\ PassLock /\ rx' = "next"
       \/ st # "CLOSED" /\ Acquire("rx") /\ rx' = "hangup"
    /\ UNCHANGED <<st, code, chunk, tx, wire, escaped>>

ShutdownHangup_KeepsState ==
    /\ rx = "hangup"
    /\ Emit("hangup") /\ Release
    /\ rx' = "next"
    /\ UNCHANGED <<st, code, chunk, tx, escaped>>

ShutdownHangup ==
    /\ rx = "hangup"
    /\ st' = "CLOSED"
    /\ Emit("hangup") /\ Release
    /\ rx' = "next"
    /\ UNCHANGED <<code, chunk, tx, escaped>>

Pong ==
    /\ rx = "pong"
    /\ \/ st = "OPEN" /\ Acquire("rx") /\ rx' = "pongwrite"
       \/ st # "OPEN" /\ PassLock /\ rx' = "next"
    /\ UNCHANGED <<st, code, chunk, tx, wire, escaped>>

PongWrite ==
    /\ rx = "pongwrite"
    /\ Emit("pong") /\ Release
    /\ rx' = "next"
    /\ UNCHANGED <<st, code, chunk, tx, escaped>>

\* send_close, and the break that leaves the loop after it.
SendClose ==
    /\ rx = "sendclose"
    /\ \/ st = "OPEN" /\ Acquire("rx") /\ rx' = "closewrite"
       \/ st # "OPEN" /\ PassLock /\ rx' = "idle"
    /\ UNCHANGED <<st, code, chunk, tx, wire, escaped>>

SendCloseWrite ==
    /\ rx = "closewrite"
    /\ st' = "CLOSING"
    /\ Emit("close") /\ Release
    /\ rx' = "idle"
    /\ UNCHANGED <<code, chunk, tx, escaped>>

-----------------------------------------------------------------------------
Handle ==
    \/ LoopEnds \/ TakeQuiet \/ TakePing \/ TakeClose \/ TakeError \/ TakeForeign
    \/ ProcessClose \/ SendCloseAck \/ Shutdown \/ ShutdownHangup
    \/ Pong \/ PongWrite \/ SendClose \/ SendCloseWrite

\* The bound is reached and both threads are out of the endpoint.
Done ==
    /\ Len(wire) >= MaxWire
    /\ rx = "idle" /\ tx = "idle" /\ lock = NoOne
    /\ UNCHANGED vars

Next == Send \/ SendWrite \/ AddRxData \/ Handle \/ Done

Spec == Init /\ [][Next]_vars

\* Both threads run, and neither is kept from a lock that is released time and
\* again.
Fairness == SF_vars(Handle) /\ WF_vars(SendWrite)

FairSpec == Spec /\ Fairness

-----------------------------------------------------------------------------
(***************************************************************************)
(* Safety.                                                                 *)
(***************************************************************************)

InWire(frame) == \E i \in DOMAIN wire : wire[i] = frame

\* How far the close handshake is, as the frames and m_state tell.
Phase == IF st = "CLOSED" THEN "over"
         ELSE IF st = "CLOSING" THEN "closing"
         ELSE IF InWire("ack") THEN "answered" ELSE "open"

Contract == INSTANCE WireContract WITH phase <- Phase, sent <- wire

\* The two threads and the lock (send, pong, send_close, send_close_ack, shutdown) keep
\* what a browser may rely on: the handshake moves one way, begun by one side, and what
\* is sent fits the phase it is sent in.
KeepsContract == Contract!Spec

Before(first, later) ==
    \E i, j \in DOMAIN wire : i < j /\ wire[i] = first /\ wire[j] = later

\* After the endpoint's own close frame (send_close) only the hangup follows, and
\* nothing at all follows the hangup (shutdown), whatever the worker sends and
\* the peer pings.
Quiet ==
    /\ \A later \in Sent \ {"hangup"} : ~Before("close", later)
    /\ \A later \in Sent : ~Before("hangup", later)

\* After the answer to the peer's close frame (send_close_ack) there is no pong,
\* no further close frame and no second answer: only a drawing order can slip in
\* between the answer and shutdown.
AckThenData == \A later \in {"pong", "close", "ack"} : ~Before("ack", later)

\* The connection is closed under exactly one answer: an endpoint that has sent
\* its own close frame never acknowledges the peer's (process_control), and only
\* data can follow an acknowledgement until shutdown, which must then be under way.
OneHandshake ==
    \A i \in DOMAIN wire : wire[i] = "ack" =>
        /\ st \in {"OPEN", "CLOSED"}
        /\ st = "OPEN" => rx \in {"shutdown", "hangup"}

\* The points of the server thread that hold the lock.
RxLocked == {"hangup", "pongwrite", "closewrite"}

-----------------------------------------------------------------------------
(***************************************************************************)
(* Liveness, under FairSpec.                                               *)
(***************************************************************************)

\* A close frame of the peer ends the connection, unless send_close_ack throws.
CloseEnds == rx = "close" ~> (st = "CLOSED" \/ escaped = "here")

\* AddRxData returns: the server thread never waits for ever behind the worker.
AddReturns == rx # "idle" ~> rx = "idle"

-----------------------------------------------------------------------------
(***************************************************************************)
(* The inductive invariant.                                                *)
(***************************************************************************)

LockInv ==
    /\ lock = "tx" <=> tx = "write"
    /\ lock = "rx" <=> rx \in RxLocked

\* What a thread has tested under the lock, or may count on because it alone
\* changes st, still holds when it acts.
TestedInv ==
    /\ tx = "write" => st = "OPEN"
    /\ rx \in {"ack", "pongwrite", "closewrite"} => st = "OPEN"
    /\ rx \in {"close", "shutdown", "hangup"} => st # "CLOSED"

WireInv ==
    /\ st = "OPEN" => ~InWire("close") /\ ~InWire("hangup")
    /\ st = "CLOSING" => ~InWire("hangup") /\ ~InWire("ack")
    /\ (InWire("ack") /\ st # "CLOSED") => rx \in {"shutdown", "hangup"}

IInv == TypeOK /\ LockInv /\ TestedInv /\ WireInv /\ Quiet /\ AckThenData
=============================================================================
