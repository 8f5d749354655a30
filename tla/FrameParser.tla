---------------------------- MODULE FrameParser ----------------------------
(***************************************************************************)
(* How AddRxData (wsendpoint.cpp) turns the bytes of one WebSocket into    *)
(* frames with frame::parser (wsframe.hpp): the bytes arrive in pieces cut *)
(* anywhere, each call of consume takes what the current state needs, and  *)
(* errors leave by three different exceptions.                             *)
(*                                                                         *)
(* The stream is what the peer wrote, frame after frame; a frame is chosen *)
(* when the parser has its basic header.  pos counts the bytes taken from  *)
(* the peer's current frame and is not a variable of the program.          *)
(***************************************************************************)
EXTENDS Naturals

CONSTANTS
    SizeBasic,      \* limits::PAYLOAD_SIZE_BASIC, 125 in the code
    SizeExtended,   \* limits::PAYLOAD_SIZE_EXTENDED, 65535
    MaxPayload,     \* parser::max_payload_size, 100 MB
    MaxLength,      \* bound: the largest length a header declares
    MaxChunk        \* bound: bytes in one call of AddRxData

ASSUME SizeAssumption ==
    /\ {SizeBasic, SizeExtended, MaxPayload, MaxLength, MaxChunk} \subseteq Nat
    /\ 1 < SizeBasic /\ SizeBasic < SizeExtended /\ SizeExtended < MaxPayload
    /\ MaxChunk > 0

VARIABLES
    pc,         \* program point of AddRxData
    avail,      \* bytes left of this call's data
    state,      \* parser::m_state
    needed,     \* parser::m_bytes_needed
    degraded,   \* parser::m_degraded
    frame,      \* what m_header holds, once the basic header is complete
    session,    \* wsendpoint::m_state
    thrown,     \* the last exception that left AddRxData
    pos,        \* bytes of the peer's current frame taken so far
    broken      \* consume has thrown a frame away

vars == <<pc, avail, state, needed, degraded, frame, session, thrown, pos, broken>>

Opcodes == {"CONTINUATION", "DATA", "RESERVED", "CLOSE", "PING", "PONG"}
Control == {"CLOSE", "PING", "PONG"}

\* The length field of the header: 7 bits, or 16 or 64 bits behind it.
Extension == [basic |-> 0, ext16 |-> 2, ext64 |-> 8]

Fits(f) ==
    /\ f.form = "basic" => f.len <= SizeBasic
    /\ f.form = "ext16" => f.len <= SizeExtended

Frames ==
    {f \in [op : Opcodes, fin : BOOLEAN, rsv : BOOLEAN, masked : BOOLEAN,
            form : DOMAIN Extension, len : 0..MaxLength] : Fits(f)}

BasicLength == 2
MaskLength(f) == IF f.masked THEN 4 ELSE 0

\* get_header_len.
HeaderLength(f) == BasicLength + MaskLength(f) + Extension[f.form]

\* What validate_basic_header throws at.
Invalid(f) ==
    \/ f.op \in Control /\ (f.form # "basic" \/ ~f.fin)
    \/ f.rsv
    \/ f.op = "RESERVED"

\* What process_extended_header throws at: a length in a longer form than it
\* takes, and one above the limit of the implementation.
NotMinimal(f) ==
    \/ f.form = "ext16" /\ f.len <= SizeBasic
    \/ f.form = "ext64" /\ f.len <= SizeExtended
TooBig(f) == f.len > MaxPayload

\* reset fills m_header with zeros.
NoFrame == [op |-> "CONTINUATION", fin |-> FALSE, rsv |-> FALSE, masked |-> FALSE,
            form |-> "basic", len |-> 0]

Init ==
    /\ pc = "idle" /\ avail = 0
    /\ state = "BASIC_HEADER" /\ needed = BasicLength
    /\ degraded = FALSE /\ frame = NoFrame
    /\ session = "OPEN" /\ thrown = "none"
    /\ pos = 0 /\ broken = FALSE

-----------------------------------------------------------------------------
\* parser::reset, as the end of an action.
Reset ==
    /\ state' = "BASIC_HEADER" /\ needed' = BasicLength
    /\ degraded' = FALSE /\ frame' = NoFrame
    /\ pos' = 0

\* An exception leaves AddRxData and what is left of its data is lost.
Escape(exception) == pc' = "idle" /\ avail' = 0 /\ thrown' = exception

\* shutdown, and the break that ends the loop.
ShutDown == pc' = "idle" /\ avail' = 0 /\ session' = "CLOSED"

\* The frame is complete, or its payload is what comes next.
PayloadNext_AlwaysPayload(f) ==
    needed' = f.len /\ state' = "PAYLOAD" /\ UNCHANGED pc

PayloadNext(f) ==
    /\ needed' = f.len
    /\ \/ f.len = 0 /\ state' = "READY" /\ pc' = "handle"
       \/ f.len > 0 /\ state' = "PAYLOAD" /\ UNCHANGED pc

\* istream::read takes as many bytes as are there.
ReadAll ==
    /\ pc = "consume" /\ session # "CLOSED" /\ avail > 0
    /\ avail >= needed

\* The handler of std::exception in consume: m_header held f and m_bytes_needed
\* was n.  The copy it throws is no wserror any more, so AddRxData does not catch
\* it; a second error is a wserror and ends the session.
Fails_NoRecovery(f, n) ==
    \/ /\ ~degraded
       /\ state' = "BASIC_HEADER" /\ needed' = BasicLength
       /\ degraded' = FALSE /\ frame' = NoFrame
       /\ pos' = 0 /\ broken' = TRUE
       /\ Escape("exception") /\ UNCHANGED session
    \/ /\ degraded
       /\ frame' = f /\ needed' = n
       /\ ShutDown
       /\ UNCHANGED <<state, degraded, thrown, pos, broken>>

Fails(f, n) ==
    \/ /\ ~degraded
       /\ state' = "RECOVERY" /\ needed' = BasicLength
       /\ degraded' = TRUE /\ frame' = NoFrame
       /\ pos' = 0 /\ broken' = TRUE
       /\ Escape("exception") /\ UNCHANGED session
    \/ /\ degraded
       /\ frame' = f /\ needed' = n
       /\ ShutDown
       /\ UNCHANGED <<state, degraded, thrown, pos, broken>>

-----------------------------------------------------------------------------
(***************************************************************************)
(* One turn of the loop of AddRxData up to the end of consume.             *)
(***************************************************************************)

AddRxData ==
    /\ pc = "idle" /\ session # "CLOSED"
    /\ avail' \in 1..MaxChunk
    /\ pc' = "consume"
    /\ UNCHANGED <<state, needed, degraded, frame, session, thrown, pos, broken>>

LoopEnds ==
    /\ pc = "consume"
    /\ session = "CLOSED" \/ avail = 0
    /\ pc' = "idle" /\ avail' = 0
    /\ UNCHANGED <<state, needed, degraded, frame, session, thrown, pos, broken>>

\* The data ends before the state has all it needs.
ReadPart_Forgets ==
    /\ pc = "consume" /\ session # "CLOSED" /\ avail > 0
    /\ state \in {"BASIC_HEADER", "EXTENDED_HEADER", "PAYLOAD"}
    /\ avail < needed
    /\ pos' = pos + avail
    /\ avail' = 0
    /\ UNCHANGED <<pc, state, needed, degraded, frame, session, thrown, broken>>

ReadPart ==
    /\ pc = "consume" /\ session # "CLOSED" /\ avail > 0
    /\ state \in {"BASIC_HEADER", "EXTENDED_HEADER", "PAYLOAD"}
    /\ avail < needed
    /\ needed' = needed - avail /\ pos' = pos + avail
    /\ avail' = 0
    /\ UNCHANGED <<pc, state, degraded, frame, session, thrown, broken>>

\* The frames a complete basic header may announce.
Announced ==
    IF degraded THEN {f \in Frames : f.op = "CLOSE" /\ f.fin /\ ~f.rsv} ELSE Frames

BasicHeader ==
    /\ ReadAll /\ state = "BASIC_HEADER"
    /\ \E f \in Announced :
        \/ /\ Invalid(f)
           /\ Fails(f, HeaderLength(f) - BasicLength)
        \/ /\ ~Invalid(f)
           /\ frame' = f
           /\ avail' = avail - needed /\ pos' = pos + needed
           /\ \/ HeaderLength(f) = BasicLength /\ PayloadNext(f)
              \/ /\ HeaderLength(f) > BasicLength
                 /\ needed' = HeaderLength(f) - BasicLength
                 /\ state' = "EXTENDED_HEADER" /\ UNCHANGED pc
           /\ UNCHANGED <<degraded, session, thrown, broken>>

ExtendedHeader_AnyForm ==
    /\ ReadAll /\ state = "EXTENDED_HEADER"
    /\ \/ /\ TooBig(frame)
          /\ needed' = 0 /\ pos' = pos + needed
          /\ Escape("literal")
          /\ UNCHANGED <<state, degraded, frame, session, broken>>
       \/ /\ ~TooBig(frame)
          /\ avail' = avail - needed /\ pos' = pos + needed
          /\ PayloadNext(frame)
          /\ UNCHANGED <<degraded, frame, session, thrown, broken>>

\* The string literal thrown at too big a payload passes by the handler of consume:
\* the state stays, with nothing left to read.
ExtendedHeader ==
    /\ ReadAll /\ state = "EXTENDED_HEADER"
    /\ \/ NotMinimal(frame) /\ Fails(frame, frame.len)
       \/ /\ ~NotMinimal(frame) /\ TooBig(frame)
          /\ needed' = 0 /\ pos' = pos + needed
          /\ Escape("literal")
          /\ UNCHANGED <<state, degraded, frame, session, broken>>
       \/ /\ ~NotMinimal(frame) /\ ~TooBig(frame)
          /\ avail' = avail - needed /\ pos' = pos + needed
          /\ PayloadNext(frame)
          /\ UNCHANGED <<degraded, frame, session, thrown, broken>>

Payload ==
    /\ ReadAll /\ state = "PAYLOAD"
    /\ state' = "READY" /\ pc' = "handle"
    /\ needed' = 0
    /\ avail' = avail - needed /\ pos' = pos + needed
    /\ UNCHANGED <<degraded, frame, session, thrown, broken>>

\* Bytes are discarded up to one that could open a close frame, wherever in the
\* peer's frames it is.
Recovery ==
    /\ pc = "consume" /\ session # "CLOSED" /\ avail > 0
    /\ state = "RECOVERY"
    /\ \/ avail' = 0 /\ UNCHANGED <<state, needed>>
       \/ /\ avail' \in 0..(avail - 1)
          /\ state' = "BASIC_HEADER" /\ needed' = needed - 1
    /\ UNCHANGED <<pc, degraded, frame, session, thrown, pos, broken>>

\* A frame is still there from the last call: consume has nothing to do.
StillReady ==
    /\ pc = "consume" /\ session # "CLOSED" /\ avail > 0
    /\ state = "READY"
    /\ pc' = "handle"
    /\ UNCHANGED <<avail, state, needed, degraded, frame, session, thrown, pos, broken>>

-----------------------------------------------------------------------------
(***************************************************************************)
(* The rest of the turn: process_data and process_control.                 *)
(***************************************************************************)

\* on_message, on_pong, or on_ping and the answer; then reset.
HandleMessage ==
    /\ pc = "handle" /\ frame.op # "CLOSE"
    /\ Reset
    /\ pc' = "consume"
    /\ UNCHANGED <<avail, session, thrown, broken>>

HandleClose_StaysOpen ==
    /\ pc = "handle" /\ frame.op = "CLOSE"
    /\ Reset
    /\ pc' = "consume"
    /\ UNCHANGED <<avail, session, thrown, broken>>

\* send_close_ack and shutdown, or the wserror of get_raw_close_code, which the
\* endpoint takes for fatal; the parser is reset either way.
HandleClose ==
    /\ pc = "handle" /\ frame.op = "CLOSE"
    /\ Reset
    /\ session' = "CLOSED" /\ pc' = "consume"
    /\ UNCHANGED <<avail, thrown, broken>>

\* The payload says 1006 and send_close_ack throws another string literal.
HandleAbnormal ==
    /\ pc = "handle" /\ frame.op = "CLOSE" /\ frame.len > 1
    /\ Escape("literal")
    /\ UNCHANGED <<state, needed, degraded, frame, session, pos, broken>>

-----------------------------------------------------------------------------
Consume == ReadPart \/ BasicHeader \/ ExtendedHeader \/ Payload \/ Recovery \/ StillReady

Closed == session = "CLOSED" /\ pc = "idle" /\ UNCHANGED vars

Next ==
    \/ AddRxData \/ LoopEnds \/ Consume
    \/ HandleMessage \/ HandleClose \/ HandleAbnormal
    \/ Closed

Spec == Init /\ [][Next]_vars

\* AddRxData runs on, and the peer keeps sending.
FairSpec == Spec /\ WF_vars(Next)

-----------------------------------------------------------------------------
(***************************************************************************)
(* Properties.                                                             *)
(***************************************************************************)

States == {"BASIC_HEADER", "EXTENDED_HEADER", "PAYLOAD", "READY", "RECOVERY"}

FlagsOK == degraded \in BOOLEAN /\ broken \in BOOLEAN

TypeOK ==
    /\ pc \in {"idle", "consume", "handle"}
    /\ {avail, needed, pos} \subseteq Nat
    /\ state \in States
    /\ FlagsOK
    /\ frame \in Frames
    /\ session \in {"OPEN", "CLOSED"}
    /\ thrown \in {"none", "exception", "literal"}

\* The length of a frame as RFC 6455 lays it out.
WireLength(f) == BasicLength + Extension[f.form] + MaskLength(f) + f.len

\* However the stream is cut into pieces, a frame is handled when exactly its own
\* bytes have been taken from the stream, as long as no frame has been thrown away.
FramesInStep == pc = "handle" /\ ~broken => pos = WireLength(frame)

\* No frame that consume is to reject is handled, before an error or after it.
OnlyValidHandled ==
    pc = "handle" => ~Invalid(frame) /\ ~NotMinimal(frame) /\ ~TooBig(frame)

\* The promise at the handler of exceptions in consume: once an error has happened
\* only a close frame is ever handled.
ErrorIsFinal == pc = "handle" /\ broken => frame.op = "CLOSE"

\* The invariant of consume, "even in the case of exceptions".
MethodInvariant == needed > 0 \/ state = "READY"

\* What it comes to: it fails only behind a string literal, thrown at a payload that
\* is too big, and in the parser of a closed session.
MethodInvariantExplained ==
    MethodInvariant \/ thrown = "literal" \/ session = "CLOSED"

\* Between two calls of AddRxData no complete frame waits to be handled, except a
\* close frame whose handling threw a string literal, and which is handled again.
NothingLeftBehind ==
    pc = "idle" /\ state = "READY" => frame.op = "CLOSE" /\ thrown = "literal"

\* After an error the first byte that looks like a close frame leads to the end of
\* the session, unless the close frame is one that throws.
FoundCloseEnds ==
    broken /\ state = "BASIC_HEADER" ~> session = "CLOSED" \/ thrown = "literal"

-----------------------------------------------------------------------------
(***************************************************************************)
(* The inductive invariant: what m_bytes_needed and m_header mean in each  *)
(* state of the parser.                                                    *)
(***************************************************************************)

HeaderInv ==
    /\ state \in {"EXTENDED_HEADER", "PAYLOAD", "READY"} => ~Invalid(frame)
    /\ state \in {"PAYLOAD", "READY"} => ~NotMinimal(frame) /\ ~TooBig(frame)
    /\ pc = "handle" => state = "READY" /\ session = "OPEN"
    /\ state = "READY" /\ pc # "handle" => frame.op = "CLOSE" /\ thrown = "literal"

DegradedInv ==
    /\ state = "RECOVERY" => degraded
    /\ session = "OPEN" => (degraded <=> broken)
    /\ broken /\ session = "OPEN" /\ state \in {"EXTENDED_HEADER", "PAYLOAD", "READY"} =>
           frame.op = "CLOSE"

NeededInv ==
    /\ state = "RECOVERY" => needed = BasicLength
    /\ session = "OPEN" => MethodInvariant \/ (thrown = "literal" /\ TooBig(frame))

PosInv ==
    ~broken /\ session = "OPEN" =>
        /\ state = "BASIC_HEADER" => pos + needed = BasicLength
        /\ state = "EXTENDED_HEADER" => pos + needed = WireLength(frame) - frame.len
        /\ state = "PAYLOAD" => pos + needed = WireLength(frame)
        /\ state = "READY" => pos = WireLength(frame)

IInv == TypeOK /\ HeaderInv /\ DegradedInv /\ NeededInv /\ PosInv
=============================================================================
