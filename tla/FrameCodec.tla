----------------------------- MODULE FrameCodec -----------------------------
(***************************************************************************)
(* The octets of WebSocket frames: how the parser unmasks what a client    *)
(* sent, and the frames that wsendpoint writes with the same class, one    *)
(* after the other on one connection (wsframe.hpp, wsendpoint.cpp).        *)
(*                                                                         *)
(* The client (external) writes and reads as RFC 6455 says.  FrameParser   *)
(* has frames that come in pieces or break the protocol, WsEndpoint the    *)
(* order in which the two threads write and the endpoint's own close.      *)
(***************************************************************************)
EXTENDS Naturals, Sequences

CONSTANTS
    ClientFrames,   \* what a client sends: opcode, payload and masking key
    SentLengths     \* lengths of the messages a session sends

CONTINUATION == 0
TEXT == 1
BINARY == 2
CLOSE == 8
PING == 9
PONG == 10

PAYLOAD_SIZE_BASIC == 125
PAYLOAD_SIZE_EXTENDED == 65535
max_payload_size == 100000000

Octet == 0..255
MaskedFrames == [opcode : {TEXT, BINARY, CLOSE, PING, PONG}, payload : Seq(Octet), key : [1..4 -> Octet]]

\* A client's frames are whole, have a mask and are no longer than a length of two octets
\* says; those of the controls fit the short form (RFC 6455, 5.5).
ASSUME CodecAssumption ==
    /\ SentLengths \subseteq Nat
    /\ \A f \in ClientFrames :
        /\ f \in MaskedFrames
        /\ Len(f.payload) <= IF f.opcode >= CLOSE THEN PAYLOAD_SIZE_BASIC ELSE PAYLOAD_SIZE_EXTENDED

VARIABLES
    m_header,       \* the parser's header, 14 octets
    m_payload,      \* its payload
    ready,          \* the parser has a whole frame
    from,           \* the frame it has, as the client meant it
    message,        \* the last message handed to the session
    out,            \* the last frame written: header, length of the payload and payload
    sending,        \* opcode and length, if a session wrote it
    closed          \* the connection has been given up

codecVars == <<m_header, m_payload, ready, from, message, out, sending, closed>>

NoFrom == [opcode |-> CONTINUATION, payload |-> <<>>, key |-> <<>>]
Nothing == [header |-> <<>>, length |-> 0, payload |-> <<>>]

MAX_HEADER_LENGTH == 14
ClearHeader == [i \in 1..MAX_HEADER_LENGTH |-> 0]

CodecInit ==
    /\ m_header = ClearHeader /\ m_payload = <<>> /\ ready = FALSE
    /\ from = NoFrom /\ message = <<>>
    /\ out = Nothing /\ sending = <<>> /\ closed = FALSE

-----------------------------------------------------------------------------
\* Headers.

get_masked(h) == h[2] >= 128
get_basic_size(h) == h[2] % 128
get_opcode(h) == h[1] % 16
is_control(op) == op >= CLOSE

get_header_len(h) ==
    2 + (IF get_masked(h) THEN 4 ELSE 0)
      + (CASE get_basic_size(h) = 126 -> 2 [] get_basic_size(h) = 127 -> 8 [] OTHER -> 0)

get_header_str(h) == SubSeq(h, 1, get_header_len(h))

\* An integer below 2^32 in network byte order, as two or as eight octets.
OctetAt(n, weight) == (n \div weight) % 256
TwoTo16 == 65536
TwoTo24 == 16777216

BigEndian(n, octets) ==
    IF octets = 2 THEN <<OctetAt(n, 256), OctetAt(n, 1)>>
    ELSE <<0, 0, 0, 0, OctetAt(n, TwoTo24), OctetAt(n, TwoTo16), OctetAt(n, 256), OctetAt(n, 1)>>

\* Octets copied into a header.
Put(h, at, octets) == [i \in DOMAIN h |-> IF i \in at..at + Len(octets) - 1 THEN octets[i - at + 1] ELSE h[i]]

\* The limit of the short form taken as exclusive.
Extended_Strict(h, s) ==
    IF s < PAYLOAD_SIZE_BASIC THEN [h EXCEPT ![2] = s]
    ELSE IF s <= PAYLOAD_SIZE_EXTENDED THEN Put([h EXCEPT ![2] = 126], 3, BigEndian(s, 2))
    ELSE Put([h EXCEPT ![2] = 127], 3, BigEndian(s, 8))

\* set_payload_helper, after its tests: one octet has the length or says where it is.
Extended(h, s) ==
    IF s <= PAYLOAD_SIZE_BASIC THEN [h EXCEPT ![2] = s]
    ELSE IF s <= PAYLOAD_SIZE_EXTENDED THEN Put([h EXCEPT ![2] = 126], 3, BigEndian(s, 2))
    ELSE Put([h EXCEPT ![2] = 127], 3, BigEndian(s, 8))

\* A new parser with set_opcode, set_fin(true), set_masked(false) and set_payload: the
\* header, <<>> where set_payload_helper throws.
HeaderOf(op, s) ==
    IF s > max_payload_size \/ (is_control(op) /\ s > PAYLOAD_SIZE_BASIC) THEN <<>>
    ELSE get_header_str(Extended([ClearHeader EXCEPT ![1] = 128 + op], s))

\* What the endpoint writes, if anything.
Write(op, s, payload) ==
    out' = IF HeaderOf(op, s) = <<>> THEN Nothing
           ELSE [header |-> HeaderOf(op, s), length |-> s, payload |-> payload]

-----------------------------------------------------------------------------
\* The client masks a payload and the parser reads header and payload.
ClientHeader(f) ==
    LET n == Len(f.payload)
        start == IF n < 126 THEN <<128 + f.opcode, 128 + n>>
                 ELSE <<128 + f.opcode, 128 + 126, n \div 256, n % 256>>
    IN  start \o f.key

\* The exclusive or of two octets, bit by bit.
Bit(n, weight) == (n \div weight) % 2
XorBit(a, b, weight) == weight * ((Bit(a, weight) + Bit(b, weight)) % 2)
XorOctets(a, b) ==
    XorBit(a, b, 128) + XorBit(a, b, 64) + XorBit(a, b, 32) + XorBit(a, b, 16)
    + XorBit(a, b, 8) + XorBit(a, b, 4) + XorBit(a, b, 2) + XorBit(a, b, 1)

Masking(octets, key) == [i \in DOMAIN octets |-> XorOctets(octets[i], key[1 + ((i - 1) % 4)])]

Masked(f) == Masking(f.payload, f.key)

Arrives(f) ==
    /\ ~closed /\ ~ready
    /\ from' = f
    /\ m_header' = Put(m_header, 1, ClientHeader(f))
    /\ m_payload' = Masked(f)
    /\ ready' = TRUE /\ out' = Nothing /\ sending' = <<>> /\ message' = <<>>
    /\ UNCHANGED closed

get_masking_key(h) == SubSeq(h, get_header_len(h) - 3, get_header_len(h))

\* process_payload.
Unmasked ==
    IF ~get_masked(m_header) THEN m_payload
    ELSE Masking(m_payload, get_masking_key(m_header))

-----------------------------------------------------------------------------
\* Close codes.
NORMAL == 1000
PROTOCOL_ERROR == 1002
NO_STATUS == 1005
ABNORMAL_CLOSE == 1006

reserved(c) == c \in 1016..2999 \cup {1004, 1012, 1013, 1014}
invalid(c) == c <= 999 \/ c >= 5000 \/ c \in {NO_STATUS, ABNORMAL_CLOSE, 1015}

get_close_code(payload) == IF payload = <<>> THEN NO_STATUS ELSE 256 * payload[1] + payload[2]
get_close_reason(payload) == SubSeq(payload, 3, Len(payload))

\* The reasons send_close_ack gives of its own, as many octets (wsendpoint.cpp:241-247).
StatusIsInvalid == [i \in 1..22 |-> 105]
StatusIsReserved == [i \in 1..23 |-> 114]

\* send_close_ack but for 1006: the code is sent back unless there is a reason not to.
send_close_ack(c, reason) ==
    LET payload ==
            IF c = NO_STATUS THEN BigEndian(NORMAL, 2)
            ELSE IF invalid(c) THEN BigEndian(PROTOCOL_ERROR, 2) \o StatusIsInvalid
            ELSE IF reserved(c) THEN BigEndian(PROTOCOL_ERROR, 2) \o StatusIsReserved
            ELSE BigEndian(c, 2) \o reason
    IN  Write(CLOSE, Len(payload), payload)

\* process_data and process_control with a whole frame, and reset.  A close payload of
\* one octet has no code, which is fatal; for 1006 send_close_ack throws what AddRxData
\* does not catch, before the reset and the end of the connection.
Process ==
    LET op == get_opcode(m_header)
        payload == Unmasked
        short == op = CLOSE /\ Len(payload) = 1
        abnormal == op = CLOSE /\ ~short /\ get_close_code(payload) = ABNORMAL_CLOSE
    IN  /\ ready /\ ~closed
        /\ IF abnormal THEN UNCHANGED <<m_header, m_payload, ready, closed>>
           ELSE /\ m_header' = ClearHeader /\ m_payload' = <<>> /\ ready' = FALSE
                /\ closed' = (op = CLOSE)
        /\ message' = IF is_control(op) THEN <<>> ELSE payload
        /\ IF op = PING THEN Write(PONG, Len(payload), payload)
           ELSE IF op = CLOSE /\ ~short /\ ~abnormal
           THEN send_close_ack(get_close_code(payload), get_close_reason(payload))
           ELSE out' = Nothing
        /\ sending' = <<>> /\ UNCHANGED from

\* send_text and send_binary of a session; what is sent is appended as it is.
Send(op, s) ==
    /\ ~closed
    /\ Write(op, s, <<>>) /\ sending' = <<op, s>>
    /\ UNCHANGED <<m_header, m_payload, ready, from, message, closed>>

CodecNext ==
    \/ \E f \in ClientFrames : Arrives(f)
    \/ Process
    \/ \E op \in {TEXT, BINARY}, s \in SentLengths : Send(op, s)

CodecSpec == CodecInit /\ [][CodecNext]_codecVars

-----------------------------------------------------------------------------
\* What the client reads of a header, by RFC 6455.
LengthRead(h) ==
    CASE h[2] < 126 -> h[2]
      [] h[2] = 126 -> h[3] * 256 + h[4]
      [] h[2] = 127 -> ((h[7] * 256 + h[8]) * 256 + h[9]) * 256 + h[10]

\* One whole frame, without a mask, with its length in the shortest form.
WellFormed(f) ==
    /\ f.header[1] \div 16 = 8 /\ LengthRead(f.header) = f.length
    /\ Len(f.header) = 2 + (IF f.length > 65535 THEN 8 ELSE IF f.length > 125 THEN 2 ELSE 0)

\* Codes a client may send.
Codes == (1000..1003) \cup (1007..1011) \cup (3000..4999)

\* What a frame was answered with, and what the session got of it.
Reaction(f) ==
    LET code == 256 * f.payload[1] + f.payload[2] IN
    /\ f.opcode = PING =>
          out # Nothing /\ get_opcode(out.header) = PONG /\ out.payload = f.payload
    /\ f.opcode = CLOSE /\ Len(f.payload) # 1 =>
          /\ out # Nothing /\ get_opcode(out.header) = CLOSE
          /\ IF f.payload # <<>> /\ code \in Codes THEN out.payload = f.payload
             ELSE 256 * out.payload[1] + out.payload[2] \in Codes
    /\ f.opcode \in {TEXT, BINARY} => message = f.payload
    /\ f.opcode = PONG \/ (f.opcode = CLOSE /\ Len(f.payload) = 1) => out = Nothing

(* Frames follow each other on one parser, with masks and headers of        *)
(* different lengths, and a session writes between them: a message reaches  *)
(* the session as the client wrote it, a ping comes back as the pong the    *)
(* client waits for, a close with the client's own code and reason if it    *)
(* may be sent and a code that may be if not, and the client reads each     *)
(* header as what was meant (wsframe.hpp:558-591, 717-725, wsendpoint.cpp:  *)
(* 228-271).                                                                *)
AnswersRight ==
    /\ out # Nothing => WellFormed(out)
    /\ sending # <<>> /\ out # Nothing => <<get_opcode(out.header), out.length>> = sending
    /\ sending = <<>> /\ ~ready /\ from # NoFrom => Reaction(from)
=============================================================================
