---------------------------- MODULE FrameProofs ----------------------------
(***************************************************************************)
(* The safety of FrameParser for every limit, every length and every way   *)
(* to cut the stream.  The argument is IInv, which says what m_bytes_needed*)
(* and m_header mean in each state of the parser.  Then that of FrameCodec *)
(* for every frame within the form of the protocol: CodecInv, which says   *)
(* what is in the parser, and the lemmas about octets, headers and codes.  *)
(* Last that of Requests, which decides what becomes a WebSocket, with the *)
(* lemmas about Sha1 and Base64: what the answer of a handshake is made of.*)
(***************************************************************************)
EXTENDS FrameParser, FrameCodec, Requests, SequenceTheorems, TLAPS

\* A header is at least the basic one and stays a number.
LEMMA Lengths ==
    ASSUME NEW f \in Frames
    PROVE  /\ HeaderLength(f) \in Nat /\ WireLength(f) \in Nat /\ f.len \in Nat
           /\ HeaderLength(f) >= BasicLength
           /\ WireLength(f) = HeaderLength(f) + f.len
           /\ f.form = "basic" => f.len <= SizeBasic /\ ~NotMinimal(f)
<1>1. f.form \in {"basic", "ext16", "ext64"} /\ f.masked \in BOOLEAN /\ f.len \in 0..MaxLength
  BY DEF Frames, Extension
<1>2. Extension[f.form] \in {0, 2, 8} /\ MaskLength(f) \in {0, 4} /\ f.len \in Nat
  BY <1>1, SizeAssumption DEF Extension, MaskLength, SizeAssumption
<1> QED
  BY <1>1, <1>2 DEF HeaderLength, WireLength, BasicLength, NotMinimal, Fits, Frames

\* The two headers whose length is the basic one say that nothing has to be checked
\* behind it.
LEMMA ShortHeader ==
    ASSUME NEW f \in Frames, HeaderLength(f) = BasicLength
    PROVE  ~NotMinimal(f) /\ ~TooBig(f)
<1>1. f.form \in {"basic", "ext16", "ext64"} /\ f.masked \in BOOLEAN /\ f.len \in 0..MaxLength
  BY DEF Frames, Extension
<1>2. f.form = "basic"
  BY <1>1 DEF HeaderLength, BasicLength, MaskLength, Extension
<1>3. f.len <= SizeBasic
  BY <1>2 DEF Frames, Fits
<1> QED
  BY <1>1, <1>2, <1>3, SizeAssumption DEF NotMinimal, TooBig, SizeAssumption

LEMMA NoFrameIsFrame == NoFrame \in Frames
  BY SizeAssumption DEF NoFrame, Frames, Fits, Opcodes, Extension, SizeAssumption

\* The two flags stay Booleans.
LEMMA FlagsStayBoolean == FlagsOK /\ [Next]_vars => FlagsOK'
<1> SUFFICES ASSUME FlagsOK, [Next]_vars PROVE FlagsOK'
  OBVIOUS
<1>1. CASE BasicHeader \/ ExtendedHeader
  BY <1>1, Zenon DEF FlagsOK, BasicHeader, ExtendedHeader, Fails
<1>2. CASE ~(BasicHeader \/ ExtendedHeader)
  BY <1>2, Zenon DEF FlagsOK, Next, Consume, AddRxData, LoopEnds, ReadPart, Payload, Recovery,
     StillReady, HandleMessage, HandleClose, HandleAbnormal, Closed, Reset, vars
<1> QED
  BY <1>1, <1>2

LEMMA Initially == Init => IInv
<1>1. Init => FlagsOK
  BY Zenon DEF Init, FlagsOK
<1> QED
  BY <1>1, NoFrameIsFrame DEF Init, IInv, TypeOK, States, HeaderInv, DegradedInv, NeededInv,
     MethodInvariant, PosInv, BasicLength

\* The handler of exceptions in consume.
LEMMA Failing ==
    ASSUME IInv, NEW f \in Frames, NEW n \in Nat, Fails(f, n),
           state \in {"BASIC_HEADER", "EXTENDED_HEADER"}, pc = "consume", session # "CLOSED",
           state = "EXTENDED_HEADER" => f = frame, FlagsOK'
    PROVE  IInv'
<1> USE NoFrameIsFrame DEF IInv, TypeOK, States
<1>1. CASE ~degraded
  BY <1>1 DEF Fails, Escape, ShutDown, HeaderInv, DegradedInv, NeededInv, MethodInvariant, PosInv,
     BasicLength
<1>2. CASE degraded
  BY <1>2 DEF Fails, Escape, ShutDown, HeaderInv, DegradedInv, NeededInv, MethodInvariant, PosInv,
     BasicLength
<1> QED
  BY <1>1, <1>2

LEMMA Step == IInv /\ [Next]_vars => IInv'
<1> SUFFICES ASSUME IInv, [Next]_vars PROVE IInv'
  OBVIOUS
<1>0. FlagsOK'
  BY FlagsStayBoolean DEF IInv, TypeOK
<1> USE <1>0, NoFrameIsFrame, SizeAssumption
    DEF IInv, TypeOK, States, HeaderInv, DegradedInv, NeededInv, MethodInvariant, PosInv,
        BasicLength, SizeAssumption
<1>1. CASE AddRxData
  BY <1>1 DEF AddRxData
<1>2. CASE LoopEnds
  BY <1>2 DEF LoopEnds
<1>3. CASE ReadPart
  BY <1>3, Lengths DEF ReadPart
<1>4. CASE BasicHeader
  <2> PICK f \in Announced :
        \/ /\ Invalid(f)
           /\ Fails(f, HeaderLength(f) - BasicLength)
        \/ /\ ~Invalid(f)
           /\ frame' = f
           /\ avail' = avail - needed /\ pos' = pos + needed
           /\ \/ HeaderLength(f) = BasicLength /\ PayloadNext(f)
              \/ /\ HeaderLength(f) > BasicLength
                 /\ needed' = HeaderLength(f) - BasicLength
                 /\ state' = "EXTENDED_HEADER" /\ UNCHANGED pc
           /\ UNCHANGED <<degraded, session, thrown, broken>>
    BY <1>4 DEF BasicHeader
  <2>1. f \in Frames /\ (degraded => f.op = "CLOSE")
    BY DEF Announced
  <2>2. ReadAll /\ state = "BASIC_HEADER"
    BY <1>4 DEF BasicHeader
  <2>3. CASE Fails(f, HeaderLength(f) - BasicLength)
    BY <2>1, <2>2, <2>3, Lengths, Failing DEF ReadAll
  <2>4. CASE /\ ~Invalid(f) /\ frame' = f
             /\ avail' = avail - needed /\ pos' = pos + needed
             /\ HeaderLength(f) = BasicLength /\ PayloadNext(f)
             /\ UNCHANGED <<degraded, session, thrown, broken>>
    BY <2>1, <2>2, <2>4, Lengths, ShortHeader DEF ReadAll, PayloadNext
  <2>5. CASE /\ ~Invalid(f) /\ frame' = f
             /\ avail' = avail - needed /\ pos' = pos + needed
             /\ HeaderLength(f) > BasicLength
             /\ needed' = HeaderLength(f) - BasicLength
             /\ state' = "EXTENDED_HEADER" /\ UNCHANGED pc
             /\ UNCHANGED <<degraded, session, thrown, broken>>
    BY <2>1, <2>2, <2>5, Lengths DEF ReadAll
  <2> QED
    BY <2>3, <2>4, <2>5
<1>5. CASE ExtendedHeader
  <2>1. CASE Fails(frame, frame.len)
    BY <1>5, <2>1, Lengths, Failing DEF ExtendedHeader, ReadAll
  <2>2. CASE TooBig(frame) /\ thrown' = "literal"
    BY <1>5, <2>2, Lengths DEF ExtendedHeader, ReadAll, Escape, Fails, ShutDown
  <2>3. CASE ~NotMinimal(frame) /\ ~TooBig(frame)
    BY <1>5, <2>3, Lengths DEF ExtendedHeader, ReadAll, PayloadNext
  <2> QED
    BY <1>5, <2>1, <2>2, <2>3 DEF ExtendedHeader, Escape
<1>6. CASE Payload
  BY <1>6, Lengths DEF Payload, ReadAll
<1>7. CASE Recovery
  BY <1>7 DEF Recovery
<1>8. CASE StillReady
  BY <1>8 DEF StillReady
<1>9. CASE HandleMessage
  BY <1>9 DEF HandleMessage, Reset
<1>10. CASE HandleClose
  BY <1>10 DEF HandleClose, Reset
<1>11. CASE HandleAbnormal
  BY <1>11 DEF HandleAbnormal, Escape
<1>12. CASE Closed \/ UNCHANGED vars
  BY <1>12 DEF Closed, vars
<1> QED
  BY <1>1, <1>2, <1>3, <1>4, <1>5, <1>6, <1>7, <1>8, <1>9, <1>10, <1>11, <1>12
     DEF Next, Consume
\* The state of the parser and what m_bytes_needed and m_header mean in it, always.
THEOREM Invariance == Spec => []IInv
<1> QED
  BY Initially, Step, PTL DEF Spec

\* Types, for all limits and lengths.
THEOREM TypeCorrect == Spec => []TypeOK
<1>1. IInv => TypeOK
  BY DEF IInv
<1> QED
  BY Invariance, <1>1, PTL

\* consume keeps in step with the peer's frames however the stream is cut.
THEOREM InStep == Spec => []FramesInStep
<1>1. IInv => FramesInStep
  BY DEF IInv, HeaderInv, PosInv, FramesInStep
<1> QED
  BY Invariance, <1>1, PTL

\* validate_basic_header and process_extended_header let no bad frame through.
THEOREM ValidOnly == Spec => []OnlyValidHandled
<1>1. IInv => OnlyValidHandled
  BY DEF IInv, HeaderInv, OnlyValidHandled
<1> QED
  BY Invariance, <1>1, PTL

\* After the first frame consume throws away, only a close frame is handled.
THEOREM OnlyCloseAfterError == Spec => []ErrorIsFinal
<1>1. IInv => ErrorIsFinal
  BY DEF IInv, TypeOK, HeaderInv, DegradedInv, ErrorIsFinal
<1> QED
  BY Invariance, <1>1, PTL

\* The only ways the method invariant of consume fails.
THEOREM MethodInvariantHolds == Spec => []MethodInvariantExplained
<1>1. IInv => MethodInvariantExplained
  BY DEF IInv, TypeOK, NeededInv, MethodInvariantExplained
<1> QED
  BY Invariance, <1>1, PTL

\* Only a close frame that threw is left in the parser between two calls.
THEOREM NothingLeft == Spec => []NothingLeftBehind
<1>1. IInv => NothingLeftBehind
  BY DEF IInv, HeaderInv, NothingLeftBehind
<1> QED
  BY Invariance, <1>1, PTL

(***************************************************************************)
(* FrameCodec.                                                             *)
(***************************************************************************)
\* An octet is the sum of its bits, and the bits of a sum of bits are these.
LEMMA SumOfBits ==
    ASSUME NEW a \in Octet
    PROVE  /\ Bit(a, 128) \in {0, 1} /\ Bit(a, 64) \in {0, 1} /\ Bit(a, 32) \in {0, 1} /\ Bit(a, 16) \in {0, 1}
           /\ Bit(a, 8) \in {0, 1} /\ Bit(a, 4) \in {0, 1} /\ Bit(a, 2) \in {0, 1} /\ Bit(a, 1) \in {0, 1}
           /\ a = 128 * Bit(a, 128) + 64 * Bit(a, 64) + 32 * Bit(a, 32) + 16 * Bit(a, 16)
                  + 8 * Bit(a, 8) + 4 * Bit(a, 4) + 2 * Bit(a, 2) + Bit(a, 1)
  BY DEF Bit, Octet

LEMMA BitsOfSum ==
    ASSUME NEW a \in {0, 1}, NEW b \in {0, 1}, NEW c \in {0, 1}, NEW d \in {0, 1},
           NEW e \in {0, 1}, NEW f \in {0, 1}, NEW g \in {0, 1}, NEW h \in {0, 1},
           NEW n, n = 128 * a + 64 * b + 32 * c + 16 * d + 8 * e + 4 * f + 2 * g + h
    PROVE  /\ n \in Octet
           /\ Bit(n, 128) = a /\ Bit(n, 64) = b /\ Bit(n, 32) = c /\ Bit(n, 16) = d
           /\ Bit(n, 8) = e /\ Bit(n, 4) = f /\ Bit(n, 2) = g /\ Bit(n, 1) = h
  BY DEF Bit, Octet

LEMMA TwiceXor ==
    ASSUME NEW x \in {0, 1}, NEW y \in {0, 1}
    PROVE  (x + y) % 2 \in {0, 1} /\ (((x + y) % 2) + y) % 2 = x
  OBVIOUS

\* Unmasking is masking again.
LEMMA XorUndone ==
    ASSUME NEW a \in Octet, NEW b \in Octet
    PROVE  XorOctets(a, b) \in Octet /\ XorOctets(XorOctets(a, b), b) = a
<1> DEFINE X(w) == (Bit(a, w) + Bit(b, w)) % 2
           n == XorOctets(a, b)
<1>1. \A w \in {128, 64, 32, 16, 8, 4, 2, 1} : X(w) \in {0, 1} /\ (X(w) + Bit(b, w)) % 2 = Bit(a, w)
  BY SumOfBits, TwiceXor
<1>2. n = 128 * X(128) + 64 * X(64) + 32 * X(32) + 16 * X(16) + 8 * X(8) + 4 * X(4) + 2 * X(2) + X(1)
  BY <1>1 DEF XorOctets, XorBit
<1> HIDE DEF X, n
<1>3. n \in Octet /\ \A w \in {128, 64, 32, 16, 8, 4, 2, 1} : Bit(n, w) = X(w)
  BY <1>1, <1>2, BitsOfSum
<1>4. XorOctets(n, b) = 128 * Bit(a, 128) + 64 * Bit(a, 64) + 32 * Bit(a, 32) + 16 * Bit(a, 16)
                        + 8 * Bit(a, 8) + 4 * Bit(a, 4) + 2 * Bit(a, 2) + Bit(a, 1)
  BY <1>1, <1>3, SumOfBits DEF XorOctets, XorBit
<1> QED
  BY <1>3, <1>4, SumOfBits DEF n

-----------------------------------------------------------------------------
\* Headers the endpoint writes.

Ops == {TEXT, BINARY, CLOSE, PING, PONG}

LEMMA OpsAre == Ops = {1, 2, 8, 9, 10}
  BY DEF Ops, TEXT, BINARY, CLOSE, PING, PONG

LEMMA OctetsAt ==
    ASSUME NEW n \in Nat
    PROVE  /\ OctetAt(n, 1) \in Octet /\ OctetAt(n, 256) \in Octet
           /\ OctetAt(n, TwoTo16) \in Octet /\ OctetAt(n, TwoTo24) \in Octet
  BY SMT DEF OctetAt, TwoTo16, TwoTo24, Octet

LEMMA OctetsAreNat == Octet \subseteq Nat
  BY DEF Octet

\* A length is the number its octets make.
LEMMA TwoOctets ==
    ASSUME NEW n \in Nat, n <= PAYLOAD_SIZE_EXTENDED
    PROVE  OctetAt(n, 256) * 256 + OctetAt(n, 1) = n
<1>1. PICK q, r : q = n \div 256 /\ r = n % 256
  OBVIOUS
<1>2. q \in Nat /\ q < 256 /\ r \in Nat
  BY <1>1, SMT DEF PAYLOAD_SIZE_EXTENDED
<1>3. q * 256 + r = n
  BY <1>1, SMT
<1>4. OctetAt(n, 256) = q /\ OctetAt(n, 1) = r
  BY <1>1, <1>2, SMT DEF OctetAt
<1> QED
  BY <1>3, <1>4

LEMMA FourOctets ==
    ASSUME NEW n \in Nat, n <= max_payload_size
    PROVE  ((OctetAt(n, TwoTo24) * 256 + OctetAt(n, TwoTo16)) * 256 + OctetAt(n, 256)) * 256 + OctetAt(n, 1) = n
<1>1. PICK q1, q2, q3 : q1 = n \div 256 /\ q2 = q1 \div 256 /\ q3 = q2 \div 256
  OBVIOUS
<1>2. q1 \in Nat /\ q2 \in Nat /\ q3 \in Nat
  BY <1>1, SMT
<1>3. (n % 256) + q1 * 256 = n /\ (q1 % 256) + q2 * 256 = q1 /\ (q2 % 256) + q3 * 256 = q2
  BY <1>1, <1>2, SMT
<1>4. n \div TwoTo16 = q2
  BY <1>1, SMT DEF TwoTo16
<1>5. n \div TwoTo24 = q3
  BY <1>1, SMT DEF TwoTo24
<1>6. q3 < 256
  BY <1>5, SMT DEF TwoTo24, max_payload_size
<1>7. /\ OctetAt(n, 1) = n % 256 /\ OctetAt(n, 256) = q1 % 256 /\ OctetAt(n, TwoTo16) = q2 % 256
      /\ OctetAt(n, TwoTo24) = q3
  BY <1>1, <1>2, <1>4, <1>5, <1>6, SMT DEF OctetAt
<1> QED
  BY <1>2, <1>3, <1>7, SMT

\* Octets put into a header.
Headers == [1..MAX_HEADER_LENGTH -> Nat]
Numbers == Seq(Nat)

LEMMA PutIs ==
    ASSUME NEW h \in Headers, NEW at \in Nat, NEW octets \in Numbers, NEW i \in 1..14
    PROVE  /\ i \in at..at + Len(octets) - 1 =>
                 Put(h, at, octets)[i] = octets[i - at + 1] /\ Put(h, at, octets)[i] \in Nat
           /\ i \notin at..at + Len(octets) - 1 =>
                 Put(h, at, octets)[i] = h[i] /\ Put(h, at, octets)[i] \in Nat
<1>1. DOMAIN h = 1..14 /\ h[i] \in Nat
  BY DEF Headers, MAX_HEADER_LENGTH
<1>2. Put(h, at, octets)[i] = IF i \in at..at + Len(octets) - 1 THEN octets[i - at + 1] ELSE h[i]
  BY <1>1 DEF Put
<1>3. ASSUME i \in at..at + Len(octets) - 1 PROVE octets[i - at + 1] \in Nat
  <2>1. PICK k : k = i - at + 1
    OBVIOUS
  <2>2. octets \in Seq(Nat)
    BY DEF Numbers
  <2>3. k \in 1..Len(octets)
    BY <1>3, <2>1, <2>2
  <2>4. octets[k] \in Nat
    BY <2>2, <2>3, ElementOfSeq
  <2> QED
    BY <2>1, <2>4
<1> QED
  BY <1>1, <1>2, <1>3

\* The lengths of two and of eight octets are put after the first two octets.
LEMMA PutAtThree ==
    ASSUME NEW h \in Headers, NEW s \in Numbers, NEW at \in Nat, at = 3,
           NEW g, g = Put(h, at, s)
    PROVE  /\ \A i \in 1..14 : g[i] \in Nat
           /\ g[1] = h[1] /\ g[2] = h[2]
           /\ Len(s) = 2 => g[3] = s[1] /\ g[4] = s[2]
           /\ Len(s) = 8 => g[7] = s[5] /\ g[8] = s[6] /\ g[9] = s[7] /\ g[10] = s[8]
<1>1. \A i \in 1..14 : /\ i \in 3..3 + Len(s) - 1 => g[i] = s[i - 3 + 1]
                       /\ i \notin 3..3 + Len(s) - 1 => g[i] = h[i]
                       /\ g[i] \in Nat
  <2> SUFFICES ASSUME NEW i \in 1..14
               PROVE  /\ i \in at..at + Len(s) - 1 => g[i] = s[i - at + 1]
                      /\ i \notin at..at + Len(s) - 1 => g[i] = h[i]
                      /\ g[i] \in Nat
    OBVIOUS
  <2> QED
    BY ONLY PutIs, h \in Headers, s \in Numbers, at \in Nat, i \in 1..14, g = Put(h, at, s)
<1>2. s \in Seq(Nat)
  BY DEF Numbers
<1>3. g[1] = h[1] /\ g[2] = h[2]
  BY <1>1, <1>2
<1>4. Len(s) = 2 => g[3] = s[1] /\ g[4] = s[2]
  BY <1>1, <1>2
<1>5. Len(s) = 8 => g[7] = s[5] /\ g[8] = s[6] /\ g[9] = s[7] /\ g[10] = s[8]
  BY <1>1, <1>2
<1> QED
  BY <1>1, <1>3, <1>4, <1>5

\* The header before it is cut to its length: its octets are numbers, and its second one
\* says how long it is.
Small(n) == n <= PAYLOAD_SIZE_BASIC
Medium(n) == ~Small(n) /\ n <= PAYLOAD_SIZE_EXTENDED
Large(n) == ~Small(n) /\ ~Medium(n)

LEMMA ExtendedIs ==
    ASSUME NEW h0 \in [1..14 -> Nat], NEW n \in Nat, NEW h, h = Extended(h0, n)
    PROVE  /\ \A i \in 1..14 : h[i] \in Nat
           /\ h[1] = h0[1]
           /\ Small(n) => h[2] = n
           /\ Medium(n) => h[2] = 126 /\ h[3] = OctetAt(n, 256) /\ h[4] = OctetAt(n, 1)
           /\ Large(n) =>
                 /\ h[2] = 127 /\ h[7] = OctetAt(n, TwoTo24) /\ h[8] = OctetAt(n, TwoTo16)
                 /\ h[9] = OctetAt(n, 256) /\ h[10] = OctetAt(n, 1)
<1>1. CASE Small(n)
  <2>1. h = [h0 EXCEPT ![2] = n]
    BY <1>1 DEF Extended, Small
  <2>2. h[1] = h0[1] /\ h[2] = n
    BY <2>1
  <2>3. \A i \in 1..14 : h[i] \in Nat
    BY <2>1
  <2> QED
    BY <1>1, <2>2, <2>3 DEF Medium, Large
<1>2. CASE Medium(n)
  <2>1. PICK a, b : a = OctetAt(n, 256) /\ b = OctetAt(n, 1)
    OBVIOUS
  <2>2. a \in Nat /\ b \in Nat
    BY <2>1, OctetsAt, OctetsAreNat
  <2>3. PICK s : s = <<a, b>>
    OBVIOUS
  <2>10. PICK at : at = 3
    OBVIOUS
  <2>4. BigEndian(n, 2) = s
    BY <2>1, <2>3 DEF BigEndian
  <2>5. PICK h1 : h1 = [h0 EXCEPT ![2] = 126]
    OBVIOUS
  <2>6. h1 \in [1..14 -> Nat] /\ h1[1] = h0[1] /\ h1[2] = 126
    BY <2>5
  <2>7. h = Put(h1, at, s)
    BY <1>2, <2>4, <2>5, <2>10 DEF Extended, Small, Medium
  <2>8. s \in Seq(Nat) /\ Len(s) = 2 /\ s[1] = a /\ s[2] = b
    BY <2>2, <2>3
  <2>9. /\ \A i \in 1..14 : h[i] \in Nat
        /\ h[1] = h1[1] /\ h[2] = h1[2] /\ h[3] = s[1] /\ h[4] = s[2]
    <3>1. h1 \in Headers /\ s \in Numbers /\ at \in Nat
      BY <2>6, <2>8, <2>10 DEF Headers, Numbers, MAX_HEADER_LENGTH
    <3>2. /\ \A i \in 1..14 : h[i] \in Nat
          /\ h[1] = h1[1] /\ h[2] = h1[2]
          /\ Len(s) = 2 => h[3] = s[1] /\ h[4] = s[2]
          /\ Len(s) = 8 => h[7] = s[5] /\ h[8] = s[6] /\ h[9] = s[7] /\ h[10] = s[8]
      BY ONLY <2>7, <2>10, <3>1, PutAtThree
    <3> QED
      BY <2>8, <3>2
  <2> QED
    BY <1>2, <2>1, <2>6, <2>8, <2>9 DEF Medium, Large
<1>3. CASE Large(n)
  <2>1. PICK a, b, c, d : /\ a = OctetAt(n, 256) /\ b = OctetAt(n, 1)
                          /\ c = OctetAt(n, TwoTo24) /\ d = OctetAt(n, TwoTo16)
    OBVIOUS
  <2>2. a \in Nat /\ b \in Nat /\ c \in Nat /\ d \in Nat
    BY <2>1, OctetsAt, OctetsAreNat
  <2>3. PICK s : s = <<0, 0, 0, 0, c, d, a, b>>
    OBVIOUS
  <2>10. PICK at : at = 3
    OBVIOUS
  <2>4. BigEndian(n, 8) = s
    BY <2>1, <2>3 DEF BigEndian
  <2>5. PICK h1 : h1 = [h0 EXCEPT ![2] = 127]
    OBVIOUS
  <2>6. h1 \in [1..14 -> Nat] /\ h1[1] = h0[1] /\ h1[2] = 127
    BY <2>5
  <2>7. h = Put(h1, at, s)
    BY <1>3, <2>4, <2>5, <2>10 DEF Extended, Small, Medium, Large
  <2>8. s \in Seq(Nat) /\ Len(s) = 8 /\ s[5] = c /\ s[6] = d /\ s[7] = a /\ s[8] = b
    BY <2>2, <2>3
  <2>9. /\ \A i \in 1..14 : h[i] \in Nat
        /\ h[1] = h1[1] /\ h[2] = h1[2] /\ h[7] = s[5] /\ h[8] = s[6] /\ h[9] = s[7] /\ h[10] = s[8]
    <3>1. h1 \in Headers /\ s \in Numbers /\ at \in Nat
      BY <2>6, <2>8, <2>10 DEF Headers, Numbers, MAX_HEADER_LENGTH
    <3>2. /\ \A i \in 1..14 : h[i] \in Nat
          /\ h[1] = h1[1] /\ h[2] = h1[2]
          /\ Len(s) = 2 => h[3] = s[1] /\ h[4] = s[2]
          /\ Len(s) = 8 => h[7] = s[5] /\ h[8] = s[6] /\ h[9] = s[7] /\ h[10] = s[8]
      BY ONLY <2>7, <2>10, <3>1, PutAtThree
    <3> QED
      BY <2>8, <3>2
  <2> QED
    BY <1>3, <2>1, <2>6, <2>8, <2>9 DEF Medium, Large
<1> QED
  BY <1>1, <1>2, <1>3 DEF Large

\* What is written reads as what was meant.
LEMMA Written ==
    ASSUME NEW op \in Ops, NEW n \in Nat, NEW payload, Write(op, n, payload)
    PROVE  /\ out' # Nothing =>
                 /\ WellFormed(out') /\ get_opcode(out'.header) = op
                 /\ out'.length = n /\ out'.payload = payload
           /\ Small(n) => out' # Nothing
<1> DEFINE h == Extended([ClearHeader EXCEPT ![1] = 128 + op], n)
           size == IF Small(n) THEN 2 ELSE IF Medium(n) THEN 4 ELSE 10
           header == get_header_str(h)
<1>11. PICK h0 : h0 = [ClearHeader EXCEPT ![1] = 128 + op]
  OBVIOUS
<1>12. h0 \in [1..14 -> Nat] /\ h0[1] = 128 + op
  BY <1>11, OpsAre DEF ClearHeader, MAX_HEADER_LENGTH
<1>13. h = Extended(h0, n)
  BY <1>11
<1> HIDE DEF h
<1>1. /\ \A i \in 1..14 : h[i] \in Nat
      /\ h[1] = 128 + op
      /\ Small(n) => h[2] = n
      /\ Medium(n) => h[2] = 126 /\ h[3] = OctetAt(n, 256) /\ h[4] = OctetAt(n, 1)
      /\ Large(n) =>
            /\ h[2] = 127 /\ h[7] = OctetAt(n, TwoTo24) /\ h[8] = OctetAt(n, TwoTo16)
            /\ h[9] = OctetAt(n, 256) /\ h[10] = OctetAt(n, 1)
  <2>1. /\ \A i \in 1..14 : h[i] \in Nat
        /\ h[1] = h0[1]
        /\ Small(n) => h[2] = n
        /\ Medium(n) => h[2] = 126 /\ h[3] = OctetAt(n, 256) /\ h[4] = OctetAt(n, 1)
        /\ Large(n) =>
              /\ h[2] = 127 /\ h[7] = OctetAt(n, TwoTo24) /\ h[8] = OctetAt(n, TwoTo16)
              /\ h[9] = OctetAt(n, 256) /\ h[10] = OctetAt(n, 1)
    BY ONLY <1>12, <1>13, n \in Nat, ExtendedIs
  <2> QED
    BY <1>12, <2>1
<1>2. get_header_len(h) = size
  BY <1>1, SMT DEF get_header_len, get_masked, get_basic_size, Small, Large, PAYLOAD_SIZE_BASIC
<1>3. Len(header) = size /\ \A i \in 1..size : header[i] = h[i]
  <2>1. \A i \in 1..size : h[i] \in Nat
    BY <1>1
  <2>2. Len(SubSeq(h, 1, size)) = size /\ \A i \in 1..size : SubSeq(h, 1, size)[i] = h[1 + i - 1]
    BY <2>1, SubSeqProperties
  <2>3. \A i \in 1..size : 1 + i - 1 = i
    OBVIOUS
  <2> QED
    BY <1>2, <2>2, <2>3 DEF get_header_str
<1> HIDE DEF header
<1>4. header[1] = 128 + op /\ header # <<>>
  BY <1>1, <1>3
<1>5. n <= max_payload_size => LengthRead(header) = n
  <2>1. CASE Small(n)
    BY <1>1, <1>3, <2>1 DEF LengthRead, Small, PAYLOAD_SIZE_BASIC
  <2>2. CASE Medium(n)
    <3>1. header[2] = 126 /\ header[3] = OctetAt(n, 256) /\ header[4] = OctetAt(n, 1)
      BY <1>1, <1>3, <2>2 DEF Medium
    <3>2. OctetAt(n, 256) * 256 + OctetAt(n, 1) = n
      BY <2>2, TwoOctets DEF Medium
    <3> QED
      BY <3>1, <3>2 DEF LengthRead
  <2>3. CASE Large(n) /\ n <= max_payload_size
    <3>1. /\ header[2] = 127 /\ header[7] = OctetAt(n, TwoTo24) /\ header[8] = OctetAt(n, TwoTo16)
          /\ header[9] = OctetAt(n, 256) /\ header[10] = OctetAt(n, 1)
      BY <1>1, <1>3, <2>3 DEF Large
    <3>2. ((OctetAt(n, TwoTo24) * 256 + OctetAt(n, TwoTo16)) * 256 + OctetAt(n, 256)) * 256
          + OctetAt(n, 1) = n
      BY <2>3, FourOctets
    <3> QED
      BY <3>1, <3>2 DEF LengthRead
  <2> QED
    BY <2>1, <2>2, <2>3 DEF Large
<1>6. header[1] \div 16 = 8 /\ header[1] % 16 = op
  BY <1>4, OpsAre
<1>7. HeaderOf(op, n) = IF n > max_payload_size \/ (is_control(op) /\ n > PAYLOAD_SIZE_BASIC) THEN <<>> ELSE header
  BY DEF HeaderOf, header, h
<1>8. ASSUME out' # Nothing
      PROVE  n <= max_payload_size /\ out' = [header |-> header, length |-> n, payload |-> payload]
  BY <1>7, <1>8, SMT DEF Write, max_payload_size
<1>9. Small(n) => out' # Nothing
  <2>1. Small(n) => ~(n > max_payload_size) /\ ~(n > PAYLOAD_SIZE_BASIC)
    BY SMT DEF Small, max_payload_size, PAYLOAD_SIZE_BASIC
  <2> QED
    BY <1>4, <1>7, <2>1 DEF Write, Nothing
<1>10. ASSUME out' # Nothing PROVE WellFormed(out')
  <2>1. size = 2 + (IF n > 65535 THEN 8 ELSE IF n > 125 THEN 2 ELSE 0)
    BY SMT DEF Small, Medium, PAYLOAD_SIZE_BASIC, PAYLOAD_SIZE_EXTENDED
  <2>2. /\ out'.header = header /\ out'.length = n /\ LengthRead(header) = n /\ Len(header) = size
        /\ header[1] \div 16 = 8
    BY <1>3, <1>5, <1>6, <1>8, <1>10
  <2> HIDE DEF size
  <2> QED
    BY <2>1, <2>2 DEF WellFormed
<1> QED
  BY <1>6, <1>8, <1>9, <1>10 DEF get_opcode

-----------------------------------------------------------------------------
\* What the parser reads of a client's frame.

Keys == [1..4 -> Octet]

LEMMA KeyAfterStart ==
    ASSUME NEW start \in Numbers, NEW k \in Keys, NEW c, c = start \o k
    PROVE  /\ c \in Numbers /\ Len(c) = Len(start) + 4
           /\ \A i \in 1..Len(start) : c[i] = start[i]
           /\ \A i \in 1..4 : c[Len(start) + i] = k[i]
<1>1. k \in Seq(Nat) /\ Len(k) = 4
  <2>1. k \in [1..4 -> Nat]
    BY OctetsAreNat DEF Keys
  <2>2. Len(k) = 4
    BY <2>1
  <2>3. k = [i \in 1..4 |-> k[i]] /\ \A i \in 1..4 : k[i] \in Nat
    BY ONLY <2>1
  <2>4. [i \in 1..4 |-> k[i]] \in Seq(Nat)
    BY ONLY <2>3
  <2> QED
    BY <2>2, <2>3, <2>4
<1> start \in Seq(Nat)
  BY DEF Numbers
<1>2. c \in Seq(Nat)
  BY <1>1, ConcatProperties
<1>3. Len(c) = Len(start) + 4
  <2>1. Len(c) = Len(start) + Len(k)
    BY <1>1, ConcatProperties
  <2> QED
    BY <1>1, <2>1
<1>4. \A i \in 1..Len(c) : c[i] = IF i <= Len(start) THEN start[i] ELSE k[i - Len(start)]
  BY <1>1, ConcatProperties
<1>5. \A i \in 1..Len(start) : c[i] = start[i]
  BY <1>3, <1>4
<1>6. \A i \in 1..4 : c[Len(start) + i] = k[i]
  <2> TAKE i \in 1..4
  <2>1. PICK j : j = Len(start) + i
    OBVIOUS
  <2>2. j \in 1..Len(c) /\ ~(j <= Len(start)) /\ j - Len(start) = i
    BY <1>3, <2>1
  <2>3. c[j] = k[j - Len(start)]
    BY <1>4, <2>2
  <2> QED
    BY <2>1, <2>2, <2>3
<1> QED
  BY <1>2, <1>3, <1>5, <1>6 DEF Numbers

LEMMA PutAtOne ==
    ASSUME NEW s \in Numbers, Len(s) <= 14, NEW at \in Nat, at = 1,
           NEW g, g = Put(ClearHeader, at, s)
    PROVE  /\ \A i \in 1..14 : g[i] \in Nat
           /\ \A i \in 1..Len(s) : g[i] = s[i]
<1>1. ClearHeader \in Headers
  BY DEF ClearHeader, Headers
<1>2. ASSUME NEW i \in 1..14
      PROVE  /\ i \in at..at + Len(s) - 1 => g[i] = s[i - at + 1]
             /\ g[i] \in Nat
  BY ONLY <1>1, PutIs, s \in Numbers, at \in Nat, i \in 1..14, g = Put(ClearHeader, at, s)
<1>3. s \in Seq(Nat)
  BY DEF Numbers
<1>4. ASSUME NEW i \in 1..Len(s) PROVE g[i] = s[i]
  <2>1. i \in 1..14 /\ i \in at..at + Len(s) - 1 /\ i - at + 1 = i
    BY <1>3
  <2> QED
    BY <1>2, <2>1
<1> QED
  BY <1>2, <1>4

LEMMA HeaderRead ==
    ASSUME NEW f \in MaskedFrames, Len(f.payload) <= PAYLOAD_SIZE_EXTENDED,
           NEW h, h = Put(ClearHeader, 1, ClientHeader(f))
    PROVE  /\ get_masked(h) /\ get_opcode(h) = f.opcode
           /\ \A i \in 1..4 : get_masking_key(h)[i] = f.key[i]
<1>1. PICK n, op, k, at : n = Len(f.payload) /\ op = f.opcode /\ k = f.key /\ at = 1
  OBVIOUS
<1>2. n \in Nat /\ op \in {1, 2, 8, 9, 10} /\ k \in [1..4 -> Octet]
  BY <1>1 DEF MaskedFrames, TEXT, BINARY, CLOSE, PING, PONG
<1>3. PICK start, c : /\ start = IF n < 126 THEN <<128 + op, 128 + n>>
                                ELSE <<128 + op, 128 + 126, n \div 256, n % 256>>
                      /\ c = start \o k
  OBVIOUS
<1>5. h = Put(ClearHeader, at, c)
  BY <1>1, <1>3 DEF ClientHeader
<1>6. /\ start \in Seq(Nat) /\ start[1] = 128 + op /\ start[2] = 128 + (IF n < 126 THEN n ELSE 126)
      /\ Len(start) = IF n < 126 THEN 2 ELSE 4
  <2>1. CASE n < 126
    BY <1>2, <1>3, <2>1
  <2>2. CASE ~(n < 126)
    BY <1>2, <1>3, <2>2
  <2> QED
    BY <2>1, <2>2
<1>7. /\ c \in Numbers /\ Len(c) = Len(start) + 4
      /\ \A i \in 1..Len(start) : c[i] = start[i]
      /\ \A i \in 1..4 : c[Len(start) + i] = k[i]
  <2>1. start \in Numbers /\ k \in Keys /\ c = start \o k
    BY <1>2, <1>3, <1>6 DEF Numbers, Keys
  <2>2. /\ c \in Numbers /\ Len(c) = Len(start) + 4
        /\ \A i \in 1..Len(start) : c[i] = start[i]
    BY ONLY <2>1, KeyAfterStart
  <2>3. \A i \in 1..4 : c[Len(start) + i] = k[i]
    BY ONLY <2>1, KeyAfterStart
  <2> QED
    BY <2>2, <2>3
<1>8. Len(c) <= 14
  BY <1>6, <1>7
<1>9. (\A i \in 1..14 : h[i] \in Nat) /\ \A i \in 1..Len(c) : h[i] = c[i]
  <2>1. c \in Numbers /\ at \in Nat /\ at = 1
    BY <1>1, <1>7
  <2> QED
    BY ONLY <1>5, <1>8, <2>1, PutAtOne
<1>10. /\ h[1] = 128 + op /\ h[2] = 128 + (IF n < 126 THEN n ELSE 126)
       /\ \A i \in 1..4 : h[Len(start) + i] = k[i]
  <2>1. 1 \in 1..Len(start) /\ 2 \in 1..Len(start) /\ 1 \in 1..Len(c) /\ 2 \in 1..Len(c)
    BY <1>6, <1>7
  <2>2. \A i \in 1..4 : Len(start) + i \in 1..Len(c)
    BY <1>6, <1>7
  <2>3. h[1] = start[1] /\ h[2] = start[2]
    BY <1>7, <1>9, <2>1
  <2>4. \A i \in 1..4 : h[Len(start) + i] = k[i]
    BY <1>7, <1>9, <2>2
  <2> QED
    BY <1>6, <2>3, <2>4
<1>11. get_masked(h) /\ get_opcode(h) = op
  <2>1. h[2] >= 128
    BY <1>2, <1>10
  <2>2. h[1] % 16 = op
    <3>1. (128 + op) % 16 = op
      BY <1>2
    <3> QED
      BY <1>10, <3>1
  <2> QED
    BY <2>1, <2>2 DEF get_masked, get_opcode
<1>12. get_header_len(h) = Len(start) + 4
  <2>1. get_basic_size(h) = IF n < 126 THEN n ELSE 126
    BY <1>2, <1>10 DEF get_basic_size
  <2> QED
    BY <1>2, <1>6, <1>11, <2>1 DEF get_header_len
<1>13. \A i \in 1..4 : get_masking_key(h)[i] = k[i]
  <2>1. PICK m, l : m = Len(start) + 1 /\ l = Len(start) + 4
    OBVIOUS
  <2>2. m \in 1..14 /\ l \in 1..14 /\ l - m + 1 = 4
    BY <1>6, <2>1
  <2>3. \A i \in m..l : h[i] \in Nat
    <3> TAKE i \in m..l
    <3>1. i \in 1..14
      BY <2>2
    <3> QED
      BY <1>9, <3>1
  <2>4. \A i \in 1..4 : SubSeq(h, m, l)[i] = h[m + i - 1]
    <3>1. m \in Int /\ l \in Int
      BY ONLY <2>2
    <3>2. \A i \in 1..l - m + 1 : SubSeq(h, m, l)[i] = h[m + i - 1]
      BY ONLY <3>1, <2>3, SubSeqProperties
    <3> QED
      BY ONLY <2>2, <3>2
  <2>5. \A i \in 1..4 : h[m + i - 1] = h[Len(start) + i]
    <3> TAKE i \in 1..4
    <3>1. m + i - 1 = Len(start) + i
      BY <1>6, <2>1
    <3> QED
      BY <3>1
  <2>6. get_masking_key(h) = SubSeq(h, m, l)
    <3>1. get_header_len(h) - 3 = m /\ get_header_len(h) = l
      BY <1>6, <1>12, <2>1
    <3> QED
      BY <3>1 DEF get_masking_key
  <2> QED
    BY <1>10, <2>4, <2>5, <2>6
<1> QED
  BY <1>1, <1>11, <1>13

\* The parser has what the client masked.
LEMMA UnmaskedIsPayload ==
    ASSUME NEW f \in MaskedFrames, Len(f.payload) <= PAYLOAD_SIZE_EXTENDED,
           m_header = Put(ClearHeader, 1, ClientHeader(f)), m_payload = Masked(f)
    PROVE  Unmasked = f.payload /\ get_opcode(m_header) = f.opcode
<1>1. /\ get_masked(m_header) /\ get_opcode(m_header) = f.opcode
      /\ \A i \in 1..4 : get_masking_key(m_header)[i] = f.key[i]
  BY ONLY f \in MaskedFrames, Len(f.payload) <= PAYLOAD_SIZE_EXTENDED, m_header = Put(ClearHeader, 1, ClientHeader(f)), HeaderRead
<1>2. PICK p, k, k2 : p = f.payload /\ k = f.key /\ k2 = get_masking_key(m_header)
  OBVIOUS
<1>3. p \in Seq(Octet) /\ k \in [1..4 -> Octet] /\ \A i \in 1..4 : k2[i] = k[i]
  BY <1>1, <1>2 DEF MaskedFrames, TEXT, BINARY, CLOSE, PING, PONG
<1>4. PICK q : q = Masking(p, k)
  OBVIOUS
<1>5. DOMAIN q = 1..Len(p) /\ \A i \in 1..Len(p) : q[i] = XorOctets(p[i], k[1 + ((i - 1) % 4)])
  BY <1>3, <1>4 DEF Masking
<1>6. ASSUME NEW i \in 1..Len(p) PROVE XorOctets(q[i], k2[1 + ((i - 1) % 4)]) = p[i]
  <2>1. PICK j : j = 1 + ((i - 1) % 4)
    OBVIOUS
  <2>2. j \in 1..4
    BY <2>1
  <2>3. p[i] \in Octet /\ k[j] \in Octet /\ k2[j] = k[j]
    BY <1>3, <2>2, ElementOfSeq
  <2>4. q[i] = XorOctets(p[i], k[j])
    BY <1>5, <2>1
  <2> QED
    BY <2>1, <2>3, <2>4, XorUndone
<1>7. Masking(q, k2) = [i \in 1..Len(p) |-> p[i]]
  BY <1>5, <1>6 DEF Masking
<1>8. [i \in 1..Len(p) |-> p[i]] = p
  BY <1>3
<1> QED
  BY <1>1, <1>2, <1>4, <1>7, <1>8 DEF Unmasked, Masked

-----------------------------------------------------------------------------
\* What a close is answered with.

Words == {n \in Nat : n <= PAYLOAD_SIZE_EXTENDED}
Coded(c, reason) == BigEndian(c, 2) \o reason

LEMMA CodeOctets ==
    ASSUME NEW c \in Words, NEW reason \in Numbers, NEW p, p = Coded(c, reason)
    PROVE  /\ p \in Numbers /\ Len(p) = Len(reason) + 2 /\ 256 * p[1] + p[2] = c
           /\ p[1] = OctetAt(c, 256) /\ p[2] = OctetAt(c, 1)
           /\ \A i \in 1..Len(reason) : p[i + 2] = reason[i]
<1> c \in Nat /\ c <= PAYLOAD_SIZE_EXTENDED
  BY DEF Words
<1>1. PICK a, b, s : a = OctetAt(c, 256) /\ b = OctetAt(c, 1) /\ s = <<a, b>>
  OBVIOUS
<1>2. a \in Nat /\ b \in Nat /\ a * 256 + b = c
  BY <1>1, OctetsAt, OctetsAreNat, TwoOctets
<1>3. p = s \o reason
  BY <1>1 DEF BigEndian, Coded
<1>4. s \in Seq(Nat) /\ Len(s) = 2 /\ s[1] = a /\ s[2] = b
  BY <1>1, <1>2
<1>5. reason \in Seq(Nat)
  BY DEF Numbers
<1>6. /\ p \in Seq(Nat) /\ Len(p) = Len(s) + Len(reason)
      /\ \A i \in 1..Len(s) + Len(reason) : p[i] = IF i <= Len(s) THEN s[i] ELSE reason[i - Len(s)]
  <2>1. s \in Seq(Nat)
    BY <1>4
  <2>2. s \o reason \in Seq(Nat) /\ Len(s \o reason) = Len(s) + Len(reason)
    BY ONLY <1>5, <2>1, ConcatProperties
  <2>3. \A i \in 1..Len(s) + Len(reason) :
            (s \o reason)[i] = IF i <= Len(s) THEN s[i] ELSE reason[i - Len(s)]
    BY ONLY <1>5, <2>1, ConcatProperties
  <2> QED
    BY <1>3, <2>2, <2>3
<1>7. p[1] = a /\ p[2] = b
  BY <1>4, <1>5, <1>6
<1>8. \A i \in 1..Len(reason) : p[i + 2] = reason[i]
  <2> TAKE i \in 1..Len(reason)
  <2>1. PICK j : j = i + 2
    OBVIOUS
  <2>2. j \in 1..Len(s) + Len(reason) /\ ~(j <= Len(s)) /\ j - Len(s) = i
    BY <1>4, <1>5, <2>1
  <2>3. p[j] = reason[j - Len(s)]
    BY <1>6, <2>2
  <2> QED
    BY <2>1, <2>2, <2>3
<1>9. Len(p) = Len(reason) + 2
  BY <1>4, <1>5, <1>6
<1>10. 256 * p[1] + p[2] = c
  <2>1. 256 * a + b = c
    BY <1>2
  <2> QED
    BY <1>7, <2>1
<1> QED
  BY <1>1, <1>6, <1>7, <1>8, <1>9, <1>10 DEF Numbers

Payloads == Seq(Octet)

LEMMA OwnReasons ==
    /\ StatusIsInvalid \in Numbers /\ Len(StatusIsInvalid) = 22
    /\ StatusIsReserved \in Numbers /\ Len(StatusIsReserved) = 23
    /\ <<>> \in Numbers /\ Len(<<>>) = 0
  BY DEF StatusIsInvalid, StatusIsReserved, Numbers

\* The codes that are sent back.
LEMMA CodesAre ==
    ASSUME NEW c \in Nat
    PROVE  /\ c \in Codes <=> c # NO_STATUS /\ ~invalid(c) /\ ~reserved(c)
           /\ NORMAL \in Codes /\ PROTOCOL_ERROR \in Codes
  BY SMT DEF Codes, NO_STATUS, invalid, reserved, ABNORMAL_CLOSE, NORMAL, PROTOCOL_ERROR

\* A code and the reason after it, put together again.
LEMMA PayloadAgain ==
    ASSUME NEW p \in Payloads, Len(p) >= 2
    PROVE  /\ get_close_code(p) = 256 * p[1] + p[2]
           /\ get_close_code(p) \in Words
           /\ get_close_reason(p) \in Numbers /\ Len(get_close_reason(p)) = Len(p) - 2
           /\ Coded(get_close_code(p), get_close_reason(p)) = p
<1>1. PICK c, r, q : /\ c = get_close_code(p) /\ r = get_close_reason(p)
                     /\ q = Coded(c, r)
  OBVIOUS
<1>11. q = Coded(c, r)
  BY <1>1
<1>2. p \in Seq(Octet) /\ p # <<>>
  BY DEF Payloads
<1>3. p[1] \in Octet /\ p[2] \in Octet
  BY <1>2, ElementOfSeq
<1>4. c = 256 * p[1] + p[2]
  BY <1>1, <1>2 DEF get_close_code
<1>5. c \in Words
  <2>1. PICK x, y : x = p[1] /\ y = p[2]
    OBVIOUS
  <2>2. x \in 0..255 /\ y \in 0..255 /\ c = 256 * x + y
    BY <1>3, <1>4, <2>1 DEF Octet
  <2> QED
    BY ONLY <2>2, SMT DEF PAYLOAD_SIZE_EXTENDED, Words
<1>6. p \in Seq(Nat)
  BY <1>2, OctetsAreNat, SeqMonotonic
<1>7. r \in Seq(Nat) /\ Len(r) = Len(p) - 2 /\ \A i \in 1..Len(r) : r[i] = p[i + 2]
  <2>1. PICK m, l : m = 3 /\ l = Len(p)
    OBVIOUS
  <2>2. r = SubSeq(p, m, l)
    BY <1>1, <2>1 DEF get_close_reason
  <2>3. m \in Int /\ l \in Int /\ \A i \in m..l : p[i] \in Nat
    BY <1>6, <2>1, ElementOfSeq
  <2>4. /\ SubSeq(p, m, l) \in Seq(Nat)
        /\ Len(SubSeq(p, m, l)) = IF m <= l THEN l - m + 1 ELSE 0
        /\ \A i \in 1..l - m + 1 : SubSeq(p, m, l)[i] = p[m + i - 1]
    BY ONLY <2>3, SubSeqProperties
  <2>5. Len(r) = Len(p) - 2
    BY <1>6, <2>1, <2>2, <2>4
  <2>6. \A i \in 1..Len(r) : r[i] = p[i + 2]
    <3> TAKE i \in 1..Len(r)
    <3>1. i \in 1..l - m + 1 /\ m + i - 1 = i + 2
      BY <1>6, <2>1, <2>5
    <3> QED
      BY <2>2, <2>4, <3>1
  <2> QED
    BY <2>2, <2>4, <2>5, <2>6
<1>8. r \in Numbers
  BY <1>7 DEF Numbers
<1>9. /\ q \in Numbers /\ Len(q) = Len(r) + 2
      /\ 256 * q[1] + q[2] = c
      /\ q[1] = OctetAt(c, 256) /\ q[2] = OctetAt(c, 1)
      /\ \A i \in 1..Len(r) : q[i + 2] = r[i]
  BY ONLY <1>5, <1>8, <1>11, CodeOctets
<1>10. q[1] = p[1] /\ q[2] = p[2]
  <2>1. PICK x, y : x = p[1] /\ y = p[2]
    OBVIOUS
  <2>2. x \in 0..255 /\ y \in 0..255 /\ c = 256 * x + y
    BY <1>3, <1>4, <2>1 DEF Octet
  <2>3. OctetAt(c, 256) = x /\ OctetAt(c, 1) = y
    BY ONLY <2>2, SMT DEF OctetAt
  <2> QED
    BY <1>9, <2>1, <2>3
<1>12. q = p
  <2>1. q \in Seq(Nat) /\ Len(q) = Len(p)
    BY <1>6, <1>7, <1>9 DEF Numbers
  <2>2. ASSUME NEW i \in 1..Len(p) PROVE q[i] = p[i]
    <3>1. CASE i \in {1, 2}
      BY <1>10, <3>1
    <3>2. CASE i \notin {1, 2}
      <4>1. PICK j : j = i - 2
        OBVIOUS
      <4>2. j \in 1..Len(r) /\ j + 2 = i
        BY <1>6, <1>7, <3>2, <4>1
      <4>3. q[j + 2] = r[j] /\ r[j] = p[j + 2]
        BY <1>7, <1>9, <4>2
      <4> QED
        BY <4>2, <4>3
    <3> QED
      BY <3>1, <3>2
  <2> QED
    BY <1>6, <2>1, <2>2, SeqEqual
<1> QED
  BY <1>1, <1>4, <1>5, <1>7, <1>8, <1>12

\* send_close_ack: a close comes back, with the client's code and reason if the code may
\* be sent, else with one that may be.
LEMMA CloseAck ==
    ASSUME NEW p \in Payloads, Len(p) # 1, Len(p) <= PAYLOAD_SIZE_BASIC,
           send_close_ack(get_close_code(p), get_close_reason(p))
    PROVE  /\ out' # Nothing /\ WellFormed(out') /\ get_opcode(out'.header) = CLOSE
           /\ IF p # <<>> /\ 256 * p[1] + p[2] \in Codes THEN out'.payload = p
              ELSE 256 * out'.payload[1] + out'.payload[2] \in Codes
<1>1. PICK c, r : c = get_close_code(p) /\ r = get_close_reason(p)
  OBVIOUS
<1>2. PICK q : q = IF c = NO_STATUS THEN BigEndian(NORMAL, 2)
                   ELSE IF invalid(c) THEN Coded(PROTOCOL_ERROR, StatusIsInvalid)
                   ELSE IF reserved(c) THEN Coded(PROTOCOL_ERROR, StatusIsReserved)
                   ELSE Coded(c, r)
  OBVIOUS
<1>3. Write(CLOSE, Len(q), q)
  BY <1>1, <1>2 DEF send_close_ack, Coded
<1>4. PICK back : back = (c # NO_STATUS /\ ~invalid(c) /\ ~reserved(c))
  OBVIOUS
<1>5. ~back => Len(q) \in Nat /\ Small(Len(q)) /\ 256 * q[1] + q[2] \in Codes
  <2>1. ASSUME NEW n \in {NORMAL, PROTOCOL_ERROR}, NEW t \in Numbers, Len(t) <= 23,
               q = Coded(n, t)
        PROVE  Len(q) \in Nat /\ Small(Len(q)) /\ 256 * q[1] + q[2] \in Codes
    <3>1. n \in Words /\ n \in Codes
      BY SMT DEF Codes, Words, NORMAL, PROTOCOL_ERROR, PAYLOAD_SIZE_EXTENDED
    <3>2. q \in Numbers /\ Len(q) = Len(t) + 2
      BY ONLY <3>1, <2>1, t \in Numbers, CodeOctets
    <3>3. 256 * q[1] + q[2] = n
      BY ONLY <3>1, <2>1, t \in Numbers, CodeOctets
    <3>4. Len(q) \in Nat /\ Small(Len(q))
      BY <2>1, <3>2 DEF Numbers, Small, PAYLOAD_SIZE_BASIC
    <3> QED
      BY <3>1, <3>3, <3>4
  <2>2. BigEndian(NORMAL, 2) = Coded(NORMAL, <<>>)
    <3>1. BigEndian(NORMAL, 2) = <<OctetAt(NORMAL, 256), OctetAt(NORMAL, 1)>>
      BY DEF BigEndian
    <3>2. NORMAL \in Nat
      BY DEF NORMAL
    <3>3. OctetAt(NORMAL, 256) \in Nat /\ OctetAt(NORMAL, 1) \in Nat
      BY <3>2, OctetsAt, OctetsAreNat
    <3>4. BigEndian(NORMAL, 2) \in Seq(Nat)
      <4>1. \A a, b \in Nat : <<a, b>> \in Seq(Nat)
        OBVIOUS
      <4> QED
        BY <3>1, <3>3, <4>1
    <3> QED
      BY <3>4, ConcatEmptySeq DEF Coded
  <2> SUFFICES ASSUME ~back PROVE Len(q) \in Nat /\ Small(Len(q)) /\ 256 * q[1] + q[2] \in Codes
    OBVIOUS
  <2>3. CASE c = NO_STATUS
    <3>2. <<>> \in Numbers /\ Len(<<>>) <= 23
      BY OwnReasons
    <3>1. q = Coded(NORMAL, <<>>)
      BY <1>2, <2>2, <2>3
    <3> QED
      BY <2>1, <3>1, <3>2
  <2>4. CASE c # NO_STATUS /\ invalid(c)
    <3>2. StatusIsInvalid \in Numbers /\ Len(StatusIsInvalid) <= 23
      BY OwnReasons
    <3>1. q = Coded(PROTOCOL_ERROR, StatusIsInvalid)
      BY <1>2, <2>4
    <3> QED
      BY <2>1, <3>1, <3>2
  <2>5. CASE c # NO_STATUS /\ ~invalid(c) /\ reserved(c)
    <3>2. StatusIsReserved \in Numbers /\ Len(StatusIsReserved) <= 23
      BY OwnReasons
    <3>1. q = Coded(PROTOCOL_ERROR, StatusIsReserved)
      BY <1>2, <2>5
    <3> QED
      BY <2>1, <3>1, <3>2
  <2> QED
    BY <1>4, <2>3, <2>4, <2>5
<1>6. back => Len(p) >= 2
  <2>1. Len(p) \in Nat
    BY DEF Payloads
  <2>2. p = <<>> => c = NO_STATUS
    BY <1>1 DEF get_close_code
  <2>3. Len(p) = 0 => p = <<>>
    BY EmptySeq DEF Payloads
  <2>4. back => Len(p) # 0
    BY <1>4, <2>2, <2>3
  <2>5. PICK n : n = Len(p)
    OBVIOUS
  <2>6. n \in Nat /\ n # 1
    BY <2>1, <2>5
  <2>7. back => n # 0
    BY <2>4, <2>5
  <2>8. back => n >= 2
    BY ONLY <2>6, <2>7
  <2> QED
    BY <2>5, <2>8
<1>7. back => q = p
  <2>1. back => q = Coded(c, r)
    BY <1>2, <1>4
  <2> QED
    BY <1>1, <1>6, <2>1, PayloadAgain
<1>8. back <=> p # <<>> /\ 256 * p[1] + p[2] \in Codes
  <2>1. CASE Len(p) >= 2
    <3>1. c \in Nat /\ c = 256 * p[1] + p[2]
      BY <1>1, <2>1, PayloadAgain DEF Words
    <3>2. p # <<>>
      BY <2>1
    <3> QED
      BY <1>4, <3>1, <3>2, CodesAre
  <2>2. CASE p = <<>>
    BY <1>1, <1>4, <2>2 DEF get_close_code
  <2>3. p = <<>> \/ Len(p) >= 2
    <3>1. Len(p) \in Nat
      BY DEF Payloads
    <3>2. Len(p) = 0 => p = <<>>
      BY EmptySeq DEF Payloads
    <3>3. PICK n : n = Len(p)
      OBVIOUS
    <3>4. n \in Nat /\ n # 1
      BY <3>1, <3>3
    <3>5. n = 0 \/ n >= 2
      BY ONLY <3>4
    <3> QED
      BY <3>2, <3>3, <3>5
  <2> QED
    BY <2>1, <2>2, <2>3
<1>9. Len(q) \in Nat /\ Small(Len(q))
  <2>1. back => Len(q) \in Nat /\ Small(Len(q))
    <3>1. Len(p) \in Nat /\ Small(Len(p))
      BY DEF Small, Payloads
    <3> QED
      BY <1>7, <3>1
  <2> QED
    BY <1>5, <2>1
<1>10. /\ out' # Nothing /\ WellFormed(out') /\ get_opcode(out'.header) = CLOSE
       /\ out'.payload = q
  BY <1>3, <1>9, Written DEF Ops
<1> QED
  BY <1>5, <1>7, <1>8, <1>10

-----------------------------------------------------------------------------
\* Between two frames the parser is clear, and with one it has what the client sent.
CodecInv ==
    /\ from = NoFrom \/ from \in ClientFrames
    /\ ready => /\ from \in ClientFrames
                /\ m_header = Put(ClearHeader, 1, ClientHeader(from)) /\ m_payload = Masked(from)
    /\ ~ready => m_header = ClearHeader /\ m_payload = <<>>
    /\ AnswersRight

LEMMA ClientFrameIs ==
    ASSUME NEW f \in ClientFrames
    PROVE  /\ f \in MaskedFrames /\ f.payload \in Payloads /\ Len(f.payload) \in Nat
           /\ Len(f.payload) <= PAYLOAD_SIZE_EXTENDED
           /\ f.opcode \in {PING, PONG, CLOSE} => Small(Len(f.payload))
<1>1. f \in MaskedFrames
  BY CodecAssumption
<1>2. PICK n, op : n = Len(f.payload) /\ op = f.opcode
  OBVIOUS
<1>3. f.payload \in Payloads /\ op \in {1, 2, 8, 9, 10} /\ n \in Nat
  BY <1>1, <1>2, SMT DEF MaskedFrames, Payloads, TEXT, BINARY, CLOSE, PING, PONG
<1>4. n <= IF op >= CLOSE THEN PAYLOAD_SIZE_BASIC ELSE PAYLOAD_SIZE_EXTENDED
  BY <1>2, CodecAssumption
<1>5. n <= PAYLOAD_SIZE_EXTENDED
  BY ONLY <1>3, <1>4, SMT DEF PAYLOAD_SIZE_BASIC, PAYLOAD_SIZE_EXTENDED
<1>6. op \in {PING, PONG, CLOSE} => Small(n)
  BY ONLY <1>3, <1>4, SMT DEF Small, PING, PONG, CLOSE
<1> QED
  BY <1>1, <1>2, <1>3, <1>5, <1>6

LEMMA ArrivesKeeps ==
    ASSUME CodecInv, NEW f \in ClientFrames, Arrives(f)
    PROVE  CodecInv'
<1>1. ready' /\ from' = f /\ out' = Nothing /\ sending' = <<>>
  BY DEF Arrives
<1>2. m_header' = Put(ClearHeader, 1, ClientHeader(from')) /\ m_payload' = Masked(from')
  BY DEF Arrives, CodecInv
<1>3. AnswersRight'
  BY <1>1 DEF AnswersRight
<1> QED
  BY <1>1, <1>2, <1>3 DEF CodecInv

LEMMA SendKeeps ==
    ASSUME CodecInv, NEW op \in {TEXT, BINARY}, NEW s \in SentLengths, Send(op, s)
    PROVE  CodecInv'
<1>1. /\ Write(op, s, <<>>) /\ sending' = <<op, s>>
      /\ UNCHANGED <<m_header, m_payload, ready, from>>
  BY DEF Send
<1>2. op \in Ops /\ s \in Nat
  BY CodecAssumption DEF Ops
<1>3. out' # Nothing => WellFormed(out') /\ get_opcode(out'.header) = op /\ out'.length = s
  BY <1>1, <1>2, Written
<1>4. sending' # <<>>
  BY <1>1
<1>5. AnswersRight'
  BY <1>1, <1>3, <1>4 DEF AnswersRight
<1> QED
  BY <1>1, <1>5 DEF CodecInv

LEMMA ProcessKeeps ==
    ASSUME CodecInv, Process
    PROVE  CodecInv'
<1>1. PICK f : f = from
  OBVIOUS
<1>2. ready /\ f \in ClientFrames
  BY <1>1 DEF Process, CodecInv
<1>3. /\ f \in MaskedFrames /\ f.payload \in Payloads /\ Len(f.payload) \in Nat
      /\ Len(f.payload) <= PAYLOAD_SIZE_EXTENDED
      /\ f.opcode \in {PING, PONG, CLOSE} => Small(Len(f.payload))
  BY <1>2, ClientFrameIs
<1>4. get_opcode(m_header) = f.opcode /\ Unmasked = f.payload
  <2>1. m_header = Put(ClearHeader, 1, ClientHeader(f)) /\ m_payload = Masked(f)
    BY <1>1, <1>2 DEF CodecInv
  <2> QED
    BY <1>3, <2>1, UnmaskedIsPayload
<1>5. PICK op, p : op = f.opcode /\ p = f.payload
  OBVIOUS
<1>6. PICK short, abnormal : /\ short = (op = CLOSE /\ Len(p) = 1)
                             /\ abnormal = (op = CLOSE /\ ~short /\ get_close_code(p) = ABNORMAL_CLOSE)
  OBVIOUS
<1>7. /\ IF abnormal THEN UNCHANGED <<m_header, m_payload, ready, closed>>
         ELSE m_header' = ClearHeader /\ m_payload' = <<>> /\ ready' = FALSE /\ closed' = (op = CLOSE)
      /\ message' = IF is_control(op) THEN <<>> ELSE p
      /\ IF op = PING THEN Write(PONG, Len(p), p)
         ELSE IF op = CLOSE /\ ~short /\ ~abnormal
         THEN send_close_ack(get_close_code(p), get_close_reason(p))
         ELSE out' = Nothing
      /\ sending' = <<>> /\ from' = f
  BY <1>1, <1>4, <1>5, <1>6 DEF Process
<1>8. CASE abnormal
  <2>5. op = CLOSE
    BY <1>6, <1>8, Zenon
  <2>4. op # PING
    BY <2>5 DEF CLOSE, PING
  <2>1. out' = Nothing
    BY <1>7, <1>8, <2>4
  <2>2. UNCHANGED <<m_header, m_payload, ready, from>>
    BY <1>1, <1>7, <1>8
  <2>3. AnswersRight'
    BY <1>2, <1>7, <2>1, <2>2 DEF AnswersRight
  <2> QED
    BY <2>2, <2>3 DEF CodecInv
<1>9. CASE ~abnormal
  <2>1. m_header' = ClearHeader /\ m_payload' = <<>> /\ ready' = FALSE /\ from' = f /\ sending' = <<>>
    BY <1>7, <1>9
  <2>5. ASSUME out' # Nothing => WellFormed(out'), Reaction(f)' PROVE CodecInv'
    <3>1. Reaction(from)'
      BY <2>1, <2>5 DEF Reaction
    <3>2. AnswersRight'
      BY <2>1, <2>5, <3>1 DEF AnswersRight
    <3> QED
      BY <1>2, <2>1, <3>2 DEF CodecInv
  <2>2. CASE op = PING
    <3>1. Write(PONG, Len(p), p) /\ PONG \in Ops /\ Len(p) \in Nat /\ Small(Len(p))
      BY <1>3, <1>5, <1>7, <2>2 DEF Ops
    <3>2. out' # Nothing /\ WellFormed(out') /\ get_opcode(out'.header) = PONG /\ out'.payload = p
      BY ONLY <3>1, Written
    <3>3. Reaction(f)'
      BY <1>5, <2>2, <3>2 DEF Reaction, TEXT, BINARY, CLOSE, PING, PONG
    <3> QED
      BY <2>5, <3>2, <3>3
  <2>3. CASE op = CLOSE /\ ~short
    <3>4. p \in Payloads /\ Len(p) <= PAYLOAD_SIZE_BASIC
      BY <1>3, <1>5, <2>3 DEF Small
    <3>5. Len(p) # 1
      BY <1>6, <2>3
    <3>6. op # PING
      BY <2>3 DEF CLOSE, PING
    <3>7. send_close_ack(get_close_code(p), get_close_reason(p))
      BY <1>7, <1>9, <2>3, <3>6
    <3>1. /\ send_close_ack(get_close_code(p), get_close_reason(p))
          /\ p \in Payloads /\ Len(p) # 1 /\ Len(p) <= PAYLOAD_SIZE_BASIC
      BY <3>4, <3>5, <3>7
    <3>2. /\ out' # Nothing /\ WellFormed(out') /\ get_opcode(out'.header) = CLOSE
          /\ IF p # <<>> /\ 256 * p[1] + p[2] \in Codes THEN out'.payload = p
             ELSE 256 * out'.payload[1] + out'.payload[2] \in Codes
      BY ONLY <3>1, CloseAck
    <3>3. Reaction(f)'
      BY <1>5, <2>3, <3>1, <3>2 DEF Reaction, TEXT, BINARY, CLOSE, PING, PONG
    <3> QED
      BY <2>5, <3>2, <3>3
  <2>4. CASE op # PING /\ ~(op = CLOSE /\ ~short)
    <3>1. out' = Nothing
      BY <1>7, <2>4
    <3>2. op \in {TEXT, BINARY} => message' = p
      BY <1>7 DEF is_control, TEXT, BINARY, CLOSE
    <3>3. op = CLOSE => Len(p) = 1
      BY <1>6, <2>4
    <3>4. Reaction(f)'
      BY <1>5, <2>4, <3>1, <3>2, <3>3 DEF Reaction
    <3> QED
      BY <2>5, <3>1, <3>4
  <2> QED
    BY <2>2, <2>3, <2>4
<1> QED
  BY <1>8, <1>9

\* Frames one after the other on one parser, and those a session writes between them:
\* for all client frames within the form of the protocol, each is answered as AnswersRight
\* says, with the parser clear whenever no frame is in it.
THEOREM CodecInvariance == CodecSpec => []CodecInv
<1>1. CodecInit => CodecInv
  BY DEF CodecInit, CodecInv, AnswersRight
<1>2. CodecInv /\ [CodecNext]_codecVars => CodecInv'
  <2> SUFFICES ASSUME CodecInv, [CodecNext]_codecVars PROVE CodecInv'
    OBVIOUS
  <2>1. ASSUME NEW f \in ClientFrames, Arrives(f) PROVE CodecInv'
    BY <2>1, ArrivesKeeps
  <2>2. CASE Process
    BY <2>2, ProcessKeeps
  <2>3. ASSUME NEW op \in {TEXT, BINARY}, NEW s \in SentLengths, Send(op, s) PROVE CodecInv'
    BY <2>3, SendKeeps
  <2>4. CASE UNCHANGED codecVars
    BY <2>4 DEF codecVars, CodecInv, AnswersRight, Reaction
  <2> QED
    BY <2>1, <2>2, <2>3, <2>4 DEF CodecNext
<1> QED
  BY <1>1, <1>2, PTL DEF CodecSpec

\* Every message reaches the session as the client wrote it, every ping and close is
\* answered, and the client reads every header as what was meant (wsframe.hpp:558-591,
\* 717-725, wsendpoint.cpp:228-271).
THEOREM FramesAnsweredRight == CodecSpec => []AnswersRight
<1>1. CodecInv => AnswersRight
  BY DEF CodecInv
<1> QED
  BY <1>1, CodecInvariance, PTL

(***************************************************************************)
(* Requests.                                                               *)
(***************************************************************************)

\* CheckIfWSocketRequest but for the host, which is compared with a configuration that
\* may be another by now.
Checked(r) ==
    /\ r.get /\ r.path = "wsgate"
    /\ r.http11 /\ r.connection /\ r.upgrade /\ r.version13
    /\ Len(base64_decode(r.key)) = 16

\* Only a request that was checked is answered with a handshake.
HandshakeChecked ==
    exchange.pc = "replied" /\ exchange.status = 101 => Checked(exchange.request)

RequestInv ==
    /\ ~reloaded => conf.sslPort = listening
    /\ exchange.pc = "digest" => Checked(exchange.request)
    /\ RedirectExplained /\ HandshakeChecked

LEMMA NothingWrong ==
    ASSUME NEW r, CheckIfWSocketRequest(r) = 0
    PROVE  /\ r.http11 /\ r.connection /\ r.upgrade /\ r.version13
           /\ Len(base64_decode(r.key)) = 16
  BY DEF CheckIfWSocketRequest

LEMMA ReloadKeeps ==
    ASSUME RequestInv, NEW c \in Confs, ReloadConf(c)
    PROVE  RequestInv'
<1>1. /\ conf' = c /\ reloaded' = (reloaded \/ c.sslPort # listening)
      /\ listening' = listening /\ exchange' = exchange
  BY DEF ReloadConf
<1>2. ~reloaded' => conf'.sslPort = listening' /\ ~reloaded
  BY <1>1
<1>3. RedirectExplained'
  BY <1>1, <1>2 DEF RequestInv, RedirectExplained
<1>4. HandshakeChecked' /\ (exchange'.pc = "digest" => Checked(exchange'.request))
  BY <1>1 DEF RequestInv, HandshakeChecked, Checked
<1> QED
  BY <1>2, <1>3, <1>4 DEF RequestInv

\* An answer that is not a handshake and not a redirect says nothing.
LEMMA PlainKeeps ==
    ASSUME RequestInv, UNCHANGED <<listening, conf, reloaded>>,
           exchange'.pc = "replied", exchange'.handler # "redirect", exchange'.status # 101
    PROVE  RequestInv'
  BY DEF RequestInv, RedirectExplained, HandshakeChecked

LEMMA RedirectKeeps ==
    ASSUME RequestInv, UNCHANGED <<listening, conf, reloaded>>, NEW r, exchange' = Redirect(r)
    PROVE  RequestInv'
<1>1. CASE conf.sslPort = 0
  <2>1. /\ exchange'.pc = "replied" /\ exchange'.handler = "redirect"
        /\ exchange'.status = 404 /\ exchange'.port = 0
    BY <1>1 DEF Redirect, Respond, Answered
  <2> QED
    BY <1>1, <2>1 DEF RequestInv, RedirectExplained, HandshakeChecked
<1>2. CASE conf.sslPort # 0
  <2>1. /\ exchange'.pc = "replied" /\ exchange'.handler = "redirect"
        /\ exchange'.status = 301 /\ exchange'.port = conf.sslPort
    BY <1>2 DEF Redirect, Answered
  <2> QED
    BY <1>2, <2>1 DEF RequestInv, RedirectExplained, HandshakeChecked
<1> QED
  BY <1>1, <1>2

LEMMA HandshakeKeeps ==
    ASSUME RequestInv, UNCHANGED <<listening, conf, reloaded>>,
           NEW r, r.get, r.path = "wsgate", exchange' = HandleWsgateRequest(r)
    PROVE  RequestInv'
<1>1. CASE CheckIfWSocketRequest(r) # 0
  <2>1. CheckIfWSocketRequest(r) # 101
    BY DEF CheckIfWSocketRequest
  <2>2. /\ exchange'.pc = "replied" /\ exchange'.handler = "wsgate"
        /\ exchange'.status = CheckIfWSocketRequest(r)
    BY <1>1 DEF HandleWsgateRequest, Respond, Answered
  <2> QED
    BY <2>1, <2>2, PlainKeeps
<1>2. CASE CheckIfWSocketRequest(r) = 0
  <2>1. exchange'.pc = "digest" /\ exchange'.request = r
    BY <1>2 DEF HandleWsgateRequest
  <2>2. Checked(r)
    BY <1>2, NothingWrong DEF Checked
  <2> QED
    BY <2>1, <2>2 DEF RequestInv, RedirectExplained, HandshakeChecked, Checked
<1> QED
  BY <1>1, <1>2

LEMMA RequestStep ==
    RequestInv /\ [RequestNext]_requestVars => RequestInv'
<1> SUFFICES ASSUME RequestInv, [RequestNext]_requestVars PROVE RequestInv'
  OBVIOUS
<1>1. ASSUME NEW c \in Confs, ReloadConf(c) PROVE RequestInv'
  BY <1>1, ReloadKeeps
<1>2. ASSUME NEW r \in HttpRequests, HandleRequest(r) PROVE RequestInv'
  <2>1. UNCHANGED <<listening, conf, reloaded>>
    BY <1>2 DEF HandleRequest
  <2>2. CASE exchange' = Respond(r, "none", 400)
    BY <2>1, <2>2, PlainKeeps DEF Respond, Answered
  <2>3. CASE exchange' = Redirect(r)
    BY <2>1, <2>3, RedirectKeeps
  <2>4. CASE exchange' = Respond(r, "page", 404) \/ exchange' = Respond(r, r.path, 200)
    <3>1. r.path # "redirect"
      BY RequestAssumption
    <3> QED
      BY <2>1, <2>4, <3>1, PlainKeeps DEF Respond, Answered
  <2>5. CASE r.get /\ r.path = "wsgate" /\ exchange' = HandleWsgateRequest(r)
    BY <2>1, <2>5, HandshakeKeeps
  <2> QED
    BY <1>2, <2>2, <2>3, <2>4, <2>5 DEF HandleRequest
<1>3. CASE Digest
  <2>1. UNCHANGED <<listening, conf, reloaded>> /\ exchange.pc = "digest"
    BY <1>3 DEF Digest
  <2>2. exchange'.pc = "digest" /\ exchange'.request = exchange.request
    BY <1>3 DEF Digest
  <2> QED
    BY <2>1, <2>2 DEF RequestInv, RedirectExplained, HandshakeChecked, Checked
<1>4. CASE NextRequest
  BY <1>4 DEF NextRequest, Idle, RequestInv, RedirectExplained, HandshakeChecked
<1>5. ASSUME NEW prepared \in BOOLEAN, Accept(prepared) PROVE RequestInv'
  <2>1. UNCHANGED <<listening, conf, reloaded>> /\ exchange.pc = "digest"
    BY <1>5 DEF Accept
  <2>2. PICK a : a = base64_encode(Result(exchange.sha1))
    OBVIOUS
  <2>3. CASE exchange' = Answered(exchange.request, "wsgate", 101, 0, a)
    <3>1. /\ exchange'.pc = "replied" /\ exchange'.handler = "wsgate"
          /\ exchange'.request = exchange.request
      BY <2>3 DEF Answered
    <3> QED
      BY <2>1, <3>1 DEF RequestInv, RedirectExplained, HandshakeChecked, Checked
  <2>4. CASE exchange' = Respond(exchange.request, "wsgate", 503)
    BY <2>1, <2>4, PlainKeeps DEF Respond, Answered
  <2> QED
    BY <1>5, <2>2, <2>3, <2>4 DEF Accept
<1>6. CASE UNCHANGED requestVars
  BY <1>6 DEF requestVars, RequestInv, RedirectExplained, HandshakeChecked, Checked
<1> QED
  BY <1>1, <1>2, <1>3, <1>4, <1>5, <1>6 DEF RequestNext

\* Whatever the requests, the ports and the times of a reload, the invariant holds.
THEOREM RequestInvariance == RequestSpec => []RequestInv
<1>1. RequestInit => RequestInv
  BY DEF RequestInit, Idle, RequestInv, RedirectExplained, HandshakeChecked
<1> QED
  BY <1>1, RequestStep, PTL DEF RequestSpec

-----------------------------------------------------------------------------
\* SHA-1 of a whole text, whatever its function on one block.

\* How many blocks of 64 octets have room for a text, a one and its length.
BlocksOf(text) == (Len(text) + 72) \div 64

\* A text with the padding of the standard: a one, zeroes, and in the last eight octets
\* the number of its bits.
Padded(text) ==
    [i \in 1..64 * BlocksOf(text) |->
        CASE i <= Len(text)     -> text[i]
          [] i = Len(text) + 1  -> 128
          [] i > Len(text) + 1 /\ i <= 64 * BlocksOf(text) - 8 -> 0
          [] OTHER -> LengthOctets(8 * Len(text))[i - 64 * BlocksOf(text) + 8]]

BlockAt(text, b) == [i \in 1..64 |-> text[64 * (b - 1) + i]]

\* The words after each of the first n blocks of a text.
Chained(words, text, n) ==
    /\ DOMAIN words = 0..n /\ words[0] = H0
    /\ \A b \in 1..n : words[b] = ProcessMessageBlock(words[b - 1], BlockAt(text, b))

IsDigest(octets, text) ==
    \E words : /\ Chained(words, Padded(text), BlocksOf(text))
               /\ octets = DigestOctets(words[BlocksOf(text)])

\* An object has been given the first k octets of a text.
Absorbed(sha, text, k) ==
    \E n \in Nat, block \in Numbers : \E words :
        /\ Chained(words, text, n)
        /\ sha = [H |-> words[n], block |-> block, length |-> 8 * k]
        /\ Len(block) = k - 64 * n /\ Len(block) < 64
        /\ \A i \in 1..Len(block) : block[i] = text[64 * n + i]

\* A new object has been given nothing.
LEMMA HashBegins ==
    ASSUME NEW text
    PROVE  Absorbed(NewSHA1, text, 0)
<1>1. PICK z, words : z = 0 /\ words = [i \in 0..z |-> H0]
  OBVIOUS
<1>2. Chained(words, text, z) /\ words[z] = H0
  BY <1>1 DEF Chained
<1>3. PICK e : e = <<>>
  OBVIOUS
<1>4. e \in Numbers /\ Len(e) = 0 /\ z \in Nat /\ z = 0
  BY <1>1, <1>3 DEF Numbers
<1>5. NewSHA1 = [H |-> words[z], block |-> e, length |-> 8 * z]
  BY <1>1, <1>2, <1>3 DEF NewSHA1
<1>6. /\ Len(e) = z - 64 * z /\ Len(e) < 64
      /\ \A i \in 1..Len(e) : e[i] = text[64 * z + i]
  BY <1>4
<1>7. Absorbed(NewSHA1, text, z)
  BY ONLY <1>2, <1>4, <1>5, <1>6 DEF Absorbed
<1> QED
  BY <1>1, <1>7

\* A chain goes on with one block more.
LEMMA OneBlockMore ==
    ASSUME NEW text, NEW n \in Nat, NEW words, Chained(words, text, n)
    PROVE  \E longer : /\ Chained(longer, text, n + 1)
                       /\ longer[n + 1] = ProcessMessageBlock(words[n], BlockAt(text, n + 1))
                       /\ \A b \in 0..n : longer[b] = words[b]
<1>1. PICK m, x, f : /\ m = n + 1 /\ x = ProcessMessageBlock(words[n], BlockAt(text, n + 1))
                     /\ f = [b \in 0..m |-> IF b = m THEN x ELSE words[b]]
  OBVIOUS
<1>2. m \in Nat /\ n \in 0..m /\ n # m /\ 0 # m
  BY <1>1
<1>3. f[m] = x /\ DOMAIN f = 0..m /\ \A b \in 0..n : f[b] = words[b]
  BY <1>1
<1>4. f[0] = H0
  BY <1>3 DEF Chained
<1>5. ASSUME NEW b \in 1..m PROVE f[b] = ProcessMessageBlock(f[b - 1], BlockAt(text, b))
  <2>1. CASE b = m
    <3>1. f[b - 1] = words[n]
      BY <1>1, <1>3, <2>1
    <3>2. x = ProcessMessageBlock(f[b - 1], BlockAt(text, b))
      BY <1>1, <2>1, <3>1
    <3> QED
      BY <1>3, <2>1, <3>2
  <2>2. CASE b # m
    <3>1. b \in 1..n /\ b - 1 \in 0..n /\ b \in 0..n
      BY <1>1, <2>2
    <3>2. words[b] = ProcessMessageBlock(words[b - 1], BlockAt(text, b))
      BY <3>1 DEF Chained
    <3> QED
      BY <1>3, <3>1, <3>2
  <2> QED
    BY <2>1, <2>2
<1>6. Chained(f, text, m)
  BY <1>3, <1>4, <1>5 DEF Chained
<1> QED
  BY <1>1, <1>3, <1>6

\* Blocks are the same if their octets are.
LEMMA SameBlock ==
    ASSUME NEW text, NEW n \in Nat, NEW block \in Numbers, Len(block) = 64,
           \A i \in 1..64 : block[i] = text[64 * n + i]
    PROVE  BlockAt(text, n + 1) = block
<1>1. PICK c : c = BlockAt(text, n + 1)
  OBVIOUS
<1>2. DOMAIN block = 1..64
  BY DEF Numbers
<1>3. ASSUME NEW i \in 1..64 PROVE c[i] = block[i]
  <2>1. 64 * ((n + 1) - 1) + i = 64 * n + i
    OBVIOUS
  <2> QED
    BY <1>1, <2>1 DEF BlockAt
<1>4. c = [i \in 1..64 |-> c[i]] /\ block = [i \in 1..64 |-> block[i]]
  BY <1>1, <1>2 DEF BlockAt, Numbers
<1> QED
  BY <1>1, <1>3, <1>4

\* Input of one octet more, which may fill the block (sha1.cpp:209).
LEMMA HashGoesOn ==
    ASSUME NEW text \in Numbers, NEW k \in Nat, k < Len(text), NEW sha, Absorbed(sha, text, k)
    PROVE  Absorbed(Input(sha, text[k + 1]), text, k + 1)
<1>1. PICK n \in Nat, block \in Numbers : \E words :
        /\ Chained(words, text, n)
        /\ sha = [H |-> words[n], block |-> block, length |-> 8 * k]
        /\ Len(block) = k - 64 * n /\ Len(block) < 64
        /\ \A i \in 1..Len(block) : block[i] = text[64 * n + i]
  BY DEF Absorbed
<1>2. PICK words :
        /\ Chained(words, text, n)
        /\ sha = [H |-> words[n], block |-> block, length |-> 8 * k]
        /\ Len(block) = k - 64 * n /\ Len(block) < 64
        /\ \A i \in 1..Len(block) : block[i] = text[64 * n + i]
  BY <1>1
<1>3. PICK m, o, new : m = k + 1 /\ o = text[k + 1] /\ new = Append(block, o)
  OBVIOUS
<1>4. m \in Nat /\ o \in Nat /\ m - 1 = k /\ text[m] = o
  BY <1>3, ElementOfSeq DEF Numbers
<1>5. /\ new \in Numbers /\ Len(new) = Len(block) + 1 /\ Len(block) \in Nat
      /\ \A i \in 1..Len(block) : new[i] = block[i]
      /\ new[Len(block) + 1] = o
  BY <1>3, <1>4 DEF Numbers
<1>6. Len(new) = m - 64 * n /\ Len(new) \in Nat /\ Len(new) <= 64
  BY <1>2, <1>4, <1>5
<1>7. ASSUME NEW i \in 1..Len(new) PROVE new[i] = text[64 * n + i]
  <2>1. CASE i = Len(new)
    BY <1>2, <1>4, <1>5, <1>6, <2>1
  <2>2. CASE i # Len(new)
    BY <1>2, <1>5, <1>6, <2>2
  <2> QED
    BY <2>1, <2>2
<1>8. sha.H = words[n] /\ sha.block = block /\ sha.length + 8 = 8 * m
  BY <1>2, <1>3
<1>9. CASE Len(new) = 64
  <2>1. PICK p, longer : p = n + 1 /\ Chained(longer, text, p)
                         /\ longer[p] = ProcessMessageBlock(words[n], BlockAt(text, p))
    BY <1>2, OneBlockMore
  <2>2. p \in Nat /\ p - 1 = n
    BY <2>1
  <2>3. BlockAt(text, p) = new
    <3>1. n \in Nat /\ new \in Numbers /\ Len(new) = 64 /\ \A i \in 1..64 : new[i] = text[64 * n + i]
      BY <1>5, <1>7, <1>9
    <3>2. BlockAt(text, n + 1) = new
      BY ONLY <3>1, SameBlock
    <3> QED
      BY <2>1, <3>2
  <2>4. PICK e : e = <<>>
    OBVIOUS
  <2>5. e \in Numbers /\ Len(e) = 0
    BY <2>4 DEF Numbers
  <2>6. Input(sha, o) = [H |-> longer[p], block |-> e, length |-> 8 * m]
    BY <1>3, <1>8, <1>9, <2>1, <2>3, <2>4 DEF Input
  <2>7. Len(e) = m - 64 * p /\ Len(e) < 64 /\ \A i \in 1..Len(e) : e[i] = text[64 * p + i]
    <3>1. 1..Len(e) = {} /\ Len(e) < 64
      BY <2>5
    <3>2. m - 64 * n = 64 /\ p = n + 1
      BY <1>6, <1>9, <2>1
    <3>3. m - 64 * p = 0
      BY ONLY <1>4, <2>2, <3>2
    <3> QED
      BY <2>5, <3>1, <3>3
  <2>8. Absorbed(Input(sha, o), text, m)
    BY <2>1, <2>2, <2>5, <2>6, <2>7 DEF Absorbed
  <2> QED
    BY <1>3, <2>8
<1>10. CASE Len(new) # 64
  <2>1. Input(sha, o) = [sha EXCEPT !.block = new, !.length = @ + 8]
    BY <1>3, <1>8, <1>10 DEF Input
  <2>2. Input(sha, o) = [H |-> words[n], block |-> new, length |-> 8 * m]
    BY <1>2, <1>8, <2>1
  <2>3. Len(new) < 64
    BY <1>6, <1>10
  <2>4. Absorbed(Input(sha, o), text, m)
    BY <1>2, <1>5, <1>6, <1>7, <2>2, <2>3 DEF Absorbed
  <2> QED
    BY <1>3, <2>4
<1> QED
  BY <1>9, <1>10

\* The number of bits is written with its highest octet first.
LEMMA LengthIsWritten ==
    ASSUME NEW n \in Nat, NEW o, o = LengthOctets(n)
    PROVE  /\ o \in Numbers /\ Len(o) = 8
           /\ \A i \in 1..4 : o[i] = 0
           /\ n = ((o[5] * 256 + o[6]) * 256 + o[7]) * 256 + o[8]
           /\ \A i \in 6..8 : o[i] \in 0..255
<1>1. PICK a, b, c, d : /\ a = n \div 16777216 /\ b = (n \div 65536) % 256
                        /\ c = (n \div 256) % 256 /\ d = n % 256
  OBVIOUS
<1>2. a \in Nat /\ b \in 0..255 /\ c \in 0..255 /\ d \in 0..255
  BY <1>1
<1>3. n = ((a * 256 + b) * 256 + c) * 256 + d
  <2>1. PICK q, r : q = n \div 256 /\ r = q \div 256
    OBVIOUS
  <2>2. q \in Nat /\ r \in Nat /\ n = q * 256 + d
    BY <1>1, <2>1
  <2>3. r = n \div 65536 /\ q = r * 256 + c
    BY <1>1, <2>1, <2>2
  <2>4. r = a * 256 + b
    BY <1>1, <2>2, <2>3
  <2> QED
    BY <1>2, <2>2, <2>3, <2>4
<1>4. PICK z, t : z = Zeroes(4) /\ t = <<a, b, c, d>>
  OBVIOUS
<1>5. /\ z \in Seq(Nat) /\ Len(z) = 4 /\ t \in Seq(Nat) /\ Len(t) = 4
      /\ \A i \in 1..4 : z[i] = 0
      /\ t[1] = a /\ t[2] = b /\ t[3] = c /\ t[4] = d
  BY <1>2, <1>4 DEF Zeroes
<1>6. o = z \o t
  BY <1>1, <1>4 DEF LengthOctets
<1>7. /\ z \o t \in Seq(Nat) /\ Len(z \o t) = Len(z) + Len(t)
      /\ \A i \in 1..Len(z) + Len(t) : (z \o t)[i] = IF i <= Len(z) THEN z[i] ELSE t[i - Len(z)]
  <2>1. z \in Seq(Nat) /\ t \in Seq(Nat)
    BY <1>5
  <2> QED
    BY ONLY <2>1, ConcatProperties
<1>8. /\ o \in Seq(Nat) /\ Len(o) = 8
      /\ \A i \in 1..8 : o[i] = IF i <= 4 THEN z[i] ELSE t[i - 4]
  BY <1>5, <1>6, <1>7
<1>9. o[5] = a /\ o[6] = b /\ o[7] = c /\ o[8] = d /\ \A i \in 1..4 : o[i] = 0
  BY <1>5, <1>8
<1>10. o \in Numbers /\ Len(o) = 8
  BY <1>8 DEF Numbers
<1>11. n = ((o[5] * 256 + o[6]) * 256 + o[7]) * 256 + o[8]
  BY <1>3, <1>9
<1>12. ASSUME NEW i \in 6..8 PROVE o[i] \in 0..255
  BY <1>2, <1>9
<1> QED
  BY <1>9, <1>10, <1>11, <1>12

\* What Zeroes is.
LEMMA ZeroesAre ==
    ASSUME NEW n \in Nat
    PROVE  Zeroes(n) \in Numbers /\ Len(Zeroes(n)) = n /\ \A i \in 1..n : Zeroes(n)[i] = 0
  BY DEF Zeroes, Numbers

\* What has been begun, with a one and zeroes behind it.
Begun(c, block, n) ==
    /\ c \in Numbers /\ Len(c) = n
    /\ \A i \in 1..n :
           /\ i <= Len(block)     => c[i] = block[i]
           /\ i = Len(block) + 1 => c[i] = 128
           /\ i > Len(block) + 1 => c[i] = 0

LEMMA BegunIs ==
    ASSUME NEW block \in Numbers, NEW z \in Nat
    PROVE  Begun(Append(block, 128) \o Zeroes(z), block, Len(block) + 1 + z)
<1>1. PICK r, a, o, c : r = Len(block) /\ a = Append(block, 128) /\ o = Zeroes(z) /\ c = a \o o
  OBVIOUS
<1>2. /\ r \in Nat /\ a \in Seq(Nat) /\ Len(a) = r + 1 /\ a[r + 1] = 128
      /\ \A i \in 1..r : a[i] = block[i]
  BY <1>1 DEF Numbers
<1>3. o \in Seq(Nat) /\ Len(o) = z /\ \A i \in 1..z : o[i] = 0
  BY <1>1, ZeroesAre DEF Numbers
<1>4. /\ c \in Seq(Nat) /\ Len(c) = Len(a) + Len(o)
      /\ \A i \in 1..Len(a) + Len(o) : c[i] = IF i <= Len(a) THEN a[i] ELSE o[i - Len(a)]
  <2>1. a \in Seq(Nat) /\ o \in Seq(Nat)
    BY <1>2, <1>3
  <2>2. /\ a \o o \in Seq(Nat) /\ Len(a \o o) = Len(a) + Len(o)
        /\ \A i \in 1..Len(a) + Len(o) : (a \o o)[i] = IF i <= Len(a) THEN a[i] ELSE o[i - Len(a)]
    BY ONLY <2>1, ConcatProperties
  <2> QED
    BY <1>1, <2>2
<1>5. ASSUME NEW i \in 1..r + 1 + z
      PROVE  (i <= r => c[i] = block[i]) /\ (i = r + 1 => c[i] = 128) /\ (i > r + 1 => c[i] = 0)
  <2>1. i \in 1..Len(a) + Len(o)
    BY <1>2, <1>3
  <2>2. CASE i <= r
    BY <1>2, <1>4, <2>1, <2>2
  <2>3. CASE i = r + 1
    BY <1>2, <1>4, <2>1, <2>3
  <2>4. CASE i > r + 1
    BY <1>2, <1>3, <1>4, <2>1, <2>4
  <2> QED
    BY <1>2, <2>2, <2>3, <2>4
<1>6. c \in Numbers /\ Len(c) = r + 1 + z
  BY <1>2, <1>3, <1>4 DEF Numbers
<1>7. Begun(c, block, Len(block) + 1 + z)
  BY <1>1, <1>5, <1>6 DEF Begun
<1> QED
  BY <1>1, <1>7

\* Where the octets of a padded text are.
LEMMA PaddedIs ==
    ASSUME NEW text \in Numbers, NEW L, NEW N, NEW last, NEW P,
           L = Len(text), N = BlocksOf(text), last = LengthOctets(8 * L), P = Padded(text),
           NEW i \in 1..64 * N
    PROVE  /\ i <= L => P[i] = text[i]
           /\ i = L + 1 => P[i] = 128
           /\ i > L + 1 /\ i <= 64 * N - 8 => P[i] = 0
           /\ i > 64 * N - 8 => P[i] = last[i - 64 * N + 8]
<1>1. L \in Nat /\ N \in Nat /\ 64 * N >= L + 9
  BY DEF Numbers, BlocksOf
<1>2. P[i] = CASE i <= L     -> text[i]
               [] i = L + 1  -> 128
               [] i > L + 1 /\ i <= 64 * N - 8 -> 0
               [] OTHER -> last[i - 64 * N + 8]
  BY DEF Padded
<1> QED
  BY <1>1, <1>2

\* A block that ends with the eight octets of the length.
Ended(c, front, last) ==
    /\ c \in Numbers /\ Len(c) = 64
    /\ \A i \in 1..56 : c[i] = front[i]
    /\ \A i \in 57..64 : c[i] = last[i - 56]

LEMMA LastBlock ==
    ASSUME NEW front \in Numbers, Len(front) = 56, NEW last \in Numbers, Len(last) = 8
    PROVE  Ended(front \o last, front, last)
<1>1. PICK c : c = front \o last
  OBVIOUS
<1>2. front \in Seq(Nat) /\ last \in Seq(Nat)
  BY DEF Numbers
<1>3. /\ front \o last \in Seq(Nat) /\ Len(front \o last) = Len(front) + Len(last)
      /\ \A i \in 1..Len(front) + Len(last) :
            (front \o last)[i] = IF i <= Len(front) THEN front[i] ELSE last[i - Len(front)]
  BY ONLY <1>2, ConcatProperties
<1>4. Len(front) = 56 /\ Len(last) = 8
  OBVIOUS
<1>5. c \in Numbers /\ Len(c) = 64
  BY <1>1, <1>3, <1>4 DEF Numbers
<1>6. ASSUME NEW i \in 1..64 PROVE (i <= 56 => c[i] = front[i]) /\ (i > 56 => c[i] = last[i - 56])
  <2>1. i \in 1..Len(front) + Len(last)
    BY <1>4
  <2>2. c[i] = IF i <= Len(front) THEN front[i] ELSE last[i - Len(front)]
    BY ONLY <1>1, <1>3, <2>1
  <2>3. CASE i <= 56
    BY ONLY <1>4, <2>2, <2>3
  <2>4. CASE i > 56
    <3>1. ~(i <= Len(front)) /\ i - Len(front) = i - 56
      BY <1>4, <2>4
    <3>2. c[i] = last[i - Len(front)]
      BY ONLY <2>2, <3>1
    <3>3. last[i - Len(front)] = last[i - 56]
      BY ONLY <3>1
    <3> QED
      BY <2>4, <3>2, <3>3
  <2> QED
    BY <2>3, <2>4
<1>7. ASSUME NEW i \in 1..56 PROVE c[i] = front[i]
  BY <1>6
<1>8. ASSUME NEW i \in 57..64 PROVE c[i] = last[i - 56]
  BY <1>6
<1>9. Ended(c, front, last)
  BY ONLY <1>5, <1>7, <1>8 DEF Ended
<1> QED
  BY <1>1, <1>9

\* PadMessage and Result: an object that has been given a text gives its digest, whether
\* there is room for the padding in the last block or not (sha1.cpp:533).
LEMMA HashEnds ==
    ASSUME NEW text \in Numbers, NEW sha, Absorbed(sha, text, Len(text))
    PROVE  IsDigest(Result(sha), text)
<1>1. PICK L, N, P, last : /\ L = Len(text) /\ N = BlocksOf(text) /\ P = Padded(text)
                           /\ last = LengthOctets(8 * L)
  OBVIOUS
<1>2. PICK n \in Nat, block \in Numbers : \E words :
        /\ Chained(words, text, n)
        /\ sha = [H |-> words[n], block |-> block, length |-> 8 * L]
        /\ Len(block) = L - 64 * n /\ Len(block) < 64
        /\ \A i \in 1..Len(block) : block[i] = text[64 * n + i]
  BY <1>1 DEF Absorbed
<1>3. PICK words :
        /\ Chained(words, text, n)
        /\ sha = [H |-> words[n], block |-> block, length |-> 8 * L]
        /\ Len(block) = L - 64 * n /\ Len(block) < 64
        /\ \A i \in 1..Len(block) : block[i] = text[64 * n + i]
  BY <1>2
<1>4. PICK r : r = Len(block)
  OBVIOUS
<1>5. r \in 0..63 /\ L \in Nat /\ L = 64 * n + r
  <2>1. r \in Nat /\ L \in Nat
    BY <1>1, <1>4 DEF Numbers
  <2>2. r = L - 64 * n /\ r < 64
    BY <1>3, <1>4
  <2> QED
    BY <2>1, <2>2
<1>6. N = n + ((r + 72) \div 64)
  <2>1. N = (L + 72) \div 64
    BY <1>1 DEF BlocksOf
  <2> QED
    BY <1>5, <2>1
<1>7. last \in Numbers /\ Len(last) = 8
  <2>1. 8 * L \in Nat
    BY <1>5
  <2> QED
    BY <1>1, <2>1, LengthIsWritten
<1>8. ASSUME NEW i \in 1..64 * N
      PROVE  /\ i <= L => P[i] = text[i]
             /\ i = L + 1 => P[i] = 128
             /\ i > L + 1 /\ i <= 64 * N - 8 => P[i] = 0
             /\ i > 64 * N - 8 => P[i] = last[i - 64 * N + 8]
  <2>1. /\ text \in Numbers /\ i \in 1..64 * N /\ L = Len(text) /\ N = BlocksOf(text)
        /\ last = LengthOctets(8 * L) /\ P = Padded(text)
    BY <1>1
  <2> QED
    BY ONLY <2>1, PaddedIs
<1>9. ASSUME NEW i \in 1..r PROVE n \in Nat /\ 64 * n + i <= L /\ block[i] = text[64 * n + i]
  BY <1>3, <1>4, <1>5
<1>10. Chained(words, P, n)
  <2>1. ASSUME NEW b \in 1..n PROVE BlockAt(P, b) = BlockAt(text, b)
    <3>1. ASSUME NEW i \in 1..64 PROVE P[64 * (b - 1) + i] = text[64 * (b - 1) + i]
      <4>1. PICK j : j = 64 * (b - 1) + i
        OBVIOUS
      <4>2. j \in 1..64 * N /\ j <= L
        BY <1>5, <1>6, <4>1
      <4> QED
        BY <1>8, <4>1, <4>2
    <3> QED
      BY <3>1 DEF BlockAt
  <2> QED
    BY <1>3, <2>1 DEF Chained
<1>11. sha.H = words[n] /\ sha.block = block /\ sha.length = 8 * L
  BY <1>3
<1>12. CASE r <= 55
  <2>1. N = n + 1
    BY <1>5, <1>6, <1>12
  <2>2. PICK z, front, B : z = 56 - (r + 1) /\ front = Append(block, 128) \o Zeroes(z) /\ B = front \o last
    OBVIOUS
  <2>3. z \in Nat /\ r + 1 + z = 56
    BY <1>5, <1>12, <2>2
  <2>4. Begun(front, block, 56)
    <3>1. block \in Numbers /\ z \in Nat
      BY <2>3
    <3>2. Begun(Append(block, 128) \o Zeroes(z), block, Len(block) + 1 + z)
      BY ONLY <3>1, BegunIs
    <3> QED
      BY <1>4, <2>2, <2>3, <3>2
  <2>5. Ended(B, front, last)
    <3>1. front \in Numbers /\ Len(front) = 56 /\ last \in Numbers /\ Len(last) = 8
      BY <1>7, <2>4 DEF Begun
    <3>2. Ended(front \o last, front, last)
      BY ONLY <3>1, LastBlock
    <3> QED
      BY <2>2, <3>2
  <2>6. ASSUME NEW i \in 1..64 PROVE B[i] = P[64 * n + i]
    <3>1. PICK j : j = 64 * n + i
      OBVIOUS
    <3>2. j \in 1..64 * N /\ 64 * N - 8 = 64 * n + 56
      BY <2>1, <3>1
    <3>3. CASE i <= r
      <4>1. i \in 1..r /\ i \in 1..56 /\ i <= Len(block)
        BY <1>4, <1>5, <1>12, <3>3
      <4>2. B[i] = block[i] /\ i \in 1..r
        BY <2>4, <2>5, <4>1 DEF Begun, Ended
      <4>3. P[j] = text[j] /\ block[i] = text[j]
        BY <1>8, <1>9, <3>1, <3>2, <4>2
      <4> QED
        BY <3>1, <4>2, <4>3
    <3>4. CASE i = r + 1
      <4>1. i = Len(block) + 1
        BY <1>4, <3>4
      <4>2. r \in Nat /\ r <= 55
        BY <1>5, <1>12
      <4>3. i \in 1..56
        BY <3>4, <4>2
      <4>4. i \in 1..56 /\ i = Len(block) + 1
        BY <4>1, <4>3
      <4>5. B[i] = front[i]
        BY <2>5, <4>3 DEF Ended
      <4>6. front[i] = 128
        BY <2>4, <4>1, <4>3 DEF Begun
      <4>7. B[i] = 128
        BY <4>5, <4>6
      <4>8. P[j] = 128
        BY <1>5, <1>8, <3>1, <3>2, <3>4
      <4> QED
        BY <3>1, <4>7, <4>8
    <3>5. CASE i > r + 1 /\ i <= 56
      <4>1. i \in 1..56 /\ i > Len(block) + 1
        BY <1>4, <3>5
      <4>2. B[i] = front[i]
        BY <2>5, <4>1 DEF Ended
      <4>3. front[i] = 0
        BY <2>4, <4>1 DEF Begun
      <4>4. B[i] = 0
        BY <4>2, <4>3
      <4>5. P[j] = 0
        BY <1>5, <1>8, <3>1, <3>2, <3>5
      <4> QED
        BY <3>1, <4>4, <4>5
    <3>6. CASE i > 56
      <4>1. i \in 57..64
        BY <3>6
      <4>2. B[i] = last[i - 56]
        BY <2>5, <4>1 DEF Ended
      <4>3. j > 64 * N - 8 /\ j - 64 * N + 8 = i - 56
        BY <2>1, <3>1, <3>6
      <4>4. P[j] = last[i - 56]
        BY <1>8, <3>2, <4>3
      <4> QED
        BY <3>1, <4>2, <4>4
    <3>7. i <= r \/ i = r + 1 \/ (i > r + 1 /\ i <= 56) \/ i > 56
      BY <1>5
    <3> QED
      BY <3>3, <3>4, <3>5, <3>6, <3>7
  <2>7. BlockAt(P, n + 1) = B
    <3>1. n \in Nat /\ B \in Numbers /\ Len(B) = 64 /\ \A i \in 1..64 : B[i] = P[64 * n + i]
      BY <2>5, <2>6 DEF Ended
    <3> QED
      BY ONLY <3>1, SameBlock
  <2>8. PICK longer : Chained(longer, P, n + 1) /\ longer[n + 1] = ProcessMessageBlock(words[n], BlockAt(P, n + 1))
    <3>1. n \in Nat /\ Chained(words, P, n)
      BY <1>10
    <3> QED
      BY ONLY <3>1, OneBlockMore
  <2>9. PadMessage(sha) = ProcessMessageBlock(words[n], B)
    <3>1. ~NoRoom(Len(sha.block))
      BY <1>4, <1>5, <1>11, <1>12 DEF NoRoom
    <3>2. Len(Append(block, 128)) = r + 1
      BY <1>4 DEF Numbers
    <3> QED
      BY <1>1, <1>11, <2>2, <3>1, <3>2 DEF PadMessage
  <2>10. Result(sha) = DigestOctets(longer[N]) /\ Chained(longer, P, N)
    BY <2>1, <2>7, <2>8, <2>9 DEF Result
  <2> QED
    BY <1>1, <2>10 DEF IsDigest
<1>13. CASE r > 55
  <2>1. N = n + 2
    BY <1>5, <1>6, <1>13
  <2>2. PICK z, A, zeroes, B : /\ z = 64 - (r + 1) /\ A = Append(block, 128) \o Zeroes(z)
                               /\ zeroes = Zeroes(56) /\ B = zeroes \o last
    OBVIOUS
  <2>3. z \in Nat /\ r + 1 + z = 64
    BY <1>5, <2>2
  <2>4. Begun(A, block, 64)
    <3>1. block \in Numbers /\ z \in Nat
      BY <2>3
    <3>2. Begun(Append(block, 128) \o Zeroes(z), block, Len(block) + 1 + z)
      BY ONLY <3>1, BegunIs
    <3> QED
      BY <1>4, <2>2, <2>3, <3>2
  <2>5. zeroes \in Numbers /\ Len(zeroes) = 56 /\ \A i \in 1..56 : zeroes[i] = 0
    <3>1. zeroes = Zeroes(56) /\ 56 \in Nat
      BY <2>2
    <3> QED
      BY ONLY <3>1, ZeroesAre
  <2>6. Ended(B, zeroes, last)
    <3>1. zeroes \in Numbers /\ Len(zeroes) = 56 /\ last \in Numbers /\ Len(last) = 8
      BY <1>7, <2>5
    <3>2. Ended(zeroes \o last, zeroes, last)
      BY ONLY <3>1, LastBlock
    <3> QED
      BY <2>2, <3>2
  <2>7. BlockAt(P, n + 1) = A
    <3>1. ASSUME NEW i \in 1..64 PROVE A[i] = P[64 * n + i]
      <4>1. PICK j : j = 64 * n + i
        OBVIOUS
      <4>2. j \in 1..64 * N /\ j <= 64 * N - 8
        BY <2>1, <4>1
      <4>3. CASE i <= r
        <5>1. i \in 1..r /\ i <= Len(block)
          BY <1>4, <1>5, <4>3
        <5>2. A[i] = block[i] /\ i \in 1..r
          BY <2>4, <5>1 DEF Begun
        <5>3. P[j] = text[j] /\ block[i] = text[j]
          BY <1>8, <1>9, <4>1, <4>2, <5>2
        <5> QED
          BY <4>1, <5>2, <5>3
      <4>4. CASE i = r + 1
        <5>1. A[i] = 128
          BY <1>4, <2>4, <4>4 DEF Begun
        <5>2. P[j] = 128
          BY <1>5, <1>8, <4>1, <4>2, <4>4
        <5> QED
          BY <4>1, <5>1, <5>2
      <4>5. CASE i > r + 1
        <5>1. A[i] = 0
          BY <1>4, <2>4, <4>5 DEF Begun
        <5>2. P[j] = 0
          BY <1>5, <1>8, <4>1, <4>2, <4>5
        <5> QED
          BY <4>1, <5>1, <5>2
      <4>6. i <= r \/ i = r + 1 \/ i > r + 1
        BY <1>5
      <4> QED
        BY <4>3, <4>4, <4>5, <4>6
    <3>2. n \in Nat /\ A \in Numbers /\ Len(A) = 64 /\ \A i \in 1..64 : A[i] = P[64 * n + i]
      BY <2>4, <3>1 DEF Begun
    <3> QED
      BY ONLY <3>2, SameBlock
  <2>8. PICK m : m = n + 1
    OBVIOUS
  <2>9. BlockAt(P, m + 1) = B
    <3>1. ASSUME NEW i \in 1..64 PROVE B[i] = P[64 * m + i]
      <4>1. PICK j : j = 64 * m + i
        OBVIOUS
      <4>2. j \in 1..64 * N /\ j = 64 * N - 64 + i /\ j > L + 1
        BY <1>5, <1>13, <2>1, <2>8, <4>1
      <4>3. CASE i <= 56
        <5>1. i \in 1..56
          BY <4>3
        <5>2. B[i] = zeroes[i]
          BY <2>6, <5>1 DEF Ended
        <5>3. B[i] = 0
          BY <2>5, <5>1, <5>2
        <5>4. j <= 64 * N - 8
          BY <2>1, <4>2, <4>3
        <5>5. P[j] = 0
          BY <1>8, <4>2, <5>4
        <5> QED
          BY <4>1, <5>3, <5>5
      <4>4. CASE i > 56
        <5>1. i \in 57..64
          BY <4>4
        <5>2. B[i] = last[i - 56]
          BY <2>6, <5>1 DEF Ended
        <5>3. j > 64 * N - 8 /\ j - 64 * N + 8 = i - 56
          BY <2>1, <4>2, <4>4
        <5>4. P[j] = last[i - 56]
          BY <1>8, <4>2, <5>3
        <5> QED
          BY <4>1, <5>2, <5>4
      <4> QED
        BY <4>3, <4>4
    <3>2. m \in Nat /\ B \in Numbers /\ Len(B) = 64 /\ \A i \in 1..64 : B[i] = P[64 * m + i]
      BY <2>6, <2>8, <3>1 DEF Ended
    <3> QED
      BY ONLY <3>2, SameBlock
  <2>10. PICK one : Chained(one, P, n + 1) /\ one[n + 1] = ProcessMessageBlock(words[n], BlockAt(P, n + 1))
    <3>1. n \in Nat /\ Chained(words, P, n)
      BY <1>10
    <3> QED
      BY ONLY <3>1, OneBlockMore
  <2>11. m \in Nat /\ m + 1 = N
    BY <2>1, <2>8
  <2>12. PICK two : Chained(two, P, m + 1) /\ two[m + 1] = ProcessMessageBlock(one[m], BlockAt(P, m + 1))
    <3>1. m \in Nat /\ Chained(one, P, m)
      BY <2>10, <2>11, <2>8
    <3> QED
      BY ONLY <3>1, OneBlockMore
  <2>13. PadMessage(sha) = ProcessMessageBlock(ProcessMessageBlock(words[n], A), B)
    <3>1. NoRoom(Len(sha.block))
      BY <1>4, <1>5, <1>11, <1>13 DEF NoRoom
    <3>2. Len(Append(block, 128)) = r + 1
      BY <1>4 DEF Numbers
    <3> QED
      BY <1>1, <1>11, <2>2, <3>1, <3>2 DEF PadMessage
  <2>14. Result(sha) = DigestOctets(two[N]) /\ Chained(two, P, N)
    BY <2>7, <2>9, <2>10, <2>11, <2>12, <2>13, <2>8 DEF Result
  <2> QED
    BY <1>1, <2>14 DEF IsDigest
<1> QED
  BY <1>5, <1>12, <1>13

-----------------------------------------------------------------------------
\* The handshake: what has been absorbed is what has gone from the rest.

\* The object d has absorbed the text but for its rest.
Progress(d, rest, text) ==
    \E k \in 0..Len(text) :
        /\ Absorbed(d, text, k)
        /\ rest \in Seq(Nat) /\ Len(rest) = Len(text) - k
        /\ \A i \in 1..Len(rest) : rest[i] = text[k + i]

\* The answer a handshake is to get: the digest of the whole text in base64.
IsAnswer(accept, text) == \E octets : IsDigest(octets, text) /\ accept = base64_encode(octets)

Text(r) == r.key \o ws_magic

DigestInv ==
    /\ exchange.pc = "digest" =>
           /\ exchange.request \in HttpRequests
           /\ Progress(exchange.sha1, exchange.rest, Text(exchange.request))
    /\ exchange.pc = "replied" =>
           IF exchange.status = 101
           THEN exchange.request \in HttpRequests /\ IsAnswer(exchange.accept, Text(exchange.request))
           ELSE exchange.accept = <<>>

\* Whatever happens between the check and the answer, a handshake is answered with the
\* digest of its own key and the magic, padded as the standard has it.
AnswersAreDigests ==
    exchange.pc = "replied" /\ exchange.status = 101 =>
        IsAnswer(exchange.accept, Text(exchange.request))

LEMMA TextOfOctets ==
    ASSUME NEW r \in HttpRequests
    PROVE  Text(r) \in Numbers
<1>1. r.key \in Seq(1..255)
  BY RequestAssumption
<1>2. r.key \in Seq(Nat)
  <2>1. 1..255 \subseteq Nat
    OBVIOUS
  <2> QED
    BY <1>1, <2>1, SeqMonotonic
<1>3. PICK m : m = ws_magic
  OBVIOUS
<1>4. m \in Seq(Nat)
  BY <1>3 DEF ws_magic
<1>5. r.key \o m \in Seq(Nat)
  BY ONLY <1>2, <1>4, ConcatProperties
<1> QED
  BY <1>3, <1>5 DEF Text, Numbers

\* A new object has absorbed nothing.
LEMMA DigestBegins ==
    ASSUME NEW text \in Numbers
    PROVE  Progress(NewSHA1, text, text)
<1>1. text \in Seq(Nat) /\ Len(text) \in Nat
  BY DEF Numbers
<1>2. PICK z : z = 0
  OBVIOUS
<1>3. Absorbed(NewSHA1, text, z)
  BY <1>2, HashBegins
<1>4. z \in 0..Len(text) /\ Len(text) = Len(text) - z /\ \A i \in 1..Len(text) : text[i] = text[z + i]
  BY <1>1, <1>2
<1> QED
  BY <1>1, <1>3, <1>4 DEF Progress

\* One more octet is absorbed.
LEMMA DigestGoesOn ==
    ASSUME NEW text \in Numbers, NEW d, NEW rest, Progress(d, rest, text), rest # <<>>
    PROVE  Progress(Input(d, Head(rest)), Tail(rest), text)
<1>1. text \in Seq(Nat) /\ Len(text) \in Nat
  BY DEF Numbers
<1>2. PICK k \in 0..Len(text) :
          /\ Absorbed(d, text, k)
          /\ rest \in Seq(Nat) /\ Len(rest) = Len(text) - k
          /\ \A i \in 1..Len(rest) : rest[i] = text[k + i]
  BY DEF Progress
<1>3. PICK h, t, n : h = Head(rest) /\ t = Tail(rest) /\ n = k + 1
  OBVIOUS
<1>4. /\ Len(rest) \in Nat \ {0} /\ h = rest[1]
      /\ t \in Seq(Nat) /\ Len(t) = Len(rest) - 1
      /\ \A i \in 1..Len(t) : t[i] = rest[i + 1]
  BY <1>2, <1>3
<1>5. k \in Nat /\ k < Len(text) /\ n \in 0..Len(text) /\ h = text[k + 1]
  BY <1>1, <1>2, <1>3, <1>4
<1>6. Absorbed(Input(d, h), text, n)
  <2>1. text \in Numbers /\ k \in Nat /\ k < Len(text) /\ Absorbed(d, text, k)
    BY <1>2, <1>5
  <2>2. Absorbed(Input(d, text[k + 1]), text, k + 1)
    BY ONLY <2>1, HashGoesOn
  <2> QED
    BY <1>3, <1>5, <2>2
<1>7. Len(t) = Len(text) - n
  BY <1>1, <1>2, <1>3, <1>4
<1>8. ASSUME NEW i \in 1..Len(t) PROVE t[i] = text[n + i]
  <2>1. i + 1 \in 1..Len(rest) /\ k + (i + 1) = n + i
    BY <1>2, <1>3, <1>4
  <2> QED
    BY <1>2, <1>4, <2>1
<1>9. Progress(Input(d, h), t, text)
  BY <1>4, <1>5, <1>6, <1>7, <1>8 DEF Progress
<1> QED
  BY <1>3, <1>9

\* With nothing left the whole text has been absorbed.
LEMMA DigestEnds ==
    ASSUME NEW text \in Numbers, NEW d, NEW rest, Progress(d, rest, text), rest = <<>>
    PROVE  IsAnswer(base64_encode(Result(d)), text)
<1>1. PICK k \in 0..Len(text) : Absorbed(d, text, k) /\ Len(rest) = Len(text) - k
  BY DEF Progress
<1>2. k = Len(text)
  <2>1. Len(text) \in Nat /\ Len(rest) = 0
    BY DEF Numbers
  <2> QED
    BY <1>1, <2>1
<1>3. IsDigest(Result(d), text)
  <2>1. text \in Numbers /\ Absorbed(d, text, Len(text))
    BY <1>1, <1>2
  <2> QED
    BY ONLY <2>1, HashEnds
<1> QED
  BY <1>3 DEF IsAnswer

LEMMA PlainSaysNothing ==
    ASSUME exchange'.pc = "replied", exchange'.status # 101, exchange'.accept = <<>>
    PROVE  DigestInv'
  BY DEF DigestInv

LEMMA DigestStep ==
    DigestInv /\ [RequestNext]_requestVars => DigestInv'
<1> SUFFICES ASSUME DigestInv, [RequestNext]_requestVars PROVE DigestInv'
  OBVIOUS
<1>1. CASE UNCHANGED exchange
  BY <1>1 DEF DigestInv
<1>2. ASSUME NEW r \in HttpRequests, HandleRequest(r) PROVE DigestInv'
  <2>1. CASE exchange' = Respond(r, "none", 400)
    BY <2>1, PlainSaysNothing DEF Respond, Answered
  <2>2. CASE exchange' = Redirect(r)
    <3>1. exchange'.pc = "replied" /\ exchange'.status \in {301, 404} /\ exchange'.accept = <<>>
      BY <2>2 DEF Redirect, Respond, Answered
    <3> QED
      BY <3>1, PlainSaysNothing
  <2>3. CASE exchange' = Respond(r, "page", 404) \/ exchange' = Respond(r, r.path, 200)
    BY <2>3, PlainSaysNothing DEF Respond, Answered
  <2>4. CASE exchange' = HandleWsgateRequest(r)
    <3>1. CASE CheckIfWSocketRequest(r) # 0
      <4>1. CheckIfWSocketRequest(r) # 101
        BY DEF CheckIfWSocketRequest
      <4>2. /\ exchange'.pc = "replied" /\ exchange'.accept = <<>>
            /\ exchange'.status = CheckIfWSocketRequest(r)
        BY <2>4, <3>1 DEF HandleWsgateRequest, Respond, Answered
      <4> QED
        BY <4>1, <4>2, PlainSaysNothing
    <3>2. CASE CheckIfWSocketRequest(r) = 0
      <4>1. /\ exchange'.pc = "digest" /\ exchange'.request = r
            /\ exchange'.sha1 = NewSHA1 /\ exchange'.rest = Text(r)
        BY <2>4, <3>2 DEF HandleWsgateRequest, Text
      <4>2. Progress(NewSHA1, Text(r), Text(r))
        BY TextOfOctets, DigestBegins
      <4> QED
        BY <4>1, <4>2 DEF DigestInv
    <3> QED
      BY <3>1, <3>2
  <2> QED
    BY <1>2, <2>1, <2>2, <2>3, <2>4 DEF HandleRequest
<1>3. CASE Digest
  <2>1. /\ exchange.pc = "digest" /\ exchange.rest # <<>>
        /\ exchange'.pc = "digest" /\ exchange'.request = exchange.request
    BY <1>3 DEF Digest
  <2>2. PICK d, rest, text : d = exchange.sha1 /\ rest = exchange.rest /\ text = Text(exchange.request)
    OBVIOUS
  <2>3. exchange.request \in HttpRequests /\ Progress(d, rest, text)
    BY <2>1, <2>2 DEF DigestInv
  <2>4. text \in Numbers
    BY <2>2, <2>3, TextOfOctets
  <2>5. Progress(Input(d, Head(rest)), Tail(rest), text)
    <3>1. rest # <<>>
      BY <2>1, <2>2
    <3> QED
      BY ONLY <2>3, <2>4, <3>1, DigestGoesOn
  <2>6. exchange'.sha1 = Input(d, Head(rest)) /\ exchange'.rest = Tail(rest)
    BY <1>3, <2>1, <2>2 DEF Digest, DigestInv
  <2> QED
    BY <2>1, <2>2, <2>3, <2>5, <2>6 DEF DigestInv
<1>4. CASE NextRequest
  BY <1>4 DEF NextRequest, Idle, DigestInv
<1>5. ASSUME NEW prepared \in BOOLEAN, Accept(prepared) PROVE DigestInv'
  <2>1. PICK a : a = base64_encode(Result(exchange.sha1))
    OBVIOUS
  <2>2. CASE exchange' = Answered(exchange.request, "wsgate", 101, 0, a)
    <3>1. exchange.pc = "digest" /\ exchange.rest = <<>>
      BY <1>5 DEF Accept
    <3>2. PICK d, rest, text : d = exchange.sha1 /\ rest = exchange.rest /\ text = Text(exchange.request)
      OBVIOUS
    <3>3. exchange.request \in HttpRequests /\ Progress(d, rest, text) /\ rest = <<>>
      BY <3>1, <3>2 DEF DigestInv
    <3>4. text \in Numbers
      BY <3>2, <3>3, TextOfOctets
    <3>5. IsAnswer(base64_encode(Result(d)), text)
      BY ONLY <3>3, <3>4, DigestEnds
    <3>6. IsAnswer(a, text)
      BY <2>1, <3>2, <3>5
    <3>7. /\ exchange'.pc = "replied" /\ exchange'.status = 101
          /\ exchange'.request = exchange.request /\ exchange'.accept = a
      BY <2>2 DEF Answered
    <3> QED
      BY <3>2, <3>3, <3>6, <3>7 DEF DigestInv
  <2>3. CASE exchange' = Respond(exchange.request, "wsgate", 503)
    BY <2>3, PlainSaysNothing DEF Respond, Answered
  <2> QED
    BY <1>5, <2>1, <2>2, <2>3 DEF Accept
<1>6. UNCHANGED requestVars => UNCHANGED exchange
  BY DEF requestVars
<1>7. ASSUME NEW c \in Confs, ReloadConf(c) PROVE UNCHANGED exchange
  BY <1>7 DEF ReloadConf
<1> QED
  BY <1>1, <1>2, <1>3, <1>4, <1>5, <1>6, <1>7 DEF RequestNext

LEMMA DigestInvariance == RequestSpec => []DigestInv
<1>1. RequestInit => DigestInv
  BY DEF RequestInit, Idle, DigestInv
<1> QED
  BY <1>1, DigestStep, PTL DEF RequestSpec

\* Every handshake is answered with base64 of the digest of its key and the magic, padded
\* and cut into blocks as the standard has it, for any keys, any function on one block
\* and any reloads between (wsgateEHS.cpp:369-416, sha1.cpp:526).
THEOREM HandshakesDigested == RequestSpec => []AnswersAreDigests
<1>1. DigestInv => AnswersAreDigests
  BY DEF DigestInv, AnswersAreDigests
<1> QED
  BY <1>1, DigestInvariance, PTL

\* The clients know the answers to all keys that decode to 16 octets.
ClientsKnow ==
    /\ \A r \in HttpRequests : Len(base64_decode(r.key)) = 16 => r.key \in DOMAIN Accepted
    /\ \A key \in DOMAIN Accepted : \A accept : IsAnswer(accept, key \o ws_magic) => accept = Accepted[key]

\* A client that computes the digest of its key and the magic finds it in the answer, and
\* an answer without a handshake has none (wsgateEHS.cpp:369-416).
THEOREM AcceptsAreCorrect ==
    ASSUME ClientsKnow
    PROVE  RequestSpec => []AcceptCorrect
<1>1. RequestInv /\ DigestInv => AcceptCorrect
  <2> SUFFICES ASSUME RequestInv, DigestInv, exchange.pc = "replied" PROVE AcceptCorrect
    BY DEF AcceptCorrect
  <2>1. CASE exchange.status = 101
    <3>1. PICK r, a : r = exchange.request /\ a = exchange.accept
      OBVIOUS
    <3>2. r \in HttpRequests /\ IsAnswer(a, Text(r))
      BY <2>1, <3>1 DEF DigestInv
    <3>3. Len(base64_decode(r.key)) = 16
      BY <2>1, <3>1 DEF RequestInv, HandshakeChecked, Checked
    <3>4. r.key \in DOMAIN Accepted /\ a = Accepted[r.key]
      BY <3>2, <3>3 DEF ClientsKnow, Text
    <3> QED
      BY <2>1, <3>1, <3>4 DEF AcceptCorrect
  <2>2. CASE exchange.status # 101
    BY <2>2 DEF DigestInv, AcceptCorrect
  <2> QED
    BY <2>1, <2>2
<1> QED
  BY <1>1, RequestInvariance, DigestInvariance, PTL

\* A visitor is sent to the port that is listened on unless ssl.port has been changed
\* since the start (wsgateEHS.cpp:189-201).
THEOREM RedirectsExplained == RequestSpec => []RedirectExplained
<1>1. RequestInv => RedirectExplained
  BY DEF RequestInv
<1> QED
  BY <1>1, RequestInvariance, PTL

\* No request becomes a WebSocket unless every test of it was passed: the digest is
\* computed, and the session prepared, steps after the test (wsgateEHS.cpp:369-416).
THEOREM HandshakesChecked == RequestSpec => []HandshakeChecked
<1>1. RequestInv => HandshakeChecked
  BY DEF RequestInv
<1> QED
  BY <1>1, RequestInvariance, PTL

-----------------------------------------------------------------------------
\* Base64 of a group of octets.

\* base64_chars, letter by letter.
LEMMA CharIs ==
    \A m \in 0..63 : /\ m < 26 => Base64Char(m) = 65 + m
                     /\ m \in 26..51 => Base64Char(m) = 71 + m
                     /\ m \in 52..61 => Base64Char(m) = m - 4
                     /\ m = 62 => Base64Char(m) = 43
                     /\ m = 63 => Base64Char(m) = 47
  BY DEF Base64Char

\* A character is found where it is taken from.
LEMMA CharFound ==
    ASSUME NEW n \in 0..63
    PROVE  FindChar(Base64Char(n)) = n
<1>1. \A k \in 0..63 : Base64Char(k) = Base64Char(n) => k = n
  <2> TAKE k \in 0..63
  <2> QED
    BY CharIs
<1>2. Base64Char(n) \in Base64Chars
  BY DEF Base64Chars
<1>3. FindChar(Base64Char(n)) = CHOOSE k \in 0..63 : Base64Char(k) = Base64Char(n)
  BY <1>2 DEF FindChar
<1> QED
  BY <1>1, <1>3

\* The octets a, b and c split into four numbers (base64.cpp:50-53), and joined from them
\* again (base64.cpp:114-116).
Splits(a, b, c, s1, s2, s3, s4) ==
    /\ s1 = a \div 4 /\ s2 = (a % 4) * 16 + (b \div 16)
    /\ s3 = (b % 16) * 4 + (c \div 64) /\ s4 = c % 64

Joins(a, b, c, s1, s2, s3, s4) ==
    /\ s1 \in 0..63 /\ s2 \in 0..63 /\ s3 \in 0..63 /\ s4 \in 0..63
    /\ (s1 * 4 + ((s2 % 64) \div 16)) % 256 = a
    /\ ((s2 % 16) * 16 + ((s3 % 64) \div 4)) % 256 = b
    /\ ((s3 % 4) * 64 + s4) % 256 = c

\* Three octets split into four numbers of six bits are joined from them again.
LEMMA SextetsBack ==
    ASSUME NEW a \in 0..255, NEW b \in 0..255, NEW c \in 0..255,
           NEW s1, NEW s2, NEW s3, NEW s4, Splits(a, b, c, s1, s2, s3, s4)
    PROVE  Joins(a, b, c, s1, s2, s3, s4)
<1>0. /\ s1 = a \div 4 /\ s2 = (a % 4) * 16 + (b \div 16)
      /\ s3 = (b % 16) * 4 + (c \div 64) /\ s4 = c % 64
  BY DEF Splits
<1>1. PICK ra, qb, rb, qc : ra = a % 4 /\ qb = b \div 16 /\ rb = b % 16 /\ qc = c \div 64
  OBVIOUS
<1>2. s1 \in 0..63 /\ ra \in 0..3 /\ a = 4 * s1 + ra
  BY <1>0, <1>1
<1>3. qb \in 0..15 /\ rb \in 0..15 /\ b = 16 * qb + rb
  BY <1>0, <1>1
<1>4. qc \in 0..3 /\ s4 \in 0..63 /\ c = 64 * qc + s4
  BY <1>0, <1>1
<1>5. s2 = ra * 16 + qb /\ s3 = rb * 4 + qc
  BY <1>0, <1>1
<1>6. s2 \in 0..63 /\ s2 % 64 = s2 /\ s2 \div 16 = ra /\ s2 % 16 = qb
  BY ONLY <1>2, <1>3, <1>5
<1>7. s3 \in 0..63 /\ s3 % 64 = s3 /\ s3 \div 4 = rb /\ s3 % 4 = qc
  BY ONLY <1>3, <1>4, <1>5
<1>8. (s1 * 4 + ra) % 256 = a
  BY ONLY <1>2
<1>9. (qb * 16 + rb) % 256 = b
  BY ONLY <1>3
<1>10. (qc * 64 + s4) % 256 = c
  BY ONLY <1>4
<1> QED
  BY ONLY <1>2, <1>4, <1>6, <1>7, <1>8, <1>9, <1>10 DEF Joins

\* What filling up a group makes of it.
LEMMA FilledIs ==
    ASSUME NEW s \in Numbers, NEW n \in Nat, Len(s) <= n, NEW w \in Nat,
           NEW f, f = Filled(s, n, w)
    PROVE  /\ f \in Numbers /\ Len(f) = n
           /\ \A i \in 1..n : i <= Len(s) => f[i] = s[i]
           /\ \A i \in 1..n : ~(i <= Len(s)) => f[i] = w
<1>1. s \in Seq(Nat) /\ Len(s) \in Nat
  BY DEF Numbers
<1>2. PICK m, t : m = n - Len(s) /\ t = [i \in 1..m |-> w]
  OBVIOUS
<1>3. m \in Nat
  BY <1>1, <1>2
<1>4. t \in Seq(Nat) /\ Len(t) = m /\ \A i \in 1..m : t[i] = w
  BY <1>2, <1>3
<1>5. f = s \o t
  BY <1>2 DEF Filled
<1>6. s \o t \in Seq(Nat) /\ Len(s \o t) = Len(s) + Len(t)
  BY <1>1, <1>4, ConcatProperties
<1>7. \A i \in 1..Len(s) + Len(t) : (s \o t)[i] = IF i <= Len(s) THEN s[i] ELSE t[i - Len(s)]
  BY <1>1, <1>4, ConcatProperties
<1>8. Len(s) + Len(t) = n
  BY <1>1, <1>2, <1>4
<1>9. ASSUME NEW i \in 1..n, ~(i <= Len(s)) PROVE f[i] = w
  <2>1. PICK j : j = i - Len(s)
    OBVIOUS
  <2>2. j \in 1..m
    BY <1>1, <1>2, <1>9, <2>1
  <2> QED
    BY <1>4, <1>5, <1>7, <1>8, <1>9, <2>1, <2>2
<1>10. ASSUME NEW i \in 1..n, i <= Len(s) PROVE f[i] = s[i]
  BY <1>5, <1>7, <1>8, <1>10
<1> QED
  BY <1>5, <1>6, <1>8, <1>9, <1>10 DEF Numbers

\* A payload is a sequence of numbers, each an octet.
LEMMA BytesAre ==
    ASSUME NEW g \in Payloads
    PROVE  g \in Numbers /\ \A i \in 1..Len(g) : g[i] \in 0..255
<1>1. g \in Seq(0..255)
  BY DEF Payloads, Octet
<1>2. g \in Seq(Nat)
  <2>1. 0..255 \subseteq Nat
    OBVIOUS
  <2> QED
    BY <1>1, <2>1, SeqMonotonic
<1> QED
  BY <1>1, <1>2, ElementOfSeq DEF Numbers

\* The characters e that the octets a, b and c of a group g of k octets become.
Encodes(e, g, k, a, b, c) ==
    /\ g[1] = a /\ (k >= 2 => g[2] = b) /\ (k = 3 => g[3] = c)
    /\ DOMAIN e = 1..4
    /\ e[1] = Base64Char(a \div 4) /\ e[2] = Base64Char((a % 4) * 16 + (b \div 16))
    /\ k >= 2 => e[3] = Base64Char((b % 16) * 4 + (c \div 64))
    /\ k = 3 => e[4] = Base64Char(c % 64)

\* Each character of an encoded group stands for six bits of its octets.
LEMMA GroupEncoded ==
    ASSUME NEW g \in Payloads, NEW k, k = Len(g), k \in 1..3, NEW e, e = EncodeGroup(g)
    PROVE  \E a, b, c \in 0..255 : Encodes(e, g, k, a, b, c)
<1>1. PICK f, n, w : f = Filled(g, n, w) /\ n = 3 /\ w = 0
  OBVIOUS
<1>2. /\ \A i \in 1..n : i <= Len(g) => f[i] = g[i]
      /\ \A i \in 1..n : ~(i <= Len(g)) => f[i] = w
  <2>1. g \in Numbers /\ n \in Nat /\ w \in Nat /\ Len(g) <= n /\ f = Filled(g, n, w)
    BY <1>1, BytesAre
  <2> QED
    BY ONLY <2>1, FilledIs
<1>3. PICK a, b, c : a = f[1] /\ b = f[2] /\ c = f[3]
  OBVIOUS
<1>4. /\ a \in 0..255 /\ b \in 0..255 /\ c \in 0..255
      /\ g[1] = a /\ (k >= 2 => g[2] = b) /\ (k = 3 => g[3] = c)
  <2>1. \A i \in 1..Len(g) : g[i] \in 0..255
    BY BytesAre
  <2>2. \A i \in 1..3 : f[i] = IF i <= k THEN g[i] ELSE 0
    BY <1>1, <1>2
  <2>3. \A i \in 1..3 : f[i] \in 0..255
    <3> TAKE i \in 1..3
    <3>1. CASE i <= k
      <4>1. i \in 1..Len(g) /\ f[i] = g[i]
        BY <2>2, <3>1
      <4> QED
        BY <2>1, <4>1
    <3>2. CASE ~(i <= k)
      <4>1. f[i] = 0
        BY <2>2, <3>2
      <4> QED
        BY <4>1
    <3> QED
      BY <3>1, <3>2
  <2>4. a \in 0..255 /\ b \in 0..255 /\ c \in 0..255
    BY <1>3, <2>3
  <2>5. a = g[1]
    BY <1>3, <2>2
  <2>6. k >= 2 => b = g[2]
    BY <1>3, <2>2
  <2>7. k = 3 => c = g[3]
    BY <1>3, <2>2
  <2> QED
    BY <2>4, <2>5, <2>6, <2>7
<1>5. PICK q : q = Sextets(f)
  OBVIOUS
<1>6. PICK q1, q2, q3, q4 : q1 = a \div 4 /\ q2 = (a % 4) * 16 + (b \div 16) /\ q3 = (b % 16) * 4 + (c \div 64) /\ q4 = c % 64
  OBVIOUS
<1>7. q = <<q1, q2, q3, q4>>
  BY <1>3, <1>5, <1>6 DEF Sextets
<1>8. e = [i \in 1..4 |-> IF i <= k + 1 THEN Base64Char(q[i]) ELSE Pad]
  BY <1>1, <1>5 DEF EncodeGroup
<1>9. /\ DOMAIN e = 1..4 /\ e[1] = Base64Char(q[1]) /\ e[2] = Base64Char(q[2])
      /\ k >= 2 => e[3] = Base64Char(q[3])
      /\ k = 3 => e[4] = Base64Char(q[4])
  BY <1>8
<1>10. q[1] = q1 /\ q[2] = q2 /\ q[3] = q3 /\ q[4] = q4
  BY <1>7
<1>11. Encodes(e, g, k, a, b, c)
  BY <1>4, <1>6, <1>9, <1>10 DEF Encodes
<1> QED
  BY <1>4, <1>11

\* What is found for any character is a number.
LEMMA FoundIsNat ==
    ASSUME NEW c
    PROVE  FindChar(c) \in Nat
<1>1. CASE c \in Base64Chars
  <2>1. \E n \in 0..63 : Base64Char(n) = c
    BY <1>1 DEF Base64Chars
  <2> QED
    BY <1>1, <2>1 DEF FindChar
<1>2. CASE c \notin Base64Chars
  BY <1>2 DEF FindChar
<1> QED
  BY <1>1, <1>2

\* The octets d that k characters become, which stand for the numbers q1 to q4.
Decodes(d, k, q1, q2, q3, q4) ==
    /\ d \in Seq(Nat) /\ Len(d) = k - 1
    /\ d[1] = (q1 * 4 + ((q2 % 64) \div 16)) % 256
    /\ k >= 3 => d[2] = ((q2 % 16) * 16 + ((q3 % 64) \div 4)) % 256
    /\ k = 4 => d[3] = ((q3 % 4) * 64 + q4) % 256

\* Characters that stand for q1 to q4 decode to the octets these make.
LEMMA GroupDecoded ==
    ASSUME NEW t, NEW k, k \in 2..4, DOMAIN t = 1..k, Len(t) = k, NEW d, d = DecodeGroup(t),
           NEW q1, NEW q2, NEW q3, NEW q4, FindChar(t[1]) = q1, FindChar(t[2]) = q2,
           k >= 3 => FindChar(t[3]) = q3, k = 4 => FindChar(t[4]) = q4
    PROVE  Decodes(d, k, q1, q2, q3, q4)
<1>1. PICK u, f, n, w : /\ u = [i \in 1..k |-> FindChar(t[i])] /\ n = 4 /\ w = 255
                        /\ f = Filled(u, n, w)
  OBVIOUS
<1>2. u \in Seq(Nat) /\ Len(u) = k /\ \A i \in 1..k : u[i] = FindChar(t[i])
  BY <1>1, FoundIsNat
<1>3. /\ f \in Numbers /\ Len(f) = n
      /\ \A i \in 1..n : i <= Len(u) => f[i] = u[i]
  <2>1. u \in Numbers /\ n \in Nat /\ w \in Nat /\ Len(u) <= n
    BY <1>1, <1>2 DEF Numbers
  <2>2. f = Filled(u, n, w)
    BY <1>1
  <2> QED
    BY ONLY <2>1, <2>2, FilledIs
<1>4. PICK f1, f2, f3, f4 : f1 = f[1] /\ f2 = f[2] /\ f3 = f[3] /\ f4 = f[4]
  OBVIOUS
<1>5. f1 \in Nat /\ f2 \in Nat /\ f3 \in Nat /\ f4 \in Nat
  BY <1>1, <1>3, <1>4, ElementOfSeq DEF Numbers
<1>6. f1 = q1 /\ f2 = q2 /\ (k >= 3 => f3 = q3) /\ (k = 4 => f4 = q4)
  <2>1. \A i \in 1..k : f[i] = FindChar(t[i])
    BY <1>1, <1>2, <1>3
  <2> QED
    BY <1>4, <2>1
<1>7. PICK x, y, z : /\ x = (f1 * 4 + ((f2 % 64) \div 16)) % 256
                     /\ y = ((f2 % 16) * 16 + ((f3 % 64) \div 4)) % 256
                     /\ z = ((f3 % 4) * 64 + f4) % 256
  OBVIOUS
<1>8. x \in Nat /\ y \in Nat /\ z \in Nat
  BY <1>5, <1>7
<1>9. PICK o : o = <<x, y, z>>
  OBVIOUS
<1>10. Octets(f) = o
  BY <1>4, <1>7, <1>9 DEF Octets
<1>11. o \in Seq(Nat) /\ Len(o) = 3 /\ o[1] = x /\ o[2] = y /\ o[3] = z
  BY <1>8, <1>9
<1>12. PICK m, l : m = 1 /\ l = k - 1
  OBVIOUS
<1>13. d = SubSeq(o, m, l)
  BY <1>1, <1>10, <1>12 DEF DecodeGroup
<1>14. m \in Int /\ l \in Int /\ (\A i \in m..l : o[i] \in Nat)
  BY <1>11, <1>12, <1>8
<1>15. SubSeq(o, m, l) \in Seq(Nat) /\ Len(SubSeq(o, m, l)) = IF m <= l THEN l - m + 1 ELSE 0
  BY ONLY <1>14, SubSeqProperties
<1>16. \A i \in 1..l - m + 1 : SubSeq(o, m, l)[i] = o[m + i - 1]
  BY ONLY <1>14, SubSeqProperties
<1>17. d \in Seq(Nat) /\ Len(d) = k - 1
  BY <1>12, <1>13, <1>15
<1>18. \A i \in 1..k - 1 : d[i] = o[i]
  <2> TAKE i \in 1..k - 1
  <2>1. i \in 1..l - m + 1 /\ m + i - 1 = i
    BY <1>12
  <2> QED
    BY <1>13, <1>16, <2>1
<1>19. d[1] = x /\ (k >= 3 => d[2] = y) /\ (k = 4 => d[3] = z)
  BY <1>11, <1>18
<1> QED
  BY <1>6, <1>7, <1>17, <1>19 DEF Decodes

\* A group of octets, encoded without its padding, decodes to itself (base64.cpp:47-78,
\* 94-119).
THEOREM GroupDecodes ==
    ASSUME NEW g \in Payloads, Len(g) \in 1..3
    PROVE  DecodeGroup(SubSeq(EncodeGroup(g), 1, Len(g) + 1)) = g
<1>1. PICK k, e, m, l : k = Len(g) /\ e = EncodeGroup(g) /\ m = 1 /\ l = k + 1
  OBVIOUS
<1>2. PICK a, b, c \in 0..255 : Encodes(e, g, k, a, b, c)
  <2>1. g \in Payloads
    OBVIOUS
  <2>2. k \in 1..3
    BY <1>1
  <2>3. k = Len(g) /\ e = EncodeGroup(g)
    BY <1>1
  <2> QED
    BY ONLY <2>1, <2>2, <2>3, GroupEncoded
<1>3. PICK q1, q2, q3, q4 : q1 = a \div 4 /\ q2 = (a % 4) * 16 + (b \div 16) /\ q3 = (b % 16) * 4 + (c \div 64) /\ q4 = c % 64
  OBVIOUS
<1>4. /\ q1 \in 0..63 /\ q2 \in 0..63 /\ q3 \in 0..63 /\ q4 \in 0..63
      /\ (q1 * 4 + ((q2 % 64) \div 16)) % 256 = a
      /\ ((q2 % 16) * 16 + ((q3 % 64) \div 4)) % 256 = b
      /\ ((q3 % 4) * 64 + q4) % 256 = c
  <2>1. Splits(a, b, c, q1, q2, q3, q4)
    BY <1>3 DEF Splits
  <2>2. Joins(a, b, c, q1, q2, q3, q4)
    BY ONLY <2>1, SextetsBack, a \in 0..255, b \in 0..255, c \in 0..255
  <2> QED
    BY <2>2 DEF Joins
<1>5. PICK t, d : t = SubSeq(e, m, l) /\ d = DecodeGroup(t)
  OBVIOUS
<1>6. DOMAIN t = 1..l /\ Len(t) = l /\ l \in 2..4 /\ \A i \in 1..l : t[i] = e[i]
  <2>1. l \in 2..4 /\ m \in Int /\ l \in Int /\ l - m + 1 = l /\ m <= l
    BY <1>1
  <2>2. PICK S : S = {e[i] : i \in 1..4}
    OBVIOUS
  <2>3. \A i \in m..l : e[i] \in S
    BY <1>1, <2>1, <2>2
  <2>4. SubSeq(e, m, l) \in Seq(S) /\ Len(SubSeq(e, m, l)) = IF m <= l THEN l - m + 1 ELSE 0
    BY ONLY <2>1, <2>3, SubSeqProperties
  <2>5. \A i \in 1..l - m + 1 : SubSeq(e, m, l)[i] = e[m + i - 1]
    BY ONLY <2>1, <2>3, SubSeqProperties
  <2>6. ASSUME NEW i \in 1..l PROVE t[i] = e[i]
    <3>1. i \in 1..l - m + 1 /\ m + i - 1 = i
      BY <1>1
    <3> QED
      BY <1>5, <2>5, <3>1
  <2>7. t \in Seq(S) /\ Len(t) = l
    BY <1>5, <2>1, <2>4
  <2>8. DOMAIN t = 1..l
    BY ONLY <2>7
  <2> QED
    BY ONLY <2>1, <2>6, <2>7, <2>8
<1>7. /\ FindChar(t[1]) = q1 /\ FindChar(t[2]) = q2
      /\ l >= 3 => FindChar(t[3]) = q3
      /\ l = 4 => FindChar(t[4]) = q4
  <2>1. t[1] = Base64Char(q1) /\ t[2] = Base64Char(q2)
    BY <1>2, <1>3, <1>6 DEF Encodes
  <2>2. l >= 3 => t[3] = Base64Char(q3)
    BY <1>1, <1>2, <1>3, <1>6 DEF Encodes
  <2>3. l = 4 => t[4] = Base64Char(q4)
    BY <1>1, <1>2, <1>3, <1>6 DEF Encodes
  <2> QED
    BY <1>4, <2>1, <2>2, <2>3, CharFound
<1>8. Decodes(d, l, q1, q2, q3, q4)
  <2>1. l \in 2..4 /\ DOMAIN t = 1..l /\ Len(t) = l /\ d = DecodeGroup(t)
    BY <1>5, <1>6
  <2> QED
    BY ONLY <1>7, <2>1, GroupDecoded
<1>9. Len(d) = Len(g) /\ \A i \in 1..Len(g) : d[i] = g[i]
  <2>1. Len(g) \in 1..3 /\ l = Len(g) + 1
    BY <1>1
  <2>2. g[1] = a /\ (l >= 3 => g[2] = b) /\ (l = 4 => g[3] = c)
    BY <1>1, <1>2, <2>1 DEF Encodes
  <2>3. d[1] = a /\ (l >= 3 => d[2] = b) /\ (l = 4 => d[3] = c)
    BY <1>4, <1>8 DEF Decodes
  <2>4. Len(d) = Len(g)
    BY <1>8, <2>1 DEF Decodes
  <2>5. ASSUME NEW i \in 1..Len(g) PROVE d[i] = g[i]
    <3>0. i \in 1..k /\ k \in 1..3 /\ l = k + 1
      BY <1>1, <2>1
    <3>1. i = 1 \/ (i = 2 /\ l >= 3) \/ (i = 3 /\ l = 4)
      BY ONLY <3>0
    <3>2. CASE i = 1
      BY <2>2, <2>3, <3>2
    <3>3. CASE i = 2 /\ l >= 3
      BY <2>2, <2>3, <3>3
    <3>4. CASE i = 3 /\ l = 4
      BY <2>2, <2>3, <3>4
    <3> QED
      BY <3>1, <3>2, <3>3, <3>4
  <2> QED
    BY <2>4, <2>5
<1>10. g \in Seq(Nat)
  BY BytesAre DEF Numbers
<1>11. d = g
  BY <1>8, <1>9, <1>10, SeqEqual DEF Decodes
<1> QED
  BY <1>1, <1>5, <1>11

-----------------------------------------------------------------------------
\* Base64 of a whole text.

\* The groups of at most three numbers of a text: which number is where.
InThrees(s, L, G, N) ==
    /\ L \in Nat /\ N \in Nat /\ 3 * N <= L + 2 /\ L <= 3 * N
    /\ \A g \in 1..N : /\ G[g] \in Numbers
                       /\ Len(G[g]) = IF 3 * g <= L THEN 3 ELSE L - (3 * (g - 1))
                       /\ \A j \in 1..Len(G[g]) : G[g][j] = s[3 * (g - 1) + j]

LEMMA ThreeGroups ==
    ASSUME NEW s \in Numbers, NEW L, L = Len(s), NEW G, G = Groups(s, 3), NEW N, N = Len(G)
    PROVE  InThrees(s, L, G, N)
<1>1. L \in Nat /\ \A i \in 1..L : s[i] \in Nat
  BY ElementOfSeq DEF Numbers
<1>2. PICK n : n = (L + 2) \div 3
  OBVIOUS
<1>3. n \in Nat /\ 3 * n <= L + 2 /\ L <= 3 * n
  BY <1>1, <1>2
<1>4. G = [g \in 1..n |-> SubSeq(s, 3 * (g - 1) + 1, IF 3 * g < L THEN 3 * g ELSE L)]
  <2>1. L + 3 - 1 = L + 2
    BY <1>1
  <2> QED
    BY <1>2, <2>1 DEF Groups
<1>5. N = n
  BY <1>3, <1>4
<1>6. ASSUME NEW g \in 1..N
      PROVE  /\ G[g] \in Numbers
             /\ Len(G[g]) = IF 3 * g <= L THEN 3 ELSE L - (3 * (g - 1))
             /\ \A j \in 1..Len(G[g]) : G[g][j] = s[3 * (g - 1) + j]
  <2>0. g \in Nat \ {0}
    BY <1>3, <1>5
  <2>1. PICK a, b : a = 3 * (g - 1) + 1 /\ b = IF 3 * g < L THEN 3 * g ELSE L
    OBVIOUS
  <2>2. a \in Int /\ b \in Int /\ a >= 1 /\ a <= b /\ b <= L
    BY <1>1, <1>3, <1>5, <2>1
  <2>3. \A i \in a..b : s[i] \in Nat
    BY <1>1, <2>2
  <2>4. G[g] = SubSeq(s, a, b)
    BY <1>4, <1>5, <2>1
  <2>5. /\ SubSeq(s, a, b) \in Seq(Nat)
        /\ Len(SubSeq(s, a, b)) = IF a <= b THEN b - a + 1 ELSE 0
        /\ \A i \in 1..b - a + 1 : SubSeq(s, a, b)[i] = s[a + i - 1]
    BY ONLY <2>2, <2>3, SubSeqProperties
  <2>6. Len(G[g]) = b - a + 1
    BY <2>2, <2>4, <2>5
  <2>7. Len(G[g]) = IF 3 * g <= L THEN 3 ELSE L - (3 * (g - 1))
    BY ONLY <1>1, <2>0, <2>1, <2>2, <2>6
  <2>8. ASSUME NEW j \in 1..Len(G[g]) PROVE G[g][j] = s[3 * (g - 1) + j]
    <3>1. j \in 1..b - a + 1
      BY <2>6
    <3>2. a = 3 * (g - 1) + 1
      BY <2>1
    <3>3. a + j - 1 = 3 * (g - 1) + j
      BY ONLY <2>0, <2>2, <3>1, <3>2
    <3> QED
      BY <2>4, <2>5, <3>1, <3>3
  <2> QED
    BY <2>4, <2>5, <2>7, <2>8 DEF Numbers
<1> QED
  BY <1>1, <1>3, <1>5, <1>6 DEF InThrees

\* The same for the groups of at most four.
InFours(s, L, G, N) ==
    /\ L \in Nat /\ N \in Nat /\ 4 * N <= L + 3 /\ L <= 4 * N
    /\ \A g \in 1..N : /\ G[g] \in Numbers
                       /\ Len(G[g]) = IF 4 * g <= L THEN 4 ELSE L - (4 * (g - 1))
                       /\ \A j \in 1..Len(G[g]) : G[g][j] = s[4 * (g - 1) + j]

LEMMA FourGroups ==
    ASSUME NEW s \in Numbers, NEW L, L = Len(s), NEW G, G = Groups(s, 4), NEW N, N = Len(G)
    PROVE  InFours(s, L, G, N)
<1>1. L \in Nat /\ \A i \in 1..L : s[i] \in Nat
  BY ElementOfSeq DEF Numbers
<1>2. PICK n : n = (L + 3) \div 4
  OBVIOUS
<1>3. n \in Nat /\ 4 * n <= L + 3 /\ L <= 4 * n
  BY <1>1, <1>2
<1>4. G = [g \in 1..n |-> SubSeq(s, 4 * (g - 1) + 1, IF 4 * g < L THEN 4 * g ELSE L)]
  <2>1. L + 4 - 1 = L + 3
    BY <1>1
  <2> QED
    BY <1>2, <2>1 DEF Groups
<1>5. N = n
  BY <1>3, <1>4
<1>6. ASSUME NEW g \in 1..N
      PROVE  /\ G[g] \in Numbers
             /\ Len(G[g]) = IF 4 * g <= L THEN 4 ELSE L - (4 * (g - 1))
             /\ \A j \in 1..Len(G[g]) : G[g][j] = s[4 * (g - 1) + j]
  <2>0. g \in Nat \ {0}
    BY <1>3, <1>5
  <2>1. PICK a, b : a = 4 * (g - 1) + 1 /\ b = IF 4 * g < L THEN 4 * g ELSE L
    OBVIOUS
  <2>2. a \in Int /\ b \in Int /\ a >= 1 /\ a <= b /\ b <= L
    BY <1>1, <1>3, <1>5, <2>1
  <2>3. \A i \in a..b : s[i] \in Nat
    BY <1>1, <2>2
  <2>4. G[g] = SubSeq(s, a, b)
    BY <1>4, <1>5, <2>1
  <2>5. /\ SubSeq(s, a, b) \in Seq(Nat)
        /\ Len(SubSeq(s, a, b)) = IF a <= b THEN b - a + 1 ELSE 0
        /\ \A i \in 1..b - a + 1 : SubSeq(s, a, b)[i] = s[a + i - 1]
    BY ONLY <2>2, <2>3, SubSeqProperties
  <2>6. Len(G[g]) = b - a + 1
    BY <2>2, <2>4, <2>5
  <2>7. Len(G[g]) = IF 4 * g <= L THEN 4 ELSE L - (4 * (g - 1))
    BY ONLY <1>1, <2>0, <2>1, <2>2, <2>6
  <2>8. ASSUME NEW j \in 1..Len(G[g]) PROVE G[g][j] = s[4 * (g - 1) + j]
    <3>1. j \in 1..b - a + 1
      BY <2>6
    <3>2. a = 4 * (g - 1) + 1
      BY <2>1
    <3>3. a + j - 1 = 4 * (g - 1) + j
      BY ONLY <2>0, <2>2, <3>1, <3>2
    <3> QED
      BY <2>4, <2>5, <3>1, <3>3
  <2> QED
    BY <2>4, <2>5, <2>7, <2>8 DEF Numbers
<1> QED
  BY <1>1, <1>3, <1>5, <1>6 DEF InFours

\* The characters of a group: of the alphabet as far as it has octets, then padding.
LEMMA GroupText ==
    ASSUME NEW g \in Payloads, NEW k, k = Len(g), k \in 1..3, NEW e, e = EncodeGroup(g)
    PROVE  \A j \in 1..4 : /\ e[j] \in Nat
                           /\ j <= k + 1 => e[j] \in Base64Chars
                           /\ ~(j <= k + 1) => e[j] \notin Base64Chars
<1>1. PICK a, b, c \in 0..255 : Encodes(e, g, k, a, b, c)
  BY GroupEncoded
<1>2. PICK q1, q2, q3, q4 : q1 = a \div 4 /\ q2 = (a % 4) * 16 + (b \div 16) /\ q3 = (b % 16) * 4 + (c \div 64) /\ q4 = c % 64
  OBVIOUS
<1>3. q1 \in 0..63 /\ q2 \in 0..63 /\ q3 \in 0..63 /\ q4 \in 0..63
  <2>1. Splits(a, b, c, q1, q2, q3, q4)
    BY <1>2 DEF Splits
  <2>2. Joins(a, b, c, q1, q2, q3, q4)
    BY ONLY <2>1, SextetsBack, a \in 0..255, b \in 0..255, c \in 0..255
  <2> QED
    BY <2>2 DEF Joins
<1>4. \A n \in 0..63 : Base64Char(n) \in Base64Chars
  BY DEF Base64Chars
<1>5. \A n \in 0..63 : Base64Char(n) \in Nat /\ Base64Char(n) # Pad
  <2> TAKE n \in 0..63
  <2>1. n < 26 \/ n \in 26..51 \/ n \in 52..61 \/ n = 62 \/ n = 63
    OBVIOUS
  <2>2. PICK x : x = Base64Char(n)
    OBVIOUS
  <2>3. /\ n < 26 => x = 65 + n
        /\ n \in 26..51 => x = 71 + n
        /\ n \in 52..61 => x = n - 4
        /\ n = 62 => x = 43
        /\ n = 63 => x = 47
    BY <2>2, CharIs
  <2>4. n \in 0..63
    OBVIOUS
  <2>5. x \in Nat /\ x # 61
    BY ONLY <2>1, <2>3, <2>4
  <2> QED
    BY <2>2, <2>5 DEF Pad
<1>6. Pad \in Nat /\ Pad \notin Base64Chars
  <2>1. Pad \in Nat
    BY DEF Pad
  <2> QED
    BY <1>5, <2>1 DEF Base64Chars
<1>7. \A j \in 1..4 : ~(j <= k + 1) => e[j] = Pad
  <2>1. PICK s : s = Sextets(Filled(g, 3, 0))
    OBVIOUS
  <2>2. e = [i \in 1..4 |-> IF i <= k + 1 THEN Base64Char(s[i]) ELSE Pad]
    BY <2>1 DEF EncodeGroup
  <2> QED
    BY <2>2
<1>8. ASSUME NEW j \in 1..4, j <= k + 1 PROVE \E n \in 0..63 : e[j] = Base64Char(n)
  <2>1. e[1] = Base64Char(q1) /\ e[2] = Base64Char(q2)
    BY <1>1, <1>2 DEF Encodes
  <2>2. k >= 2 => e[3] = Base64Char(q3)
    BY <1>1, <1>2 DEF Encodes
  <2>3. k = 3 => e[4] = Base64Char(q4)
    BY <1>1, <1>2 DEF Encodes
  <2>4. j = 1 \/ j = 2 \/ (j = 3 /\ k >= 2) \/ (j = 4 /\ k = 3)
    BY <1>8
  <2> QED
    BY <1>3, <2>1, <2>2, <2>3, <2>4
<1>9. ASSUME NEW j \in 1..4, j <= k + 1 PROVE e[j] \in Nat /\ e[j] \in Base64Chars
  BY <1>4, <1>5, <1>8, <1>9
<1> QED
  BY <1>6, <1>7, <1>9

\* Where an element is, counted in groups of three or four.
LEMMA Places ==
    ASSUME NEW i \in Nat \ {0}
    PROVE  /\ GroupOf(i, 3) \in Nat \ {0} /\ PlaceOf(i, 3) \in 1..3
           /\ i = 3 * (GroupOf(i, 3) - 1) + PlaceOf(i, 3)
           /\ GroupOf(i, 4) \in Nat \ {0} /\ PlaceOf(i, 4) \in 1..4
           /\ i = 4 * (GroupOf(i, 4) - 1) + PlaceOf(i, 4)
  BY DEF GroupOf, PlaceOf

LEMMA PlaceIs ==
    ASSUME NEW g \in Nat \ {0}, NEW j \in 1..4
    PROVE  GroupOf(4 * (g - 1) + j, 4) = g /\ PlaceOf(4 * (g - 1) + j, 4) = j
  BY DEF GroupOf, PlaceOf

\* The text base64_encode makes: in each group one character more than it has octets, and
\* padding in the last one only.
TextOf(e, L, G, N) ==
    /\ e \in Numbers /\ Len(e) = 4 * N
    /\ \A g \in 1..N : G[g] \in Payloads /\ Len(G[g]) \in 1..3
    /\ \A g \in 1..N, j \in 1..4 : e[4 * (g - 1) + j] = EncodeGroup(G[g])[j]
    /\ \A i \in 1..4 * N : (e[i] \in Base64Chars) <=> (i <= L + N)

LEMMA TextIs ==
    ASSUME NEW s \in Payloads, NEW L, L = Len(s), NEW G, G = Groups(s, 3), NEW N, N = Len(G),
           NEW e, e = base64_encode(s)
    PROVE  TextOf(e, L, G, N)
<1>1. s \in Numbers /\ \A i \in 1..L : s[i] \in Octet
  BY BytesAre DEF Octet
<1>2. /\ L \in Nat /\ N \in Nat /\ 3 * N <= L + 2 /\ L <= 3 * N
      /\ \A g \in 1..N : /\ G[g] \in Numbers
                         /\ Len(G[g]) = IF 3 * g <= L THEN 3 ELSE L - (3 * (g - 1))
                         /\ \A j \in 1..Len(G[g]) : G[g][j] = s[3 * (g - 1) + j]
  <2>1. InThrees(s, L, G, N)
    BY ONLY <1>1, L = Len(s), G = Groups(s, 3), N = Len(G), ThreeGroups
  <2> QED
    BY <2>1 DEF InThrees
<1>3. ASSUME NEW g \in 1..N PROVE G[g] \in Payloads /\ Len(G[g]) \in 1..3
  <2>0. Len(G[g]) = IF 3 * g <= L THEN 3 ELSE L - (3 * (g - 1))
    BY <1>2
  <2>1. Len(G[g]) \in 1..3
    BY ONLY <1>2, <2>0, g \in 1..N
  <2>2. ASSUME NEW j \in 1..Len(G[g]) PROVE G[g][j] \in Octet
    <3>1. 3 * (g - 1) + j \in 1..L
      BY <1>2, <2>1
    <3> QED
      BY <1>1, <1>2, <3>1
  <2>3. G[g] = [j \in 1..Len(G[g]) |-> G[g][j]]
    BY <1>2 DEF Numbers
  <2> QED
    BY <2>1, <2>2, <2>3 DEF Payloads
<1>4. e = [i \in 1..4 * N |-> EncodeGroup(G[GroupOf(i, 4)])[PlaceOf(i, 4)]]
  BY DEF base64_encode
<1>5. ASSUME NEW g \in 1..N, NEW j \in 1..4
      PROVE  e[4 * (g - 1) + j] = EncodeGroup(G[g])[j]
  <2>1. PICK i : i = 4 * (g - 1) + j
    OBVIOUS
  <2>2. i \in 1..4 * N
    BY <1>2, <2>1
  <2>3. GroupOf(i, 4) = g /\ PlaceOf(i, 4) = j
    <3>1. g \in Nat \ {0}
      BY <1>2
    <3> QED
      BY <2>1, <3>1, PlaceIs
  <2> QED
    BY <1>4, <2>1, <2>2, <2>3
<1>6. ASSUME NEW i \in 1..4 * N
      PROVE  e[i] \in Nat /\ ((e[i] \in Base64Chars) <=> (i <= L + N))
  <2>1. PICK g, j : g = GroupOf(i, 4) /\ j = PlaceOf(i, 4)
    OBVIOUS
  <2>2. i \in Nat \ {0}
    BY <1>2
  <2>3. j \in 1..4 /\ g \in Nat \ {0} /\ i = 4 * (g - 1) + j
    BY <2>1, <2>2, Places
  <2>4. g \in 1..N
    BY <1>2, <2>3
  <2>5. PICK k : k = Len(G[g])
    OBVIOUS
  <2>6. (i <= L + N) <=> (j <= k + 1)
    <3>1. k = IF 3 * g <= L THEN 3 ELSE L - (3 * (g - 1))
      BY <1>2, <2>4, <2>5
    <3>2. /\ L \in Nat /\ N \in Nat /\ 3 * N <= L + 2
          /\ g \in Nat \ {0} /\ g <= N /\ j \in 1..4 /\ i = 4 * (g - 1) + j
      BY <1>2, <2>3, <2>4
    <3>3. CASE 3 * g <= L
      <4>1. k = 3
        BY ONLY <3>1, <3>3
      <4>2. i <= L + N /\ j <= 4
        BY ONLY <3>2, <3>3
      <4> QED
        BY <4>1, <4>2
    <3>4. CASE ~(3 * g <= L)
      <4>1. k = L - (3 * (g - 1))
        BY ONLY <3>1, <3>4
      <4>2. g = N
        BY ONLY <3>2, <3>4
      <4> QED
        BY ONLY <3>2, <4>1, <4>2
    <3> QED
      BY <3>3, <3>4
  <2>7. PICK t : t = EncodeGroup(G[g])
    OBVIOUS
  <2>8. G[g] \in Payloads /\ k \in 1..3
    BY <1>3, <2>4, <2>5
  <2>9. t[j] \in Nat /\ (j <= k + 1 => t[j] \in Base64Chars) /\ (~(j <= k + 1) => t[j] \notin Base64Chars)
    BY <2>3, <2>5, <2>7, <2>8, GroupText
  <2>10. e[i] = t[j]
    BY <1>5, <2>3, <2>4, <2>7
  <2> QED
    BY <2>6, <2>9, <2>10
<1>7. e \in Numbers /\ Len(e) = 4 * N
  <2>1. 4 * N \in Nat /\ \A i \in 1..4 * N : e[i] \in Nat
    BY <1>2, <1>6
  <2>2. DOMAIN e = 1..4 * N /\ e = [i \in 1..4 * N |-> e[i]]
    BY <1>4
  <2> QED
    BY <2>1, <2>2 DEF Numbers
<1> QED
  BY <1>3, <1>5, <1>6, <1>7 DEF TextOf

\* base64_decode reads what base64_encode wrote, for any octets (base64.cpp).
THEOREM RoundTrip ==
    ASSUME NEW s \in Payloads
    PROVE  base64_decode(base64_encode(s)) = s
<1>1. PICK L, G, N, e : L = Len(s) /\ G = Groups(s, 3) /\ N = Len(G) /\ e = base64_encode(s)
  OBVIOUS
<1>2. /\ e \in Numbers /\ Len(e) = 4 * N
      /\ \A g \in 1..N : G[g] \in Payloads /\ Len(G[g]) \in 1..3
      /\ \A g \in 1..N, j \in 1..4 : e[4 * (g - 1) + j] = EncodeGroup(G[g])[j]
      /\ \A i \in 1..4 * N : (e[i] \in Base64Chars) <=> (i <= L + N)
  <2>1. TextOf(e, L, G, N)
    <3>1. s \in Payloads /\ L = Len(s) /\ G = Groups(s, 3) /\ N = Len(G) /\ e = base64_encode(s)
      BY <1>1
    <3> QED
      BY ONLY <3>1, TextIs
  <2> QED
    BY <2>1 DEF TextOf
<1>3. /\ L \in Nat /\ N \in Nat /\ 3 * N <= L + 2 /\ L <= 3 * N
      /\ \A g \in 1..N : /\ Len(G[g]) = IF 3 * g <= L THEN 3 ELSE L - (3 * (g - 1))
                         /\ \A j \in 1..Len(G[g]) : G[g][j] = s[3 * (g - 1) + j]
  <2>1. s \in Numbers /\ L = Len(s) /\ G = Groups(s, 3) /\ N = Len(G)
    BY <1>1, BytesAre
  <2>2. InThrees(s, L, G, N)
    BY ONLY <2>1, ThreeGroups
  <2> QED
    BY <2>2 DEF InThrees
<1>4. PICK R : R = L + N
  OBVIOUS
<1>5. R \in 0..4 * N
  BY <1>3, <1>4
<1>6. Readable(e) = R
  <2>1. /\ \A i \in 1..R : e[i] \in Base64Chars
        /\ R = Len(e) \/ e[R + 1] \notin Base64Chars
    BY <1>2, <1>3, <1>4, <1>5
  <2>2. ASSUME NEW n \in 0..4 * N, \A i \in 1..n : e[i] \in Base64Chars,
               n = 4 * N \/ e[n + 1] \notin Base64Chars
        PROVE  n = R
    <3>1. n <= R
      <4>1. CASE n = 0
        BY <1>5, <4>1
      <4>2. CASE n > 0
        <5>1. n \in 1..n /\ n \in 1..4 * N
          BY <1>3, <4>2
        <5> QED
          BY <1>2, <1>4, <2>2, <5>1
      <4> QED
        BY <4>1, <4>2
    <3>2. ASSUME n < R PROVE FALSE
      <4>1. n # 4 * N /\ n + 1 \in 1..4 * N /\ n + 1 <= L + N
        BY <1>3, <1>4, <1>5, <3>2
      <4> QED
        BY <1>2, <2>2, <4>1
    <3> QED
      BY <1>3, <1>5, <3>1, <3>2
  <2> QED
    BY <1>2, <1>5, <2>1, <2>2 DEF Readable
<1>7. PICK t, one : one = 1 /\ t = SubSeq(e, one, R)
  OBVIOUS
<1>8. t \in Numbers /\ Len(t) = R /\ \A i \in 1..R : t[i] = e[i]
  <2>1. one \in Int /\ R \in Int /\ \A i \in one..R : e[i] \in Nat
    <3>1. \A i \in 1..4 * N : e[i] \in Nat
      BY <1>2, ElementOfSeq DEF Numbers
    <3> QED
      BY <1>3, <1>5, <1>7, <3>1
  <2>2. /\ SubSeq(e, one, R) \in Seq(Nat)
        /\ Len(SubSeq(e, one, R)) = IF one <= R THEN R - one + 1 ELSE 0
        /\ \A i \in 1..R - one + 1 : SubSeq(e, one, R)[i] = e[one + i - 1]
    BY ONLY <2>1, SubSeqProperties
  <2>3. Len(t) = R
    BY <1>3, <1>5, <1>7, <2>2
  <2>4. ASSUME NEW i \in 1..R PROVE t[i] = e[i]
    <3>1. i \in 1..R - one + 1 /\ one + i - 1 = i
      BY <1>3, <1>5, <1>7
    <3> QED
      BY <1>7, <2>2, <3>1
  <2> QED
    BY <1>7, <2>2, <2>3, <2>4 DEF Numbers
<1>9. PICK D, M : D = Groups(t, 4) /\ M = Len(D)
  OBVIOUS
<1>10. /\ M \in Nat /\ 4 * M <= R + 3 /\ R <= 4 * M
       /\ \A g \in 1..M : /\ D[g] \in Numbers
                          /\ Len(D[g]) = IF 4 * g <= R THEN 4 ELSE R - (4 * (g - 1))
                          /\ \A j \in 1..Len(D[g]) : D[g][j] = t[4 * (g - 1) + j]
  <2>1. t \in Numbers /\ R = Len(t) /\ D = Groups(t, 4) /\ M = Len(D)
    BY <1>8, <1>9
  <2>2. InFours(t, R, D, M)
    BY ONLY <2>1, FourGroups
  <2> QED
    BY <2>2 DEF InFours
<1>11. M = N
  BY <1>3, <1>4, <1>5, <1>10
<1>12. ASSUME NEW g \in 1..N PROVE DecodeGroup(D[g]) = G[g]
  <2>1. PICK k, c, l : k = Len(G[g]) /\ c = EncodeGroup(G[g]) /\ l = k + 1
    OBVIOUS
  <2>0. G[g] \in Payloads /\ k \in 1..3
    BY <1>2, <2>1
  <2>2. G[g] \in Payloads /\ k \in 1..3 /\ l \in 2..4
    <3>1. l = k + 1
      BY <2>1
    <3>2. l \in 2..4
      BY ONLY <2>0, <3>1
    <3> QED
      BY <2>0, <3>2
  <2>11. k = IF 3 * g <= L THEN 3 ELSE L - (3 * (g - 1))
    BY <1>3, <2>1
  <2>12. Len(D[g]) = IF 4 * g <= R THEN 4 ELSE R - (4 * (g - 1))
    BY <1>10, <1>11
  <2>13. L \in Nat /\ N \in Nat /\ 3 * N <= L + 2 /\ L <= 3 * N /\ g \in 1..N
    BY <1>3
  <2>3. Len(D[g]) = l
    BY ONLY <1>4, <2>1, <2>2, <2>11, <2>12, <2>13
  <2>4. ASSUME NEW j \in 1..l PROVE D[g][j] = c[j]
    <3>1. j \in 1..4 /\ 4 * (g - 1) + j \in 1..R
      BY ONLY <1>4, <2>1, <2>2, <2>11, <2>13, j \in 1..l
    <3>2. D[g][j] = t[4 * (g - 1) + j]
      BY <1>10, <1>11, <2>3
    <3> QED
      BY <1>2, <1>8, <2>1, <3>1, <3>2
  <2>5. /\ SubSeq(c, one, l) \in Seq(Nat) /\ Len(SubSeq(c, one, l)) = l
        /\ \A j \in 1..l : SubSeq(c, one, l)[j] = c[j]
    <3>1. \A j \in 1..4 : c[j] \in Nat
      BY <2>1, <2>2, GroupText
    <3>2. one \in Int /\ l \in Int /\ \A j \in one..l : c[j] \in Nat
      BY <1>7, <2>2, <3>1
    <3>3. /\ SubSeq(c, one, l) \in Seq(Nat)
          /\ Len(SubSeq(c, one, l)) = IF one <= l THEN l - one + 1 ELSE 0
          /\ \A i \in 1..l - one + 1 : SubSeq(c, one, l)[i] = c[one + i - 1]
      BY ONLY <3>2, SubSeqProperties
    <3>4. ASSUME NEW j \in 1..l PROVE SubSeq(c, one, l)[j] = c[j]
      <4>1. j \in 1..l - one + 1 /\ one + j - 1 = j
        BY <1>7, <2>2
      <4> QED
        BY <3>3, <4>1
    <3>5. Len(SubSeq(c, one, l)) = l
      BY <1>7, <2>2, <3>3
    <3> QED
      BY <3>3, <3>4, <3>5
  <2>6. D[g] \in Seq(Nat)
    BY <1>10, <1>11 DEF Numbers
  <2>7. PICK x : x = SubSeq(c, one, l)
    OBVIOUS
  <2>8. x \in Seq(Nat) /\ Len(x) = Len(D[g]) /\ \A j \in 1..Len(x) : x[j] = D[g][j]
    BY <2>3, <2>4, <2>5, <2>7
  <2>9. x = D[g]
    BY ONLY <2>6, <2>8, SeqEqual
  <2>10. DecodeGroup(SubSeq(c, 1, Len(G[g]) + 1)) = G[g]
    BY <2>1, <2>2, GroupDecodes
  <2> QED
    BY <1>7, <2>1, <2>7, <2>9, <2>10
<1>13. PICK d : d = base64_decode(e)
  OBVIOUS
<1>14. d = [i \in 1..L |-> DecodeGroup(D[GroupOf(i, 3)])[PlaceOf(i, 3)]]
  <2>1. R - M = L
    BY <1>3, <1>4, <1>11
  <2> QED
    BY <1>6, <1>7, <1>9, <1>13, <2>1 DEF base64_decode
<1>15. ASSUME NEW i \in 1..L PROVE d[i] = s[i]
  <2>1. PICK g, j : g = GroupOf(i, 3) /\ j = PlaceOf(i, 3)
    OBVIOUS
  <2>2. i \in Nat \ {0}
    BY <1>3
  <2>3. j \in 1..3 /\ g \in Nat \ {0} /\ i = 3 * (g - 1) + j
    BY <2>1, <2>2, Places
  <2>4. g \in 1..N /\ j \in 1..Len(G[g])
    <3>1. g \in 1..N
      BY <1>3, <2>3
    <3> QED
      BY <1>3, <2>3, <3>1
  <2>5. d[i] = G[g][j]
    BY <1>12, <1>14, <2>1, <2>4
  <2>6. G[g][j] = s[3 * (g - 1) + j]
    BY <1>3, <2>4
  <2> QED
    BY <2>3, <2>5, <2>6
<1>16. s = [i \in 1..L |-> s[i]]
  BY <1>1 DEF Payloads
<1>17. d = [i \in 1..L |-> d[i]]
  BY <1>14
<1>18. d = s
  BY <1>15, <1>16, <1>17
<1> QED
  BY <1>1, <1>13, <1>18
=============================================================================
