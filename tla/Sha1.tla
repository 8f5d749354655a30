-------------------------------- MODULE Sha1 --------------------------------
(***************************************************************************)
(* The class SHA1 (sha1.cpp), which the handshake's digest is made with.   *)
(* Octets are numbers.  A word of 32 bits is the set of the places of its  *)
(* ones, so that the operators of C on words are those of sets.            *)
(***************************************************************************)
EXTENDS Naturals, Sequences
LOCAL INSTANCE FiniteSetsExt
LOCAL INSTANCE SequencesExt

Bits == 0..31
Xor(a, b) == (a \ b) \union (b \ a)
Not(a) == Bits \ a

\* Addition modulo 2^32: the sum without carries and the carries, until there are none.
Add(a, b) ==
    LET sum[x \in SUBSET Bits, y \in SUBSET Bits] ==
            IF y = {} THEN x ELSE sum[Xor(x, y), {i + 1 : i \in (x \intersect y) \ {31}}]
    IN  sum[a, b]

CircularShift(bits, word) == {(i + bits) % 32 : i \in word}

\* The bits of an octet, and a word of four of them.
OctetBits(n) == {i \in 0..7 : (n \div 2^i) % 2 = 1}
Word(a, b, c, d) == {i + 24 : i \in OctetBits(a)} \union {i + 16 : i \in OctetBits(b)}
                    \union {i + 8 : i \in OctetBits(c)} \union OctetBits(d)

OctetOf(word, i) == SumSet({2^(b - i) : b \in word \intersect (i..i + 7)})

\* htonl: the octets of a word from the left.
WordOctets(word) == [k \in 1..4 |-> OctetOf(word, 32 - 8 * k)]

H0 == << Word(103, 69, 35, 1), Word(239, 205, 171, 137), Word(152, 186, 220, 254),
         Word(16, 50, 84, 118), Word(195, 210, 225, 240) >>

K == << Word(90, 130, 121, 153), Word(110, 217, 235, 161), Word(143, 27, 188, 220), Word(202, 98, 193, 214) >>

\* The words of a block and those made of them, 80 in all.
Schedule(block) ==
    LET words[W \in Seq(SUBSET Bits)] ==
            LET t == Len(W) + 1 IN
            IF t > 80 THEN W
            ELSE words[Append(W, CircularShift(1, Xor(Xor(W[t - 3], W[t - 8]), Xor(W[t - 14], W[t - 16]))))]
    IN  words[block]

\* The function of a round t in 0..79.
F(t, B, C, D) == CASE t < 20 -> (B \intersect C) \union (Not(B) \intersect D)
                   [] t \in 40..59 -> (B \intersect C) \union (B \intersect D) \union (C \intersect D)
                   [] OTHER -> Xor(Xor(B, C), D)

\* One round, of the words A to E.
Round(W, t, r) ==
    << Add(Add(Add(CircularShift(5, r[1]), F(t, r[2], r[3], r[4])), Add(r[5], W[t + 1])), K[1 + (t \div 20)]),
       r[1], CircularShift(30, r[2]), r[3], r[4] >>

Rounds(W, H) ==
    LET from[t \in 0..80, r \in Seq(SUBSET Bits)] == IF t = 80 THEN r ELSE from[t + 1, Round(W, t, r)]
    IN  from[0, H]

ProcessMessageBlock(H, block) ==
    LET W == [t \in 1..16 |-> Word(block[4 * t - 3], block[4 * t - 2], block[4 * t - 1], block[4 * t])]
        r == Rounds(Schedule(W), H) IN
    [i \in 1..5 |-> Add(H[i], r[i])]

\* An object: the words, the octets of the block not yet full, the length in bits.
NewSHA1 == [H |-> H0, block |-> <<>>, length |-> 0]

\* Input of one octet.
Input(sha, octet) ==
    LET block == Append(sha.block, octet) IN
    IF Len(block) = 64
    THEN [H |-> ProcessMessageBlock(sha.H, block), block |-> <<>>, length |-> sha.length + 8]
    ELSE [sha EXCEPT !.block = block, !.length = @ + 8]

Zeroes(n) == [i \in 1..n |-> 0]

LengthOctets(n) == Zeroes(4) \o << n \div 16777216, (n \div 65536) % 256, (n \div 256) % 256, n % 256 >>

\* Does a block with this many octets lack room for the first bit of the padding and the length?
NoRoom_One(index) == index > 54

NoRoom(index) == index > 55

\* PadMessage: the words after the last block, or the last two.
PadMessage(sha) ==
    LET begun == Append(sha.block, 128)
        last == LengthOctets(sha.length) IN
    IF NoRoom(Len(sha.block))
    THEN ProcessMessageBlock(ProcessMessageBlock(sha.H, begun \o Zeroes(64 - Len(begun))), Zeroes(56) \o last)
    ELSE ProcessMessageBlock(sha.H, begun \o Zeroes(56 - Len(begun)) \o last)

\* Result, as the octets of the digest.
DigestOctets(H) == FlattenSeq([i \in 1..5 |-> WordOctets(H[i])])

Result(sha) == DigestOctets(PadMessage(sha))
=============================================================================
