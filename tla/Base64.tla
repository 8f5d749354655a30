------------------------------- MODULE Base64 -------------------------------
(***************************************************************************)
(* base64_encode and base64_decode (base64.cpp).  Octets and characters    *)
(* are numbers, texts are sequences of them.                               *)
(***************************************************************************)
EXTENDS Naturals, Sequences

Pad == 61                                   \* '='

\* base64_chars: the character of a number of six bits.
Base64Char(n) == CASE n < 26 -> 65 + n
                   [] n \in 26..51 -> 71 + n
                   [] n \in 52..61 -> n - 4
                   [] n = 62 -> 43
                   [] n = 63 -> 47

Base64Chars == {Base64Char(n) : n \in 0..63}

\* base64_chars.find, in an unsigned char: 255 if there is no such character.
FindChar(c) == IF c \in Base64Chars THEN CHOOSE n \in 0..63 : Base64Char(n) = c ELSE 255

\* The groups of at most n elements that a loop over s collects.
Groups(s, n) == [g \in 1..((Len(s) + n - 1) \div n) |->
                    SubSeq(s, n * (g - 1) + 1, IF n * g < Len(s) THEN n * g ELSE Len(s))]

\* The group an element belongs to, and its place there.
GroupOf(i, n) == 1 + ((i - 1) \div n)

PlaceOf(i, n) == 1 + ((i - 1) % n)

Filled(s, n, with) == s \o [i \in 1..n - Len(s) |-> with]

\* Three octets as four numbers of six bits, and back.
Sextets(b) == <<b[1] \div 4, (b[1] % 4) * 16 + b[2] \div 16, (b[2] % 16) * 4 + b[3] \div 64, b[3] % 64>>

Octets(s) == << (s[1] * 4 + (s[2] % 64) \div 16) % 256,
                ((s[2] % 16) * 16 + (s[3] % 64) \div 4) % 256,
                ((s[3] % 4) * 64 + s[4]) % 256 >>

EncodeGroup(g) ==
    LET s == Sextets(Filled(g, 3, 0)) IN
    [i \in 1..4 |-> IF i <= Len(g) + 1 THEN Base64Char(s[i]) ELSE Pad]

\* ret of base64_encode: four characters of each group.
base64_encode(octets) ==
    LET n == Len(Groups(octets, 3)) IN
    [i \in 1..4 * n |-> EncodeGroup(Groups(octets, 3)[GroupOf(i, 4)])[PlaceOf(i, 4)]]

DecodeGroup(g) == SubSeq(Octets(Filled([i \in DOMAIN g |-> FindChar(g[i])], 4, 255)), 1, Len(g) - 1)

\* How many characters decoding reads: it ends at the first that is not of the alphabet.
Readable(text) == CHOOSE n \in 0..Len(text) :
                      /\ \A i \in 1..n : text[i] \in Base64Chars
                      /\ n = Len(text) \/ text[n + 1] \notin Base64Chars

\* ret of base64_decode: of each group one octet less than it has characters.
base64_decode(text) ==
    LET read == Groups(SubSeq(text, 1, Readable(text)), 4) IN
    [i \in 1..Readable(text) - Len(read) |-> DecodeGroup(read[GroupOf(i, 3)])[PlaceOf(i, 3)]]
=============================================================================
