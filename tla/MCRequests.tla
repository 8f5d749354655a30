----------------------------- MODULE MCRequests -----------------------------
(* What a visitor asks for: pointers, pages, a console or a WebSocket, and *)
(* the frames on it.  The parts share no state, so that each behaviour is   *)
(* about one of them.                                                       *)
EXTENDS Cursors, Pages, Login, Requests, FrameCodec, TLC

VARIABLE subject

vars == <<subject, cursorVars, pageVars, loginVars, requestVars, codecVars>>

\* The key of RFC 6455's example, without its padding, and with octets after it, which
\* the decoder does not look at but the digest does.
Unpadded == <<100, 71, 104, 108, 73, 72, 78, 104, 98, 88, 66, 115, 90, 83, 66, 117, 98, 50, 53, 106, 90, 81>>
Sample == Unpadded \o <<61, 61>>
Trailing(n) == Sample \o [i \in 1..n |-> 120]

\* s3pPLMBiTxaQ9kYGzzhZRbK+xOo= of RFC 6455 for the example, and SHA-1's of FIPS 180.
MCAccepted ==
    Unpadded :> <<82, 90, 87, 117, 104, 50, 74, 75, 47, 104, 76, 48, 82, 77, 103, 84, 78, 74, 70, 102, 90, 73, 65, 112, 112, 88, 103, 61>>
    @@ Sample :> <<115, 51, 112, 80, 76, 77, 66, 105, 84, 120, 97, 81, 57, 107, 89, 71, 122, 122, 104, 90, 82, 98, 75, 43, 120, 79, 111, 61>>
    @@ Trailing(3) :> <<74, 117, 105, 69, 104, 114, 88, 98, 73, 121, 119, 107, 86, 109, 78, 102, 111, 54, 82, 121, 75, 75, 68, 87, 87, 120, 69, 61>>
    @@ Trailing(4) :> <<104, 84, 107, 71, 55, 73, 52, 117, 100, 73, 106, 48, 104, 70, 98, 88, 48, 115, 120, 79, 66, 111, 65, 65, 83, 84, 52, 61>>
    @@ Trailing(59) :> <<67, 106, 75, 81, 55, 70, 107, 50, 70, 52, 117, 122, 56, 82, 118, 98, 79, 72, 65, 104, 71, 71, 120, 103, 100, 109, 107, 61>>
    @@ Trailing(60) :> <<97, 100, 99, 89, 76, 54, 66, 90, 115, 120, 106, 57, 82, 100, 77, 54, 118, 106, 50, 86, 80, 82, 101, 103, 78, 119, 69, 61>>

MCLower == "gate" :> "gate" @@ "Gate" :> "gate" @@ "other" :> "other"

Proper(key) ==
    [get |-> TRUE, secure |-> FALSE, path |-> "wsgate", http11 |-> TRUE, connection |-> TRUE,
     upgrade |-> TRUE, host |-> "gate", key |-> key, version13 |-> TRUE]

MCHttpRequests ==
    {Proper(key) : key \in DOMAIN MCAccepted}
    \union {[Proper(Sample) EXCEPT !.path = p, !.host = h, !.secure = s] :
                p \in {"robots", "cur", "connect", "page", "wsgate"}, h \in DOMAIN MCLower, s \in BOOLEAN}
    \union {[Proper(Sample) EXCEPT !.get = FALSE], [Proper(Sample) EXCEPT !.http11 = FALSE],
            [Proper(Sample) EXCEPT !.connection = FALSE], [Proper(Sample) EXCEPT !.upgrade = FALSE],
            [Proper(Sample) EXCEPT !.version13 = FALSE],
            Proper(<<>>), Proper(SubSeq(Sample, 1, 21)), Proper(Unpadded \o <<65>>)}

\* Frames of a client: each opcode, payloads of none, one, a few and the most octets of
\* the shortest form, one of the next form, and close codes on both sides of each limit.
Filler(n) == [i \in 1..n |-> (7 * i) % 256]
Payloads(op) == {<<>>, Filler(1), Filler(5), Filler(125)} \union (IF op < 8 THEN {Filler(126)} ELSE {})
CloseCodes == {999, 1000, 1002, 1004, 1005, 1006, 1011, 1012, 1015, 1016, 2999, 3000, 4999, 5000}

MCClientFrames ==
    UNION {[opcode : {op}, payload : Payloads(op), key : {<<0, 0, 0, 0>>, <<1, 2, 3, 255>>}] : op \in {1, 2, 9, 10}}
    \union [opcode : {8}, key : {<<1, 2, 3, 255>>},
            payload : {<<>>, Filler(1)} \union {<<c \div 256, c % 256>> \o Filler(n) : c \in CloseCodes, n \in {0, 2, 123}}]

Init ==
    /\ subject \in {"pointers", "pages", "login", "requests", "frames"}
    /\ CursorInit /\ PageInit /\ LoginInit /\ RequestInit /\ CodecInit
    /\ subject # "pages" => html
    /\ subject # "login" => osRegion = NoRegion /\ keystoneVersion = "v2"
    /\ subject # "requests" => conf = [sslPort |-> 0, redirect |-> FALSE, hostname |-> ""]

Finished ==
    /\ \/ subject = "login" /\ login.pc = "done"
       \/ subject = "pointers" /\ ~registered /\ life = MaxSessions
       \/ subject = "frames" /\ closed
    /\ UNCHANGED vars

Next ==
    \/ subject = "pointers" /\ CursorNext /\ UNCHANGED <<subject, pageVars, loginVars, requestVars, codecVars>>
    \/ subject = "pages" /\ PageNext /\ UNCHANGED <<subject, cursorVars, loginVars, requestVars, codecVars>>
    \/ subject = "login" /\ LoginNext /\ UNCHANGED <<subject, cursorVars, pageVars, requestVars, codecVars>>
    \/ subject = "requests" /\ RequestNext /\ UNCHANGED <<subject, cursorVars, pageVars, loginVars, codecVars>>
    \/ subject = "frames" /\ CodecNext /\ UNCHANGED <<subject, cursorVars, pageVars, loginVars, requestVars>>
    \/ Finished

Spec == Init /\ [][Next]_vars

Symmetry == Permutations(Slots) \union Permutations(RequestThreads)
=============================================================================
