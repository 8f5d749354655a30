---------------------------- MODULE WireContract ----------------------------
(***************************************************************************)
(* What a browser may rely on when it looks at the frames of one WebSocket:*)
(* either side may begin the close handshake, but not both.  After the     *)
(* server's own close frame nothing more is said; after the server's answer*)
(* to the browser's there are at most drawing orders that were under way;  *)
(* and the connection is hung up once, after everything else.              *)
(***************************************************************************)
EXTENDS Sequences

VARIABLES
    phase,      \* how far the close handshake is
    sent        \* what came over the connection

contractVars == <<phase, sent>>

Init == phase = "open" /\ sent = <<>>

\* One more frame, which takes the handshake from one phase to another.
Frame(f, from, to) == phase = from /\ phase' = to /\ sent' = Append(sent, f)

Say      == \E f \in {"data", "pong"} : Frame(f, "open", "open")
Close    == Frame("close", "open", "closing")
Answer   == Frame("ack", "open", "answered")
Straggle == Frame("data", "answered", "answered")
HangUp   == \E from \in {"open", "closing", "answered"} : Frame("hangup", from, "over")

Next == Say \/ Close \/ Answer \/ Straggle \/ HangUp

Spec == Init /\ [][Next]_contractVars
=============================================================================
