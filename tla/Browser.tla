------------------------------ MODULE Browser ------------------------------
(***************************************************************************)
(* The page of a visitor (webroot/index-debug.html) and the client objects *)
(* it makes, one for each session (webroot/js/wsgate-debug.js).  The       *)
(* objects share the page: its dialog, the button in it, the canvas.  Each *)
(* has a WebSocket, which the browser opens and closes in its own time.    *)
(*                                                                         *)
(* The buttons of the dialog can be clicked while the dialog is shown, the *)
(* Disconnect above the canvas while it is not.                            *)
(***************************************************************************)
EXTENDS Naturals, FiniteSets

CONSTANT MaxStarts      \* bound: calls of RDPStart

ASSUME StartsAssumption == MaxStarts \in Nat

VARIABLES
    rdp,        \* the global variable rdp: the last client object, 0 before
    dialog,     \* the dialog is shown
    button,     \* the object button "rdpconnect" disconnects, 0 if it connects
    sock,       \* readyState of an object's WebSocket
    textArea,   \* the object's textarea is on the page
    canvas,     \* the objects whose drawings are on the canvas
    session,    \* the gateway has a session for the object's socket
    ended,      \* the visitor, or the gateway's message, ended the object's session
    early,      \* _reset ran for the object while its socket was connecting
    disturbed   \* _reset of another object ran after this one was made

vars == <<rdp, dialog, button, sock, textArea, canvas, session, ended, early, disturbed>>

Objects == 1..MaxStarts
Made == {i \in Objects : i <= rdp}
Connects == 0

Init ==
    /\ rdp = 0 /\ dialog = TRUE /\ button = Connects
    /\ sock = [i \in Objects |-> "none"]
    /\ textArea = {} /\ canvas = {} /\ session = {}
    /\ ended = {} /\ early = {} /\ disturbed = {}

-----------------------------------------------------------------------------
\* RDPStart: a new object takes the variable rdp; the dialog goes, Run makes the socket.
RDPStart ==
    /\ dialog /\ button = Connects /\ rdp < MaxStarts
    /\ rdp' = rdp + 1 /\ dialog' = FALSE
    /\ sock' = [sock EXCEPT ![rdp + 1] = "connecting"]
    /\ UNCHANGED <<button, textArea, canvas, session, ended, early, disturbed>>

_reset_KeepsText(i) ==
    /\ dialog' = TRUE /\ button' = Connects
    /\ canvas' = {} /\ UNCHANGED textArea
    /\ early' = IF sock[i] = "connecting" THEN early \cup {i} ELSE early
    /\ disturbed' = disturbed \cup {j \in Made : j > i}

\* The part of _reset on the page: "disconnected" shows the dialog, makes the button one
\* that connects and blanks the canvas, whichever object it was fired for.
_reset(i) ==
    /\ dialog' = TRUE /\ button' = Connects
    /\ textArea' = textArea \ {i} /\ canvas' = {}
    /\ early' = IF sock[i] = "connecting" THEN early \cup {i} ELSE early
    /\ disturbed' = disturbed \cup {j \in Made : j > i}

Close_ByTheServer(i) == UNCHANGED sock

\* The part of _reset on the socket: only an open one is closed.
Close(i) == sock' = [sock EXCEPT ![i] = IF @ = "open" THEN "closing" ELSE @]

\* The visitor ends a session: above the canvas that of rdp, in the dialog the one the
\* button was bound to.
Disconnect ==
    \E i \in Made :
        /\ IF dialog THEN i = button ELSE i = rdp
        /\ _reset(i) /\ Close(i)
        /\ ended' = ended \cup {i}
        /\ UNCHANGED <<rdp, session>>

\* A text that ends the session, "T:" or "E:".
onWSmsg(i) ==
    /\ sock[i] = "open"
    /\ _reset(i) /\ Close(i)
    /\ ended' = ended \cup {i}
    /\ UNCHANGED <<rdp, session>>

\* A drawing order.
Draw(i) ==
    /\ sock[i] = "open" /\ i \in session /\ canvas' = canvas \cup {i}
    /\ UNCHANGED <<rdp, dialog, button, sock, textArea, session, ended, early, disturbed>>

\* onWSopen: the textarea, "connected", the credentials.  The listener of "connected"
\* binds Disconnect of the object the variable rdp has now.
onWSopen(i) ==
    /\ sock[i] = "connecting" /\ sock' = [sock EXCEPT ![i] = "open"]
    /\ textArea' = textArea \cup {i}
    /\ button' = rdp
    /\ session' = session \cup {i}
    /\ UNCHANGED <<rdp, dialog, canvas, ended, early, disturbed>>

\* onWSclose, after onWSerr if the socket failed: _reset runs, whoever closed it.
onWSclose(i) ==
    /\ sock[i] \in {"connecting", "open", "closing"}
    /\ sock' = [sock EXCEPT ![i] = "closed"]
    /\ _reset(i)
    /\ session' = session \ {i}
    /\ UNCHANGED <<rdp, ended>>

\* The visitor may leave everything as it is.
Rest == UNCHANGED vars

Next ==
    \/ RDPStart \/ Disconnect
    \/ \E i \in Objects : onWSmsg(i) \/ Draw(i) \/ onWSopen(i) \/ onWSclose(i)
    \/ Rest

\* The browser finishes the closing of a socket.
Fairness == \A i \in Objects : WF_vars(sock[i] = "closing" /\ onWSclose(i))

Spec == Init /\ [][Next]_vars /\ Fairness

-----------------------------------------------------------------------------
(***************************************************************************)
(* Properties.                                                             *)
(***************************************************************************)

TypeOK ==
    /\ rdp \in 0..MaxStarts /\ button \in 0..rdp /\ dialog \in BOOLEAN
    /\ sock \in [Objects -> {"none", "connecting", "open", "closing", "closed"}]
    /\ \A i \in Objects : sock[i] = "none" <=> i \notin Made
    /\ textArea \subseteq Objects /\ canvas \subseteq Objects /\ session \subseteq Objects
    /\ ended \subseteq Objects /\ early \subseteq Objects /\ disturbed \subseteq Objects

\* An object that is not the last one is open, out of reach of every button, only
\* if it was disconnected while it was connecting or _reset of an earlier object
\* showed the dialog over it (index-debug.html: rdp, wsgate-debug.js: _reset).
OrphansExplained ==
    \A i \in Made : sock[i] = "open" /\ i # rdp => i \in early \cup disturbed

\* The page belongs to open sessions: their textareas are on it and no others, and
\* what is on the canvas was drawn for them.
PageShowsOpen ==
    LET open == {i \in Objects : sock[i] = "open"}
    IN  textArea = open /\ canvas \subseteq open

\* A session that was ended while its socket was open ends at the gateway too.
EndedEnds == \A i \in Objects : i \in ended /\ i \notin early ~> i \notin session \/ i \in early
=============================================================================
