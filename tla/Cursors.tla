------------------------------ MODULE Cursors -------------------------------
(***************************************************************************)
(* Mouse pointers: the callbacks of libfreerdp that keep RDP::m_cursorMap  *)
(* (RDP.cpp, on the worker), WsGate::HandleCursorRequest with notModified  *)
(* (wsgateEHS.cpp, in a request thread) and the browser, which fetches an  *)
(* image under a name made of the session's address and the pointer's      *)
(* number and keeps what it got (webroot/js/wsgate-debug.js).              *)
(*                                                                         *)
(* Sessions follow each other on one address, the case in which names      *)
(* coincide; Gateway has the life of an address.  libfreerdp (external)    *)
(* keeps pointers in slots: a new pointer is announced, the one in its     *)
(* slot is freed, then the new one is set.  The browser (external) asks at *)
(* every change of the pointer, with the date of what it keeps.            *)
(***************************************************************************)
EXTENDS Naturals, Sequences

CONSTANTS
    Slots,          \* libfreerdp's pointer cache
    MaxPointers,    \* bound: pointers of a session
    MaxSessions,    \* bound: sessions on the address
    MaxTime,        \* bound: seconds
    MaxWire         \* bound: messages on their way before the worker goes on

ASSUME CursorAssumption ==
    MaxPointers \in Nat /\ MaxSessions \in Nat /\ MaxTime \in Nat /\ MaxWire \in Nat

VARIABLES
    now,            \* time(NULL), in seconds
    life,           \* the number of the session on the address
    registered,     \* the session is in m_SessionMap
    m_ptrId,        \* RDP::m_ptrId
    m_cursorMap,    \* RDP::m_cursorMap: what is stored for each number, or NoImage
    slot,           \* libfreerdp: the number in each slot, 0 if none
    wire,           \* messages on their way to the browser
    cursors,        \* client: the numbers it has a name for
    pointer,        \* client: the number set last, 0 if none
    shown,          \* client: the image shown for it, NoImage if none
    kept,           \* browser: the image it keeps under each name, or NoImage
    request         \* browser: the request on its way for each name

cursorServer == <<life, registered, m_ptrId, m_cursorMap, slot>>
cursorClient == <<cursors, pointer, shown, kept, request>>
cursorVars == <<now, cursorServer, wire, cursorClient>>

Ids == 1..MaxPointers
\* An image: the session and the count it was made for, and when.
NoImage == [of |-> <<0, 0>>, time |-> 0]
NoRequest == [status |-> 0, image |-> NoImage]
Asked == [status |-> 1, image |-> NoImage]

CursorInit ==
    /\ now = 1 /\ life = 1 /\ registered = TRUE
    /\ m_ptrId = 1
    /\ m_cursorMap = [id \in Ids |-> NoImage]
    /\ slot = [s \in Slots |-> 0]
    /\ wire = <<>>
    /\ cursors = {} /\ pointer = 0 /\ shown = NoImage
    /\ kept = [id \in Ids |-> NoImage]
    /\ request = [id \in Ids |-> NoRequest]

Tick ==
    /\ now < MaxTime /\ now' = now + 1
    /\ UNCHANGED <<cursorServer, wire, cursorClient>>

-----------------------------------------------------------------------------
\* The worker.

Tell(messages) == wire' = wire \o messages

\* Pointer_New: the image is made and stored with the time; then it is announced.
Pointer_New(map, id) == [map EXCEPT ![id] = [of |-> <<life, m_ptrId>>, time |-> now]]

\* Pointer_Free: the image is erased at once, the browser hears of it later.
Pointer_Free(map, id) == IF id = 0 THEN map ELSE [map EXCEPT ![id] = NoImage]

\* What the browser hears of a new pointer that takes the place of old.
PointerMessages(id, old) ==
    IF old = 0 THEN << <<"PTR_NEW", id>>, <<"PTR_SET", id>> >>
    ELSE << <<"PTR_NEW", id>>, <<"PTR_FREE", old>>, <<"PTR_SET", id>> >>

NewPointer(s) ==
    /\ registered /\ m_ptrId \in Ids /\ Len(wire) < MaxWire
    /\ m_cursorMap' = Pointer_Free(Pointer_New(m_cursorMap, m_ptrId), slot[s])
    /\ m_ptrId' = m_ptrId + 1
    /\ slot' = [slot EXCEPT ![s] = m_ptrId]
    /\ Tell(PointerMessages(m_ptrId, slot[s]))
    /\ UNCHANGED <<now, life, registered, cursorClient>>

\* Pointer_Set of a pointer that is still in its slot.
Pointer_Set(s) ==
    /\ registered /\ slot[s] # 0 /\ Len(wire) < MaxWire
    /\ Tell(<< <<"PTR_SET", slot[s]>> >>)
    /\ UNCHANGED <<now, cursorServer, cursorClient>>

\* Pointer_SetNull and Pointer_SetDefault: no image to fetch.
Pointer_SetNull ==
    /\ registered /\ Len(wire) < MaxWire
    /\ Tell(<< <<"PTR_SETNULL", 0>> >>)
    /\ UNCHANGED <<now, cursorServer, cursorClient>>

\* The session ends, and so do the page's names and its requests.
SessionEnds ==
    /\ registered /\ registered' = FALSE
    /\ wire' = <<>>
    /\ cursors' = {} /\ pointer' = 0 /\ shown' = NoImage
    /\ request' = [id \in Ids |-> NoRequest]
    /\ UNCHANGED <<now, life, m_ptrId, m_cursorMap, slot, kept>>

\* A new session whose RDP object has the address of the last one.
SessionBegins ==
    /\ ~registered /\ life < MaxSessions
    /\ registered' = TRUE /\ life' = life + 1
    /\ m_ptrId' = 1
    /\ m_cursorMap' = [id \in Ids |-> NoImage]
    /\ slot' = [s \in Slots |-> 0]
    /\ UNCHANGED <<now, wire, cursorClient>>

-----------------------------------------------------------------------------
\* The request thread.

\* An image whose date is not later than the one the browser names is not sent.
NotModified_Later(time, since) == since # 0 /\ time >= since

NotModified(time, since) == since # 0 /\ time <= since

\* The answer for a number: the cursor is copied out of the map of a live session.
HandleCursorRequest(id, since) ==
    LET c == m_cursorMap[id] IN
    IF ~registered \/ c.time = 0 THEN [status |-> 404, image |-> NoImage]
    ELSE IF NotModified(c.time, since) THEN [status |-> 304, image |-> NoImage]
    ELSE [status |-> 200, image |-> c]

Answer(id) ==
    /\ request[id].status = 1
    /\ request' = [request EXCEPT ![id] = HandleCursorRequest(id, kept[id].time)]
    /\ UNCHANGED <<now, cursorServer, wire, cursors, pointer, shown, kept>>

-----------------------------------------------------------------------------
\* The page.

\* PTR_SET with a name the page has: the image is asked for, unless it is set already.
SetPointer(id) ==
    IF id = pointer \/ id \notin cursors THEN UNCHANGED <<pointer, shown, request>>
    ELSE /\ pointer' = id /\ shown' = NoImage
         /\ request' = [request EXCEPT ![id] = Asked]

ProcessPointerMessage ==
    /\ wire # <<>> /\ wire' = Tail(wire)
    /\ LET op == Head(wire)[1]
           id == Head(wire)[2] IN
        CASE op = "PTR_NEW" -> cursors' = cursors \union {id} /\ UNCHANGED <<pointer, shown, request>>
          [] op = "PTR_FREE" -> cursors' = cursors \ {id} /\ UNCHANGED <<pointer, shown, request>>
          [] op = "PTR_SET" -> SetPointer(id) /\ UNCHANGED cursors
          [] op = "PTR_SETNULL" -> pointer' = 0 /\ shown' = NoImage /\ UNCHANGED <<cursors, request>>
    /\ UNCHANGED <<now, cursorServer, kept>>

\* An answer: a new image is kept, 304 stands for the kept one; it is shown if it
\* is for the pointer set now.
ReceiveImage(id) ==
    /\ request[id].status > 1
    /\ LET image == CASE request[id].status = 200 -> request[id].image
                      [] request[id].status = 304 -> kept[id]
                      [] OTHER -> NoImage IN
        /\ kept' = IF request[id].status = 200 THEN [kept EXCEPT ![id] = image] ELSE kept
        /\ shown' = IF pointer = id THEN image ELSE shown
    /\ request' = [request EXCEPT ![id] = NoRequest]
    /\ UNCHANGED <<now, cursorServer, wire, cursors, pointer>>

CursorNext ==
    \/ Tick \/ SessionEnds \/ SessionBegins
    \/ \E s \in Slots : NewPointer(s) \/ Pointer_Set(s)
    \/ Pointer_SetNull
    \/ ProcessPointerMessage
    \/ \E id \in Ids : Answer(id) \/ ReceiveImage(id)

CursorSpec == CursorInit /\ [][CursorNext]_cursorVars

-----------------------------------------------------------------------------
(* Although images are erased before the browser hears of it, requests      *)
(* overtake messages and names come back with the next session on an        *)
(* address: once nothing is on its way, the page shows the image that the   *)
(* running session made for the pointer it set last, or one that an earlier *)
(* session stored under the same name within the same second (RDP.cpp:1005, *)
(* wsgateEHS.cpp:1013).                                                     *)
CursorExplained ==
    (registered /\ pointer # 0 /\ wire = <<>> /\ \A id \in Ids : request[id] = NoRequest)
        => \/ shown = m_cursorMap[pointer] /\ shown.of = <<life, pointer>>
           \/ shown.of[1] \in 1..life - 1 /\ shown.time = m_cursorMap[pointer].time
=============================================================================
