------------------------------ MODULE Gateway ------------------------------
(***************************************************************************)
(* How connections, RDP objects and HTTP requests find each other:         *)
(* MyRawSocketHandler (myrawsocket.cpp) with its map from connections to   *)
(* RDP objects and its single member conn, and the map of sessions that    *)
(* WsGate (wsgateEHS.cpp) keeps for the requests of cursor images.         *)
(*                                                                         *)
(* EHS serves HTTP requests in threads of their own and calls the handlers *)
(* of raw sockets from one thread; nothing here is locked.  Connections    *)
(* and RDP objects are named by their addresses, which are used again; a   *)
(* visitor is one call of Prepare.  What happens inside an RDP object is   *)
(* RdpSession's.                                                           *)
(***************************************************************************)
EXTENDS Naturals, FiniteSets

CONSTANTS
    Conns,          \* addresses of EHSConnections
    Sessions,       \* addresses of RDP objects
    MaxVisitors     \* bound: calls of Prepare

ASSUME GatewayAssumption == MaxVisitors \in Nat /\ Conns \cap Sessions = {}

CONSTANTS NoConn, NoSession, Null, RawThread
ASSUME NamesAssumption ==
    /\ NoConn \notin Conns /\ RawThread \notin Conns
    /\ NoSession \notin Sessions /\ Null \notin Sessions /\ NoSession # Null

VARIABLES
    conn,       \* what EHS has at an address: nothing, an HTTP or a raw connection
    visitor,    \* the last visitor on a connection
    visitors,   \* how many there were
    cmap,       \* MyRawSocketHandler::m_cmap, the RDP object of the tuple
    last,       \* MyRawSocketHandler::conn
    state,      \* m_State of an RDP object, as far as Connect changes it
    embedded,   \* m_embeddedContext of an RDP object
    owner,      \* the visitor an RDP object was made for
    by,         \* the visitors with whose parameters it was connected
    registered, \* the keys of WsGate::m_SessionMap
    pc,         \* program point of each thread in Prepare and PrepareRDP
    r,          \* PrepareRDP's local pointer
    who,        \* the visitor whose parameters PrepareRDP has
    told,       \* the session a visitor's browser was told of
    reader,     \* the visitor whose request for a cursor has found a session, and that
    turn,       \* when a visitor's Prepare stored its connection
    crashed     \* a null pointer was followed

maps == <<conn, visitor, visitors, cmap, last, registered>>
objects == <<state, embedded, owner, by>>
threads == <<pc, r, who>>
vars == <<maps, objects, threads, told, reader, turn, crashed>>

Visitors == 1..MaxVisitors
Threads == Conns \cup {RawThread}
Nobody == 0

Init ==
    /\ conn = [c \in Conns |-> "none"]
    /\ visitor = [c \in Conns |-> Nobody] /\ visitors = 0
    /\ cmap = [c \in Conns |-> NoSession]
    /\ last = NoConn
    /\ state = [s \in Sessions |-> "initial"]
    /\ embedded = [s \in Sessions |-> FALSE]
    /\ owner = [s \in Sessions |-> Nobody]
    /\ by = [s \in Sessions |-> {}]
    /\ registered = {}
    /\ pc = [t \in Threads |-> "idle"]
    /\ r = [t \in Threads |-> NoSession]
    /\ who = [t \in Threads |-> Nobody]
    /\ told = [v \in Visitors |-> NoSession]
    /\ reader = NoSession
    /\ turn = [v \in Visitors |-> 0]
    /\ crashed = FALSE

-----------------------------------------------------------------------------
\* An RDP object lives while a shared pointer to it does: in the tuple of a
\* connection, in the session map or in PrepareRDP.
Holds(t, s) == pc[t] \in {"connect", "register"} /\ r[t] = s

Alive(s) ==
    \/ \E c \in Conns : cmap[c] = s
    \/ s \in registered
    \/ \E t \in Threads : Holds(t, s)

Present(v) == \E c \in Conns : conn[c] # "none" /\ visitor[c] = v

Goto(t, point) == pc' = [pc EXCEPT ![t] = point]

Working == ~crashed

-----------------------------------------------------------------------------
\* EHS has a new connection.
Accept(c) ==
    /\ Working /\ conn[c] = "none"
    /\ conn' = [conn EXCEPT ![c] = "http"]
    /\ UNCHANGED <<visitor, visitors, cmap, last, registered, objects, threads, told, reader, turn, crashed>>

\* Prepare, called by HandleWsgateRequest: the handlers and the RDP object are made
\* and take the place of what the map held for the connection.
Prepare(c) ==
    /\ Working /\ conn[c] = "http" /\ pc[c] = "idle" /\ visitors < MaxVisitors
    /\ visitors' = visitors + 1
    /\ visitor' = [visitor EXCEPT ![c] = visitors + 1]
    /\ \E s \in Sessions, context \in BOOLEAN :
        /\ ~Alive(s)
        /\ cmap' = [cmap EXCEPT ![c] = s]
        /\ state' = [state EXCEPT ![s] = "initial"]
        /\ embedded' = [embedded EXCEPT ![s] = context]
        /\ owner' = [owner EXCEPT ![s] = visitors + 1]
        /\ by' = [by EXCEPT ![s] = {}]
    /\ Goto(c, "conn")
    /\ UNCHANGED <<conn, last, registered, r, who, told, reader, turn, crashed>>

StoreConn_EmbeddedOnly(c) ==
    /\ Working /\ pc[c] = "conn"
    /\ turn' = [turn EXCEPT ![visitor[c]] = 1 + Cardinality({v \in Visitors : turn[v] > 0})]
    /\ \/ /\ embedded[cmap[c]] \/ last = NoConn
          /\ last' = c /\ who' = [who EXCEPT ![c] = visitor[c]]
          /\ Goto(c, IF embedded[cmap[c]] THEN "lookup" ELSE "reply")
       \/ ~embedded[cmap[c]] /\ last # NoConn /\ Goto(c, "reply") /\ UNCHANGED <<last, who>>
    /\ UNCHANGED <<conn, visitor, visitors, cmap, registered, objects, r, told, reader, crashed>>

\* this->conn = conn.  An embedded session is connected at once.
StoreConn(c) ==
    /\ Working /\ pc[c] = "conn"
    /\ last' = c
    /\ turn' = [turn EXCEPT ![visitor[c]] = 1 + Cardinality({v \in Visitors : turn[v] > 0})]
    /\ \/ embedded[cmap[c]] /\ Goto(c, "lookup") /\ who' = [who EXCEPT ![c] = visitor[c]]
       \/ ~embedded[cmap[c]] /\ Goto(c, "reply") /\ UNCHANGED who
    /\ UNCHANGED <<conn, visitor, visitors, cmap, registered, objects, r, told, reader, crashed>>

\* OnWsMessage, a request with credentials on the session of the connection.
Credentials(c) ==
    /\ Working /\ conn[c] = "raw" /\ pc[RawThread] = "idle"
    /\ cmap[c] \in Sessions
    /\ state[cmap[c]] = "initial" /\ ~embedded[cmap[c]]
    /\ Goto(RawThread, "lookup")
    /\ who' = [who EXCEPT ![RawThread] = visitor[c]]
    /\ UNCHANGED <<maps, objects, r, told, reader, turn, crashed>>

\* PrepareRDP: m_cmap[this->conn].get<2>().  The subscript makes an empty entry
\* where there is none, and the empty pointer is followed next.
Lookup(t) ==
    /\ Working /\ pc[t] = "lookup"
    /\ \/ /\ cmap[last] \in Sessions
          /\ r' = [r EXCEPT ![t] = cmap[last]]
          /\ Goto(t, "connect")
          /\ UNCHANGED <<cmap, crashed>>
       \/ /\ cmap[last] \notin Sessions
          /\ cmap' = [cmap EXCEPT ![last] = Null]
          /\ crashed' = TRUE
          /\ UNCHANGED <<r, pc>>
    /\ UNCHANGED <<conn, visitor, visitors, last, registered, objects, who, told, reader, turn>>

AfterPrepareRDP(t) == IF t = RawThread THEN "idle" ELSE "reply"

\* r->Connect, which stores the parameters whatever the session is doing, and throws
\* if the worker of a session that was connected before has ended.  Prepare
\* answers an exception with 503, OnWsMessage swallows it.
Connect(t) ==
    /\ Working /\ pc[t] = "connect"
    /\ \/ /\ state' = [state EXCEPT ![r[t]] = "connect"]
          /\ by' = [by EXCEPT ![r[t]] = @ \cup {who[t]}]
          /\ Goto(t, "register")
       \/ /\ state[r[t]] # "initial"
          /\ Goto(t, "idle")
          /\ UNCHANGED <<state, by>>
    /\ UNCHANGED <<maps, embedded, owner, r, who, told, reader, turn, crashed>>

Register_Replaced(t) ==
    /\ Working /\ pc[t] = "register"
    /\ registered' = {r[t]}
    /\ Goto(t, AfterPrepareRDP(t))
    /\ UNCHANGED <<conn, visitor, visitors, cmap, last, objects, r, who, told, reader, turn, crashed>>

\* RegisterRdpSession.
Register(t) ==
    /\ Working /\ pc[t] = "register"
    /\ registered' = registered \cup {r[t]}
    /\ Goto(t, AfterPrepareRDP(t))
    /\ UNCHANGED <<conn, visitor, visitors, cmap, last, objects, r, who, told, reader, turn, crashed>>

\* 101: the connection is a raw socket from now on.
Upgrade(c) ==
    /\ Working /\ pc[c] = "reply"
    /\ conn' = [conn EXCEPT ![c] = "raw"]
    /\ Goto(c, "idle")
    /\ UNCHANGED <<visitor, visitors, cmap, last, registered, objects, r, who, told, reader, turn, crashed>>

Leaves(c) ==
    /\ Working /\ conn[c] # "none" /\ pc[c] = "idle" /\ pc[RawThread] = "idle"
    /\ conn' = [conn EXCEPT ![c] = "none"]
    /\ visitor' = [visitor EXCEPT ![c] = Nobody]
    /\ UNCHANGED <<visitors, last, objects, threads, told, reader, turn, crashed>>

OnDisconnect_NotUnregistered(c) ==
    /\ cmap' = [cmap EXCEPT ![c] = NoSession]
    /\ UNCHANGED registered

OnDisconnect_MemberConn(c) ==
    /\ registered' = registered \ {cmap[c]}
    /\ cmap' = [cmap EXCEPT ![IF last = NoConn THEN c ELSE last] = NoSession]

\* UnregisterRdpSession and the end of the tuple.
OnDisconnect(c) ==
    /\ registered' = registered \ {cmap[c]}
    /\ cmap' = [cmap EXCEPT ![c] = NoSession]

\* A connection ends, which EHS tells the handler of raw sockets; whether it does
\* so for a connection that is not raw does not matter here, so it may.
Disconnect(c) ==
    /\ Leaves(c)
    /\ \/ OnDisconnect(c)
       \/ conn[c] = "http" /\ UNCHANGED <<registered, cmap>>

-----------------------------------------------------------------------------
\* The worker of a session sends its address to the browser (PostConnect).
Announce(s) ==
    /\ Working /\ Alive(s) /\ state[s] = "connect"
    /\ \E c \in Conns : cmap[c] = s
    /\ told' = [told EXCEPT ![owner[s]] = s]
    /\ UNCHANGED <<maps, objects, threads, reader, turn, crashed>>

\* HandleCursorRequest, by the browser of visitor v: the session is looked up ...
CursorFind(v) ==
    /\ Working /\ reader = NoSession
    /\ told[v] \in registered
    /\ reader' = <<v, told[v]>>
    /\ UNCHANGED <<maps, objects, threads, told, turn, crashed>>

\* ... and its image is taken through the iterator.
CursorGet ==
    /\ Working /\ reader # NoSession
    /\ reader' = NoSession
    /\ UNCHANGED <<maps, objects, threads, told, turn, crashed>>

\* The visitors are served, or the process is dead.
Quiescent ==
    /\ crashed \/ (visitors = MaxVisitors /\ \A t \in Threads : pc[t] = "idle")
    /\ UNCHANGED vars

PrepareRDP(t) == Lookup(t) \/ Connect(t) \/ Register(t)

Next ==
    \/ \E c \in Conns : Accept(c) \/ Prepare(c) \/ StoreConn(c) \/ Credentials(c)
                            \/ Upgrade(c) \/ Disconnect(c)
    \/ \E t \in Threads : PrepareRDP(t)
    \/ \E s \in Sessions : Announce(s)
    \/ \E v \in Visitors : CursorFind(v)
    \/ CursorGet
    \/ Quiescent

Spec == Init /\ [][Next]_vars

-----------------------------------------------------------------------------
(***************************************************************************)
(* Properties.                                                             *)
(***************************************************************************)

Points == {"idle", "conn", "lookup", "connect", "register", "reply"}

TypeOK ==
    /\ conn \in [Conns -> {"none", "http", "raw"}]
    /\ visitor \in [Conns -> Visitors \cup {Nobody}] /\ visitors \in 0..MaxVisitors
    /\ cmap \in [Conns -> Sessions \cup {NoSession, Null}]
    /\ last \in Conns \cup {NoConn}
    /\ state \in [Sessions -> {"initial", "connect"}]
    /\ embedded \in [Sessions -> BOOLEAN]
    /\ owner \in [Sessions -> Visitors \cup {Nobody}]
    /\ by \in [Sessions -> SUBSET Visitors]
    /\ registered \subseteq Sessions
    /\ pc \in [Threads -> Points]
    /\ r \in [Threads -> Sessions \cup {NoSession}]
    /\ who \in [Threads -> Visitors \cup {Nobody}]
    /\ told \in [Visitors -> Sessions \cup {NoSession}]
    /\ reader \in (Visitors \X Sessions) \cup {NoSession}
    /\ turn \in [Visitors -> 0..MaxVisitors]
    /\ crashed \in BOOLEAN

\* PrepareRDP "creates an RDP session using parameters specified to Prepare": a
\* visitor's parameters connect the visitor's own RDP object.
OwnSession == \A s \in Sessions : Alive(s) => by[s] \subseteq {owner[s]}

Strayed(s) == ~(by[s] \subseteq {owner[s]})

\* What the single member conn comes to: parameters stray only to a visitor whose
\* Prepare was later (or is still on its way), so they are safe while nobody comes.
StrayIsLater ==
    \A s \in Sessions : Alive(s) =>
        \A v \in by[s] \ {owner[s]} : turn[owner[s]] = 0 \/ turn[v] < turn[owner[s]]

\* A registered session without a connection has nobody to unregister it and a
\* worker that writes through a handler that is gone.  Only parameters that have
\* strayed leave one behind.
OrphanExplained ==
    \A s \in registered : (\A c \in Conns : cmap[c] # s) => Strayed(s)

\* The cursor request of a visitor who is still connected uses a session that is
\* there and is the visitor's own, although addresses are used again.
CursorServed ==
    reader # NoSession /\ Present(reader[1]) =>
        reader[2] \in registered /\ owner[reader[2]] = reader[1]

\* PrepareRDP follows an empty pointer only if the connection stored last is gone,
\* or is used by another visitor that Prepare has not come to.
CrashExplained ==
    \A t \in Threads : pc[t] = "lookup" /\ cmap[last] \notin Sessions =>
        conn[last] # "raw" /\ pc[last] = "idle"

=============================================================================
