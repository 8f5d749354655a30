--------------------------- MODULE GatewayProofs ----------------------------
(***************************************************************************)
(* The four invariants of Gateway for any number of connections, RDP       *)
(* objects and visitors.  An RDP object in the map belongs to the visitor  *)
(* on its connection and no two have one owner; the connection stored last *)
(* has the latest turn, or a new visitor whose turn is still to come.      *)
(***************************************************************************)
EXTENDS Gateway, FiniteSetTheorems, TLAPS

Stored == {v \in Visitors : turn[v] > 0}
Turns == Cardinality(Stored)

Typed ==
    /\ conn \in [Conns -> {"none", "http", "raw"}]
    /\ visitor \in [Conns -> Visitors \cup {Nobody}] /\ visitors \in 0..MaxVisitors
    /\ cmap \in [Conns -> Sessions \cup {NoSession, Null}]
    /\ last \in Conns \cup {NoConn}
    /\ owner \in [Sessions -> Visitors \cup {Nobody}]
    /\ by \in [Sessions -> SUBSET Visitors]
    /\ registered \subseteq Sessions
    /\ pc \in [Threads -> Points]
    /\ r \in [Threads -> Sessions \cup {NoSession}]
    /\ who \in [Threads -> Visitors \cup {Nobody}]
    /\ told \in [Visitors -> Sessions \cup {NoSession}]
    /\ reader \in (Visitors \X Sessions) \cup {NoSession}
    /\ turn \in [Visitors -> Nat]

\* A visitor's connection has the visitor's own RDP object.
VisitInv ==
    \A c \in Conns :
        /\ visitor[c] <= visitors
        /\ visitor[c] # Nobody => conn[c] # "none" /\ cmap[c] \in Sessions
        /\ visitor[c] # Nobody /\ cmap[c] \in Sessions => owner[cmap[c]] = visitor[c]
        /\ pc[c] # "idle" => conn[c] = "http" /\ visitor[c] # Nobody
        /\ conn[c] = "raw" => visitor[c] # Nobody

\* An RDP object is in one place of the map and was made for one visitor.
OwnerInv ==
    /\ \A s \in Sessions : owner[s] <= visitors
    /\ \A s1, s2 \in Sessions : owner[s1] = owner[s2] /\ owner[s1] # Nobody => s1 = s2
    /\ \A c, d \in Conns : cmap[c] = cmap[d] /\ cmap[c] \in Sessions => c = d
    /\ \A c \in Conns : cmap[c] \in Sessions => owner[cmap[c]] # Nobody
    /\ \A s \in Sessions : by[s] # {} => owner[s] # Nobody

\* Whose parameters the threads have, and for which RDP object.
ThreadInv ==
    /\ \A c \in Conns : pc[c] \in {"lookup", "connect", "register"} => who[c] = visitor[c]
    /\ pc[RawThread] \in {"idle", "lookup", "connect", "register"}
    /\ pc[RawThread] # "idle" => \E c \in Conns : conn[c] = "raw" /\ visitor[c] = who[RawThread]
    /\ \A t \in Threads : pc[t] \in {"connect", "register"} => r[t] \in Sessions /\ owner[r[t]] # Nobody
    /\ \A t \in Threads : pc[t] = "register" => who[t] \in by[r[t]]
    /\ last = NoConn => \A t \in Threads : pc[t] \in {"idle", "conn"}
    /\ last = NoConn => \A c \in Conns : conn[c] # "raw"

\* A registered RDP object is that of a connection that will unregister it.
OrphanInv ==
    \A s \in registered :
        Strayed(s) \/ \E c \in Conns : cmap[c] = s /\ (conn[c] = "raw" \/ pc[c] = "reply")

\* What browsers were told is what their connections have.
ToldInv ==
    /\ \A v \in Visitors : told[v] # NoSession =>
        /\ v <= visitors
        /\ \A c \in Conns : visitor[c] = v => cmap[c] = told[v]
    /\ reader # NoSession =>
        /\ reader[1] <= visitors
        /\ \A c \in Conns : visitor[c] = reader[1] =>
            told[reader[1]] = reader[2] /\ reader[2] \in registered

\* v's parameters may be in an RDP object of w.
MayHave(v, w) == v = w \/ turn[w] = 0 \/ turn[v] < turn[w]

TurnInv ==
    /\ \A v \in Visitors : turn[v] <= Turns
    /\ \A v, w \in Visitors : turn[v] = turn[w] /\ turn[v] > 0 => v = w
    /\ \A v \in Visitors : v > visitors => turn[v] = 0
    /\ \A c \in Conns : pc[c] = "conn" => turn[visitor[c]] = 0
    /\ \A c \in Conns : conn[c] = "raw" \/ pc[c] \in {"lookup", "connect", "register", "reply"} =>
            turn[visitor[c]] > 0

StrayInv ==
    /\ last # NoConn /\ cmap[last] \in Sessions => turn[owner[cmap[last]]] \in {0, Turns}
    /\ \A t \in Threads : pc[t] \in {"lookup", "connect"} => who[t] # Nobody /\ turn[who[t]] > 0
    /\ \A t \in Threads : pc[t] = "connect" => MayHave(who[t], owner[r[t]])
    /\ \A s \in Sessions : \A v \in by[s] : turn[v] > 0 /\ MayHave(v, owner[s])

IInv == Typed /\ VisitInv /\ OwnerInv /\ ThreadInv /\ OrphanInv /\ ToldInv /\ TurnInv /\ StrayInv

LEMMA TurnsStay == ASSUME UNCHANGED turn PROVE Turns' = Turns
  BY DEF Turns, Stored

LEMMA TurnsCount ==
    ASSUME Typed
    PROVE  /\ Turns \in Nat /\ Turns <= MaxVisitors
           /\ \A v \in Visitors : turn[v] = 0 /\ turn' = [turn EXCEPT ![v] = 1 + Turns]
                => Turns' = 1 + Turns
<1>1. IsFiniteSet(Visitors) /\ Cardinality(Visitors) = MaxVisitors
  BY GatewayAssumption, FS_Interval DEF Visitors
<1>2. Stored \subseteq Visitors
  BY DEF Stored
<1>3. IsFiniteSet(Stored) /\ Turns <= MaxVisitors
  BY <1>1, <1>2, FS_Subset DEF Turns
<1>4. Turns \in Nat
  BY <1>3, FS_CardinalityType DEF Turns
<1>5. ASSUME NEW v \in Visitors, turn[v] = 0, turn' = [turn EXCEPT ![v] = 1 + Turns]
      PROVE  Turns' = 1 + Turns
  <2>1. v \notin Stored
    BY <1>5 DEF Stored
  <2>2. \A w \in Visitors : turn'[w] > 0 <=> turn[w] > 0 \/ w = v
    BY <1>4, <1>5 DEF Typed
  <2>3. Stored' = Stored \cup {v}
    BY <1>5, <2>2 DEF Stored
  <2>4. Cardinality(Stored \cup {v}) = Cardinality(Stored) + 1
    BY <1>3, <2>1, FS_AddElement
  <2> QED
    BY <1>4, <2>3, <2>4 DEF Turns
<1> QED
  BY <1>3, <1>4, <1>5

\* Prepare takes an RDP object that nothing refers to, for a visitor who is new.
LEMMA Prepared ==
    ASSUME IInv, NEW c \in Conns, Prepare(c)
    PROVE  \E s \in Sessions :
           /\ \A d \in Conns : cmap[d] # s
           /\ s \notin registered
           /\ \A t \in Threads : pc[t] \in {"connect", "register"} => r[t] # s
           /\ conn[c] = "http" /\ pc[c] = "idle"
           /\ visitors \in Nat /\ visitors + 1 \in Visitors /\ visitors' = visitors + 1
           /\ visitor' = [visitor EXCEPT ![c] = visitors + 1]
           /\ cmap' = [cmap EXCEPT ![c] = s]
           /\ owner' = [owner EXCEPT ![s] = visitors + 1]
           /\ by' = [by EXCEPT ![s] = {}]
           /\ pc' = [pc EXCEPT ![c] = "conn"]
           /\ UNCHANGED <<conn, last, registered, r, who, told, reader, turn>>
<1>1. PICK s \in Sessions :
        /\ ~Alive(s)
        /\ cmap' = [cmap EXCEPT ![c] = s]
        /\ owner' = [owner EXCEPT ![s] = visitors + 1]
        /\ by' = [by EXCEPT ![s] = {}]
  BY DEF Prepare
<1>2. /\ \A d \in Conns : cmap[d] # s
      /\ s \notin registered
      /\ \A t \in Threads : pc[t] \in {"connect", "register"} => r[t] # s
  BY <1>1 DEF Alive, Holds
<1>3. /\ conn[c] = "http" /\ pc[c] = "idle" /\ visitors < MaxVisitors
      /\ visitors' = visitors + 1 /\ visitor' = [visitor EXCEPT ![c] = visitors + 1]
      /\ pc' = [pc EXCEPT ![c] = "conn"]
      /\ UNCHANGED <<conn, last, registered, r, who, told, reader, turn>>
  BY DEF Prepare, Goto
<1>4. visitors \in Nat /\ visitors + 1 \in Visitors
  BY <1>3, GatewayAssumption DEF IInv, Typed, Visitors
<1> QED
  BY <1>1, <1>2, <1>3, <1>4

\* The variables keep their types.
LEMMA TypedStep ==
    ASSUME IInv, [Next]_vars PROVE Typed'
<1> USE GatewayAssumption, NamesAssumption DEF IInv, maps, objects, threads, Typed,
     Visitors, Threads, Points, Nobody
<1>1. ASSUME NEW c \in Conns, Accept(c) PROVE Typed'
  BY <1>1 DEF Accept
<1>2. ASSUME NEW c \in Conns, Prepare(c) PROVE Typed'
  <2>1. PICK s \in Sessions :
           /\ visitors + 1 \in Visitors /\ visitors' = visitors + 1
           /\ visitor' = [visitor EXCEPT ![c] = visitors + 1]
           /\ cmap' = [cmap EXCEPT ![c] = s]
           /\ owner' = [owner EXCEPT ![s] = visitors + 1]
           /\ by' = [by EXCEPT ![s] = {}]
           /\ pc' = [pc EXCEPT ![c] = "conn"]
           /\ UNCHANGED <<conn, last, registered, r, who, told, reader, turn>>
    BY <1>2, Prepared
  <2>2. visitors' \in 0..MaxVisitors
    BY <2>1
  <2>3. pc' \in [Threads -> Points]
    BY <2>1
  <2>4. Typed
    OBVIOUS
  <2> HIDE DEF IInv, Visitors, Points
  <2> QED
    BY <2>1, <2>2, <2>3, <2>4
<1>3. ASSUME NEW c \in Conns, StoreConn(c) PROVE Typed'
  <2>1. turn' = [turn EXCEPT ![visitor[c]] = 1 + Turns]
    BY <1>3 DEF StoreConn, Turns, Stored
  <2>2. 1 + Turns \in Nat
    BY TurnsCount
  <2>3. turn' \in [Visitors -> Nat]
    <3>1. turn \in [Visitors -> Nat]
      BY DEF IInv, Typed
    <3> HIDE DEF IInv, Typed, Visitors
    <3> QED
      BY <2>1, <2>2, <3>1
  <2>4. last' = c /\ UNCHANGED <<conn, visitor, visitors, cmap, owner, by, registered, r, told, reader>>
    BY <1>3 DEF StoreConn
  <2>5. pc' \in [Threads -> Points]
    BY <1>3 DEF StoreConn, Goto
  <2>6. who' \in [Threads -> Visitors \cup {Nobody}]
    <3>1. who' = who \/ who' = [who EXCEPT ![c] = visitor[c]]
      BY <1>3 DEF StoreConn
    <3>2. who \in [Threads -> Visitors \cup {Nobody}] /\ visitor[c] \in Visitors \cup {Nobody}
      OBVIOUS
    <3> HIDE DEF IInv, Typed, Visitors
    <3> QED
      BY <3>1, <3>2
  <2> QED
    BY <2>3, <2>4, <2>5, <2>6
<1>4. ASSUME NEW c \in Conns, Credentials(c) PROVE Typed'
  BY <1>4 DEF Credentials, Goto
<1>5. ASSUME NEW c \in Conns, Upgrade(c) PROVE Typed'
  BY <1>5 DEF Upgrade, Goto
<1>6. ASSUME NEW c \in Conns, Disconnect(c) PROVE Typed'
  BY <1>6 DEF Disconnect, OnDisconnect, Leaves
<1>7. ASSUME NEW t \in Threads, Lookup(t) PROVE Typed'
  BY <1>7 DEF Lookup, Goto
<1>8. ASSUME NEW t \in Threads, Connect(t) PROVE Typed'
  <2>1. r[t] \in Sessions /\ who[t] \in Visitors
    BY <1>8 DEF Connect, ThreadInv, StrayInv
  <2>2. by' \in [Sessions -> SUBSET Visitors]
    <3>1. by' = by \/ by' = [by EXCEPT ![r[t]] = by[r[t]] \cup {who[t]}]
      BY <1>8 DEF Connect
    <3>2. by \in [Sessions -> SUBSET Visitors]
      BY DEF IInv, Typed
    <3>3. by[r[t]] \cup {who[t]} \in SUBSET Visitors
      BY <2>1, <3>2
    <3> HIDE DEF IInv, Typed, Visitors
    <3> QED
      BY <2>1, <3>1, <3>2, <3>3
  <2>3. pc' \in [Threads -> Points]
    BY <1>8 DEF Connect, Goto
  <2>4. UNCHANGED <<conn, visitor, visitors, cmap, last, owner, registered, r, who, told, reader, turn>>
    BY <1>8 DEF Connect
  <2> QED
    BY <2>2, <2>3, <2>4
<1>9. ASSUME NEW t \in Threads, Register(t) PROVE Typed'
  <2>1. r[t] \in Sessions
    BY <1>9 DEF Register, ThreadInv
  <2>2. registered' \subseteq Sessions /\ pc' \in [Threads -> Points]
    BY <1>9, <2>1 DEF Register, Goto, AfterPrepareRDP
  <2>3. UNCHANGED <<conn, visitor, visitors, cmap, last, owner, by, r, who, told, reader, turn>>
    BY <1>9 DEF Register
  <2> QED
    BY <2>2, <2>3
<1>10. ASSUME NEW s \in Sessions, Announce(s) PROVE Typed'
  BY <1>10 DEF Announce
<1>11. ASSUME NEW v \in Visitors, CursorFind(v) PROVE Typed'
  BY <1>11 DEF CursorFind
<1>12. CASE CursorGet
  BY <1>12 DEF CursorGet
<1>13. CASE UNCHANGED vars
  BY <1>13 DEF vars
<1> QED
  BY <1>1, <1>2, <1>3, <1>4, <1>5, <1>6, <1>7, <1>8, <1>9, <1>10, <1>11, <1>12, <1>13
     DEF Next, PrepareRDP, Quiescent

\* Connections and visitors.
LEMMA VisitInvStep ==
    ASSUME IInv, [Next]_vars PROVE VisitInv'
<1> USE GatewayAssumption, NamesAssumption DEF IInv, maps, objects, threads, Typed,
     VisitInv, Threads, Nobody
<1>1. ASSUME NEW c \in Conns, Accept(c) PROVE VisitInv'
  BY <1>1 DEF Accept
<1>2. ASSUME NEW c \in Conns, Prepare(c) PROVE VisitInv'
  <2> USE DEF Visitors
  <2>1. PICK s \in Sessions :
           /\ \A d \in Conns : cmap[d] # s
           /\ conn[c] = "http"
           /\ visitors \in Nat /\ visitors' = visitors + 1
           /\ visitor' = [visitor EXCEPT ![c] = visitors + 1]
           /\ cmap' = [cmap EXCEPT ![c] = s]
           /\ owner' = [owner EXCEPT ![s] = visitors + 1]
           /\ pc' = [pc EXCEPT ![c] = "conn"] /\ conn' = conn
    BY <1>2, Prepared
  <2>2. ASSUME NEW d \in Conns, d # c
        PROVE  /\ visitor'[d] = visitor[d] /\ cmap'[d] = cmap[d] /\ pc'[d] = pc[d]
               /\ cmap[d] \in Sessions => owner'[cmap[d]] = owner[cmap[d]]
    BY <2>1, <2>2
  <2>3. /\ visitor'[c] = visitors + 1 /\ cmap'[c] = s /\ owner'[s] = visitors + 1
        /\ visitors + 1 # 0
    BY <2>1
  <2>4. \A d \in Conns : visitor[d] \in Nat
    OBVIOUS
  <2> QED
    BY <2>1, <2>2, <2>3, <2>4
<1>3. ASSUME NEW c \in Conns, StoreConn(c) PROVE VisitInv'
  BY <1>3 DEF StoreConn, Goto
<1>4. ASSUME NEW c \in Conns, Credentials(c) PROVE VisitInv'
  BY <1>4 DEF Credentials, Goto
<1>5. ASSUME NEW c \in Conns, Upgrade(c) PROVE VisitInv'
  BY <1>5 DEF Upgrade, Goto
<1>6. ASSUME NEW c \in Conns, Disconnect(c) PROVE VisitInv'
  BY <1>6 DEF Disconnect, OnDisconnect, Leaves
<1>7. ASSUME NEW t \in Threads, Lookup(t) PROVE VisitInv'
  BY <1>7 DEF Lookup, Goto
<1>8. ASSUME NEW t \in Threads, Connect(t) PROVE VisitInv'
  BY <1>8 DEF Connect, Goto
<1>9. ASSUME NEW t \in Threads, Register(t) PROVE VisitInv'
  BY <1>9 DEF Register, Goto, AfterPrepareRDP
<1>10. ASSUME NEW s \in Sessions, Announce(s) PROVE VisitInv'
  BY <1>10 DEF Announce
<1>11. ASSUME NEW v \in Visitors, CursorFind(v) PROVE VisitInv'
  BY <1>11 DEF CursorFind
<1>12. CASE CursorGet
  BY <1>12 DEF CursorGet
<1>13. CASE UNCHANGED vars
  BY <1>13 DEF vars
<1> QED
  BY <1>1, <1>2, <1>3, <1>4, <1>5, <1>6, <1>7, <1>8, <1>9, <1>10, <1>11, <1>12, <1>13
     DEF Next, PrepareRDP, Quiescent

\* RDP objects and owners.
LEMMA OwnerInvStep ==
    ASSUME IInv, [Next]_vars PROVE OwnerInv'
<1> USE GatewayAssumption, NamesAssumption DEF IInv, maps, objects, threads, Typed,
     VisitInv, OwnerInv, Threads, Nobody
<1>1. ASSUME NEW c \in Conns, Accept(c) PROVE OwnerInv'
  BY <1>1 DEF Accept
<1>2. ASSUME NEW c \in Conns, Prepare(c) PROVE OwnerInv'
  <2> USE DEF Visitors
  <2>1. PICK s \in Sessions :
           /\ \A d \in Conns : cmap[d] # s
           /\ visitors \in Nat /\ visitors' = visitors + 1
           /\ cmap' = [cmap EXCEPT ![c] = s]
           /\ owner' = [owner EXCEPT ![s] = visitors + 1]
           /\ by' = [by EXCEPT ![s] = {}]
    BY <1>2, Prepared
  <2>2. \A u \in Sessions : owner[u] \in Nat
    OBVIOUS
  <2>3. \A u \in Sessions : owner'[u] = IF u = s THEN visitors + 1 ELSE owner[u]
    BY <2>1
  <2>4. \A d \in Conns : cmap'[d] = IF d = c THEN s ELSE cmap[d]
    BY <2>1
  <2>5. \A u \in Sessions : by'[u] = IF u = s THEN {} ELSE by[u]
    BY <2>1
  <2>6. OwnerInv
    OBVIOUS
  <2> HIDE DEF IInv, Typed, VisitInv, Visitors
  <2> QED
    BY <2>1, <2>2, <2>3, <2>4, <2>5, <2>6
<1>3. ASSUME NEW c \in Conns, StoreConn(c) PROVE OwnerInv'
  BY <1>3 DEF StoreConn, Goto
<1>4. ASSUME NEW c \in Conns, Credentials(c) PROVE OwnerInv'
  BY <1>4 DEF Credentials, Goto
<1>5. ASSUME NEW c \in Conns, Upgrade(c) PROVE OwnerInv'
  BY <1>5 DEF Upgrade, Goto
<1>6. ASSUME NEW c \in Conns, Disconnect(c) PROVE OwnerInv'
  BY <1>6 DEF Disconnect, OnDisconnect, Leaves
<1>7. ASSUME NEW t \in Threads, Lookup(t) PROVE OwnerInv'
  BY <1>7 DEF Lookup, Goto
<1>8. ASSUME NEW t \in Threads, Connect(t) PROVE OwnerInv'
  <2>1. r[t] \in Sessions /\ owner[r[t]] # Nobody
    BY <1>8 DEF Connect, ThreadInv
  <2> QED
    BY <1>8, <2>1 DEF Connect, Goto
<1>9. ASSUME NEW t \in Threads, Register(t) PROVE OwnerInv'
  BY <1>9 DEF Register, Goto, AfterPrepareRDP
<1>10. ASSUME NEW s \in Sessions, Announce(s) PROVE OwnerInv'
  BY <1>10 DEF Announce
<1>11. ASSUME NEW v \in Visitors, CursorFind(v) PROVE OwnerInv'
  BY <1>11 DEF CursorFind
<1>12. CASE CursorGet
  BY <1>12 DEF CursorGet
<1>13. CASE UNCHANGED vars
  BY <1>13 DEF vars
<1> QED
  BY <1>1, <1>2, <1>3, <1>4, <1>5, <1>6, <1>7, <1>8, <1>9, <1>10, <1>11, <1>12, <1>13
     DEF Next, PrepareRDP, Quiescent

\* The threads.
LEMMA ThreadInvStep ==
    ASSUME IInv, [Next]_vars PROVE ThreadInv'
<1> USE GatewayAssumption, NamesAssumption DEF IInv, maps, objects, threads, Typed,
     VisitInv, OwnerInv, ThreadInv, Threads, Nobody
<1>1. ASSUME NEW c \in Conns, Accept(c) PROVE ThreadInv'
  BY <1>1 DEF Accept
<1>2. ASSUME NEW c \in Conns, Prepare(c) PROVE ThreadInv'
  BY <1>2 DEF Prepare, Goto, Alive, Holds
<1>3. ASSUME NEW c \in Conns, StoreConn(c) PROVE ThreadInv'
  BY <1>3 DEF StoreConn, Goto
<1>4. ASSUME NEW c \in Conns, Credentials(c) PROVE ThreadInv'
  BY <1>4 DEF Credentials, Goto
<1>5. ASSUME NEW c \in Conns, Upgrade(c) PROVE ThreadInv'
  BY <1>5 DEF Upgrade, Goto
<1>6. ASSUME NEW c \in Conns, Disconnect(c) PROVE ThreadInv'
  BY <1>6 DEF Disconnect, OnDisconnect, Leaves
<1>7. ASSUME NEW t \in Threads, Lookup(t) PROVE ThreadInv'
  BY <1>7 DEF Lookup, Goto
<1>8. ASSUME NEW t \in Threads, Connect(t) PROVE ThreadInv'
  BY <1>8 DEF Connect, Goto
<1>9. ASSUME NEW t \in Threads, Register(t) PROVE ThreadInv'
  BY <1>9 DEF Register, Goto, AfterPrepareRDP
<1>10. ASSUME NEW s \in Sessions, Announce(s) PROVE ThreadInv'
  BY <1>10 DEF Announce
<1>11. ASSUME NEW v \in Visitors, CursorFind(v) PROVE ThreadInv'
  BY <1>11 DEF CursorFind
<1>12. CASE CursorGet
  BY <1>12 DEF CursorGet
<1>13. CASE UNCHANGED vars
  BY <1>13 DEF vars
<1> QED
  BY <1>1, <1>2, <1>3, <1>4, <1>5, <1>6, <1>7, <1>8, <1>9, <1>10, <1>11, <1>12, <1>13
     DEF Next, PrepareRDP, Quiescent

\* Registered RDP objects.
LEMMA OrphanInvStep ==
    ASSUME IInv, [Next]_vars PROVE OrphanInv'
<1> USE GatewayAssumption, NamesAssumption DEF IInv, maps, objects, threads, Typed,
     VisitInv, OwnerInv, ThreadInv, OrphanInv, Strayed, Threads, Nobody
<1>1. ASSUME NEW c \in Conns, Accept(c) PROVE OrphanInv'
  BY <1>1 DEF Accept
<1>2. ASSUME NEW c \in Conns, Prepare(c) PROVE OrphanInv'
  BY <1>2 DEF Prepare, Goto, Alive, Holds
<1>3. ASSUME NEW c \in Conns, StoreConn(c) PROVE OrphanInv'
  BY <1>3 DEF StoreConn, Goto
<1>4. ASSUME NEW c \in Conns, Credentials(c) PROVE OrphanInv'
  BY <1>4 DEF Credentials, Goto
<1>5. ASSUME NEW c \in Conns, Upgrade(c) PROVE OrphanInv'
  BY <1>5 DEF Upgrade, Goto
<1>6. ASSUME NEW c \in Conns, Disconnect(c) PROVE OrphanInv'
  BY <1>6 DEF Disconnect, OnDisconnect, Leaves
<1>7. ASSUME NEW t \in Threads, Lookup(t) PROVE OrphanInv'
  BY <1>7 DEF Lookup, Goto
<1>8. ASSUME NEW t \in Threads, Connect(t) PROVE OrphanInv'
  BY <1>8 DEF Connect, Goto
<1>9. ASSUME NEW t \in Threads, Register(t) PROVE OrphanInv'
  BY <1>9 DEF Register, Goto, AfterPrepareRDP
<1>10. ASSUME NEW s \in Sessions, Announce(s) PROVE OrphanInv'
  BY <1>10 DEF Announce
<1>11. ASSUME NEW v \in Visitors, CursorFind(v) PROVE OrphanInv'
  BY <1>11 DEF CursorFind
<1>12. CASE CursorGet
  BY <1>12 DEF CursorGet
<1>13. CASE UNCHANGED vars
  BY <1>13 DEF vars, Strayed
<1> QED
  BY <1>1, <1>2, <1>3, <1>4, <1>5, <1>6, <1>7, <1>8, <1>9, <1>10, <1>11, <1>12, <1>13
     DEF Next, PrepareRDP, Quiescent

\* Browsers and cursor requests.
LEMMA ToldInvStep ==
    ASSUME IInv, [Next]_vars PROVE ToldInv'
<1>0. ASSUME NEW c \in Conns, Prepare(c)
      PROVE  \E s \in Sessions :
               /\ visitors \in Nat /\ visitors' = visitors + 1
               /\ visitor' = [visitor EXCEPT ![c] = visitors + 1]
               /\ cmap' = [cmap EXCEPT ![c] = s]
               /\ UNCHANGED <<told, reader, registered>>
  BY <1>0, Prepared
<1> USE GatewayAssumption, NamesAssumption DEF IInv, maps, objects, threads, Typed,
     VisitInv, OwnerInv, ToldInv, Threads, Nobody
<1>1. ASSUME NEW c \in Conns, Accept(c) PROVE ToldInv'
  BY <1>1 DEF Accept
<1>2. ASSUME NEW c \in Conns, Prepare(c) PROVE ToldInv'
  <2> USE DEF Visitors
  <2>1. PICK s \in Sessions :
           /\ visitors \in Nat /\ visitors' = visitors + 1
           /\ visitor' = [visitor EXCEPT ![c] = visitors + 1]
           /\ cmap' = [cmap EXCEPT ![c] = s]
           /\ UNCHANGED <<told, reader, registered>>
    BY <1>2, <1>0
  <2>2. \A d \in Conns : /\ visitor'[d] = IF d = c THEN visitors + 1 ELSE visitor[d]
                         /\ cmap'[d] = IF d = c THEN s ELSE cmap[d]
    BY <2>1
  <2>3. ToldInv /\ (reader # NoSession => reader[1] \in Nat) /\ \A v \in Visitors : v \in Nat
    OBVIOUS
  <2> HIDE DEF IInv, Typed, VisitInv, OwnerInv, Visitors
  <2> QED
    BY <2>1, <2>2, <2>3
<1>3. ASSUME NEW c \in Conns, StoreConn(c) PROVE ToldInv'
  BY <1>3 DEF StoreConn, Goto
<1>4. ASSUME NEW c \in Conns, Credentials(c) PROVE ToldInv'
  BY <1>4 DEF Credentials, Goto
<1>5. ASSUME NEW c \in Conns, Upgrade(c) PROVE ToldInv'
  BY <1>5 DEF Upgrade, Goto
<1>6. ASSUME NEW c \in Conns, Disconnect(c) PROVE ToldInv'
  <2>1. /\ visitor' = [visitor EXCEPT ![c] = Nobody] /\ UNCHANGED <<visitors, told, reader>>
        /\ cmap' = cmap \/ cmap' = [cmap EXCEPT ![c] = NoSession]
        /\ registered' = registered \/ registered' = registered \ {cmap[c]}
    BY <1>6 DEF Disconnect, OnDisconnect, Leaves
  <2>2. \A d \in Conns : d # c => visitor'[d] = visitor[d] /\ cmap'[d] = cmap[d]
    BY <2>1
  <2>3. visitor'[c] = 0 /\ \A v \in Visitors : v # 0
    BY <2>1 DEF Visitors
  <2>4. ASSUME NEW v \in Visitors, told[v] # NoSession
        PROVE  (v <= visitors /\ \A d \in Conns : visitor[d] = v => cmap[d] = told[v])'
    BY <2>1, <2>2, <2>3, <2>4
  <2>5. ASSUME reader # NoSession
        PROVE  (/\ reader[1] <= visitors
                /\ \A d \in Conns : visitor[d] = reader[1] =>
                    told[reader[1]] = reader[2] /\ reader[2] \in registered)'
    <3>1. reader[1] \in Visitors /\ reader[2] \in Sessions
      BY <2>5
    <3>2. ASSUME NEW d \in Conns, d # c, visitor[d] = reader[1]
          PROVE  reader[2] \in registered /\ reader[2] # cmap[c] /\ told[reader[1]] = reader[2]
      <4>1. told[reader[1]] = reader[2] /\ reader[2] \in registered
        BY <2>5, <3>1, <3>2
      <4>2. cmap[d] = reader[2]
        BY <3>1, <3>2, <4>1
      <4> QED
        BY <3>1, <3>2, <4>1, <4>2
    <3> QED
      BY <2>1, <2>2, <2>3, <2>5, <3>1, <3>2
  <2> QED
    BY <2>1, <2>4, <2>5
<1>7. ASSUME NEW t \in Threads, Lookup(t) PROVE ToldInv'
  BY <1>7 DEF Lookup, Goto
<1>8. ASSUME NEW t \in Threads, Connect(t) PROVE ToldInv'
  BY <1>8 DEF Connect, Goto
<1>9. ASSUME NEW t \in Threads, Register(t) PROVE ToldInv'
  BY <1>9 DEF Register, Goto, AfterPrepareRDP
<1>10. ASSUME NEW s \in Sessions, Announce(s) PROVE ToldInv'
  BY <1>10 DEF Announce
<1>11. ASSUME NEW v \in Visitors, CursorFind(v) PROVE ToldInv'
  BY <1>11 DEF CursorFind
<1>12. CASE CursorGet
  BY <1>12 DEF CursorGet
<1>13. CASE UNCHANGED vars
  BY <1>13 DEF vars
<1> QED
  BY <1>1, <1>2, <1>3, <1>4, <1>5, <1>6, <1>7, <1>8, <1>9, <1>10, <1>11, <1>12, <1>13
     DEF Next, PrepareRDP, Quiescent

\* Turns.
LEMMA TurnInvStep ==
    ASSUME IInv, [Next]_vars PROVE TurnInv'
<1> USE GatewayAssumption, NamesAssumption, TurnsStay, TurnsCount DEF IInv, maps,
     objects, threads, Typed, VisitInv, OwnerInv, TurnInv, Threads, Nobody
<1>1. ASSUME NEW c \in Conns, Accept(c) PROVE TurnInv'
  BY <1>1 DEF Accept
<1>2. ASSUME NEW c \in Conns, Prepare(c) PROVE TurnInv'
  <2> USE DEF Visitors
  <2>1. PICK s \in Sessions :
           /\ visitors \in Nat /\ visitors + 1 \in Visitors /\ visitors' = visitors + 1
           /\ visitor' = [visitor EXCEPT ![c] = visitors + 1]
           /\ pc' = [pc EXCEPT ![c] = "conn"]
           /\ conn[c] = "http"
           /\ UNCHANGED <<conn, turn>>
    BY <1>2, Prepared
  <2>2. \A d \in Conns : /\ visitor'[d] = IF d = c THEN visitors + 1 ELSE visitor[d]
                         /\ pc'[d] = IF d = c THEN "conn" ELSE pc[d]
    BY <2>1
  <2>3. TurnInv /\ Turns' = Turns /\ \A v \in Visitors : v \in Nat
    BY <2>1
  <2> HIDE DEF IInv, Typed, VisitInv, OwnerInv, Visitors
  <2>4. turn[visitors + 1] = 0
    BY <2>1, <2>3
  <2> QED
    BY <2>1, <2>2, <2>3, <2>4
<1>3. ASSUME NEW c \in Conns, StoreConn(c) PROVE TurnInv'
  <2>1. /\ turn' = [turn EXCEPT ![visitor[c]] = 1 + Turns]
        /\ pc[c] = "conn" /\ pc' \in {[pc EXCEPT ![c] = "lookup"], [pc EXCEPT ![c] = "reply"]}
        /\ UNCHANGED <<conn, visitor, visitors>>
    BY <1>3 DEF StoreConn, Goto, Turns, Stored
  <2>2. visitor[c] \in Visitors /\ turn[visitor[c]] = 0 /\ visitor[c] <= visitors
    BY <2>1
  <2>3. Turns \in Nat /\ Turns' = 1 + Turns
    BY <2>1, <2>2, TurnsCount
  <2>4. \A v \in Visitors : turn'[v] = IF v = visitor[c] THEN 1 + Turns ELSE turn[v]
    BY <2>1, <2>2
  <2>5. \A d \in Conns : d # c => pc'[d] = pc[d] /\ (visitor[d] = visitor[c] => visitor[d] = 0)
    BY <2>1
  <2>6. pc'[c] \in {"lookup", "reply"}
    BY <2>1
  <2>7. TurnInv /\ (\A v \in Visitors : turn[v] \in Nat)
        /\ \A d \in Conns : conn[d] = "raw" \/ pc[d] # "idle" => visitor[d] \in Visitors
    BY <2>1
  <2>11. \A d \in Conns : visitor[d] \in Nat /\ visitors \in Nat
    BY DEF Visitors
  <2> HIDE DEF IInv, Typed, VisitInv, OwnerInv, Visitors
  <2>8. (\A v \in Visitors : turn[v] <= Turns)'
    BY <2>2, <2>3, <2>4, <2>7
  <2>9. (\A v, w \in Visitors : turn[v] = turn[w] /\ turn[v] > 0 => v = w)'
    BY <2>2, <2>3, <2>4, <2>7
  <2>10. (\A v \in Visitors : v > visitors => turn[v] = 0)'
    <3>1. visitors' = visitors /\ ~(visitor[c] > visitors)
      BY <2>1, <2>2, <2>11
    <3> QED
      BY <2>4, <2>7, <3>1
  <2>12. (\A d \in Conns : pc[d] = "conn" => turn[visitor[d]] = 0)'
    <3>1. ASSUME NEW d \in Conns, pc'[d] = "conn" PROVE turn'[visitor[d]] = 0
      <4>1. d # c
        BY <2>6, <3>1
      <4>2. pc[d] = "conn"
        BY <2>5, <3>1, <4>1
      <4>3. visitor[d] \in Visitors /\ turn[visitor[d]] = 0
        BY <2>7, <4>2
      <4>4. visitor[d] # visitor[c]
        BY <2>5, <4>1, <4>3 DEF Visitors
      <4> QED
        BY <2>4, <4>3, <4>4
    <3> QED
      BY <2>1, <3>1
  <2>13. (\A d \in Conns : conn[d] = "raw" \/ pc[d] \in {"lookup", "connect", "register", "reply"} =>
            turn[visitor[d]] > 0)'
    <3>1. ASSUME NEW d \in Conns, conn[d] = "raw" \/ pc'[d] \in {"lookup", "connect", "register", "reply"}
          PROVE  turn'[visitor[d]] > 0
      <4>1. CASE d = c
        BY <2>2, <2>3, <2>4, <4>1
      <4>2. CASE d # c
        <5>1. pc'[d] = pc[d] /\ visitor[d] \in Visitors /\ turn[visitor[d]] > 0
          BY <2>5, <2>7, <3>1, <4>2
        <5> QED
          BY <2>3, <2>4, <5>1
      <4> QED
        BY <4>1, <4>2
    <3> QED
      BY <2>1, <3>1
  <2> QED
    BY <2>8, <2>9, <2>10, <2>12, <2>13
<1>4. ASSUME NEW c \in Conns, Credentials(c) PROVE TurnInv'
  BY <1>4 DEF Credentials, Goto
<1>5. ASSUME NEW c \in Conns, Upgrade(c) PROVE TurnInv'
  BY <1>5 DEF Upgrade, Goto
<1>6. ASSUME NEW c \in Conns, Disconnect(c) PROVE TurnInv'
  BY <1>6 DEF Disconnect, OnDisconnect, Leaves
<1>7. ASSUME NEW t \in Threads, Lookup(t) PROVE TurnInv'
  BY <1>7 DEF Lookup, Goto
<1>8. ASSUME NEW t \in Threads, Connect(t) PROVE TurnInv'
  BY <1>8 DEF Connect, Goto
<1>9. ASSUME NEW t \in Threads, Register(t) PROVE TurnInv'
  BY <1>9 DEF Register, Goto, AfterPrepareRDP
<1>10. ASSUME NEW s \in Sessions, Announce(s) PROVE TurnInv'
  BY <1>10 DEF Announce
<1>11. ASSUME NEW v \in Visitors, CursorFind(v) PROVE TurnInv'
  BY <1>11 DEF CursorFind
<1>12. CASE CursorGet
  BY <1>12 DEF CursorGet
<1>13. CASE UNCHANGED vars
  BY <1>13 DEF vars
<1> QED
  BY <1>1, <1>2, <1>3, <1>4, <1>5, <1>6, <1>7, <1>8, <1>9, <1>10, <1>11, <1>12, <1>13
     DEF Next, PrepareRDP, Quiescent

\* Whose parameters are where.
LEMMA StrayInvStep ==
    ASSUME IInv, [Next]_vars PROVE StrayInv'
<1> USE GatewayAssumption, NamesAssumption, TurnsStay, TurnsCount DEF IInv, maps,
     objects, threads, Typed, VisitInv, OwnerInv, ThreadInv, TurnInv, StrayInv, MayHave,
     Threads, Nobody
<1>1. ASSUME NEW c \in Conns, Accept(c) PROVE StrayInv'
  BY <1>1 DEF Accept
<1>2. ASSUME NEW c \in Conns, Prepare(c) PROVE StrayInv'
  <2> USE DEF Visitors
  <2>1. PICK s \in Sessions :
           /\ \A d \in Conns : cmap[d] # s
           /\ \A t \in Threads : pc[t] \in {"connect", "register"} => r[t] # s
           /\ visitors \in Nat /\ visitors + 1 \in Visitors
           /\ cmap' = [cmap EXCEPT ![c] = s]
           /\ owner' = [owner EXCEPT ![s] = visitors + 1]
           /\ by' = [by EXCEPT ![s] = {}]
           /\ pc' = [pc EXCEPT ![c] = "conn"]
           /\ UNCHANGED <<last, r, who, turn>>
    BY <1>2, Prepared
  <2>2. \A u \in Sessions : /\ owner'[u] = IF u = s THEN visitors + 1 ELSE owner[u]
                            /\ by'[u] = IF u = s THEN {} ELSE by[u]
    BY <2>1
  <2>3. \A d \in Conns : cmap'[d] = IF d = c THEN s ELSE cmap[d]
    BY <2>1
  <2>4. \A t \in Threads : pc'[t] = IF t = c THEN "conn" ELSE pc[t]
    BY <2>1
  <2>5. /\ StrayInv /\ Turns' = Turns /\ turn[visitors + 1] = 0
        /\ last \in Conns \cup {NoConn}
        /\ \A t \in Threads : pc[t] \in {"connect", "register"} => r[t] \in Sessions
    BY <2>1
  <2> HIDE DEF IInv, Typed, VisitInv, OwnerInv, ThreadInv, TurnInv, Visitors
  <2> QED
    BY <2>1, <2>2, <2>3, <2>4, <2>5
<1>3. ASSUME NEW c \in Conns, StoreConn(c) PROVE StrayInv'
  <2>1. /\ turn' = [turn EXCEPT ![visitor[c]] = 1 + Turns] /\ last' = c /\ pc[c] = "conn"
        /\ \/ pc' = [pc EXCEPT ![c] = "lookup"] /\ who' = [who EXCEPT ![c] = visitor[c]]
           \/ pc' = [pc EXCEPT ![c] = "reply"] /\ who' = who
        /\ UNCHANGED <<visitor, visitors, cmap, owner, by, r>>
    BY <1>3 DEF StoreConn, Goto, Turns, Stored
  <2>2. visitor[c] \in Visitors /\ turn[visitor[c]] = 0
    BY <2>1
  <2>3. Turns \in Nat /\ Turns' = 1 + Turns
    BY <2>1, <2>2, TurnsCount
  <2>4. \A v \in Visitors : turn'[v] = IF v = visitor[c] THEN 1 + Turns ELSE turn[v]
    BY <2>1, <2>2
  <2>5. owner[cmap[c]] = visitor[c]
    BY <2>1, <2>2
  <2>6. \A v, w \in Visitors : turn[v] > 0 /\ MayHave(v, w) => MayHave(v, w)'
    BY <2>2, <2>3, <2>4
  <2>7. \A t \in Threads : pc'[t] = "connect" =>
            pc[t] = "connect" /\ who'[t] = who[t] /\ r[t] \in Sessions /\ owner[r[t]] \in Visitors
    BY <2>1
  <2>8. \A t \in Threads : pc'[t] = "lookup" => t = c \/ (pc[t] = "lookup" /\ who'[t] = who[t])
    BY <2>1
  <2>9. \A t \in Threads : t = c /\ pc'[t] = "lookup" => who'[t] = visitor[c]
    BY <2>1
  <2>10. \A s \in Sessions : \A v \in by[s] : v \in Visitors /\ owner[s] \in Visitors
    OBVIOUS
  <2>11. StrayInv /\ (\A t \in Threads : who[t] \in Visitors \cup {0}) /\ (\A v \in Visitors : turn[v] \in Nat /\ v # 0)
    BY DEF Visitors
  <2> HIDE DEF IInv, Typed, VisitInv, OwnerInv, ThreadInv, TurnInv, MayHave
  <2> QED
    BY <2>1, <2>2, <2>3, <2>4, <2>5, <2>6, <2>7, <2>8, <2>9, <2>10, <2>11
<1>4. ASSUME NEW c \in Conns, Credentials(c) PROVE StrayInv'
  BY <1>4 DEF Credentials, Goto
<1>5. ASSUME NEW c \in Conns, Upgrade(c) PROVE StrayInv'
  BY <1>5 DEF Upgrade, Goto
<1>6. ASSUME NEW c \in Conns, Disconnect(c) PROVE StrayInv'
  BY <1>6 DEF Disconnect, OnDisconnect, Leaves
<1>7. ASSUME NEW t \in Threads, Lookup(t) PROVE StrayInv'
  <2>1. pc[t] = "lookup" /\ UNCHANGED <<last, owner, by, who, turn>>
    BY <1>7 DEF Lookup
  <2>2. last \in Conns /\ who[t] \in Visitors /\ turn[who[t]] > 0
    BY <2>1
  <2>3. CASE cmap[last] \in Sessions
    <3>1. cmap' = cmap /\ pc' = [pc EXCEPT ![t] = "connect"] /\ r' = [r EXCEPT ![t] = cmap[last]]
      BY <1>7, <2>3 DEF Lookup, Goto
    <3>2. owner[cmap[last]] \in Visitors /\ turn[owner[cmap[last]]] \in {0, Turns}
      BY <2>2, <2>3
    <3>3. MayHave(who[t], owner[cmap[last]])
      <4>1. /\ turn[who[t]] \in Nat /\ turn[who[t]] <= Turns /\ Turns \in Nat
            /\ turn[who[t]] = turn[owner[cmap[last]]] => who[t] = owner[cmap[last]]
        BY <2>2, <3>2, TurnsCount DEF TurnInv
      <4> HIDE DEF IInv, Typed, VisitInv, OwnerInv, ThreadInv, TurnInv, StrayInv, Visitors
      <4> QED
        BY <2>2, <3>2, <4>1
    <3> QED
      BY <2>1, <2>2, <3>1, <3>3
  <2>4. CASE cmap[last] \notin Sessions
    <3>1. cmap' = [cmap EXCEPT ![last] = Null] /\ UNCHANGED <<pc, r>>
      BY <1>7, <2>4 DEF Lookup
    <3> QED
      BY <2>1, <2>2, <2>4, <3>1
  <2> QED
    BY <2>3, <2>4
<1>8. ASSUME NEW t \in Threads, Connect(t) PROVE StrayInv'
  BY <1>8 DEF Connect, Goto
<1>9. ASSUME NEW t \in Threads, Register(t) PROVE StrayInv'
  BY <1>9 DEF Register, Goto, AfterPrepareRDP
<1>10. ASSUME NEW s \in Sessions, Announce(s) PROVE StrayInv'
  BY <1>10 DEF Announce
<1>11. ASSUME NEW v \in Visitors, CursorFind(v) PROVE StrayInv'
  BY <1>11 DEF CursorFind
<1>12. CASE CursorGet
  BY <1>12 DEF CursorGet
<1>13. CASE UNCHANGED vars
  BY <1>13 DEF vars
<1> QED
  BY <1>1, <1>2, <1>3, <1>4, <1>5, <1>6, <1>7, <1>8, <1>9, <1>10, <1>11, <1>12, <1>13
     DEF Next, PrepareRDP, Quiescent

-----------------------------------------------------------------------------
\* At the start nobody has come.
LEMMA Initially == Init => IInv
<1> SUFFICES ASSUME Init PROVE IInv
  OBVIOUS
<1> USE GatewayAssumption, NamesAssumption DEF Init, Nobody
<1>1. Typed
  BY DEF Typed, Threads, Points
<1>2. \A v \in Visitors : turn[v] = 0 /\ v \in Nat /\ v # 0
  BY DEF Visitors
<1>3. Turns = 0
  <2>1. Stored = {}
    BY <1>2 DEF Stored
  <2> QED
    BY <2>1, FS_EmptySet DEF Turns
<1>4. VisitInv /\ ToldInv /\ OrphanInv
  BY DEF VisitInv, ToldInv, OrphanInv, Threads
<1>5. OwnerInv
  BY DEF OwnerInv
<1>6. ThreadInv
  BY DEF ThreadInv, Threads
<1>7. TurnInv
  BY <1>2, <1>3 DEF TurnInv, Threads
<1>8. StrayInv
  BY DEF StrayInv, Threads
<1> QED
  BY <1>1, <1>4, <1>5, <1>6, <1>7, <1>8 DEF IInv

\* Every reachable state of the gateway satisfies the inductive invariant.
THEOREM Invariance == Spec => []IInv
<1>1. IInv /\ [Next]_vars => IInv'
  BY TypedStep, VisitInvStep, OwnerInvStep, ThreadInvStep, OrphanInvStep, ToldInvStep,
     TurnInvStep, StrayInvStep DEF IInv
<1> QED
  BY Initially, <1>1, PTL DEF Spec

\* Parameters stray only to a visitor whose connection is stored later, for any
\* number of connections, RDP objects and visitors.
THEOREM StraysAreLater == Spec => []StrayIsLater
<1>1. IInv => StrayIsLater
  <2> SUFFICES ASSUME IInv, NEW s \in Sessions, NEW v \in by[s] \ {owner[s]}
               PROVE  turn[owner[s]] = 0 \/ turn[v] < turn[owner[s]]
    BY DEF StrayIsLater
  <2> QED
    BY DEF IInv, StrayInv, MayHave
<1> QED
  BY Invariance, <1>1, PTL

\* A registered session without a connection has had somebody else's parameters.
THEOREM OrphansStrayed == Spec => []OrphanExplained
<1>1. IInv => OrphanExplained
  BY DEF IInv, OrphanInv, OrphanExplained
<1> QED
  BY Invariance, <1>1, PTL

\* The request for a cursor of a visitor who is still there is served from the
\* visitor's own session, whatever addresses are used again.
THEOREM CursorsAreServed == Spec => []CursorServed
<1>1. IInv => CursorServed
  <2> SUFFICES ASSUME IInv, reader # NoSession, NEW c \in Conns, visitor[c] = reader[1]
               PROVE  reader[2] \in registered /\ owner[reader[2]] = reader[1]
    BY DEF CursorServed, Present
  <2>1. reader[1] \in Visitors /\ reader[2] \in Sessions
    BY DEF IInv, Typed
  <2>2. told[reader[1]] = reader[2] /\ reader[2] \in registered
    BY DEF IInv, ToldInv
  <2>3. cmap[c] = reader[2]
    BY <2>1, <2>2, NamesAssumption DEF IInv, ToldInv
  <2>4. visitor[c] # Nobody
    BY <2>1, GatewayAssumption DEF Visitors, Nobody
  <2> QED
    BY <2>1, <2>2, <2>3, <2>4 DEF IInv, VisitInv
<1> QED
  BY Invariance, <1>1, PTL

\* An empty pointer is followed only after the connection stored last has gone.
THEOREM CrashesHaveCause == Spec => []CrashExplained
<1>1. IInv => CrashExplained
  <2> SUFFICES ASSUME IInv, NEW t \in Threads, pc[t] = "lookup", cmap[last] \notin Sessions
               PROVE  conn[last] # "raw" /\ pc[last] = "idle"
    BY DEF CrashExplained
  <2>1. last \in Conns
    BY DEF IInv, Typed, ThreadInv
  <2>2. visitor[last] = Nobody
    BY <2>1 DEF IInv, VisitInv
  <2> QED
    BY <2>1, <2>2 DEF IInv, VisitInv
<1> QED
  BY Invariance, <1>1, PTL

\* The variables keep their types; a visitor's turn is never more than all visitors.
THEOREM TypeCorrect == Spec => []TypeOK
<1> DEFINE Rest == /\ state \in [Sessions -> {"initial", "connect"}]
                   /\ embedded \in [Sessions -> BOOLEAN]
                   /\ crashed \in BOOLEAN
<1>1. Init => Rest
  <2>1. Init => crashed \in BOOLEAN
    BY Zenon DEF Init
  <2> QED
    BY <2>1 DEF Init
<1>2. ASSUME Rest, [Next]_vars PROVE Rest'
  <2> USE <1>2 DEF maps, objects, threads
  <2>1. ASSUME NEW c \in Conns,
               Accept(c) \/ StoreConn(c) \/ Credentials(c) \/ Upgrade(c) \/ Disconnect(c)
        PROVE  UNCHANGED <<state, embedded, crashed>>
    BY <2>1 DEF Accept, StoreConn, Credentials, Upgrade, Disconnect, Leaves
  <2>2. ASSUME NEW c \in Conns, Prepare(c) PROVE Rest'
    <3>1. crashed' = crashed
      BY <2>2 DEF Prepare
    <3>2. PICK s \in Sessions, context \in BOOLEAN :
            state' = [state EXCEPT ![s] = "initial"] /\ embedded' = [embedded EXCEPT ![s] = context]
      BY <2>2 DEF Prepare
    <3> QED
      BY <3>1, <3>2
  <2>3. ASSUME NEW t \in Threads, Lookup(t) PROVE Rest'
    <3>1. UNCHANGED <<state, embedded>>
      BY <2>3 DEF Lookup
    <3>2. crashed' \in BOOLEAN
      BY <2>3, Zenon DEF Lookup
    <3> QED
      BY <3>1, <3>2
  <2>4. ASSUME NEW t \in Threads, Connect(t) \/ Register(t) PROVE Rest'
    BY <2>4 DEF Connect, Register
  <2>5. ASSUME (\E s \in Sessions : Announce(s)) \/ (\E v \in Visitors : CursorFind(v))
               \/ CursorGet \/ Quiescent \/ UNCHANGED vars
        PROVE  UNCHANGED <<state, embedded, crashed>>
    BY <2>5 DEF Announce, CursorFind, CursorGet, Quiescent, vars
  <2> QED
    BY <2>1, <2>2, <2>3, <2>4, <2>5 DEF Next, PrepareRDP
<1>3. IInv /\ Rest => TypeOK
  <2> SUFFICES ASSUME IInv, Rest PROVE TypeOK
    OBVIOUS
  <2>1. Turns \in Nat /\ Turns <= MaxVisitors
    BY TurnsCount DEF IInv
  <2>2. \A v \in Visitors : turn[v] \in Nat /\ turn[v] <= Turns
    BY DEF IInv, Typed, TurnInv
  <2>3. turn \in [Visitors -> Nat]
    BY DEF IInv, Typed
  <2>4. turn \in [Visitors -> 0..MaxVisitors]
    BY <2>1, <2>2, <2>3, GatewayAssumption
  <2> QED
    BY <2>4 DEF IInv, Typed, TypeOK
<1> HIDE DEF Rest
<1> QED
  BY <1>1, <1>2, <1>3, Invariance, PTL DEF Spec

=============================================================================
