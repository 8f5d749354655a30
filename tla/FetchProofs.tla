---------------------------- MODULE FetchProofs -----------------------------
(***************************************************************************)
(* What a visitor fetches, for any number of threads, pointers, sessions,  *)
(* services and seconds.                                                   *)
(*                                                                         *)
(* PageExplained.  What the cache and the browser hold is dated: its date  *)
(* is that of its content or of an earlier one.  A thread compares it with *)
(* the date of a content no older than the request, so that a body that    *)
(* passes and is older than the request shows two contents whose dates are *)
(* not in order.                                                           *)
(*                                                                         *)
(* LoginInRegion.  The endpoint taken is the last of a finite set of       *)
(* places in the catalog, all of which are in the region.                  *)
(*                                                                         *)
(* CursorExplained.  A pointer that is set and not followed by another on  *)
(* the wire is in a slot of libfreerdp, and so has its image; an image the *)
(* browser keeps is the stored one or has an earlier session's date.       *)
(***************************************************************************)
EXTENDS Pages, Login, Cursors, WellFoundedInduction, TLAPS

Copies == [body : Nat, filled : Nat, mtime : Nat]
Points == {"idle", "stat", "find", "read", "fill", "reply", "shown"}
Servings == [pc : Points, asked : [body : Nat, values : Nat], mtime : Nat, body : Nat,
             status : Nat, page : Copies]

TypeOK ==
    /\ second \in Nat \ {0} /\ html \in BOOLEAN /\ present \in BOOLEAN
    /\ history \in Seq(Nat \ {0}) /\ history # <<>>
    /\ values \in Nat
    /\ m_StaticCache \in [body : Nat, mtime : Nat]
    /\ serving \in [RequestThreads -> Servings]
    /\ keptPage \in Copies

\* The content is one there was, and its date is its own or that of an earlier one.
Dated(body, mtime) ==
    body \in 1..Len(history) /\ \E u \in 1..body : history[u] = mtime

\* Not older than the request, or there were two contents whose dates are not in order.
Fresh(body, asked) ==
    \/ body >= asked
    \/ \E u \in 1..body, v \in asked..Len(history) : history[v] <= history[u]

CacheInv == m_StaticCache.mtime # 0 => Dated(m_StaticCache.body, m_StaticCache.mtime)

KeptInv == keptPage.mtime # 0 => Dated(keptPage.body, keptPage.mtime)

Asking(r) == r.asked.body \in 1..Len(history) /\ r.asked.values <= values

Good(r) == r.status \in {200, 304}

ServingInv(r) ==
    /\ r.pc # "idle" => Asking(r)
    /\ r.pc \in {"stat", "find", "read"} /\ r.page.mtime # 0 => Dated(r.page.body, r.page.mtime)
    /\ r.pc \in {"find", "read", "fill"} =>
            r.mtime # 0 /\ \E v \in r.asked.body..Len(history) : history[v] = r.mtime
    /\ r.pc = "fill" => Dated(r.body, r.mtime)
    /\ r.pc = "reply" /\ Good(r) => Dated(r.page.body, r.page.mtime)
    /\ r.pc \in {"reply", "shown"} /\ Good(r) => Fresh(r.page.body, r.asked.body)
    /\ r.pc \in {"reply", "shown"} /\ r.status = 200 /\ html => r.page.filled >= r.asked.values

IInv == TypeOK /\ CacheInv /\ KeptInv /\ \A t \in RequestThreads : ServingInv(serving[t])

LEMMA Initially == PageInit => IInv
<1> SUFFICES ASSUME PageInit PROVE IInv
  OBVIOUS
<1>1. TypeOK
  BY DEF PageInit, TypeOK, NoEntry, IdleThread, NoCopy, Servings, Points, Copies
<1>2. CacheInv /\ KeptInv /\ \A t \in RequestThreads : ServingInv(serving[t])
  BY DEF PageInit, NoEntry, IdleThread, NoCopy, CacheInv, KeptInv, ServingInv, Good
<1> QED
  BY <1>1, <1>2 DEF IInv

Grows ==
    /\ history \in Seq(Nat \ {0}) /\ history' \in Seq(Nat \ {0})
    /\ Len(history) <= Len(history')
    /\ values \in Nat /\ values' \in Nat /\ values <= values'
    /\ \A i \in 1..Len(history) : history'[i] = history[i]

LEMMA Edited ==
    ASSUME TypeOK, NEW m \in Nat \ {0}, history' = Append(history, m), UNCHANGED values
    PROVE  Grows
  BY DEF TypeOK, Grows

LEMMA Kept ==
    ASSUME TypeOK, UNCHANGED <<history, values>>
    PROVE  Grows
  BY DEF TypeOK, Grows

\* Dated and Fresh outlive an edit.
LEMMA DatedStays ==
    ASSUME Grows, NEW b \in Nat, NEW m \in Nat, Dated(b, m)
    PROVE  Dated(b, m)'
<1>1. PICK u \in 1..b : history[u] = m
  BY DEF Dated
<1>2. Len(history) \in Nat /\ Len(history') \in Nat /\ b \in 1..Len(history)
  BY DEF Dated, Grows
<1>3. b \in 1..Len(history') /\ u \in 1..Len(history)
  BY <1>2 DEF Grows
<1>4. history'[u] = m
  BY <1>1, <1>3 DEF Grows
<1> QED
  BY <1>3, <1>4 DEF Dated

LEMMA FreshStays ==
    ASSUME Grows, NEW b \in Nat, NEW a \in 1..Len(history), Fresh(b, a)
    PROVE  Fresh(b, a)'
<1>1. CASE b >= a
  BY <1>1 DEF Fresh
<1>2. CASE ~(b >= a)
  <2>1. PICK u \in 1..b, v \in a..Len(history) : history[v] <= history[u]
    BY <1>2 DEF Fresh
  <2>2. Len(history) \in Nat /\ Len(history') \in Nat
    BY DEF Grows
  <2>3. /\ u \in 1..Len(history) /\ v \in 1..Len(history)
        /\ Len(history) <= Len(history')
    BY <1>2, <2>1, <2>2 DEF Grows
  <2>4. history'[u] = history[u] /\ history'[v] = history[v]
    BY <2>3 DEF Grows
  <2>5. v \in a..Len(history')
    BY <2>1, <2>2, <2>3
  <2> QED
    BY <2>1, <2>4, <2>5 DEF Fresh
<1> QED
  BY <1>1, <1>2

LEMMA ServingStays ==
    ASSUME Grows, UNCHANGED html, NEW r \in Servings, ServingInv(r)
    PROVE  ServingInv(r)'
<1>1. /\ Len(history) \in Nat /\ Len(history') \in Nat /\ Len(history) <= Len(history')
      /\ r.asked.body \in Nat /\ r.asked.values \in Nat /\ r.mtime \in Nat
      /\ r.body \in Nat /\ r.page.body \in Nat /\ r.page.mtime \in Nat
  BY DEF Grows, Servings, Copies
<1>2. r.pc # "idle" => Asking(r)'
  <2> SUFFICES ASSUME r.pc # "idle" PROVE Asking(r)'
    OBVIOUS
  <2>1. r.asked.body \in 1..Len(history) /\ r.asked.values <= values
    BY DEF ServingInv, Asking
  <2>2. r.asked.values <= values'
    BY <1>1, <2>1 DEF Grows
  <2> QED
    BY <1>1, <2>1, <2>2 DEF Asking
<1>3. /\ r.pc \in {"stat", "find", "read"} /\ r.page.mtime # 0 => Dated(r.page.body, r.page.mtime)'
      /\ r.pc = "reply" /\ Good(r) => Dated(r.page.body, r.page.mtime)'
      /\ r.pc = "fill" => Dated(r.body, r.mtime)'
  BY <1>1, DatedStays DEF ServingInv
<1>4. ASSUME r.pc \in {"find", "read", "fill"}
      PROVE  r.mtime # 0 /\ \E v \in r.asked.body..Len(history') : history'[v] = r.mtime
  <2>1. PICK v \in r.asked.body..Len(history) : history[v] = r.mtime
    BY <1>4 DEF ServingInv
  <2>2. r.asked.body >= 1
    BY <1>1, <1>4 DEF ServingInv, Asking
  <2>3. v \in 1..Len(history) /\ v \in r.asked.body..Len(history')
    BY <1>1, <2>1, <2>2
  <2>4. history'[v] = r.mtime
    BY <2>1, <2>3 DEF Grows
  <2> QED
    BY <1>4, <2>3, <2>4 DEF ServingInv
<1>5. ASSUME r.pc \in {"reply", "shown"}, Good(r)
      PROVE  Fresh(r.page.body, r.asked.body)'
  <2>1. r.asked.body \in 1..Len(history) /\ Fresh(r.page.body, r.asked.body)
    BY <1>5 DEF ServingInv, Asking
  <2> QED
    BY <1>1, <2>1, FreshStays
<1> QED
  BY <1>2, <1>3, <1>4, <1>5 DEF ServingInv, Good

\* A step of one thread that leaves the file, the values and the kind of file alone.
LEMMA OneServed ==
    ASSUME IInv, PageStands, NEW t \in RequestThreads,
           NEW r \in Servings, Serve(t, r), ServingInv(r)
    PROVE  /\ serving' \in [RequestThreads -> Servings]
           /\ \A u \in RequestThreads : ServingInv(serving[u])'
<1>1. serving \in [RequestThreads -> Servings] /\ serving' = [serving EXCEPT ![t] = r]
  BY DEF IInv, TypeOK, Serve
<1>2. Grows /\ UNCHANGED html
  BY Kept DEF IInv, PageStands
<1>3. ASSUME NEW u \in RequestThreads PROVE ServingInv(serving[u])'
  <2>1. PICK q \in Servings : q = serving'[u]
    BY <1>1
  <2>2. ServingInv(q)
    BY <1>1, <2>1 DEF IInv
  <2>3. ServingInv(q)'
    BY <1>2, <2>2, ServingStays
  <2> QED
    BY <2>1, <2>3
<1> QED
  BY <1>1, <1>3

\* Steps of the administrator: the file may have one content more, the values change.
LEMMA Outside ==
    ASSUME IInv, Grows, UNCHANGED <<html, m_StaticCache, serving, keptPage>>,
           second' \in Nat \ {0}, present' \in BOOLEAN
    PROVE  IInv'
<1>1. TypeOK'
  <2>1. history' # <<>>
    BY DEF IInv, TypeOK, Grows
  <2> QED
    BY <2>1 DEF IInv, TypeOK, Grows
<1>2. CacheInv'
  <2>1. m_StaticCache.body \in Nat /\ m_StaticCache.mtime \in Nat
    BY DEF IInv, TypeOK
  <2>2. PICK b \in Nat, m \in Nat : b = m_StaticCache.body /\ m = m_StaticCache.mtime
    BY <2>1
  <2>3. m # 0 => Dated(b, m)'
    BY <2>2, DatedStays DEF IInv, CacheInv
  <2> QED
    BY <2>2, <2>3 DEF CacheInv, Dated
<1>3. KeptInv'
  <2>1. PICK b \in Nat, m \in Nat : b = keptPage.body /\ m = keptPage.mtime
    BY DEF IInv, TypeOK, Copies
  <2>2. m # 0 => Dated(b, m)'
    BY <2>1, DatedStays DEF IInv, KeptInv
  <2> QED
    BY <2>1, <2>2 DEF KeptInv, Dated
<1>4. ASSUME NEW t \in RequestThreads PROVE ServingInv(serving[t])'
  <2>1. PICK r \in Servings : r = serving[t]
    BY DEF IInv, TypeOK
  <2>2. ServingInv(r)'
    BY <2>1, ServingStays DEF IInv
  <2> QED
    BY <2>1, <2>2
<1> QED
  BY <1>1, <1>2, <1>3, <1>4 DEF IInv

\* A step of a thread.
LEMMA Served ==
    ASSUME IInv, PageStands, NEW t \in RequestThreads,
           NEW r \in Servings, Serve(t, r), ServingInv(r),
           NEW c \in [body : Nat, mtime : Nat], m_StaticCache' = c,
           c.mtime # 0 => Dated(c.body, c.mtime),
           NEW k \in Copies, keptPage' = k,
           k.mtime # 0 => Dated(k.body, k.mtime)
    PROVE  IInv'
<1>1. TypeOK'
  BY OneServed DEF IInv, TypeOK, PageStands
<1>2. CacheInv' /\ KeptInv'
  BY DEF CacheInv, KeptInv, Dated, PageStands
<1> QED
  BY <1>1, <1>2, OneServed DEF IInv

-----------------------------------------------------------------------------
\* What is used of a thread's record, which is the same before and after a step.
LEMMA Record ==
    ASSUME IInv, NEW t \in RequestThreads
    PROVE  \E r \in Servings : r = serving[t] /\ ServingInv(r)
  BY DEF IInv, TypeOK

\* The cache and the browser's copy as they are.
LEMMA Holdings ==
    ASSUME IInv
    PROVE  /\ m_StaticCache \in [body : Nat, mtime : Nat] /\ keptPage \in Copies
           /\ m_StaticCache.mtime # 0 => Dated(m_StaticCache.body, m_StaticCache.mtime)
           /\ keptPage.mtime # 0 => Dated(keptPage.body, keptPage.mtime)
           /\ history \in Seq(Nat \ {0}) /\ content \in Nat \ {0} /\ Mtime \in Nat \ {0}
           /\ values \in Nat
  BY DEF IInv, TypeOK, CacheInv, KeptInv, content, Mtime

LEMMA Replying ==
    ASSUME NEW r \in Servings, NEW status \in Nat
    PROVE  LET n == Replies(r, status) IN
           /\ n \in Servings /\ n.pc = "reply" /\ n.status = status
           /\ n.asked = r.asked /\ n.page = r.page
  BY DEF Replies, Servings, Points

LEMMA AskPageStep ==
    ASSUME IInv, NEW t \in RequestThreads, AskPage(t)
    PROVE  IInv'
<1> DEFINE n == [IdleThread EXCEPT !.pc = "stat", !.page = keptPage,
                                   !.asked = [body |-> content, values |-> values]]
<1>1. n \in Servings /\ n.pc = "stat" /\ n.page = keptPage
      /\ n.asked.body = content /\ n.asked.values = values
  BY Holdings DEF IdleThread, NoCopy, Servings, Points, Copies
<1>2. ServingInv(n)
  BY <1>1, Holdings DEF ServingInv, Asking, content
<1>3. PageStands /\ Serve(t, n) /\ m_StaticCache' = m_StaticCache /\ keptPage' = keptPage
  BY DEF AskPage
<1> HIDE DEF n
<1> QED
  BY <1>1, <1>2, <1>3, Holdings, Served

LEMMA StatPageStep ==
    ASSUME IInv, NEW t \in RequestThreads, StatPage(t)
    PROVE  IInv'
<1>1. PICK r \in Servings : r = serving[t] /\ ServingInv(r)
  BY Record
<1>2. r.pc = "stat" /\ PageStands /\ m_StaticCache' = m_StaticCache /\ keptPage' = keptPage
  BY <1>1 DEF StatPage, At
<1>3. /\ r.asked.body \in 1..content /\ r.asked.values <= values
      /\ r.asked.body \in Nat /\ r.page.body \in Nat /\ r.page.mtime \in Nat
      /\ r.page.mtime # 0 => Dated(r.page.body, r.page.mtime)
  BY <1>1, <1>2 DEF ServingInv, Asking, Servings, Copies, content
<1>4. CASE ~present
  <2> DEFINE n == Replies(r, 500)
  <2>1. n \in Servings /\ n.pc = "reply" /\ n.status = 500 /\ n.asked = r.asked
    BY Replying
  <2>2. Serve(t, n)
    BY <1>1, <1>4 DEF StatPage
  <2>3. ServingInv(n)
    BY <1>3, <2>1 DEF ServingInv, Asking, Good, content
  <2> HIDE DEF n
  <2> QED
    BY <1>2, <2>1, <2>2, <2>3, Holdings, Served
<1>5. CASE present /\ FileNotModified(Mtime, r.page.mtime)
  <2> DEFINE n == Replies(r, 304)
  <2>1. n \in Servings /\ n.pc = "reply" /\ n.status = 304 /\ n.asked = r.asked /\ n.page = r.page
    BY Replying
  <2>2. Serve(t, n)
    BY <1>1, <1>5 DEF StatPage
  <2>3. Dated(r.page.body, r.page.mtime) /\ Mtime <= r.page.mtime
    BY <1>3, <1>5 DEF FileNotModified
  <2>4. PICK u \in 1..r.page.body : history[u] = r.page.mtime
    BY <2>3 DEF Dated
  <2>5. content \in r.asked.body..content /\ history[content] <= history[u]
    BY <1>3, <2>3, <2>4, Holdings DEF Mtime
  <2>6. Fresh(r.page.body, r.asked.body)
    BY <2>5 DEF Fresh, content
  <2>7. ServingInv(n)
    BY <1>3, <2>1, <2>3, <2>6 DEF ServingInv, Asking, Good, content
  <2> HIDE DEF n
  <2> QED
    BY <1>2, <2>1, <2>2, <2>7, Holdings, Served
<1>6. CASE present /\ ~FileNotModified(Mtime, r.page.mtime)
  <2> DEFINE n == [r EXCEPT !.pc = "find", !.mtime = Mtime]
  <2>1. n \in Servings /\ n.pc = "find" /\ n.mtime = Mtime /\ n.asked = r.asked /\ n.page = r.page
    BY Holdings DEF Servings, Points
  <2>2. Serve(t, n)
    BY <1>1, <1>6 DEF StatPage
  <2>3. content \in r.asked.body..content /\ history[content] = Mtime
    BY <1>3, Holdings DEF Mtime
  <2>4. ServingInv(n)
    BY <1>3, <2>1, <2>3, Holdings DEF ServingInv, Asking, content
  <2> HIDE DEF n
  <2> QED
    BY <1>2, <2>1, <2>2, <2>4, Holdings, Served
<1> QED
  BY <1>4, <1>5, <1>6

\* What a thread knows from "find" to "fill".
LEMMA Knows ==
    ASSUME IInv, NEW r \in Servings, ServingInv(r), r.pc \in {"find", "read", "fill"}
    PROVE  /\ r.asked.body \in 1..content /\ r.asked.values \in Nat /\ r.asked.values <= values
           /\ r.mtime \in Nat \ {0} /\ r.body \in Nat
           /\ \E v \in r.asked.body..content : history[v] = r.mtime
  BY DEF ServingInv, Asking, Servings, content

LEMMA FindPageStep ==
    ASSUME IInv, NEW t \in RequestThreads, FindPage(t)
    PROVE  IInv'
<1>1. PICK r \in Servings : r = serving[t] /\ ServingInv(r)
  BY Record
<1>2. r.pc = "find" /\ PageStands /\ m_StaticCache' = m_StaticCache /\ keptPage' = keptPage
  BY <1>1 DEF FindPage, At
<1>3. CASE m_StaticCache.mtime = r.mtime
  <2> DEFINE n == [r EXCEPT !.pc = "fill", !.body = m_StaticCache.body]
  <2>1. /\ n \in Servings /\ n.pc = "fill" /\ n.body = m_StaticCache.body
        /\ n.asked = r.asked /\ n.mtime = r.mtime
    BY Holdings DEF Servings, Points
  <2>2. Serve(t, n)
    BY <1>1, <1>3 DEF FindPage
  <2>3. Dated(m_StaticCache.body, r.mtime)
    BY <1>1, <1>2, <1>3, Knows, Holdings
  <2>4. ServingInv(n)
    BY <1>1, <1>2, <2>1, <2>3, Knows DEF ServingInv, Asking, content
  <2> HIDE DEF n
  <2> QED
    BY <1>2, <2>1, <2>2, <2>4, Holdings, Served
<1>4. CASE m_StaticCache.mtime # r.mtime
  <2> DEFINE n == [r EXCEPT !.pc = "read"]
  <2>1. /\ n \in Servings /\ n.pc = "read" /\ n.page = r.page
        /\ n.asked = r.asked /\ n.mtime = r.mtime
    BY DEF Servings, Points
  <2>2. Serve(t, n)
    BY <1>1, <1>4 DEF FindPage
  <2>3. ServingInv(n)
    BY <1>1, <1>2, <2>1, Knows DEF ServingInv, Asking, content
  <2> HIDE DEF n
  <2> QED
    BY <1>2, <2>1, <2>2, <2>3, Holdings, Served
<1> QED
  BY <1>3, <1>4

LEMMA ReadPageStep ==
    ASSUME IInv, NEW t \in RequestThreads, ReadPage(t)
    PROVE  IInv'
<1>1. PICK r \in Servings : r = serving[t] /\ ServingInv(r)
  BY Record
<1>2. r.pc = "read" /\ PageStands /\ keptPage' = keptPage
  BY <1>1 DEF ReadPage, At
<1>3. PICK v \in r.asked.body..content : history[v] = r.mtime
  BY <1>1, <1>2, Knows
<1>4. Dated(content, r.mtime)
  BY <1>1, <1>2, <1>3, Knows, Holdings DEF Dated, content
<1>5. CASE present
  <2> DEFINE n == [r EXCEPT !.pc = "fill", !.body = content]
             c == [body |-> content, mtime |-> r.mtime]
  <2>1. /\ n \in Servings /\ n.pc = "fill" /\ n.body = content
        /\ n.asked = r.asked /\ n.mtime = r.mtime
    BY Holdings DEF Servings, Points
  <2>2. c \in [body : Nat, mtime : Nat] /\ Dated(c.body, c.mtime)
    BY <1>1, <1>2, <1>4, Knows, Holdings
  <2>3. Serve(t, n) /\ m_StaticCache' = c
    BY <1>1, <1>5 DEF ReadPage
  <2>4. ServingInv(n)
    BY <1>1, <1>2, <1>4, <2>1, Knows DEF ServingInv, Asking, content
  <2> HIDE DEF n, c
  <2> QED
    BY <1>2, <2>1, <2>2, <2>3, <2>4, Holdings, Served
<1>6. CASE ~present
  <2> DEFINE n == Replies(r, 404)
  <2>1. n \in Servings /\ n.pc = "reply" /\ n.status = 404 /\ n.asked = r.asked
    BY Replying
  <2>2. Serve(t, n) /\ m_StaticCache' = m_StaticCache
    BY <1>1, <1>6 DEF ReadPage
  <2>3. ServingInv(n)
    BY <1>1, <1>2, <2>1, Knows DEF ServingInv, Asking, Good, content
  <2> HIDE DEF n
  <2> QED
    BY <1>2, <2>1, <2>2, <2>3, Holdings, Served
<1> QED
  BY <1>5, <1>6

LEMMA FillPageStep ==
    ASSUME IInv, NEW t \in RequestThreads, FillPage(t)
    PROVE  IInv'
<1>1. PICK r \in Servings : r = serving[t] /\ ServingInv(r)
  BY Record
<1>2. r.pc = "fill" /\ PageStands /\ m_StaticCache' = m_StaticCache /\ keptPage' = keptPage
  BY <1>1 DEF FillPage, At
<1>3. Dated(r.body, r.mtime)
  BY <1>1, <1>2 DEF ServingInv
<1>4. PICK v \in r.asked.body..content : history[v] = r.mtime
  BY <1>1, <1>2, Knows
<1>5. Fresh(r.body, r.asked.body)
  <2>1. PICK u \in 1..r.body : history[u] = r.mtime
    BY <1>3 DEF Dated
  <2>2. history[v] <= history[u]
    BY <1>1, <1>2, <1>4, <2>1, Knows
  <2> QED
    BY <1>4, <2>2 DEF Fresh, content
<1> DEFINE page == [body |-> r.body, filled |-> IF html THEN values ELSE 0, mtime |-> r.mtime]
           n == [Replies(r, 200) EXCEPT !.page = page]
<1>6. page \in Copies /\ page.body = r.body /\ page.mtime = r.mtime /\ (html => page.filled = values)
  BY <1>1, <1>2, Knows, Holdings DEF Copies
<1> HIDE DEF page
<1>7. n \in Servings /\ n.pc = "reply" /\ n.status = 200 /\ n.asked = r.asked /\ n.page = page
  <2> DEFINE q == Replies(r, 200)
  <2>1. q \in Servings /\ q.pc = "reply" /\ q.status = 200 /\ q.asked = r.asked
    BY Replying
  <2>2. n = [q EXCEPT !.page = page]
    OBVIOUS
  <2> HIDE DEF q, n
  <2>3. n \in Servings /\ n.page = page
    BY <1>6, <2>1, <2>2 DEF Servings
  <2>4. n.pc = q.pc /\ n.status = q.status /\ n.asked = q.asked
    BY <2>1, <2>2 DEF Servings
  <2> QED
    BY <2>1, <2>3, <2>4
<1>8. Serve(t, n)
  BY <1>1 DEF FillPage, page
<1> HIDE DEF n
<1>9. ServingInv(n)
  <2>1. Asking(r) /\ r.asked.values \in Nat /\ values \in Nat
    BY <1>1, <1>2, Knows, Holdings DEF ServingInv
  <2>2. Asking(n) /\ (html => n.page.filled >= n.asked.values)
    BY <1>6, <1>7, <2>1 DEF Asking
  <2> QED
    BY <1>3, <1>5, <1>6, <1>7, <2>2 DEF ServingInv, Good
<1> QED
  BY <1>2, <1>7, <1>8, <1>9, Holdings, Served

LEMMA ReceivePageStep ==
    ASSUME IInv, NEW t \in RequestThreads, ReceivePage(t)
    PROVE  IInv'
<1>1. PICK r \in Servings : r = serving[t] /\ ServingInv(r)
  BY Record
<1>2. r.pc = "reply" /\ PageStands /\ m_StaticCache' = m_StaticCache
  BY <1>1 DEF ReceivePage, At
<1> DEFINE n == [r EXCEPT !.pc = "shown"]
           k == IF r.status = 200 THEN r.page ELSE keptPage
<1>3. n \in Servings /\ n.pc = "shown" /\ n.status = r.status /\ n.asked = r.asked /\ n.page = r.page
  BY DEF Servings, Points
<1>4. Serve(t, n) /\ keptPage' = k
  BY <1>1 DEF ReceivePage
<1>5. ServingInv(n)
  BY <1>1, <1>2, <1>3 DEF ServingInv, Asking, Good
<1>6. k \in Copies /\ (k.mtime # 0 => Dated(k.body, k.mtime))
  BY <1>1, <1>2, Holdings DEF ServingInv, Good, Servings
<1> HIDE DEF n, k
<1> QED
  BY <1>2, <1>3, <1>4, <1>5, <1>6, Holdings, Served

LEMMA LeavePageStep ==
    ASSUME IInv, NEW t \in RequestThreads, LeavePage(t)
    PROVE  IInv'
<1>1. IdleThread \in Servings /\ ServingInv(IdleThread)
  BY DEF IdleThread, NoCopy, Servings, Points, Copies, ServingInv, Good
<1>2. PageStands /\ Serve(t, IdleThread) /\ m_StaticCache' = m_StaticCache /\ keptPage' = keptPage
  BY DEF LeavePage
<1> QED
  BY <1>1, <1>2, Holdings, Served

-----------------------------------------------------------------------------
LEMMA Step == IInv /\ [PageNext]_pageVars => IInv'
<1> SUFFICES ASSUME IInv, [PageNext]_pageVars PROVE IInv'
  OBVIOUS
<1>1. CASE \E m \in 1..MaxSeconds : EditPage(m)
  <2>1. PICK m \in 1..MaxSeconds : EditPage(m)
    BY <1>1
  <2>2. m \in Nat \ {0}
    BY <2>1
  <2>3. Grows
    BY <2>1, <2>2, Edited DEF IInv, EditPage
  <2> QED
    BY <2>1, <2>3, Outside DEF EditPage, IInv, TypeOK
<1>2. CASE RemovePage
  BY <1>2, Kept, Outside DEF RemovePage, IInv, TypeOK
<1>3. CASE ChangeValues
  <2>1. Grows
    BY <1>3 DEF ChangeValues, IInv, TypeOK, Grows
  <2> QED
    BY <1>3, <2>1, Outside DEF ChangeValues, IInv, TypeOK
<1>4. CASE NextSecond
  <2>1. second' \in Nat \ {0}
    BY <1>4 DEF NextSecond, IInv, TypeOK
  <2> QED
    BY <1>4, <2>1, Kept, Outside DEF NextSecond, IInv, TypeOK
<1>5. ASSUME NEW t \in RequestThreads,
             AskPage(t) \/ StatPage(t) \/ FindPage(t) \/ ReadPage(t) \/ FillPage(t)
                \/ ReceivePage(t) \/ LeavePage(t)
      PROVE  IInv'
  BY <1>5, AskPageStep, StatPageStep, FindPageStep, ReadPageStep, FillPageStep,
     ReceivePageStep, LeavePageStep
<1>6. CASE UNCHANGED pageVars
  BY <1>6, Kept, Outside DEF pageVars, IInv, TypeOK
<1> QED
  BY <1>1, <1>2, <1>3, <1>4, <1>5, <1>6 DEF PageNext

\* In every reachable state the cache, the browser and the requests hold dated copies.
THEOREM Invariance == PageSpec => []IInv
<1>1. PageInit => IInv
  BY Initially
<1>2. IInv /\ [PageNext]_pageVars => IInv'
  BY Step
<1> QED
  BY <1>1, <1>2, PTL DEF PageSpec

\* HandleHTTPRequest with its cache and its dates: a page shown is not older than its
\* request unless an edit dated the file back, for any number of threads and edits.
THEOREM PagesAreFresh == PageSpec => []PageExplained
<1>1. IInv => PageExplained
  <2> SUFFICES ASSUME IInv, NEW t \in RequestThreads, At(t, "shown"), serving[t].status \in {200, 304}
               PROVE  /\ Fresh(serving[t].page.body, serving[t].asked.body)
                      /\ (html /\ serving[t].status = 200) => serving[t].page.filled >= serving[t].asked.values
    BY DEF PageExplained, Fresh, content
  <2> QED
    BY DEF IInv, ServingInv, Good, At
<1> QED
  BY <1>1, Invariance, PTL

-----------------------------------------------------------------------------
\* The choice of Nova's endpoint.

LEMMA Smallest ==
    ASSUME NEW T \in SUBSET Nat, T # {}
    PROVE  \E x \in T : \A y \in T : x <= y
<1> DEFINE R == OpToRel(<, Nat)
<1>1. IsWellFoundedOn(R, Nat)
  BY NatLessThanWellFounded
<1>2. \A x, y \in Nat : y < x => <<y, x>> \in R
  BY DEF OpToRel
<1> HIDE DEF R
<1>3. PICK x \in T : \A y \in T : ~(<<y, x>> \in R)
  BY <1>1, WFMin
<1>4. ASSUME NEW y \in T PROVE x <= y
  <2>1. x \in Nat /\ y \in Nat /\ ~(y < x)
    BY <1>2, <1>3
  <2> QED
    BY <2>1
<1> QED
  BY <1>4

LEMMA Largest ==
    ASSUME NEW n \in Nat, NEW S \in SUBSET (1..n), S # {}
    PROVE  \E x \in S : \A y \in S : y <= x
<1> DEFINE T == {n - x : x \in S}
<1>1. \A x \in S : n - x \in Nat
  OBVIOUS
<1>2. T \in SUBSET Nat /\ T # {}
  BY <1>1
<1>3. PICK m \in T : \A k \in T : m <= k
  BY <1>2, Smallest
<1>4. PICK x \in S : m = n - x
  BY <1>3
<1>5. ASSUME NEW y \in S PROVE y <= x
  <2>1. n - x <= n - y
    BY <1>3, <1>4
  <2> QED
    BY <2>1
<1> QED
  BY <1>5

LEMMA LastIsOne ==
    ASSUME NEW n \in Nat, NEW m \in Nat, NEW S \in SUBSET ((1..n) \X (1..m)), S # {}
    PROVE  LastPlace(S) \in S
<1> DEFINE A == {p[1] : p \in S}
<1>1. A \in SUBSET (1..n) /\ A # {}
  OBVIOUS
<1>2. PICK a \in A : \A x \in A : x <= a
  BY <1>1, Largest
<1> DEFINE B == {p[2] : p \in {q \in S : q[1] = a}}
<1>3. B \in SUBSET (1..m) /\ B # {}
  BY <1>2
<1>4. PICK b \in B : \A x \in B : x <= b
  BY <1>3, Largest
<1>5. <<a, b>> \in S
  BY <1>4
<1>6. \A q \in S : q[1] \in A /\ (q[1] = a => q[2] \in B)
  OBVIOUS
<1>7. \A q \in S : q[1] < a \/ (q[1] = a /\ q[2] <= b)
  <2> SUFFICES ASSUME NEW q \in S PROVE q[1] < a \/ (q[1] = a /\ q[2] <= b)
    OBVIOUS
  <2>1. q[1] \in A /\ q[1] <= a
    BY <1>2, <1>6
  <2> HIDE DEF A, B
  <2>3. q[1] \in Nat /\ a \in Nat
    BY <1>1, <2>1
  <2>2. q[1] = a => q[2] <= b
    BY <1>4, <1>6
  <2> QED
    BY <2>1, <2>2, <2>3
<1>8. \E p \in S : \A q \in S : q[1] < p[1] \/ (q[1] = p[1] /\ q[2] <= p[2])
  BY <1>5, <1>7
<1> QED
  BY <1>8 DEF LastPlace

LEMMA Found ==
    ASSUME LoginAssumption, NEW catalog \in Catalogs,
           keystoneVersion \in {"v2", "v3"}, ~CatalogBad(catalog), Usable(catalog) # {}
    PROVE  (IF keystoneVersion = "v2" THEN NovaUrlV2(catalog) ELSE NovaUrlV3(catalog)) \in Usable(catalog)
<1>1. /\ Places(catalog) \in SUBSET ((1..MaxServices) \X (1..MaxEndpoints))
      /\ MaxServices \in Nat /\ MaxEndpoints \in Nat
  <2>1. MaxServices \in Nat /\ MaxEndpoints \in Nat
    BY DEF LoginAssumption
  <2>2. Places(catalog) \in SUBSET ((1..MaxServices) \X (1..MaxEndpoints))
    BY DEF Places
  <2> QED
    BY <2>1, <2>2
<1>2. CASE keystoneVersion = "v3"
  <2>1. NovaUrlV3(catalog) = LastPlace(Usable(catalog))
    BY <1>2 DEF NovaUrlV3, Usable
  <2>2. Usable(catalog) \in SUBSET ((1..MaxServices) \X (1..MaxEndpoints))
    BY <1>1 DEF Usable
  <2>3. LastPlace(Usable(catalog)) \in Usable(catalog)
    BY <1>1, <2>2, LastIsOne
  <2> QED
    BY <1>2, <2>1, <2>3
<1>3. CASE keystoneVersion = "v2" /\ osRegion # NoRegion
  <2> DEFINE S == {p \in Places(catalog) : Endpoint(catalog, p).region = osRegion}
  <2>1. NovaUrlV2(catalog) = LastPlace(S)
    BY <1>3 DEF NovaUrlV2
  <2>2. S = Usable(catalog)
    BY <1>3 DEF Usable
  <2>3. Usable(catalog) \in SUBSET ((1..MaxServices) \X (1..MaxEndpoints))
    BY <1>1 DEF Usable
  <2>4. LastPlace(Usable(catalog)) \in Usable(catalog)
    BY <1>1, <2>3, LastIsOne
  <2> QED
    BY <1>3, <2>1, <2>2, <2>4
<1>4. CASE keystoneVersion = "v2" /\ osRegion = NoRegion
  <2> DEFINE S == {p \in Places(catalog) : p[2] = 1}
  <2>1. NovaUrlV2(catalog) = LastPlace(S)
    BY <1>4 DEF NovaUrlV2
  <2>2. Usable(catalog) = Places(catalog) /\ S \subseteq Places(catalog)
    BY <1>4 DEF Usable
  <2>3. PICK p \in Places(catalog) : TRUE
    BY <2>2
  <2>4. /\ p[1] \in 1..MaxServices /\ p[2] \in 1..MaxEndpoints
        /\ p[1] \in DOMAIN catalog /\ catalog[p[1]].name = "nova" /\ p[2] \in DOMAIN catalog[p[1]].endpoints
    BY DEF Places
  <2>5. catalog[p[1]] \in Services
    <3>1. PICK n \in 0..MaxServices : catalog \in [1..n -> Services]
      BY DEF Catalogs, Lists
    <3> QED
      BY <2>4, <3>1
  <2>6. PICK m \in 0..MaxEndpoints : catalog[p[1]].endpoints \in [1..m -> Endpoints]
    BY <2>5 DEF Services, Lists
  <2>7. 1 \in DOMAIN catalog[p[1]].endpoints /\ 1 \in 1..MaxEndpoints
    <3>1. DOMAIN catalog[p[1]].endpoints = 1..m
      BY <2>6
    <3>2. p[2] \in 1..m /\ m \in 0..MaxEndpoints
      BY <2>4, <3>1
    <3>3. m \in Nat /\ 1 <= m /\ m <= MaxEndpoints
      BY <1>1, <3>2
    <3> QED
      BY <1>1, <3>1, <3>3
  <2>8. <<p[1], 1>> \in S
    BY <2>4, <2>7 DEF Places
  <2>9. S \in SUBSET ((1..MaxServices) \X (1..MaxEndpoints)) /\ S # {}
    BY <1>1, <2>2, <2>8
  <2>10. LastPlace(S) \in S
    BY <1>1, <2>9, LastIsOne
  <2> QED
    BY <1>4, <2>1, <2>2, <2>10
<1> QED
  BY <1>2, <1>3, <1>4

LEMMA NotFound ==
    ASSUME NEW catalog, keystoneVersion \in {"v2", "v3"}, Usable(catalog) = {}
    PROVE  (IF keystoneVersion = "v2" THEN NovaUrlV2(catalog) ELSE NovaUrlV3(catalog)) = NoUrl
<1>1. CASE keystoneVersion = "v3"
  BY <1>1 DEF Usable, NovaUrlV3, LastPlace
<1>2. CASE keystoneVersion = "v2"
  <2>1. {p \in Places(catalog) :
            IF osRegion = NoRegion THEN p[2] = 1 ELSE Endpoint(catalog, p).region = osRegion} = {}
    BY <1>2 DEF Usable
  <2> QED
    BY <1>2, <2>1 DEF NovaUrlV2, LastPlace
<1> QED
  BY <1>1, <1>2

Books == {<<>>} \cup Catalogs
Urls == Nat \X Nat
Steps == {"start", "keystone", "nova", "done"}
Logins == [pc : Steps, catalog : Books, novaUrl : Urls, status : Nat]

Answered == login.status = 101 => login.novaUrl \in Usable(login.catalog)

LoginInv ==
    /\ login \in Logins
    /\ login.pc # "done" => login.status = 0
    /\ login.pc = "keystone" => keystoneVersion \in {"v2", "v3"}
    /\ login.pc = "nova" =>
         IF Usable(login.catalog) = {} THEN login.novaUrl = NoUrl ELSE login.novaUrl \in Usable(login.catalog)
    /\ Answered

LEMMA Starts == LoginInit => LoginInv
<1> SUFFICES ASSUME LoginInit PROVE LoginInv
  OBVIOUS
<1>1. NoUrl \in Urls /\ <<>> \in Books /\ "start" \in Steps
  BY DEF NoUrl, Urls, Books, Steps
<1>2. login = [pc |-> "start", catalog |-> <<>>, novaUrl |-> NoUrl, status |-> 0]
  BY DEF LoginInit
<1> QED
  BY <1>1, <1>2 DEF LoginInv, Logins, Answered

\* A refusal.
LEMMA Ends ==
    ASSUME login \in Logins, login' = [login EXCEPT !.pc = "done", !.status = 400]
    PROVE  LoginInv'
<1>1. "done" \in Steps /\ 400 \in Nat
  BY DEF Steps
<1>2. login' \in Logins
  BY <1>1 DEF Logins
<1>3. login'.pc = "done" /\ login'.status = 400
  BY DEF Logins
<1> QED
  BY <1>2, <1>3 DEF LoginInv, Answered

LEMMA LoginStep ==
    ASSUME LoginAssumption, LoginInv, [LoginNext]_loginVars
    PROVE  LoginInv'
<1>0. {"start", "keystone", "nova", "done"} \subseteq Steps
  BY DEF Steps
<1>1. CASE AskKeystone
  <2>1. /\ UNCHANGED <<osRegion, keystoneVersion>> /\ login.pc = "start"
        /\ \/ login' = [login EXCEPT !.pc = "keystone"] /\ keystoneVersion \in {"v2", "v3"}
           \/ login' = [login EXCEPT !.pc = "done", !.status = 400]
    BY <1>1 DEF AskKeystone
  <2>2. login \in Logins /\ login.status = 0
    BY <2>1 DEF LoginInv
  <2>3. CASE login' = [login EXCEPT !.pc = "keystone"] /\ keystoneVersion \in {"v2", "v3"}
    <3>1. login' \in Logins /\ login'.pc = "keystone" /\ login'.status = 0
      BY <1>0, <2>2, <2>3 DEF Logins
    <3> QED
      BY <2>1, <2>3, <3>1 DEF LoginInv, Answered
  <2>4. CASE login' = [login EXCEPT !.pc = "done", !.status = 400]
    BY <2>2, <2>4, Ends
  <2> QED
    BY <2>1, <2>3, <2>4
<1>2. ASSUME NEW step \in {"keystone", "nova"}, Refused(step) PROVE LoginInv'
  <2>1. login' = [login EXCEPT !.pc = "done", !.status = 400]
    BY <1>2 DEF Refused
  <2> QED
    BY <2>1, Ends DEF LoginInv
<1>3. CASE NovaAnswers
  <2>1. /\ login.pc = "nova" /\ UNCHANGED <<osRegion, keystoneVersion>>
        /\ login' = [login EXCEPT !.pc = "done", !.status = IF login.novaUrl = NoUrl THEN 400 ELSE 101]
    BY <1>3 DEF NovaAnswers
  <2>2. login.novaUrl # NoUrl => login.novaUrl \in Usable(login.catalog)
    BY <2>1 DEF LoginInv
  <2>3. login' \in Logins /\ login'.pc = "done" /\ login'.catalog = login.catalog
        /\ login'.novaUrl = login.novaUrl /\ (login'.status = 101 => login.novaUrl # NoUrl)
    <3> DEFINE n == IF login.novaUrl = NoUrl THEN 400 ELSE 101
    <3>1. n \in Nat /\ (n = 101 => login.novaUrl # NoUrl)
      OBVIOUS
    <3>2. login' = [login EXCEPT !.pc = "done", !.status = n]
      BY <2>1
    <3> HIDE DEF n
    <3> QED
      BY <1>0, <3>1, <3>2 DEF LoginInv, Logins
  <2>4. Usable(login.catalog)' = Usable(login.catalog)
    BY <2>1, <2>3 DEF Usable, Places, Endpoint
  <2> QED
    BY <2>2, <2>3, <2>4 DEF LoginInv, Answered
<1>4. ASSUME NEW catalog \in Catalogs, KeystoneAnswers(catalog) PROVE LoginInv'
  <2>1. login.pc = "keystone" /\ keystoneVersion \in {"v2", "v3"} /\ UNCHANGED <<osRegion, keystoneVersion>>
    BY <1>4 DEF KeystoneAnswers, LoginInv
  <2>2. CASE CatalogBad(catalog)
    <3>1. login' = [login EXCEPT !.pc = "done", !.status = 400]
      BY <1>4, <2>2 DEF KeystoneAnswers
    <3> QED
      BY <3>1, Ends DEF LoginInv
  <2>3. CASE ~CatalogBad(catalog)
    <3> DEFINE url == IF keystoneVersion = "v2" THEN NovaUrlV2(catalog) ELSE NovaUrlV3(catalog)
    <3>1. IF Usable(catalog) = {} THEN url = NoUrl ELSE url \in Usable(catalog)
      <4>1. CASE Usable(catalog) = {}
        BY <2>1, <4>1, NotFound
      <4>2. CASE Usable(catalog) # {}
        BY <2>1, <2>3, <4>2, Found
      <4> QED
        BY <4>1, <4>2
    <3>2. login' = [login EXCEPT !.pc = "nova", !.catalog = catalog, !.novaUrl = url]
      BY <1>4, <2>3 DEF KeystoneAnswers
    <3> HIDE DEF url
    <3>3. url \in Urls
      <4>1. NoUrl \in Urls
        BY DEF NoUrl, Urls
      <4>2. Usable(catalog) \subseteq (1..MaxServices) \X (1..MaxEndpoints)
        BY DEF Usable, Places
      <4>3. 1..MaxServices \subseteq Nat /\ 1..MaxEndpoints \subseteq Nat
        BY DEF LoginAssumption
      <4>4. (1..MaxServices) \X (1..MaxEndpoints) \subseteq Urls
        BY <4>3 DEF Urls
      <4> QED
        BY <3>1, <4>1, <4>2, <4>4
    <3>4. catalog \in Books
      BY DEF Books
    <3>5. login' \in Logins /\ login'.pc = "nova" /\ login'.status = login.status
          /\ login'.catalog = catalog /\ login'.novaUrl = url
      BY <1>0, <3>2, <3>3, <3>4 DEF LoginInv, Logins
    <3>6. Usable(login.catalog)' = Usable(catalog)
      BY <2>1, <3>5 DEF Usable, Places, Endpoint
    <3>7. login.status = 0
      BY <2>1 DEF LoginInv
    <3> QED
      BY <3>1, <3>5, <3>6, <3>7 DEF LoginInv, Answered
  <2> QED
    BY <2>2, <2>3
<1>5. CASE UNCHANGED loginVars
  <2>1. UNCHANGED <<osRegion, keystoneVersion, login>>
    BY <1>5 DEF loginVars
  <2>2. Usable(login.catalog)' = Usable(login.catalog)
    BY <2>1 DEF Usable, Places, Endpoint
  <2> QED
    BY <2>1, <2>2 DEF LoginInv, Answered
<1> QED
  BY <1>1, <1>2, <1>3, <1>4, <1>5 DEF LoginNext

\* A visitor is sent to an endpoint of Nova in the configured region, or refused, for
\* any catalog.
THEOREM InRegion == LoginSpec => []LoginInRegion
<1>1. LoginInit => LoginInv
  BY Starts
<1>2. LoginInv /\ [LoginNext]_loginVars => LoginInv'
  BY LoginAssumption, LoginStep
<1>3. LoginInv => LoginInRegion
  BY DEF LoginInv, Answered, LoginInRegion
<1> QED
  BY <1>1, <1>2, <1>3, PTL DEF LoginSpec

-----------------------------------------------------------------------------
\* Pointers.

Images == [of : Nat \X Nat, time : Nat]
Ops == {"PTR_NEW", "PTR_FREE", "PTR_SET", "PTR_SETNULL"}
Answers == [status : Nat, image : Images]

CursorType ==
    /\ now \in Nat \ {0} /\ life \in Nat \ {0} /\ registered \in BOOLEAN /\ m_ptrId \in Nat \ {0}
    /\ m_cursorMap \in [Ids -> Images] /\ slot \in [Slots -> Nat]
    /\ wire \in Seq(Ops \X Nat)
    /\ cursors \in SUBSET Nat /\ pointer \in Nat /\ shown \in Images
    /\ kept \in [Ids -> Images] /\ request \in [Ids -> Answers]

Stored(id) == m_cursorMap[id] # NoImage

\* An image that may be shown for a number.
Suits(id, image) ==
    \/ ~Stored(id)
    \/ image = m_cursorMap[id]
    \/ image.of[1] \in 1..life - 1 /\ image.time = m_cursorMap[id].time

MapInv ==
    \A id \in Ids : Stored(id) =>
        /\ id < m_ptrId /\ m_cursorMap[id].of = <<life, id>>
        /\ m_cursorMap[id].time # 0 /\ m_cursorMap[id].time <= now

SlotInv ==
    /\ \A s \in Slots : slot[s] # 0 => slot[s] \in Ids /\ Stored(slot[s])
    /\ \A s, t \in Slots : slot[s] # 0 /\ slot[s] = slot[t] => s = t

\* The page has a name for the number, or the message that brings it comes before place i.
Named(id, i) == id \in cursors \/ \E j \in 1..i - 1 : wire[j] = <<"PTR_NEW", id>>
Freed(id, i) == \E j \in 1..i - 1 : wire[j] = <<"PTR_FREE", id>>
Sets(m) == m[1] \in {"PTR_SET", "PTR_SETNULL"}
InSlot(id) == \E s \in Slots : slot[s] = id

WireInv ==
    /\ \A i \in 1..Len(wire) : wire[i][2] < m_ptrId
    /\ \A i \in 1..Len(wire) : wire[i][1] = "PTR_SET" =>
            /\ wire[i][2] \in Ids /\ Named(wire[i][2], i) /\ ~Freed(wire[i][2], i)
            /\ (\A j \in i + 1..Len(wire) : ~Sets(wire[j])) => InSlot(wire[i][2])
    /\ \A s \in Slots : slot[s] # 0 =>
            Named(slot[s], Len(wire) + 1) /\ ~Freed(slot[s], Len(wire) + 1)
    /\ (\A j \in 1..Len(wire) : ~Sets(wire[j])) => pointer = 0 \/ InSlot(pointer)

PageInv ==
    /\ pointer # 0 => pointer \in Ids /\ pointer < m_ptrId
    /\ pointer # 0 /\ request[pointer].status = 0 => Suits(pointer, shown)
    /\ \A id \in Ids : request[id].status # 0 => id < m_ptrId
    /\ \A id \in Ids : request[id].status = 200 =>
            LET image == request[id].image IN
            /\ image.of = <<life, id>> /\ image.time # 0 /\ image.time <= now
            /\ ~Stored(id) \/ image = m_cursorMap[id]
    /\ \A id \in Ids : request[id].status = 304 => Suits(id, kept[id])
    /\ \A id \in Ids : request[id].status \notin {0, 1, 200, 304} => ~Stored(id)

KeptImageInv(id) ==
    kept[id].time # 0 =>
        /\ kept[id].of[1] \in 1..life /\ kept[id].time <= now
        /\ kept[id].of[1] = life => id < m_ptrId /\ (~Stored(id) \/ kept[id] = m_cursorMap[id])
        /\ kept[id].of[1] < life => \A j \in Ids : Stored(j) => kept[id].time <= m_cursorMap[j].time

GoneInv ==
    ~registered => wire = <<>> /\ pointer = 0 /\ \A id \in Ids : request[id].status = 0

CursorInv ==
    /\ CursorType /\ MapInv /\ SlotInv /\ (registered => WireInv) /\ PageInv
    /\ (\A id \in Ids : KeptImageInv(id)) /\ GoneInv

LEMMA ImagesThere == NoImage \in Images /\ NoRequest \in Answers /\ Asked \in Answers
  BY DEF NoImage, Images, NoRequest, Asked, Answers

LEMMA CursorsStart == CursorInit => CursorInv
<1> SUFFICES ASSUME CursorInit PROVE CursorInv
  OBVIOUS
<1>0. NoImage.time = 0 /\ NoRequest.status = 0
  BY DEF NoImage, NoRequest
<1>1. CursorType
  BY ImagesThere DEF CursorInit, CursorType
<1>2. \A id \in Ids : ~Stored(id)
  BY DEF CursorInit, Stored
<1>3. MapInv /\ SlotInv /\ GoneInv
  BY <1>2 DEF CursorInit, MapInv, SlotInv, GoneInv
<1>4. WireInv
  BY DEF CursorInit, WireInv
<1>5. PageInv
  BY <1>0, <1>2 DEF CursorInit, PageInv
<1>6. \A id \in Ids : KeptImageInv(id)
  BY <1>0 DEF CursorInit, KeptImageInv
<1> QED
  BY <1>1, <1>3, <1>4, <1>5, <1>6 DEF CursorInv

LEMMA TickStep == ASSUME CursorInv, Tick PROVE CursorInv'
<1>1. UNCHANGED <<cursorServer, wire, cursorClient>> /\ now' = now + 1
  BY DEF Tick
<1>2. UNCHANGED <<life, registered, m_ptrId, m_cursorMap, slot, wire, cursors, pointer, shown, kept, request>>
  BY <1>1 DEF cursorServer, cursorClient
<1>3. CursorType'
  BY <1>1, <1>2 DEF CursorInv, CursorType
<1>4. \A id \in Ids : /\ m_cursorMap[id].time \in Nat /\ kept[id].time \in Nat
                      /\ request[id].image.time \in Nat
  BY DEF CursorInv, CursorType, Images, Answers
<1>5. now \in Nat
  BY DEF CursorInv, CursorType
<1>6. MapInv' /\ SlotInv' /\ GoneInv'
  BY <1>1, <1>2, <1>4, <1>5 DEF CursorInv, MapInv, SlotInv, GoneInv, Stored
<1>7. registered => WireInv'
  BY <1>2 DEF CursorInv, WireInv, Named, Freed, Sets, InSlot
<1>8. PageInv'
  BY <1>1, <1>2, <1>4, <1>5 DEF CursorInv, PageInv, Stored, Suits
<1>9. (\A id \in Ids : KeptImageInv(id))'
  BY <1>1, <1>2, <1>4, <1>5 DEF CursorInv, KeptImageInv, Stored
<1> QED
  BY <1>2, <1>3, <1>6, <1>7, <1>8, <1>9 DEF CursorInv

LEMMA SessionEndsStep == ASSUME CursorInv, SessionEnds PROVE CursorInv'
<1>1. /\ UNCHANGED <<now, life, m_ptrId, m_cursorMap, slot, kept>> /\ registered' = FALSE
      /\ wire' = <<>> /\ cursors' = {} /\ pointer' = 0 /\ shown' = NoImage
      /\ request' = [id \in Ids |-> NoRequest]
  BY DEF SessionEnds
<1>2. CursorType'
  <2>1. registered' \in BOOLEAN
    BY DEF SessionEnds
  <2>2. wire' \in Seq(Ops \X Nat) /\ cursors' \in SUBSET Nat /\ pointer' \in Nat
    BY <1>1
  <2>3. shown' \in Images /\ request' \in [Ids -> Answers]
    BY <1>1, ImagesThere
  <2> QED
    BY <1>1, <2>1, <2>2, <2>3 DEF CursorInv, CursorType
<1>3. \A id \in Ids : request'[id].status = 0
  BY <1>1 DEF NoRequest
<1>4. MapInv' /\ SlotInv' /\ GoneInv'
  BY <1>1, <1>3 DEF CursorInv, MapInv, SlotInv, GoneInv, Stored
<1>5. PageInv'
  BY <1>1, <1>3 DEF PageInv
<1>6. (\A id \in Ids : KeptImageInv(id))'
  BY <1>1 DEF CursorInv, KeptImageInv, Stored
<1> QED
  BY <1>1, <1>2, <1>4, <1>5, <1>6 DEF CursorInv

LEMMA SessionBeginsStep == ASSUME CursorInv, SessionBegins PROVE CursorInv'
<1>1. /\ UNCHANGED <<now, wire, cursors, pointer, shown, kept, request>>
      /\ ~registered /\ life' = life + 1 /\ m_ptrId' = 1
      /\ m_cursorMap' = [id \in Ids |-> NoImage] /\ slot' = [s \in Slots |-> 0]
  BY DEF SessionBegins, cursorClient
<1>2. CursorType'
  <2>1. registered' \in BOOLEAN
    BY DEF SessionBegins
  <2>2. life' \in Nat \ {0} /\ m_ptrId' \in Nat \ {0}
    BY <1>1 DEF CursorInv, CursorType
  <2>3. m_cursorMap' \in [Ids -> Images] /\ slot' \in [Slots -> Nat]
    BY <1>1, ImagesThere
  <2> QED
    BY <1>1, <2>1, <2>2, <2>3 DEF CursorInv, CursorType
<1>3. wire = <<>> /\ pointer = 0 /\ \A id \in Ids : request[id].status = 0
  BY <1>1 DEF CursorInv, GoneInv
<1>4. \A id \in Ids : ~Stored(id)'
  BY <1>1 DEF Stored
<1>5. MapInv' /\ SlotInv' /\ GoneInv'
  BY <1>1, <1>3, <1>4 DEF MapInv, SlotInv, GoneInv
<1>6. WireInv'
  BY <1>1, <1>3 DEF WireInv
<1>7. PageInv'
  BY <1>1, <1>3 DEF PageInv
<1>8. (\A id \in Ids : KeptImageInv(id))'
  <2> SUFFICES ASSUME NEW id \in Ids PROVE KeptImageInv(id)'
    OBVIOUS
  <2>1. KeptImageInv(id) /\ life \in Nat /\ now \in Nat /\ kept[id] \in Images
    BY DEF CursorInv, CursorType
  <2>2. kept[id].of[1] \in Nat
    BY <2>1 DEF Images
  <2> QED
    BY <1>1, <1>4, <2>1, <2>2 DEF KeptImageInv
<1> QED
  BY <1>2, <1>5, <1>6, <1>7, <1>8 DEF CursorInv

LEMMA AnswerStep == ASSUME CursorInv, NEW id \in Ids, Answer(id) PROVE CursorInv'
<1> DEFINE a == HandleCursorRequest(id, kept[id].time)
<1>1. /\ UNCHANGED <<now, life, registered, m_ptrId, m_cursorMap, slot, wire, cursors, pointer, shown, kept>>
      /\ request[id].status = 1 /\ request' = [request EXCEPT ![id] = a]
  BY DEF Answer, cursorServer
<1>2. registered /\ id < m_ptrId /\ m_cursorMap[id] \in Images /\ kept[id] \in Images /\ KeptImageInv(id)
  BY <1>1 DEF CursorInv, GoneInv, PageInv, CursorType
<1>3. Stored(id) => m_cursorMap[id].time # 0 /\ m_cursorMap[id].of = <<life, id>> /\ m_cursorMap[id].time <= now
  BY DEF CursorInv, MapInv
<1>4. ~Stored(id) => m_cursorMap[id].time = 0
  BY DEF Stored, NoImage
<1>5. a \in Answers /\ a.status \in {200, 304, 404}
  BY <1>2, ImagesThere DEF HandleCursorRequest, Answers
<1>6. a.status = 404 => ~Stored(id)
  BY <1>2, <1>3 DEF HandleCursorRequest
<1>7. a.status = 200 => Stored(id) /\ a.image = m_cursorMap[id]
  BY <1>4 DEF HandleCursorRequest
<1>8. a.status = 304 => Suits(id, kept[id])
  <2>1. CASE a.status = 304 /\ Stored(id)
    <3>1. kept[id].time # 0 /\ m_cursorMap[id].time <= kept[id].time
      BY <2>1 DEF HandleCursorRequest, NotModified
    <3>2. /\ kept[id].of[1] \in 1..life
          /\ kept[id].of[1] = life => kept[id] = m_cursorMap[id]
          /\ kept[id].of[1] < life => kept[id].time <= m_cursorMap[id].time
      BY <1>2, <2>1, <3>1 DEF KeptImageInv
    <3>3. kept[id].time \in Nat /\ m_cursorMap[id].time \in Nat /\ life \in Nat
      BY <1>2 DEF Images, CursorInv, CursorType
    <3>4. CASE kept[id].of[1] = life
      BY <3>2, <3>4 DEF Suits
    <3>5. CASE kept[id].of[1] # life
      <4>1. kept[id].of[1] \in 1..life - 1 /\ kept[id].of[1] < life
        BY <3>2, <3>3, <3>5
      <4>2. kept[id].time = m_cursorMap[id].time
        BY <3>1, <3>2, <3>3, <4>1
      <4> QED
        BY <4>1, <4>2 DEF Suits
    <3> QED
      BY <3>4, <3>5
  <2>2. CASE ~Stored(id)
    BY <2>2 DEF Suits
  <2> QED
    BY <2>1, <2>2
<1> HIDE DEF a
<1>9. CursorType'
  BY <1>1, <1>5 DEF CursorInv, CursorType
<1>10. \A j \in Ids : request'[j] = IF j = id THEN a ELSE request[j]
  BY <1>1 DEF CursorInv, CursorType
<1>11. MapInv' /\ SlotInv' /\ GoneInv'
  BY <1>1, <1>2 DEF CursorInv, MapInv, SlotInv, GoneInv, Stored
<1>12. registered' => WireInv'
  BY <1>1 DEF CursorInv, WireInv, Named, Freed, Sets, InSlot
<1>13. \A j \in Ids : (Stored(j)' <=> Stored(j)) /\ \A i : Suits(j, i)' <=> Suits(j, i')
  BY <1>1 DEF Stored, Suits
<1>14. PageInv'
  <2>1. PageInv
    BY DEF CursorInv
  <2>2. pointer' # 0 => pointer' \in Ids /\ pointer' < m_ptrId'
    BY <1>1, <2>1 DEF PageInv
  <2>3. pointer' # 0 /\ request'[pointer'].status = 0 => Suits(pointer, shown)'
    BY <1>1, <1>5, <1>10, <2>1, <2>2 DEF PageInv, Suits, Stored
  <2>4. \A j \in Ids : request'[j].status # 0 => j < m_ptrId'
    BY <1>1, <1>2, <1>10, <2>1 DEF PageInv
  <2>5. \A j \in Ids : request'[j].status = 200 =>
            LET image == request'[j].image IN
            /\ image.of = <<life', j>> /\ image.time # 0 /\ image.time <= now'
            /\ ~Stored(j)' \/ image = m_cursorMap'[j]
    BY <1>1, <1>3, <1>7, <1>10, <2>1 DEF PageInv, Stored
  <2>6. \A j \in Ids : request'[j].status = 304 => Suits(j, kept[j])'
    BY <1>1, <1>8, <1>10, <2>1 DEF PageInv, Suits, Stored
  <2>7. \A j \in Ids : request'[j].status \notin {0, 1, 200, 304} => ~Stored(j)'
    BY <1>1, <1>5, <1>6, <1>10, <2>1 DEF PageInv, Stored
  <2> QED
    BY <2>2, <2>3, <2>4, <2>5, <2>6, <2>7 DEF PageInv
<1>15. (\A j \in Ids : KeptImageInv(j))'
  BY <1>1 DEF CursorInv, KeptImageInv, Stored
<1> QED
  BY <1>1, <1>9, <1>11, <1>12, <1>14, <1>15 DEF CursorInv

LEMMA ReceiveImageStep == ASSUME CursorInv, NEW id \in Ids, ReceiveImage(id) PROVE CursorInv'
<1> DEFINE image == CASE request[id].status = 200 -> request[id].image
                      [] request[id].status = 304 -> kept[id]
                      [] OTHER -> NoImage
<1>1. /\ UNCHANGED <<now, life, registered, m_ptrId, m_cursorMap, slot, wire, cursors, pointer>>
      /\ request[id].status > 1 /\ request' = [request EXCEPT ![id] = NoRequest]
      /\ kept' = IF request[id].status = 200 THEN [kept EXCEPT ![id] = image] ELSE kept
      /\ shown' = IF pointer = id THEN image ELSE shown
  BY DEF ReceiveImage, cursorServer
<1>2. /\ registered /\ id < m_ptrId /\ m_cursorMap[id] \in Images /\ kept[id] \in Images
      /\ request[id] \in Answers /\ PageInv
  BY <1>1 DEF CursorInv, GoneInv, PageInv, CursorType
<1>3. image \in Images
  BY <1>2, ImagesThere DEF Answers
<1>4. Suits(id, image)
  <2>1. CASE request[id].status = 200
    BY <1>2, <2>1 DEF PageInv, Suits
  <2>2. CASE request[id].status = 304
    BY <1>2, <2>2 DEF PageInv
  <2>3. CASE request[id].status \notin {0, 1, 200, 304}
    BY <1>2, <2>3 DEF PageInv, Suits
  <2>4. request[id].status \in Nat
    BY <1>2 DEF Answers
  <2> QED
    BY <1>1, <2>1, <2>2, <2>3, <2>4
<1>5. request[id].status = 200 => /\ image.of = <<life, id>> /\ image.time # 0 /\ image.time <= now
                                  /\ ~Stored(id) \/ image = m_cursorMap[id]
  BY <1>2 DEF PageInv
<1> HIDE DEF image
<1>6. CursorType'
  BY <1>1, <1>3, ImagesThere DEF CursorInv, CursorType
<1>7. \A j \in Ids : /\ request'[j] = IF j = id THEN NoRequest ELSE request[j]
                     /\ kept'[j] = IF j = id /\ request[id].status = 200 THEN image ELSE kept[j]
  BY <1>1 DEF CursorInv, CursorType
<1>8. NoRequest.status = 0
  BY DEF NoRequest
<1>9. MapInv' /\ SlotInv' /\ GoneInv'
  BY <1>1, <1>2 DEF CursorInv, MapInv, SlotInv, GoneInv, Stored
<1>10. registered' => WireInv'
  BY <1>1 DEF CursorInv, WireInv, Named, Freed, Sets, InSlot
<1>11. PageInv'
  <2>1. pointer' # 0 => pointer' \in Ids /\ pointer' < m_ptrId'
    BY <1>1, <1>2 DEF PageInv
  <2>2. pointer' # 0 /\ request'[pointer'].status = 0 => Suits(pointer, shown)'
    BY <1>1, <1>2, <1>4, <1>7, <2>1 DEF PageInv, Suits, Stored
  <2>3. \A j \in Ids : request'[j].status # 0 => j < m_ptrId'
    BY <1>1, <1>2, <1>7 DEF PageInv
  <2>4. \A j \in Ids : request'[j].status = 200 =>
            LET im == request'[j].image IN
            /\ im.of = <<life', j>> /\ im.time # 0 /\ im.time <= now'
            /\ ~Stored(j)' \/ im = m_cursorMap'[j]
    BY <1>1, <1>2, <1>7, <1>8 DEF PageInv, Stored
  <2>5. \A j \in Ids : request'[j].status = 304 => Suits(j, kept[j])'
    BY <1>1, <1>2, <1>7, <1>8 DEF PageInv, Suits, Stored
  <2>6. \A j \in Ids : request'[j].status \notin {0, 1, 200, 304} => ~Stored(j)'
    BY <1>1, <1>2, <1>7, <1>8 DEF PageInv, Stored
  <2> QED
    BY <2>1, <2>2, <2>3, <2>4, <2>5, <2>6 DEF PageInv
<1>12. (\A j \in Ids : KeptImageInv(j))'
  <2> SUFFICES ASSUME NEW j \in Ids PROVE KeptImageInv(j)'
    OBVIOUS
  <2>1. CASE j = id /\ request[id].status = 200
    <3>1. kept'[j] = image /\ image.of[1] = life /\ life \in Nat \ {0}
      BY <1>5, <1>7, <2>1 DEF CursorInv, CursorType
    <3> QED
      BY <1>1, <1>2, <1>5, <2>1, <3>1 DEF KeptImageInv, Stored
  <2>2. CASE ~(j = id /\ request[id].status = 200)
    <3>1. kept'[j] = kept[j] /\ KeptImageInv(j)
      BY <1>7, <2>2 DEF CursorInv
    <3> QED
      BY <1>1, <3>1 DEF KeptImageInv, Stored
  <2> QED
    BY <2>1, <2>2
<1> QED
  BY <1>1, <1>6, <1>9, <1>10, <1>11, <1>12 DEF CursorInv

\* The session goes on saying things: what it says is appended to the wire.
LEMMA Appended ==
    ASSUME NEW w \in Seq(Ops \X Nat), NEW m \in Seq(Ops \X Nat)
    PROVE  /\ w \o m \in Seq(Ops \X Nat) /\ Len(w \o m) = Len(w) + Len(m)
           /\ \A i \in 1..Len(w) : (w \o m)[i] = w[i]
           /\ \A i \in Len(w) + 1..Len(w) + Len(m) : (w \o m)[i] = m[i - Len(w)]
  OBVIOUS

LEMMA NewPointerStep == ASSUME CursorInv, NEW s \in Slots, NewPointer(s) PROVE CursorInv'
<1>0. PICK id, old, m : id = m_ptrId /\ old = slot[s] /\ m = PointerMessages(id, old)
  OBVIOUS
<1> DEFINE image == [of |-> <<life, id>>, time |-> now]
<1>1. /\ UNCHANGED <<now, life, registered, cursors, pointer, shown, kept, request>>
      /\ registered /\ id \in Ids /\ m_ptrId' = id + 1 /\ slot' = [slot EXCEPT ![s] = id]
      /\ wire' = wire \o m
  BY <1>0 DEF NewPointer, cursorClient, Tell
<1>2. m_cursorMap' = Pointer_Free([m_cursorMap EXCEPT ![id] = image], old)
  BY <1>0 DEF NewPointer, Pointer_New
<1>3. /\ life \in Nat \ {0} /\ now \in Nat \ {0} /\ id \in Nat \ {0} /\ wire \in Seq(Ops \X Nat)
      /\ m_cursorMap \in [Ids -> Images] /\ slot \in [Slots -> Nat] /\ pointer \in Nat
      /\ \A j \in Ids : j \in Nat \ {0}
  BY <1>0 DEF CursorInv, CursorType, Ids, CursorAssumption
<1>4. old \in Nat /\ (old # 0 => old \in Ids /\ Stored(old) /\ old < id)
  BY <1>0, <1>3 DEF CursorInv, SlotInv, MapInv
<1>5. \A j \in Ids : ~Stored(j) \/ j < id
  BY <1>0 DEF CursorInv, MapInv
<1>6. image \in Images /\ image # NoImage /\ image.time = now /\ image.of = <<life, id>>
  BY <1>3 DEF Images, NoImage
<1> HIDE DEF image
<1>7. \A j \in Ids : m_cursorMap'[j] = IF j = old THEN NoImage ELSE IF j = id THEN image ELSE m_cursorMap[j]
  BY <1>1, <1>2, <1>3, <1>4 DEF Pointer_Free
<1>8. m_cursorMap' \in [Ids -> Images]
  BY <1>1, <1>2, <1>3, <1>6, ImagesThere DEF Pointer_Free
<1>9. \A j \in Ids : Stored(j)' <=> (j # old /\ (j = id \/ Stored(j)))
  BY <1>4, <1>6, <1>7 DEF Stored
<1>10. /\ m \in Seq(Ops \X Nat) /\ m[1] = <<"PTR_NEW", id>>
       /\ old = 0 => Len(m) = 2 /\ m[2] = <<"PTR_SET", id>>
       /\ old # 0 => Len(m) = 3 /\ m[2] = <<"PTR_FREE", old>> /\ m[3] = <<"PTR_SET", id>>
  <2>1. CASE old = 0
    BY <1>0, <1>3, <2>1 DEF PointerMessages, Ops
  <2>2. CASE old # 0
    BY <1>0, <1>3, <1>4, <2>2 DEF PointerMessages, Ops
  <2> QED
    BY <2>1, <2>2
<1>11. PICK n \in Nat, last \in Nat :
          n = Len(wire) /\ last = Len(wire') /\ last = IF old = 0 THEN n + 2 ELSE n + 3
  <2>1. Len(wire') = Len(wire) + Len(m) /\ Len(wire) \in Nat
    BY <1>1, <1>3, <1>10, Appended
  <2>2. Len(wire') = IF old = 0 THEN Len(wire) + 2 ELSE Len(wire) + 3
    BY <1>10, <2>1
  <2>3. Len(wire') \in Nat
    BY <2>1, <2>2
  <2> QED
    BY <2>1, <2>2, <2>3
<1>12. \A i \in 1..n : wire'[i] = wire[i]
  BY <1>1, <1>3, <1>10, <1>11, Appended
<1>13. \A i \in n + 1..last : wire'[i] = m[i - n]
  <2>1. \A i \in n + 1..n + Len(m) : wire'[i] = m[i - n]
    BY <1>1, <1>3, <1>10, <1>11, Appended
  <2>2. last = n + Len(m)
    BY <1>10, <1>11
  <2> QED
    BY <2>1, <2>2
<1>14. wire' \in Seq(Ops \X Nat)
  BY <1>1, <1>3, <1>10, Appended
<1>15. /\ wire'[n + 1] = <<"PTR_NEW", id>> /\ wire'[last] = <<"PTR_SET", id>>
       /\ old # 0 => wire'[n + 2] = <<"PTR_FREE", old>>
  <2>1. CASE old = 0
    <3>1. n + 1 \in n + 1..last /\ n + 2 \in n + 1..last /\ last = n + 2
          /\ (n + 1) - n = 1 /\ (n + 2) - n = 2
      BY <1>11, <2>1
    <3> QED
      BY <1>10, <1>13, <2>1, <3>1
  <2>2. CASE old # 0
    <3>1. n + 1 \in n + 1..last /\ n + 2 \in n + 1..last /\ n + 3 \in n + 1..last
          /\ last = n + 3 /\ (n + 1) - n = 1 /\ (n + 2) - n = 2 /\ (n + 3) - n = 3
      BY <1>11, <2>2
    <3> QED
      BY <1>10, <1>13, <2>2, <3>1
  <2> QED
    BY <2>1, <2>2
<1>16. \A i \in 1..last : \/ i \in 1..n /\ wire'[i] = wire[i]
                          \/ i = n + 1 \/ i = last
                          \/ old # 0 /\ i = n + 2 /\ i # last
  BY <1>11, <1>12
<1>17. CursorType'
  <2>1. slot' \in [Slots -> Nat] /\ m_ptrId' \in Nat \ {0}
    BY <1>1, <1>3
  <2> QED
    BY <1>1, <1>8, <1>14, <2>1 DEF CursorInv, CursorType
<1>18. slot'[s] = id /\ \A t \in Slots : t # s => slot'[t] = slot[t]
  BY <1>1, <1>3
<1>19. MapInv'
  <2> SUFFICES ASSUME NEW j \in Ids, Stored(j)'
               PROVE  /\ j < m_ptrId' /\ m_cursorMap'[j].of = <<life', j>>
                      /\ m_cursorMap'[j].time # 0 /\ m_cursorMap'[j].time <= now'
    BY DEF MapInv
  <2>1. CASE j = id
    BY <1>1, <1>3, <1>4, <1>6, <1>7, <2>1
  <2>2. CASE j # id
    <3>1. Stored(j) /\ m_cursorMap'[j] = m_cursorMap[j]
      BY <1>7, <1>9, <2>2
    <3> QED
      <4>1. /\ j < id /\ m_cursorMap[j].of = <<life, j>>
            /\ m_cursorMap[j].time # 0 /\ m_cursorMap[j].time <= now
        BY <1>0, <3>1 DEF CursorInv, MapInv
      <4>2. j < id + 1
        BY <1>3, <4>1
      <4> QED
        BY <1>1, <3>1, <4>1, <4>2
  <2> QED
    BY <2>1, <2>2
<1>20. SlotInv'
  <2>1. \A t \in Slots : slot'[t] # 0 => slot'[t] \in Ids /\ Stored(slot[t])'
    <3> SUFFICES ASSUME NEW t \in Slots, slot'[t] # 0 PROVE slot'[t] \in Ids /\ Stored(slot[t])'
      BY DEF Stored
    <3>1. CASE t = s
      BY <1>1, <1>3, <1>4, <1>9, <1>18, <3>1 DEF Stored
    <3>2. CASE t # s
      <4>1. slot[t] \in Ids /\ Stored(slot[t]) /\ slot[t] # old
        BY <1>0, <1>18, <3>2 DEF CursorInv, SlotInv
      <4>2. \A j \in Ids : m_cursorMap'[j] # NoImage <=> (j # old /\ (j = id \/ Stored(j)))
        BY <1>9 DEF Stored
      <4> QED
        BY <1>9, <1>18, <3>2, <4>1
    <3> QED
      BY <3>1, <3>2
  <2>2. \A t, u \in Slots : slot'[t] # 0 /\ slot'[t] = slot'[u] => t = u
    BY <1>3, <1>5, <1>18 DEF CursorInv, SlotInv
  <2> QED
    BY <2>1, <2>2 DEF SlotInv
<1>21. WireInv'
  <2>0. WireInv
    BY <1>1 DEF CursorInv
  <2>1. \A i \in 1..n : wire[i][2] < id /\ wire[i][2] \in Nat
    <3> SUFFICES ASSUME NEW i \in 1..n PROVE wire[i][2] < id /\ wire[i][2] \in Nat
      OBVIOUS
    <3>1. wire[i] \in Ops \X Nat
      BY <1>3, <1>11
    <3> QED
      BY <1>0, <1>11, <2>0, <3>1 DEF WireInv
  <2>2. \A i \in 1..last : wire'[i][2] < m_ptrId'
    <3> SUFFICES ASSUME NEW i \in 1..last PROVE wire'[i][2] < id + 1
      BY <1>1
    <3>1. CASE i \in 1..n /\ wire'[i] = wire[i]
      <4>1. wire'[i][2] \in Nat /\ wire'[i][2] < id
        BY <2>1, <3>1
      <4>2. id \in Nat
        BY <1>3
      <4> QED
        BY <4>1, <4>2
    <3>2. CASE i = n + 1 \/ i = last
      BY <1>3, <1>15, <3>2
    <3>3. CASE old # 0 /\ i = n + 2
      BY <1>3, <1>4, <1>15, <3>3
    <3> QED
      BY <1>16, <3>1, <3>2, <3>3
  \* The new number is named when it is set, and not freed.
  <2>3. \A i \in Nat : i > n + 1 => \E j \in 1..i - 1 : wire'[j] = <<"PTR_NEW", id>>
    <3> SUFFICES ASSUME NEW i \in Nat, i > n + 1 PROVE \E j \in 1..i - 1 : wire'[j] = <<"PTR_NEW", id>>
      OBVIOUS
    <3> QED
      BY <1>11, <1>15
  <2>4. \A i \in 1..last + 1 : \A j \in 1..i - 1 : wire'[j] # <<"PTR_FREE", id>>
    <3> SUFFICES ASSUME NEW j \in 1..last PROVE wire'[j] # <<"PTR_FREE", id>>
      BY <1>11
    <3> QED
      <4>1. CASE j \in 1..n /\ wire'[j] = wire[j]
        BY <1>3, <2>1, <4>1
      <4>2. CASE j = n + 1 \/ j = last
        BY <1>15, <4>2
      <4>3. CASE old # 0 /\ j = n + 2
        BY <1>3, <1>4, <1>15, <4>3
      <4> QED
        BY <1>16, <4>1, <4>2, <4>3
  \* What held of a number other than the old one, at its place, holds still.
  <2>5. \A x, i : Named(x, i) /\ i \in 1..n + 1 => \A k \in i..last + 1 :
            x \in cursors' \/ \E j \in 1..k - 1 : wire'[j] = <<"PTR_NEW", x>>
    <3> SUFFICES ASSUME NEW x, NEW i \in 1..n + 1, NEW k \in i..last + 1, NEW j \in 1..i - 1,
                        wire[j] = <<"PTR_NEW", x>>
                 PROVE  j \in 1..k - 1 /\ wire'[j] = <<"PTR_NEW", x>>
      BY <1>1 DEF Named
    <3> QED
      BY <1>11, <1>12
  <2>6. \A x, i : ~Freed(x, i) /\ i \in 1..n + 1 => \A j \in 1..i - 1 : wire'[j] # <<"PTR_FREE", x>>
    <3> SUFFICES ASSUME NEW x, NEW i \in 1..n + 1, NEW j \in 1..i - 1
                 PROVE  j \in 1..n /\ wire'[j] = wire[j]
      BY DEF Freed
    <3> QED
      BY <1>11, <1>12
  <2>7. \A i \in 1..last : wire'[i][1] = "PTR_SET" =>
            /\ wire'[i][2] \in Ids /\ Named(wire[i][2], i)' /\ ~Freed(wire[i][2], i)'
            /\ (\A j \in i + 1..last : ~Sets(wire'[j])) => InSlot(wire[i][2])'
    <3> SUFFICES ASSUME NEW i \in 1..last, wire'[i][1] = "PTR_SET"
                 PROVE  /\ wire'[i][2] \in Ids
                        /\ wire'[i][2] \in cursors' \/ \E j \in 1..i - 1 : wire'[j] = <<"PTR_NEW", wire'[i][2]>>
                        /\ \A j \in 1..i - 1 : wire'[j] # <<"PTR_FREE", wire'[i][2]>>
                        /\ (\A j \in i + 1..last : ~Sets(wire'[j])) => \E t \in Slots : slot'[t] = wire'[i][2]
      BY DEF Named, Freed, InSlot
    <3>1. CASE i <= n
      <4>1. wire'[i] = wire[i] /\ i \in 1..n
        BY <1>11, <1>12, <3>1
      <4>2. wire[i][2] \in Ids /\ Named(wire[i][2], i) /\ ~Freed(wire[i][2], i)
        BY <1>11, <2>0, <4>1 DEF WireInv
      <4>3. Sets(wire'[last]) /\ last \in i + 1..last
        BY <1>10, <1>11, <1>15, <4>1 DEF Sets
      <4>4. i \in i..last + 1 /\ i \in 1..n + 1
        BY <1>11, <4>1
      <4>5. wire[i][2] \in cursors' \/ \E j \in 1..i - 1 : wire'[j] = <<"PTR_NEW", wire[i][2]>>
        BY <2>5, <4>2, <4>4
      <4>6. \A j \in 1..i - 1 : wire'[j] # <<"PTR_FREE", wire[i][2]>>
        BY <2>6, <4>2, <4>4
      <4> QED
        BY <4>1, <4>2, <4>3, <4>5, <4>6
    <3>2. CASE i = last
      <4>1. wire'[i] = <<"PTR_SET", id>> /\ i > n + 1 /\ i \in Nat
        BY <1>11, <1>15, <3>2
      <4>2. wire'[i][2] = id
        BY <4>1
      <4>3. \E j \in 1..i - 1 : wire'[j] = <<"PTR_NEW", id>>
        BY <2>3, <4>1
      <4>4. \A j \in 1..i - 1 : wire'[j] # <<"PTR_FREE", id>>
        BY <1>11, <2>4
      <4> QED
        BY <1>1, <1>18, <4>2, <4>3, <4>4
    <3>3. i # n + 1 /\ ~(old # 0 /\ i = n + 2)
      BY <1>15
    <3> QED
      BY <1>16, <3>1, <3>2, <3>3
  <2>8. \A t \in Slots : slot'[t] # 0 => Named(slot[t], Len(wire) + 1)' /\ ~Freed(slot[t], Len(wire) + 1)'
    <3> SUFFICES ASSUME NEW t \in Slots, slot'[t] # 0
                 PROVE  /\ slot'[t] \in cursors' \/ \E j \in 1..last : wire'[j] = <<"PTR_NEW", slot'[t]>>
                        /\ \A j \in 1..last : wire'[j] # <<"PTR_FREE", slot'[t]>>
      <4>1. (Len(wire') + 1) - 1 = last
        BY <1>11
      <4> QED
        BY <4>1 DEF Named, Freed
    <3>1. CASE t = s
      BY <1>11, <1>15, <1>18, <2>4, <3>1
    <3>2. CASE t # s
      <4>1. slot'[t] = slot[t] /\ slot[t] # 0 /\ slot[t] # old
        BY <1>0, <1>18, <3>2 DEF CursorInv, SlotInv
      <4>2. Named(slot[t], n + 1) /\ ~Freed(slot[t], n + 1)
        BY <1>11, <2>0, <4>1 DEF WireInv
      <4>3. \A j \in 1..n : wire'[j] # <<"PTR_FREE", slot[t]>>
        BY <1>11, <1>12, <4>2 DEF Freed
      <4>4. slot[t] \in cursors' \/ \E j \in 1..last : wire'[j] = <<"PTR_NEW", slot[t]>>
        <5>1. n + 1 \in 1..n + 1 /\ last + 1 \in n + 1..last + 1 /\ (last + 1) - 1 = last
          BY <1>11
        <5> QED
          BY <2>5, <4>2, <5>1
      <4>5. \A j \in 1..last : wire'[j] # <<"PTR_FREE", slot[t]>>
        BY <1>11, <1>15, <1>16, <4>1, <4>3
      <4> QED
        BY <4>1, <4>4, <4>5
    <3> QED
      BY <3>1, <3>2
  <2>9. ~(\A j \in 1..last : ~Sets(wire'[j]))
    <3>1. Sets(wire'[last]) /\ last \in 1..last
      BY <1>10, <1>11, <1>15 DEF Sets
    <3> QED
      BY <3>1
  <2> QED
    <3>1. last = Len(wire')
      BY <1>11
    <3> QED
      BY <2>2, <2>7, <2>8, <2>9, <3>1 DEF WireInv
<1>22. PageInv'
  <2>0. PageInv /\ MapInv
    BY DEF CursorInv
  <2>1. \A j \in Ids : j < id /\ Stored(j)' => Stored(j) /\ m_cursorMap'[j] = m_cursorMap[j]
    BY <1>3, <1>7, <1>9
  <2>2. pointer' # 0 => pointer' \in Ids /\ pointer' < m_ptrId' /\ pointer < id
    BY <1>0, <1>1, <1>3, <2>0 DEF PageInv
  <2>3. pointer' # 0 /\ request'[pointer'].status = 0 => Suits(pointer, shown)'
    BY <1>1, <2>0, <2>1, <2>2 DEF PageInv, Suits
  <2>4. \A j \in Ids : request[j].status # 0 => j < id /\ j < m_ptrId'
    <3> SUFFICES ASSUME NEW j \in Ids, request[j].status # 0 PROVE j < id /\ j < m_ptrId'
      OBVIOUS
    <3>1. j < id
      BY <1>0, <2>0 DEF PageInv
    <3>2. j \in Nat /\ id \in Nat /\ m_ptrId' = id + 1
      BY <1>1, <1>3
    <3> QED
      BY <3>1, <3>2
  <2>5. \A j \in Ids : request'[j].status = 200 =>
            LET im == request'[j].image IN
            /\ im.of = <<life', j>> /\ im.time # 0 /\ im.time <= now'
            /\ ~Stored(j)' \/ im = m_cursorMap'[j]
    BY <1>1, <2>0, <2>1, <2>4 DEF PageInv
  <2>6. \A j \in Ids : request'[j].status = 304 => Suits(j, kept[j])'
    <3> SUFFICES ASSUME NEW j \in Ids, request[j].status = 304 PROVE Suits(j, kept[j])'
      BY <1>1 DEF Suits, Stored
    <3>1. j < id /\ Suits(j, kept[j])
      BY <2>0, <2>4 DEF PageInv
    <3> QED
      BY <1>1, <2>1, <3>1 DEF Suits
  <2>7. \A j \in Ids : request'[j].status \notin {0, 1, 200, 304} => ~Stored(j)'
    BY <1>1, <2>0, <2>1, <2>4 DEF PageInv
  <2> QED
    BY <1>1, <2>2, <2>3, <2>4, <2>5, <2>6, <2>7 DEF PageInv
<1>23. (\A j \in Ids : KeptImageInv(j))'
  <2> SUFFICES ASSUME NEW j \in Ids, kept[j].time # 0
               PROVE  /\ kept[j].of[1] \in 1..life /\ kept[j].time <= now
                      /\ kept[j].of[1] = life => j < m_ptrId' /\ (~Stored(j)' \/ kept[j] = m_cursorMap'[j])
                      /\ kept[j].of[1] < life =>
                            \A k \in Ids : Stored(k)' => kept[j].time <= m_cursorMap'[k].time
    BY <1>1 DEF KeptImageInv, Stored
  <2>1. /\ kept[j].of[1] \in 1..life /\ kept[j].time <= now
        /\ kept[j].of[1] = life => j < id /\ (~Stored(j) \/ kept[j] = m_cursorMap[j])
        /\ kept[j].of[1] < life => \A k \in Ids : Stored(k) => kept[j].time <= m_cursorMap[k].time
    BY <1>0 DEF CursorInv, KeptImageInv
  <2>2. kept[j].of[1] = life => j < m_ptrId' /\ (~Stored(j)' \/ kept[j] = m_cursorMap'[j])
    BY <1>1, <1>3, <1>7, <1>9, <2>1
  <2>3. kept[j].of[1] < life => \A k \in Ids : Stored(k)' => kept[j].time <= m_cursorMap'[k].time
    BY <1>6, <1>7, <1>9, <2>1
  <2> QED
    BY <2>1, <2>2, <2>3
<1>24. GoneInv'
  BY <1>1 DEF GoneInv
<1> QED
  BY <1>17, <1>19, <1>20, <1>21, <1>22, <1>23, <1>24 DEF CursorInv

\* One message more, that sets a pointer that is in its slot, or none.
LEMMA OneMore ==
    ASSUME CursorInv, registered, NEW c \in Ops \X Nat, wire' = wire \o <<c>>, c[2] < m_ptrId, Sets(c),
           c[1] = "PTR_SET" => c[2] # 0 /\ InSlot(c[2]),
           UNCHANGED <<now, life, registered, m_ptrId, m_cursorMap, slot, cursors, pointer, shown, kept, request>>
    PROVE  CursorInv'
<1>0. CursorType /\ WireInv /\ SlotInv
  BY DEF CursorInv
<1>1. /\ wire' \in Seq(Ops \X Nat) /\ Len(wire') = Len(wire) + 1 /\ Len(wire) \in Nat
      /\ \A i \in 1..Len(wire) : wire'[i] = wire[i]
      /\ wire'[Len(wire) + 1] = c
  <2>1. wire \in Seq(Ops \X Nat) /\ Len(wire) \in Nat
    BY <1>0 DEF CursorType
  <2> DEFINE m == <<c>>
  <2>2. m \in Seq(Ops \X Nat) /\ Len(m) = 1 /\ m[1] = c
    OBVIOUS
  <2>3. wire' = wire \o m
    OBVIOUS
  <2> HIDE DEF m
  <2>4. /\ wire' \in Seq(Ops \X Nat) /\ Len(wire') = Len(wire) + 1
        /\ \A i \in 1..Len(wire) : wire'[i] = wire[i]
    BY <2>1, <2>2, <2>3, Appended
  <2>5. wire'[Len(wire) + 1] = m[Len(wire) + 1 - Len(wire)]
    <3>1. Len(wire) + 1 \in Len(wire) + 1..Len(wire) + Len(m)
      BY <2>1, <2>2
    <3> QED
      BY <2>1, <2>2, <2>3, <3>1, Appended
  <2>6. Len(wire) + 1 - Len(wire) = 1
    BY <2>1
  <2> QED
    BY <2>1, <2>2, <2>4, <2>5, <2>6
<1>2. PICK n \in Nat : n = Len(wire) /\ Len(wire') = n + 1
  BY <1>1
<1>3. \A i \in 1..n + 1 : (i \in 1..n /\ wire'[i] = wire[i]) \/ (i = n + 1 /\ wire'[i] = c)
  BY <1>1, <1>2
<1>4. CursorType'
  BY <1>0, <1>1 DEF CursorType
<1>5. MapInv' /\ SlotInv' /\ PageInv' /\ (\A j \in Ids : KeptImageInv(j))' /\ GoneInv'
  BY DEF CursorInv, MapInv, SlotInv, PageInv, KeptImageInv, GoneInv, Stored, Suits
<1>6. \A x : /\ Named(x, n + 1) => x \in cursors' \/ \E j \in 1..n : wire'[j] = <<"PTR_NEW", x>>
             /\ ~Freed(x, n + 1) => \A j \in 1..n : wire'[j] # <<"PTR_FREE", x>>
  <2> SUFFICES ASSUME NEW x
               PROVE  /\ Named(x, n + 1) => x \in cursors' \/ \E j \in 1..n : wire'[j] = <<"PTR_NEW", x>>
                      /\ ~Freed(x, n + 1) => \A j \in 1..n : wire'[j] # <<"PTR_FREE", x>>
    OBVIOUS
  <2>1. (n + 1) - 1 = n
    BY <1>2
  <2>2. \A j \in 1..n : wire'[j] = wire[j]
    BY <1>1, <1>2
  <2> QED
    BY <2>1, <2>2 DEF Named, Freed
<1>7. /\ c \notin {<<"PTR_FREE", x>> : x \in Nat}
      /\ c[1] = "PTR_SET" => c[2] \in Ids /\ Named(c[2], n + 1) /\ ~Freed(c[2], n + 1)
  BY <1>0, <1>2 DEF Sets, InSlot, WireInv, SlotInv
<1>8. WireInv'
  <2>1. \A i \in 1..Len(wire') : wire'[i][2] < m_ptrId'
    BY <1>0, <1>2, <1>3 DEF WireInv
  <2>2. \A i \in 1..Len(wire') : wire'[i][1] = "PTR_SET" =>
            /\ wire'[i][2] \in Ids /\ Named(wire[i][2], i)' /\ ~Freed(wire[i][2], i)'
            /\ (\A j \in i + 1..Len(wire') : ~Sets(wire'[j])) => InSlot(wire[i][2])'
    <3> SUFFICES ASSUME NEW i \in 1..n + 1, wire'[i][1] = "PTR_SET"
                 PROVE  /\ wire'[i][2] \in Ids
                        /\ wire'[i][2] \in cursors' \/ \E j \in 1..i - 1 : wire'[j] = <<"PTR_NEW", wire'[i][2]>>
                        /\ \A j \in 1..i - 1 : wire'[j] # <<"PTR_FREE", wire'[i][2]>>
                        /\ (\A j \in i + 1..n + 1 : ~Sets(wire'[j])) => \E t \in Slots : slot'[t] = wire'[i][2]
      BY <1>2 DEF Named, Freed, InSlot
    <3>1. CASE i \in 1..n /\ wire'[i] = wire[i]
      <4>1. wire[i][2] \in Ids /\ Named(wire[i][2], i) /\ ~Freed(wire[i][2], i)
        BY <1>0, <1>2, <3>1 DEF WireInv
      <4>2. \A j \in 1..i - 1 : j \in 1..n /\ wire'[j] = wire[j]
        BY <1>1, <1>2, <3>1
      <4>3. Sets(wire'[n + 1]) /\ n + 1 \in i + 1..n + 1
        BY <1>1, <1>2, <3>1
      <4> QED
        BY <3>1, <4>1, <4>2, <4>3 DEF Named, Freed
    <3>2. CASE i = n + 1 /\ wire'[i] = c
      <4>1. c[1] = "PTR_SET"
        BY <3>2
      <4>2. (n + 1) - 1 = n
        BY <1>2
      <4> QED
        BY <1>6, <1>7, <3>2, <4>1, <4>2 DEF InSlot
    <3> QED
      BY <1>3, <3>1, <3>2
  <2>3. \A t \in Slots : slot'[t] # 0 => Named(slot[t], Len(wire) + 1)' /\ ~Freed(slot[t], Len(wire) + 1)'
    <3> SUFFICES ASSUME NEW t \in Slots, slot[t] # 0
                 PROVE  /\ slot[t] \in cursors' \/ \E j \in 1..n + 1 : wire'[j] = <<"PTR_NEW", slot[t]>>
                        /\ \A j \in 1..n + 1 : wire'[j] # <<"PTR_FREE", slot[t]>>
      <4>1. (Len(wire') + 1) - 1 = n + 1
        BY <1>2
      <4> QED
        BY <4>1 DEF Named, Freed
    <3>1. Named(slot[t], n + 1) /\ ~Freed(slot[t], n + 1) /\ slot[t] \in Nat
      BY <1>0, <1>2 DEF WireInv, CursorType
    <3>2. \A j \in 1..n : j \in 1..n + 1
      OBVIOUS
    <3>3. \A j \in 1..n + 1 : j \in 1..n \/ wire'[j] = c
      BY <1>3
    <3> QED
      BY <1>6, <1>7, <3>1, <3>2, <3>3
  <2>4. ~(\A j \in 1..Len(wire') : ~Sets(wire'[j]))
    <3>1. n + 1 \in 1..Len(wire') /\ Sets(wire'[n + 1])
      BY <1>1, <1>2
    <3> QED
      BY <3>1
  <2> QED
    BY <2>1, <2>2, <2>3, <2>4 DEF WireInv
<1> QED
  BY <1>4, <1>5, <1>8 DEF CursorInv

LEMMA SetStep == ASSUME CursorInv, NEW s \in Slots, Pointer_Set(s) PROVE CursorInv'
<1>1. PICK c : c = <<"PTR_SET", slot[s]>>
  OBVIOUS
<1>2. /\ registered /\ slot[s] # 0 /\ wire' = wire \o <<c>>
      /\ UNCHANGED <<now, life, registered, m_ptrId, m_cursorMap, slot, cursors, pointer, shown, kept, request>>
  BY <1>1 DEF Pointer_Set, Tell, cursorServer, cursorClient
<1>3. slot[s] \in Nat /\ slot[s] < m_ptrId
  BY <1>2 DEF CursorInv, CursorType, SlotInv, MapInv
<1>4. c \in Ops \X Nat /\ c[1] = "PTR_SET" /\ c[2] = slot[s] /\ Sets(c) /\ InSlot(slot[s])
  BY <1>1, <1>3 DEF Ops, Sets, InSlot
<1> QED
  BY <1>2, <1>3, <1>4, OneMore

LEMMA SetNullStep == ASSUME CursorInv, Pointer_SetNull PROVE CursorInv'
<1>1. PICK c : c = <<"PTR_SETNULL", 0>>
  OBVIOUS
<1>2. /\ registered /\ wire' = wire \o <<c>>
      /\ UNCHANGED <<now, life, registered, m_ptrId, m_cursorMap, slot, cursors, pointer, shown, kept, request>>
  BY <1>1 DEF Pointer_SetNull, Tell, cursorServer, cursorClient
<1>3. 0 < m_ptrId
  BY DEF CursorInv, CursorType
<1>4. c \in Ops \X Nat /\ c[1] = "PTR_SETNULL" /\ c[2] = 0 /\ Sets(c)
  BY <1>1 DEF Ops, Sets
<1> QED
  BY <1>2, <1>3, <1>4, OneMore

LEMMA ProcessStep == ASSUME CursorInv, ProcessPointerMessage PROVE CursorInv'
<1>0. CursorType /\ MapInv /\ SlotInv /\ PageInv
  BY DEF CursorInv
<1>1. /\ wire # <<>> /\ wire' = Tail(wire)
      /\ UNCHANGED <<now, life, registered, m_ptrId, m_cursorMap, slot, kept>>
  BY DEF ProcessPointerMessage, cursorServer
<1>2. registered /\ WireInv
  BY <1>1 DEF CursorInv, GoneInv
<1>3. /\ Len(wire) \in Nat \ {0} /\ Len(wire') = Len(wire) - 1 /\ wire' \in Seq(Ops \X Nat)
      /\ \A i \in 1..Len(wire) - 1 : wire'[i] = wire[i + 1]
      /\ Head(wire) = wire[1] /\ wire[1] \in Ops \X Nat
  BY <1>0, <1>1 DEF CursorType
<1>4. PICK n \in Nat, op \in Ops, id \in Nat :
          Len(wire') = n /\ Len(wire) = n + 1 /\ wire[1] = <<op, id>> /\ op = Head(wire)[1] /\ id = Head(wire)[2]
  BY <1>3
<1>5. \A i \in 1..n : wire'[i] = wire[i + 1] /\ i + 1 \in 1..n + 1
  BY <1>3, <1>4
<1>6. /\ op = "PTR_NEW" => cursors' = cursors \union {id} /\ UNCHANGED <<pointer, shown, request>>
      /\ op = "PTR_FREE" => cursors' = cursors \ {id} /\ UNCHANGED <<pointer, shown, request>>
      /\ op = "PTR_SET" => SetPointer(id) /\ UNCHANGED cursors
      /\ op = "PTR_SETNULL" => pointer' = 0 /\ shown' = NoImage /\ UNCHANGED <<cursors, request>>
  BY <1>4 DEF ProcessPointerMessage
<1>7. op = "PTR_SET" => id \in Ids /\ id \in cursors /\ id < m_ptrId
                        /\ ((\A j \in 2..n + 1 : ~Sets(wire[j])) => InSlot(id))
  <2> SUFFICES ASSUME op = "PTR_SET"
               PROVE  id \in Ids /\ id \in cursors /\ id < m_ptrId
                      /\ ((\A j \in 2..n + 1 : ~Sets(wire[j])) => InSlot(id))
    OBVIOUS
  <2>1. 1 \in 1..Len(wire) /\ wire[1][1] = "PTR_SET" /\ wire[1][2] = id
    BY <1>4
  <2>2. id \in Ids /\ Named(id, 1) /\ id < m_ptrId /\ ((\A j \in 1 + 1..Len(wire) : ~Sets(wire[j])) => InSlot(id))
    BY <1>2, <2>1 DEF WireInv
  <2> QED
    BY <1>4, <2>2 DEF Named
<1>8. \/ UNCHANGED <<pointer, shown, request>>
      \/ op = "PTR_SETNULL" /\ pointer' = 0 /\ shown' = NoImage /\ UNCHANGED request
      \/ op = "PTR_SET" /\ pointer' = id /\ shown' = NoImage /\ request' = [request EXCEPT ![id] = Asked]
  BY <1>6, <1>7 DEF SetPointer, Ops
<1>9. CursorType'
  <2>1. cursors' \in SUBSET Nat
    BY <1>0, <1>6 DEF CursorType, Ops
  <2>2. pointer' \in Nat /\ shown' \in Images
    BY <1>0, <1>8, ImagesThere DEF CursorType
  <2>3. request' \in [Ids -> Answers]
    BY <1>0, <1>8, ImagesThere DEF CursorType
  <2> QED
    BY <1>0, <1>1, <1>3, <2>1, <2>2, <2>3 DEF CursorType
<1>10. MapInv' /\ SlotInv' /\ GoneInv' /\ (\A j \in Ids : KeptImageInv(j))'
  BY <1>1, <1>2 DEF CursorInv, MapInv, SlotInv, GoneInv, KeptImageInv, Stored
<1>11. \A x, i : i \in 1..n + 1 /\ Named(x, i + 1) /\ ~Freed(x, i + 1) =>
          /\ x \in cursors' \/ \E j \in 1..i - 1 : wire'[j] = <<"PTR_NEW", x>>
          /\ \A j \in 1..i - 1 : wire'[j] # <<"PTR_FREE", x>>
  <2> SUFFICES ASSUME NEW x, NEW i \in 1..n + 1, Named(x, i + 1), ~Freed(x, i + 1)
               PROVE  /\ x \in cursors' \/ \E j \in 1..i - 1 : wire'[j] = <<"PTR_NEW", x>>
                      /\ \A j \in 1..i - 1 : wire'[j] # <<"PTR_FREE", x>>
    OBVIOUS
  <2>0. (i + 1) - 1 = i /\ 1 \in 1..i
    OBVIOUS
  <2>1. \A j \in 1..i : wire[j] # <<"PTR_FREE", x>>
    BY <2>0 DEF Freed
  <2>2. x \in cursors \/ \E j \in 1..i : wire[j] = <<"PTR_NEW", x>>
    BY <2>0 DEF Named
  <2>3. \A j \in 1..i - 1 : wire'[j] # <<"PTR_FREE", x>>
    <3> SUFFICES ASSUME NEW j \in 1..i - 1 PROVE wire'[j] # <<"PTR_FREE", x>>
      OBVIOUS
    <3>1. j \in 1..n /\ j + 1 \in 1..i
      OBVIOUS
    <3> QED
      BY <1>5, <2>1, <3>1
  <2>4. x \in cursors \/ <<op, id>> = <<"PTR_NEW", x>> => x \in cursors'
    <3>1. <<op, id>> # <<"PTR_FREE", x>>
      BY <1>4, <2>0, <2>1
    <3> QED
      BY <1>6, <3>1 DEF Ops
  <2>5. ASSUME NEW j \in 1..i, wire[j] = <<"PTR_NEW", x>>
        PROVE  x \in cursors' \/ \E k \in 1..i - 1 : wire'[k] = <<"PTR_NEW", x>>
    <3>1. CASE j = 1
      BY <1>4, <2>4, <2>5, <3>1
    <3>2. CASE j # 1
      <4>1. j - 1 \in 1..i - 1 /\ j - 1 \in 1..n /\ (j - 1) + 1 = j
        BY <3>2
      <4> QED
        BY <1>5, <2>5, <4>1
    <3> QED
      BY <3>1, <3>2
  <2> QED
    BY <2>2, <2>3, <2>4, <2>5
<1>12. WireInv'
  <2>1. \A i \in 1..Len(wire') : wire'[i][2] < m_ptrId'
    BY <1>1, <1>2, <1>4, <1>5 DEF WireInv
  <2>2. \A i \in 1..Len(wire') : wire'[i][1] = "PTR_SET" =>
            /\ wire'[i][2] \in Ids /\ Named(wire[i][2], i)' /\ ~Freed(wire[i][2], i)'
            /\ (\A j \in i + 1..Len(wire') : ~Sets(wire'[j])) => InSlot(wire[i][2])'
    <3> SUFFICES ASSUME NEW i \in 1..n, wire'[i][1] = "PTR_SET"
                 PROVE  /\ wire'[i][2] \in Ids
                        /\ wire'[i][2] \in cursors' \/ \E j \in 1..i - 1 : wire'[j] = <<"PTR_NEW", wire'[i][2]>>
                        /\ \A j \in 1..i - 1 : wire'[j] # <<"PTR_FREE", wire'[i][2]>>
                        /\ (\A j \in i + 1..n : ~Sets(wire'[j])) => \E t \in Slots : slot'[t] = wire'[i][2]
      BY <1>4 DEF Named, Freed, InSlot
    <3>1. i + 1 \in 1..n + 1 /\ i \in 1..n + 1 /\ wire'[i] = wire[i + 1]
      BY <1>5
    <3>2. /\ wire[i + 1][2] \in Ids /\ Named(wire[i + 1][2], i + 1) /\ ~Freed(wire[i + 1][2], i + 1)
          /\ (\A j \in i + 1 + 1..Len(wire) : ~Sets(wire[j])) => InSlot(wire[i + 1][2])
      BY <1>2, <1>4, <3>1 DEF WireInv
    <3>3. ASSUME \A j \in i + 1..n : ~Sets(wire'[j]) PROVE \A j \in i + 1 + 1..Len(wire) : ~Sets(wire[j])
      <4> SUFFICES ASSUME NEW j \in i + 1 + 1..n + 1 PROVE ~Sets(wire[j])
        BY <1>4
      <4>1. j - 1 \in i + 1..n /\ j - 1 \in 1..n /\ (j - 1) + 1 = j
        OBVIOUS
      <4> QED
        BY <1>5, <3>3, <4>1
    <3>4. (\A j \in i + 1..n : ~Sets(wire'[j])) => \E t \in Slots : slot'[t] = wire'[i][2]
      BY <1>1, <3>1, <3>2, <3>3 DEF InSlot
    <3> QED
      BY <1>11, <3>1, <3>2, <3>4
  <2>3. \A t \in Slots : slot'[t] # 0 => Named(slot[t], Len(wire) + 1)' /\ ~Freed(slot[t], Len(wire) + 1)'
    <3> SUFFICES ASSUME NEW t \in Slots, slot[t] # 0
                 PROVE  /\ slot[t] \in cursors' \/ \E j \in 1..(n + 1) - 1 : wire'[j] = <<"PTR_NEW", slot[t]>>
                        /\ \A j \in 1..(n + 1) - 1 : wire'[j] # <<"PTR_FREE", slot[t]>>
      BY <1>1, <1>4 DEF Named, Freed
    <3>1. Named(slot[t], (n + 1) + 1) /\ ~Freed(slot[t], (n + 1) + 1)
      BY <1>2, <1>4 DEF WireInv
    <3>2. n + 1 \in 1..n + 1
      OBVIOUS
    <3> QED
      BY <1>11, <3>1, <3>2
  <2>4. (\A j \in 1..Len(wire') : ~Sets(wire'[j])) => pointer' = 0 \/ InSlot(pointer)'
    <3> SUFFICES ASSUME \A j \in 1..n : ~Sets(wire'[j]), pointer' # 0 PROVE \E t \in Slots : slot[t] = pointer'
      BY <1>1, <1>4 DEF InSlot
    <3>1. \A j \in 2..n + 1 : ~Sets(wire[j])
      <4> SUFFICES ASSUME NEW j \in 2..n + 1 PROVE ~Sets(wire[j])
        OBVIOUS
      <4>1. j - 1 \in 1..n /\ (j - 1) + 1 = j
        OBVIOUS
      <4> QED
        BY <1>5, <4>1
    <3>2. CASE op = "PTR_SET"
      <4>1. pointer' = id
        BY <1>6, <1>7, <3>2 DEF SetPointer
      <4> QED
        BY <1>7, <3>1, <3>2, <4>1 DEF InSlot
    <3>3. CASE op \in {"PTR_NEW", "PTR_FREE"}
      <4>1. pointer' = pointer /\ ~Sets(wire[1])
        BY <1>4, <1>6, <3>3 DEF Sets
      <4>2. \A j \in 1..Len(wire) : j = 1 \/ j \in 2..n + 1
        BY <1>4
      <4> QED
        BY <1>2, <3>1, <4>1, <4>2 DEF WireInv, InSlot
    <3> QED
      BY <1>6, <3>2, <3>3 DEF Ops
  <2> QED
    BY <2>1, <2>2, <2>3, <2>4 DEF WireInv
<1>13. PageInv'
  <2>1. CASE UNCHANGED <<pointer, shown, request>>
    BY <1>0, <1>1, <2>1 DEF PageInv, Suits, Stored
  <2>2. CASE op = "PTR_SETNULL" /\ pointer' = 0 /\ UNCHANGED request
    BY <1>0, <1>1, <2>2 DEF PageInv, Suits, Stored
  <2>3. CASE op = "PTR_SET" /\ pointer' = id /\ request' = [request EXCEPT ![id] = Asked]
    <3>1. request'[id].status = 1 /\ \A j \in Ids : j # id => request'[j] = request[j]
      BY <1>0, <1>7, <2>3 DEF CursorType, Asked
    <3>2. \A j \in Ids : j # id \/ request'[j].status = 1
      BY <3>1
    <3> QED
      BY <1>0, <1>1, <1>7, <2>3, <3>1, <3>2 DEF PageInv, Suits, Stored
  <2> QED
    BY <1>8, <2>1, <2>2, <2>3
<1> QED
  BY <1>9, <1>10, <1>12, <1>13 DEF CursorInv

LEMMA CursorStep == CursorInv /\ [CursorNext]_cursorVars => CursorInv'
<1> SUFFICES ASSUME CursorInv, [CursorNext]_cursorVars PROVE CursorInv'
  OBVIOUS
<1>1. CASE UNCHANGED cursorVars
  <2>1. UNCHANGED <<now, life, registered, m_ptrId, m_cursorMap, slot, wire, cursors, pointer, shown, kept, request>>
    BY <1>1 DEF cursorVars, cursorServer, cursorClient
  <2>2. CursorType' /\ MapInv' /\ SlotInv' /\ GoneInv'
    BY <2>1 DEF CursorInv, CursorType, MapInv, SlotInv, GoneInv, Stored
  <2>3. registered' => WireInv'
    BY <2>1 DEF CursorInv, WireInv, Named, Freed, Sets, InSlot
  <2>4. PageInv' /\ (\A id \in Ids : KeptImageInv(id))'
    BY <2>1 DEF CursorInv, PageInv, KeptImageInv, Stored, Suits
  <2> QED
    BY <2>2, <2>3, <2>4 DEF CursorInv
<1> QED
  BY <1>1, TickStep, SessionEndsStep, SessionBeginsStep, NewPointerStep, SetStep, SetNullStep, ProcessStep,
     AnswerStep, ReceiveImageStep DEF CursorNext

\* A pointer that is set and of which nothing is on its way is in its slot, and so has its image.
LEMMA CursorShown == CursorInv => CursorExplained
<1> SUFFICES ASSUME CursorInv, registered, pointer # 0, wire = <<>>, \A id \in Ids : request[id] = NoRequest
             PROVE  \/ shown = m_cursorMap[pointer] /\ shown.of = <<life, pointer>>
                    \/ shown.of[1] \in 1..life - 1 /\ shown.time = m_cursorMap[pointer].time
  BY DEF CursorExplained
<1>1. pointer \in Ids /\ WireInv
  BY DEF CursorInv, PageInv
<1>2. Stored(pointer)
  BY <1>1 DEF CursorInv, WireInv, InSlot, SlotInv
<1>3. Suits(pointer, shown)
  BY <1>1 DEF CursorInv, PageInv, NoRequest
<1> QED
  BY <1>1, <1>2, <1>3 DEF Suits, CursorInv, MapInv

\* Once nothing is on its way, the page shows the image made for the pointer it set,
\* or one of an earlier session stored within the same second, for any number of
\* pointers, sessions and seconds.
THEOREM CursorIsExplained == CursorSpec => []CursorExplained
<1>1. CursorInit => CursorInv
  BY CursorsStart
<1>2. CursorInv /\ [CursorNext]_cursorVars => CursorInv'
  BY CursorStep
<1>3. CursorInv => CursorExplained
  BY CursorShown
<1> QED
  BY <1>1, <1>2, <1>3, PTL DEF CursorSpec
=============================================================================
