------------------------------- MODULE Pages --------------------------------
(***************************************************************************)
(* Pages and files: WsGate::HandleHTTPRequest with m_StaticCache and       *)
(* notModified (wsgateEHS.cpp), in several request threads, while the file *)
(* is edited and the values shown in a page change: the overrides at a     *)
(* reload, the cookies when a visitor logs on.                             *)
(*                                                                         *)
(* One file, either a page, whose placeholders are filled in, or a plain   *)
(* file.  Its content is the number of the edit that made it; what fills   *)
(* the placeholders is the number of its last change.  A path that does    *)
(* not exist stands for index.html, which is the file here.                *)
(***************************************************************************)
EXTENDS Naturals, Sequences

CONSTANTS
    RequestThreads, \* threads of EHS
    MaxEdits,       \* bound: contents of the file
    MaxValues,      \* bound: changes of the values
    MaxSeconds      \* bound: seconds

ASSUME PageAssumption == MaxEdits \in Nat /\ MaxValues \in Nat /\ MaxSeconds \in Nat

VARIABLES
    second,         \* the file system's clock
    html,           \* simpleMime of the file is HTML
    present,        \* the file exists
    history,        \* last_write_time of each content up to now; the last is on disk
    values,         \* the version of overrides and cookies
    m_StaticCache,  \* the file's entry: content and mtime
    serving,        \* what each thread does for its request
    keptPage        \* the browser's copy

pageVars == <<second, html, present, history, values, m_StaticCache, serving, keptPage>>

content == Len(history)
Mtime == history[content]

NoCopy == [body |-> 0, filled |-> 0, mtime |-> 0]
NoEntry == [body |-> 0, mtime |-> 0]
IdleThread == [pc |-> "idle", asked |-> [body |-> 0, values |-> 0], mtime |-> 0, body |-> 0, status |-> 0, page |-> NoCopy]

PageInit ==
    /\ second = 1 /\ html \in BOOLEAN /\ present = TRUE
    /\ history = <<1>>
    /\ values = 1
    /\ m_StaticCache = NoEntry
    /\ serving = [t \in RequestThreads |-> IdleThread]
    /\ keptPage = NoCopy

\* The administrator: an edit dates the file now, or earlier if the date comes
\* with the file (a package, a copy that keeps dates).
EditPage(m) ==
    /\ content < MaxEdits /\ m \in 1..second
    /\ history' = Append(history, m) /\ present' = TRUE
    /\ UNCHANGED <<second, html, values, m_StaticCache, serving, keptPage>>

RemovePage ==
    /\ present /\ present' = FALSE
    /\ UNCHANGED <<second, html, history, values, m_StaticCache, serving, keptPage>>

ChangeValues ==
    /\ values < MaxValues /\ values' = values + 1
    /\ UNCHANGED <<second, html, present, history, m_StaticCache, serving, keptPage>>

NextSecond ==
    /\ second < MaxSeconds /\ second' = second + 1
    /\ UNCHANGED <<html, present, history, values, m_StaticCache, serving, keptPage>>

-----------------------------------------------------------------------------
At(t, pc) == serving[t].pc = pc
Serve(t, r) == serving' = [serving EXCEPT ![t] = r]
PageStands == UNCHANGED <<second, html, present, history, values>>

\* A visitor asks, with the date of the copy the browser keeps.
AskPage(t) ==
    /\ At(t, "idle")
    /\ Serve(t, [IdleThread EXCEPT !.pc = "stat", !.page = keptPage,
                                   !.asked = [body |-> content, values |-> values]])
    /\ PageStands /\ UNCHANGED <<m_StaticCache, keptPage>>

Replies(r, status) == [r EXCEPT !.pc = "reply", !.status = status]

\* notModified: no date to compare with, or the file is later.
FileNotModified_Ever(mtime, since) == since # 0

FileNotModified(mtime, since) == since # 0 /\ mtime <= since

\* last_write_time, then notModified; a file that is gone makes it throw.
StatPage(t) ==
    /\ At(t, "stat")
    /\ Serve(t, IF ~present THEN Replies(serving[t], 500)
                ELSE IF FileNotModified(Mtime, serving[t].page.mtime) THEN Replies(serving[t], 304)
                ELSE [serving[t] EXCEPT !.pc = "find", !.mtime = Mtime])
    /\ PageStands /\ UNCHANGED <<m_StaticCache, keptPage>>

\* The cached body is used if it was stored under the same date.
FindPage(t) ==
    /\ At(t, "find")
    /\ Serve(t, IF m_StaticCache.mtime = serving[t].mtime
                THEN [serving[t] EXCEPT !.pc = "fill", !.body = m_StaticCache.body]
                ELSE [serving[t] EXCEPT !.pc = "read"])
    /\ PageStands /\ UNCHANGED <<m_StaticCache, keptPage>>

\* The file is read and stored, under the date taken before.
ReadPage(t) ==
    /\ At(t, "read")
    /\ IF present
       THEN /\ Serve(t, [serving[t] EXCEPT !.pc = "fill", !.body = content])
            /\ m_StaticCache' = [body |-> content, mtime |-> serving[t].mtime]
       ELSE Serve(t, Replies(serving[t], 404)) /\ UNCHANGED m_StaticCache
    /\ PageStands /\ UNCHANGED keptPage

\* The placeholders of a page are filled in with the values as they are.
FillPage(t) ==
    /\ At(t, "fill")
    /\ Serve(t, [Replies(serving[t], 200) EXCEPT !.page =
                    [body |-> serving[t].body, filled |-> IF html THEN values ELSE 0,
                     mtime |-> serving[t].mtime]])
    /\ PageStands /\ UNCHANGED <<m_StaticCache, keptPage>>

\* The browser: a new copy is kept, 304 stands for the one it asked with.
ReceivePage(t) ==
    /\ At(t, "reply")
    /\ keptPage' = IF serving[t].status = 200 THEN serving[t].page ELSE keptPage
    /\ Serve(t, [serving[t] EXCEPT !.pc = "shown"])
    /\ PageStands /\ UNCHANGED m_StaticCache

\* The visitor leaves the page.
LeavePage(t) ==
    /\ At(t, "shown") /\ Serve(t, IdleThread)
    /\ PageStands /\ UNCHANGED <<m_StaticCache, keptPage>>

PageNext ==
    \/ \E m \in 1..MaxSeconds : EditPage(m)
    \/ RemovePage \/ ChangeValues \/ NextSecond
    \/ \E t \in RequestThreads :
        AskPage(t) \/ StatPage(t) \/ FindPage(t) \/ ReadPage(t) \/ FillPage(t) \/ ReceivePage(t) \/ LeavePage(t)

PageSpec == PageInit /\ [][PageNext]_pageVars

-----------------------------------------------------------------------------
(* Whatever edits, other requests and cached bodies come between the date,  *)
(* the cache and the file: the page shown has the content of when it was    *)
(* asked for or a later one, unless an edit gave the file a date that is    *)
(* not later than one before it; and its placeholders have values no older  *)
(* than at that time, unless 304 was answered, which looks at the file's    *)
(* date alone (wsgateEHS.cpp:503-523).                                      *)
PageExplained ==
    \A t \in RequestThreads : (At(t, "shown") /\ serving[t].status \in {200, 304}) =>
        LET page == serving[t].page
            asked == serving[t].asked IN
        /\ \/ page.body >= asked.body
           \/ \E u \in 1..page.body, v \in asked.body..content : history[v] <= history[u]
        /\ (html /\ serving[t].status = 200) => page.filled >= asked.values
=============================================================================
