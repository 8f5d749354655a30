----------------------------- MODULE RdpSession -----------------------------
(***************************************************************************)
(* The life of one RDP object (RDP.cpp): the threads of the HTTP server    *)
(* that use it (construction, Connect, Disconnect, destruction) and the    *)
(* worker thread its constructor starts (ThreadFunc).  They share          *)
(* m_bThreadLoop and m_State without a lock, so every read and every write *)
(* of one of these fields is a step of its own.                            *)
(*                                                                         *)
(* PrepareRDP (myrawsocket.cpp) takes the object from m_cmap[this->conn],  *)
(* and every Prepare overwrites this->conn.  So Connect is called on the   *)
(* object by its own visitor and by strangers, who may do so in any state  *)
(* and beside each other; what their parameters are is Gateway's.  The     *)
(* object lives while a shared pointer to it does: in m_cmap, in           *)
(* WsGate::m_SessionMap and in a PrepareRDP that has found it.             *)
(*                                                                         *)
(* libfreerdp is external: freerdp_connect succeeds or fails,              *)
(* freerdp_disconnect succeeds or fails, and the error word and the        *)
(* disconnect flag change only while the worker is inside the library.     *)
(***************************************************************************)
EXTENDS Naturals, FiniteSets

CONSTANTS
    QuietErrors,    \* error words that end the session without a message (1, 2, 7, 9)
    LoudErrors,     \* error words that are reported to the client (5 and the rest)
    Own,            \* the thread that serves the visitor the object was made for
    Strangers,      \* threads that serve others
    MaxConnects,    \* bound: credential messages the client sends
    MaxStrays       \* bound: no stranger comes after so many requests of strangers

ASSUME ErrorsAssumption ==
    /\ QuietErrors \subseteq Nat \ {0}
    /\ LoudErrors \subseteq Nat \ {0}
    /\ QuietErrors \cap LoudErrors = {}
    /\ MaxConnects \in Nat /\ MaxStrays \in Nat
    /\ Own \notin Strangers

VARIABLES
    opc,            \* program point of the destruction of the object
    call,           \* of each thread, how far its PrepareRDP is with this object
    mapped,         \* the connection's tuple, with the object and its handler, is in m_cmap
    registered,     \* the object is in WsGate::m_SessionMap
    wpc,            \* program point of the worker thread
    threadLoop,     \* m_bThreadLoop
    state,          \* m_State
    errMsg,         \* m_errMsg, as the set of the messages appended to it
    lastError,      \* m_lastError
    embedded,       \* m_embeddedContext = CONTEXT_EMBEDDED
    errorInfo,      \* what freerdp_error_info returns
    shall,          \* what freerdp_shall_disconnect returns
    link,           \* the library's connection to the RDP server
    result,         \* how Disconnect returned
    started,        \* number of "C:" texts handed to the endpoint
    ended,          \* number of "T:" texts handed to the endpoint
    connects,       \* own credentials that came to this object so far (bounded)
    strays          \* requests of strangers that this object was given so far

refs       == <<call, mapped, registered>>
bounds     == <<connects, strays>>
workerVars == <<wpc, errMsg, lastError, started, ended>>
libVars    == <<errorInfo, shall, link>>
serverVars == <<opc, refs, embedded, result, bounds>>
vars       == <<serverVars, workerVars, libVars, threadLoop, state>>

ConnectFailed == 0          \* "Could not connect to RDP backend." in errMsg
Errors   == QuietErrors \cup LoudErrors

Threads  == Strangers \cup {Own}

OwnerPoints  == {"absent", "alive", "disconnect", "stop", "close", "library", "join",
                 "free", "gone"}
CallPoints   == {"away", "connect", "fill", "register", "return"}
WorkerPoints == {"none", "loop", "error", "report", "shall", "switch", "connecting",
                 "connected", "failed", "check", "exit", "done", "crashed"}
States       == {"INITIAL", "CONNECT", "CONNECTED", "CLOSED"}

\* The points at which the worker still has code of the object to run.
Running == WorkerPoints \ {"none", "done", "crashed"}

Freed == opc = "gone"

\* The process is there: no thread has come to grief with freed memory.
Working == wpc # "crashed"

Away == \A t \in Threads : call[t] = "away"

\* A stranger's request has been written into the object.
Strayed == strays > 0

FlagsOK ==
    /\ threadLoop \in BOOLEAN /\ embedded \in BOOLEAN /\ shall \in BOOLEAN
    /\ mapped \in BOOLEAN /\ registered \in BOOLEAN

TypeOK ==
    /\ FlagsOK
    /\ opc \in OwnerPoints
    /\ call \in [Threads -> CallPoints]
    /\ wpc \in WorkerPoints
    /\ state \in States
    /\ errMsg \subseteq LoudErrors \cup {ConnectFailed}
    /\ lastError \in Errors \cup {0}
    /\ errorInfo \in Errors \cup {0}
    /\ link \in {"none", "up", "down"}
    /\ result \in {"pending", "joined", "failed", "skipped"}
    /\ started \in Nat
    /\ ended \in Nat
    /\ connects \in Nat
    /\ strays \in Nat

Init ==
    /\ opc = "absent" /\ wpc = "none"
    /\ call = [t \in Threads |-> "away"]
    /\ mapped = FALSE /\ registered = FALSE
    /\ threadLoop = FALSE
    /\ state = "INITIAL"
    /\ errMsg = {} /\ lastError = 0
    /\ embedded \in BOOLEAN
    /\ errorInfo = 0 /\ shall = FALSE /\ link = "none"
    /\ result = "pending"
    /\ started = 0 /\ ended = 0
    /\ connects = 0 /\ strays = 0

-----------------------------------------------------------------------------
(***************************************************************************)
(* The threads of the server.                                              *)
(***************************************************************************)

\* RDP::RDP, and the tuple stored by Prepare, which in an embedded context goes on
\* to PrepareRDP; that may find another object than this one.  pthread_create may
\* fail.
Construct ==
    /\ opc = "absent"
    /\ opc' = "alive" /\ mapped' = TRUE
    /\ \/ wpc' = "loop" /\ threadLoop' = TRUE
       \/ wpc' = "none" /\ threadLoop' = FALSE
    /\ \/ embedded /\ call' = [call EXCEPT ![Own] = "connect"]
       \/ UNCHANGED call
    /\ UNCHANGED <<registered, state, errMsg, lastError, started, ended, embedded, result, bounds, libVars>>

\* Credentials heard in every state.
Credentials_AnyState ==
    /\ Working /\ mapped /\ call[Own] = "away" /\ connects < MaxConnects
    /\ ~embedded
    /\ call' = [call EXCEPT ![Own] = "connect"]
    /\ connects' = connects + 1
    /\ UNCHANGED <<opc, mapped, registered, embedded, result, strays, workerVars, libVars, threadLoop, state>>

\* OnWsMessage with the credentials of the user: heard only in a plain context
\* and only while no connection was asked for.  PrepareRDP finds this object (if it
\* finds another one, nothing happens here).
Credentials ==
    /\ Working /\ mapped /\ call[Own] = "away" /\ connects < MaxConnects
    /\ state = "INITIAL" /\ ~embedded
    /\ call' = [call EXCEPT ![Own] = "connect"]
    /\ connects' = connects + 1
    /\ UNCHANGED <<opc, mapped, registered, embedded, result, strays, workerVars, libVars, threadLoop, state>>

\* PrepareRDP for another visitor finds this object: whatever the object is doing.
Stray(t) ==
    /\ Working /\ mapped /\ call[t] = "away" /\ strays < MaxStrays
    /\ call' = [call EXCEPT ![t] = "connect"]
    /\ UNCHANGED <<opc, mapped, registered, embedded, result, bounds, workerVars, libVars, threadLoop, state>>

\* RDP::Connect, the test of m_bThreadLoop: it throws when the worker is known
\* to have stopped; PrepareRDP's callers swallow the exception.
ConnectTest(t) ==
    /\ Working /\ call[t] = "connect"
    /\ call' = [call EXCEPT ![t] = IF threadLoop THEN "fill" ELSE "away"]
    /\ UNCHANGED <<opc, mapped, registered, embedded, result, bounds, workerVars, libVars, threadLoop, state>>

\* RDP::Connect, settings filled in and m_State handed to the worker, in any state.
ConnectRequest(t) ==
    /\ Working /\ call[t] = "fill"
    /\ state' = "CONNECT"
    /\ call' = [call EXCEPT ![t] = "register"]
    /\ strays' = strays + (IF t = Own THEN 0 ELSE 1)
    /\ UNCHANGED <<opc, mapped, registered, embedded, result, connects, workerVars, libVars, threadLoop>>

\* RegisterRdpSession.
Register(t) ==
    /\ Working /\ call[t] = "register"
    /\ registered' = TRUE
    /\ call' = [call EXCEPT ![t] = "return"]
    /\ UNCHANGED <<opc, mapped, embedded, result, bounds, workerVars, libVars, threadLoop, state>>

\* The end of PrepareRDP and of its pointer.
ReturnPrepare(t) ==
    /\ Working /\ call[t] = "return"
    /\ call' = [call EXCEPT ![t] = "away"]
    /\ UNCHANGED <<opc, mapped, registered, embedded, result, bounds, workerVars, libVars, threadLoop, state>>

\* The connection is lost or closed: the object is taken out of m_SessionMap, and the
\* tuple out of m_cmap, with the handler through which the worker sends.
OnDisconnect ==
    /\ Working /\ mapped /\ call[Own] = "away"
    /\ mapped' = FALSE /\ registered' = FALSE
    /\ UNCHANGED <<opc, call, embedded, result, bounds, workerVars, libVars, threadLoop, state>>

\* Prepare again for a connection that is no raw socket yet, because its embedded
\* session could not be connected: the tuple is replaced, and no more.
Replace ==
    /\ Working /\ mapped /\ call[Own] = "away" /\ embedded
    /\ mapped' = FALSE
    /\ UNCHANGED <<opc, call, registered, embedded, result, bounds, workerVars, libVars, threadLoop, state>>

\* The last pointer has gone, in whichever thread: ~RDP enters Disconnect.
Destroy ==
    /\ Working /\ opc = "alive"
    /\ ~mapped /\ ~registered /\ Away
    /\ opc' = "disconnect"
    /\ UNCHANGED <<refs, embedded, result, bounds, workerVars, libVars, threadLoop, state>>

\* Disconnect: nothing is done for a worker that has stopped by itself.
DisconnectTest ==
    /\ Working /\ opc = "disconnect"
    /\ \/ /\ threadLoop
          /\ threadLoop' = FALSE
          /\ opc' = "stop"
          /\ UNCHANGED result
       \/ /\ ~threadLoop
          /\ opc' = "free"
          /\ result' = "skipped"
          /\ UNCHANGED threadLoop
    /\ UNCHANGED <<refs, embedded, bounds, workerVars, libVars, state>>

\* pthread_join only for a connected session.
DisconnectState_NoJoin ==
    /\ Working /\ opc = "stop"
    /\ opc' = IF state = "CONNECTED" THEN "close" ELSE "free"
    /\ result' = IF state = "CONNECTED" THEN result ELSE "joined"
    /\ UNCHANGED <<refs, embedded, bounds, workerVars, libVars, threadLoop, state>>

\* Disconnect: the test of STATE_CONNECTED.
DisconnectState ==
    /\ Working /\ opc = "stop"
    /\ opc' = IF state = "CONNECTED" THEN "close" ELSE "join"
    /\ UNCHANGED <<refs, embedded, result, bounds, workerVars, libVars, threadLoop, state>>

DisconnectClose ==
    /\ Working /\ opc = "close"
    /\ state' = "CLOSED"
    /\ opc' = "library"
    /\ UNCHANGED <<refs, embedded, result, bounds, workerVars, libVars, threadLoop>>

\* freerdp_disconnect forgotten.
DisconnectLibrary_NotCalled ==
    /\ Working /\ opc = "library"
    /\ opc' = "join"
    /\ UNCHANGED <<refs, embedded, result, bounds, workerVars, libVars, threadLoop, state>>

\* Disconnect: freerdp_disconnect; a failure returns without joining.
DisconnectLibrary ==
    /\ Working /\ opc = "library"
    /\ \/ opc' = "join" /\ link' = "down" /\ UNCHANGED result
       \/ opc' = "free" /\ result' = "failed" /\ UNCHANGED link
    /\ UNCHANGED <<refs, embedded, bounds, workerVars, errorInfo, shall, threadLoop, state>>

\* Disconnect: pthread_join.
DisconnectJoin ==
    /\ opc = "join"
    /\ wpc = "done"
    /\ opc' = "free"
    /\ result' = "joined"
    /\ UNCHANGED <<refs, embedded, bounds, workerVars, libVars, threadLoop, state>>

\* The rest of ~RDP, and of the handler and the endpoint the tuple holds.
Free ==
    /\ Working /\ opc = "free"
    /\ opc' = "gone"
    /\ UNCHANGED <<refs, embedded, result, bounds, workerVars, libVars, threadLoop, state>>

-----------------------------------------------------------------------------
(***************************************************************************)
(* The worker thread: ThreadFunc.                                          *)
(***************************************************************************)

WorkerAt(point) == wpc = point /\ ~Freed

\* while (true).
WorkerLoop_Forever ==
    /\ WorkerAt("loop")
    /\ wpc' = "error"
    /\ UNCHANGED <<serverVars, errMsg, lastError, started, ended, libVars, threadLoop, state>>

WorkerLoop ==
    /\ WorkerAt("loop")
    /\ wpc' = IF threadLoop THEN "error" ELSE "exit"
    /\ UNCHANGED <<serverVars, errMsg, lastError, started, ended, libVars, threadLoop, state>>

\* freerdp_error_info: a new word either ends the loop silently or is reported.
WorkerError ==
    /\ WorkerAt("error")
    /\ wpc' = "report"
    /\ \/ /\ errorInfo \in {0, lastError}
          /\ UNCHANGED <<lastError, threadLoop, errMsg>>
       \/ /\ errorInfo \in QuietErrors \ {lastError}
          /\ lastError' = errorInfo
          /\ threadLoop' = FALSE
          /\ UNCHANGED errMsg
       \/ /\ errorInfo \in LoudErrors \ {lastError}
          /\ lastError' = errorInfo
          /\ errMsg' = errMsg \cup {errorInfo}
          /\ UNCHANGED threadLoop
    /\ UNCHANGED <<serverVars, started, ended, libVars, state>>

\* The disconnect flag looked at before the errors are sent.
WorkerReport_EndFirst ==
    /\ WorkerAt("report")
    /\ wpc' = IF shall THEN "exit" ELSE "shall"
    /\ errMsg' = IF shall THEN errMsg ELSE {}
    /\ UNCHANGED <<serverVars, lastError, started, ended, libVars, threadLoop, state>>

\* The pending errors go to the client.
WorkerReport ==
    /\ WorkerAt("report")
    /\ wpc' = "shall"
    /\ errMsg' = {}
    /\ UNCHANGED <<serverVars, lastError, started, ended, libVars, threadLoop, state>>

WorkerShall ==
    /\ WorkerAt("shall")
    /\ wpc' = IF shall THEN "exit" ELSE "switch"
    /\ UNCHANGED <<serverVars, errMsg, lastError, started, ended, libVars, threadLoop, state>>

\* STATE_CONNECT without a case of its own.
WorkerSwitch_NoConnect ==
    /\ WorkerAt("switch")
    /\ wpc' = IF state = "CONNECTED" THEN "check" ELSE "loop"
    /\ UNCHANGED <<serverVars, errMsg, lastError, started, ended, libVars, threadLoop, state>>

\* switch (m_State): the states without work go round through usleep.
WorkerSwitch ==
    /\ WorkerAt("switch")
    /\ wpc' = CASE state = "CONNECTED" -> "check"
                [] state = "CONNECT"   -> "connecting"
                [] OTHER               -> "loop"
    /\ UNCHANGED <<serverVars, errMsg, lastError, started, ended, libVars, threadLoop, state>>

\* What the server said while the library was reading from it.
ServerSpeaks ==
    /\ errorInfo' \in {errorInfo} \cup Errors
    /\ shall' \in {shall, TRUE}

\* freerdp_connect succeeds; PostConnect has sent "S:" and "C:".
ConnectSucceeds ==
    /\ WorkerAt("connecting")
    /\ wpc' = "connected"
    /\ link' = "up"
    /\ started' = started + 1
    /\ ServerSpeaks
    /\ UNCHANGED <<serverVars, errMsg, lastError, ended, threadLoop, state>>

WorkerConnected ==
    /\ WorkerAt("connected")
    /\ state' = "CONNECTED"
    /\ wpc' = "loop"
    /\ UNCHANGED <<serverVars, errMsg, lastError, started, ended, libVars, threadLoop>>

\* freerdp_connect fails; of a connection that was up before it may leave nothing.
ConnectFails ==
    /\ WorkerAt("connecting")
    /\ wpc' = "failed"
    /\ UNCHANGED link \/ (link = "up" /\ link' = "down")
    /\ ServerSpeaks
    /\ UNCHANGED <<serverVars, errMsg, lastError, started, ended, threadLoop, state>>

WorkerFailed ==
    /\ WorkerAt("failed")
    /\ state' = "INITIAL"
    /\ errMsg' = errMsg \cup {ConnectFailed}
    /\ wpc' = "loop"
    /\ UNCHANGED <<serverVars, lastError, started, ended, libVars, threadLoop>>

\* CheckFileDescriptor: its result is not looked at.
WorkerCheck ==
    /\ WorkerAt("check")
    /\ wpc' = "loop"
    /\ ServerSpeaks
    /\ UNCHANGED <<serverVars, errMsg, lastError, started, ended, link, threadLoop, state>>

\* "T:" sent for a session that was only asked for.
WorkerExit_AnyState ==
    /\ WorkerAt("exit")
    /\ wpc' = "done"
    /\ ended' = ended + (IF state # "INITIAL" THEN 1 ELSE 0)
    /\ UNCHANGED <<serverVars, errMsg, lastError, started, libVars, threadLoop, state>>

\* After the loop: the client is told that a connected session is over.
WorkerExit ==
    /\ WorkerAt("exit")
    /\ wpc' = "done"
    /\ ended' = ended + (IF state = "CONNECTED" THEN 1 ELSE 0)
    /\ UNCHANGED <<serverVars, errMsg, lastError, started, libVars, threadLoop, state>>

\* A worker that was not joined goes on with freed memory: it gets away with it
\* or it does not.
WorkerAfterFree ==
    /\ Freed /\ wpc \in Running
    /\ wpc' \in {"done", "crashed"}
    /\ UNCHANGED <<serverVars, errMsg, lastError, started, ended, libVars, threadLoop, state>>

\* The worker sends through a handler that went with the tuple while the object was
\* kept alive: it gets away with it (the actions above) or it does not.
WorkerUnheard ==
    /\ opc # "absent" /\ ~mapped /\ ~Freed
    /\ wpc \in {"report", "connecting", "check", "exit"}
    /\ wpc' = "crashed"
    /\ UNCHANGED <<serverVars, errMsg, lastError, started, ended, libVars, threadLoop, state>>

-----------------------------------------------------------------------------
\* Nobody will call the object again: it is gone, or m_SessionMap keeps it for good.
Left == Freed \/ (opc = "alive" /\ ~mapped /\ registered /\ Away)

\* Every thread has run to its end.
Finished == (Left \/ ~Working) /\ wpc \notin Running /\ UNCHANGED vars

PrepareRDP(t) == ConnectTest(t) \/ ConnectRequest(t) \/ Register(t) \/ ReturnPrepare(t)

Disconnect ==
    \/ DisconnectTest \/ DisconnectState \/ DisconnectClose
    \/ DisconnectLibrary \/ DisconnectJoin \/ Free

Server ==
    \/ Construct \/ Credentials \/ OnDisconnect \/ Replace \/ Destroy \/ Disconnect
    \/ \E t \in Strangers : Stray(t)
    \/ \E t \in Threads : PrepareRDP(t)

ThreadFunc ==
    \/ WorkerLoop \/ WorkerError \/ WorkerReport \/ WorkerShall \/ WorkerSwitch
    \/ ConnectSucceeds \/ WorkerConnected \/ ConnectFails \/ WorkerFailed
    \/ WorkerCheck \/ WorkerExit \/ WorkerAfterFree \/ WorkerUnheard

Next == Server \/ ThreadFunc \/ Finished

Spec == Init /\ [][Next]_vars

\* The worker thread is scheduled, the library calls return, and the threads of the
\* server finish the calls they are in; the client owes nothing.
Fairness ==
    /\ WF_vars(ThreadFunc)
    /\ WF_vars(Destroy \/ Disconnect)
    /\ \A t \in Threads : WF_vars(PrepareRDP(t))

FairSpec == Spec /\ Fairness

-----------------------------------------------------------------------------
(***************************************************************************)
(* Properties.                                                             *)
(***************************************************************************)

\* No thread disconnects (Disconnect) while the worker is inside freerdp_connect, and
\* the object's own visitor has the settings rewritten there (Connect) only if a
\* stranger's request made the worker connect; no lock keeps the threads apart.
LibraryExclusion ==
    wpc = "connecting" =>
        /\ opc \notin {"close", "library"}
        /\ call[Own] = "fill" => Strayed

\* m_State, written by all threads, only moves along INITIAL, CONNECT, CONNECTED,
\* CLOSED, with the one step back of a connection that failed and the one of a
\* request over a session that is up, for which a stranger is needed.  So no write of
\* Disconnect or of the worker overtakes one of another thread.
StateStep ==
    \/ <<state, state'>> \in {<<"INITIAL", "CONNECT">>, <<"CONNECT", "INITIAL">>,
                              <<"CONNECT", "CONNECTED">>, <<"CONNECTED", "CLOSED">>}
    \/ state = "CONNECTED" /\ state' = "CONNECT" /\ Strayed'
StateOrder == [][StateStep]_state

\* ~RDP frees the object under a running worker in two cases only: the worker
\* has cleared m_bThreadLoop itself, or freerdp_disconnect failed; in every
\* other case Disconnect has joined it.
UnjoinedExplained ==
    Freed /\ wpc \in Running => result = "failed" \/ lastError \in QuietErrors

\* The library's connection outlives the object only if freerdp_disconnect failed, the
\* worker had stopped itself, the connection came up after Disconnect had looked at
\* m_State (and then "T:" was sent), or a stranger's request had taken a session that
\* was up out of STATE_CONNECTED, which Disconnect then did not find.
LeakExplained ==
    Freed /\ link = "up" =>
        \/ result \in {"failed", "skipped"}
        \/ ended = 1
        \/ Strayed /\ state \in {"INITIAL", "CONNECT"}

\* Every error is with the client before the worker tries to connect again or
\* reads from the server again.
ReportedBeforeWork == wpc \in {"switch", "connecting", "check"} => errMsg = {}

\* A worker stops with an unreported error only when the session is being torn
\* down or the server had already ended it silently.
NoErrorLost ==
    wpc = "done" /\ errMsg # {} => opc # "alive" \/ lastError \in QuietErrors

\* The start of a session is announced once, and once more at most for every request
\* of a stranger; its end once at most, and only for a session that began.
TextsOnce == started <= 1 + strays /\ ended <= 1 /\ ended <= started

\* When the worker of a started session stops by itself, the client is told, unless
\* a stranger's request had the session connected anew and that was not done.
EndTold ==
    wpc = "done" /\ started > 0 /\ opc = "alive" =>
        ended = 1 \/ (Strayed /\ state # "CONNECTED")

\* An object whose connection is gone is destroyed (Disconnect, with its
\* pthread_join, comes to an end), or a stranger has it kept in m_SessionMap.
DestroyEnds ==
    opc = "alive" /\ ~mapped ~> Freed \/ registered \/ ~Working

\* A request handed to the worker is taken up unless the loop was told to stop or
\* the worker had left it for freerdp_shall_disconnect, of which Connect knows nothing.
RequestServed ==
    state = "CONNECT" ~>
        \/ state # "CONNECT" \/ ~threadLoop
        \/ shall /\ wpc = "done"
        \/ ~Working

\* The session as the browser sees it.
Phase ==
    CASE Freed \/ ~Working                -> "gone"
      [] ~Freed /\ Working /\ ended > 0   -> "over"
      [] ~Freed /\ Working /\ ended = 0 /\ started > 0 -> "started"
      [] ~Freed /\ ended = 0 /\ started = 0 /\ wpc = "connecting" -> "connecting"
      [] OTHER                             -> "waiting"

Contract == INSTANCE SessionContract WITH phase <- Phase

\* The threads together give the browser the session it may rely on.
Implements == Contract!Spec

-----------------------------------------------------------------------------
(***************************************************************************)
(* What the comments of the code say and the code does not do.             *)
(***************************************************************************)

\* RDP.hpp:90 "Actively terminates a session.": a Disconnect that stopped the worker
\* and returned success leaves no connection to the RDP server.
DisconnectTerminates == result = "joined" => link # "up"

-----------------------------------------------------------------------------
(***************************************************************************)
(* The inductive invariant behind the safety properties.                   *)
(***************************************************************************)

TearDown == {"stop", "close", "library", "join", "free", "gone"}

\* m_State, the library's connection, the pending errors and the texts agree
\* with where the worker is.
WorkerInv ==
    /\ wpc \in {"connecting", "connected", "failed"} => state = "CONNECT"
    /\ state \in {"CONNECTED", "CLOSED"} \/ wpc = "connected" => link # "none"
    /\ link # "none" => \/ state \in {"CONNECTED", "CLOSED"} \/ wpc = "connected"
                        \/ Freed \/ ~Working \/ Strayed
    /\ started = 0 <=> link = "none"
    /\ ended \in {0, 1}
    /\ ended = 1 => wpc = "done" /\ link # "none"
    /\ wpc = "done" /\ state = "CONNECTED" /\ ~Freed => ended = 1
    /\ wpc \in {"shall", "switch", "connecting", "connected", "failed", "check"} => errMsg = {}
    /\ wpc \in {"exit", "done"} => ~threadLoop \/ errMsg = {}

\* m_bThreadLoop is cleared by Disconnect and by the worker, and by nothing else.
LoopInv ==
    /\ opc \in TearDown \cup {"absent"} => ~threadLoop
    /\ wpc = "none" \/ lastError \in QuietErrors => ~threadLoop
    /\ ~threadLoop => \/ opc \in TearDown \cup {"absent"}
                      \/ wpc = "none" \/ lastError \in QuietErrors
    /\ lastError \in QuietErrors => wpc # "error"

\* How far the destruction has got determines what is left of m_State.
OwnerInv ==
    /\ opc = "absent" => wpc = "none"
    /\ wpc = "none" => /\ errMsg = {} /\ lastError = 0 /\ state = "INITIAL"
                       /\ \A t \in Threads : call[t] # "fill"
    /\ opc = "close" => state = "CONNECTED"
    /\ opc = "library" => state = "CLOSED"
    /\ state = "CLOSED" => opc \in {"library", "join", "free", "gone"}
    /\ opc = "join" /\ state = "CLOSED" => link = "down"
    /\ opc \in {"stop", "close", "library", "join"} => wpc # "none"
    /\ opc \in {"free", "gone"} <=> result # "pending"
    /\ result = "joined" =>
        /\ wpc = "done"
        /\ link = "up" => ended = 1 \/ (Strayed /\ state \in {"INITIAL", "CONNECT"})
    /\ result = "skipped" => wpc = "none" \/ lastError \in QuietErrors

\* Who is in PrepareRDP with the object keeps it alive, and its own visitor is there
\* only with a request for a session that nobody but a stranger has asked for.
CallInv ==
    /\ opc # "alive" => Away /\ ~mapped /\ ~registered
    /\ call[Own] # "away" => mapped
    /\ call[Own] \in {"connect", "fill"} => state = "INITIAL" \/ Strayed

\* Requests that the worker has yet to answer: the next one of the object's own
\* visitor or one that is in m_State, and one more that its own visitor is about to
\* write over a stranger's.
Unanswered ==
    (IF state \in {"INITIAL", "CONNECT"} /\ wpc # "connected" /\ ~Freed THEN 1 ELSE 0)
    + (IF call[Own] \in {"connect", "fill"} /\ state # "INITIAL" THEN 1 ELSE 0)

TextInv == started + Unanswered <= 1 + strays

IInv == TypeOK /\ WorkerInv /\ LoopInv /\ OwnerInv /\ CallInv /\ TextInv
=============================================================================
