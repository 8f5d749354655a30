----------------------------- MODULE Lifecycle -----------------------------
(***************************************************************************)
(* The main program (wsgate_main.cpp) on Linux and on Windows: one or two  *)
(* servers, the daemon with its pid file, and the signals that arrive at   *)
(* any moment of it.                                                       *)
(*                                                                         *)
(* A server is 1 (srv, the port with TLS if there are two) or 2 (psrv).    *)
(* What ReadConfig does inside is Configuration's; here it takes the       *)
(* version of the file that is on disk.  StartServer and StopServer are    *)
(* EHS's (external): a start fails if the port cannot be bound.            *)
(***************************************************************************)
EXTENDS Naturals

CONSTANT MaxEdits       \* bound: changes of the configuration file

ASSUME LifecycleAssumption == MaxEdits \in Nat

VARIABLES
    platform,   \* "linux", "console" (a Windows program) or "service" (a Windows service)
    setup,      \* from the first ReadConfig: two ports, daemon and pid file wanted
    file,       \* version of the configuration file
    pc,         \* where main is
    exit,       \* what main returned
    loaded,     \* the version each server has read, 0 if none
    published,  \* the servers that g_srv and g_psrv point to
    listening,  \* servers started and not stopped
    gone,       \* servers destroyed
    handled,    \* signals that have a handler
    hup,        \* the server that the handler of SIGHUP comes to next, 0 if it does not run
    signaled,   \* WsGateService::g_signaled
    obeyed,     \* main left its loop because of g_signaled
    pidfile,    \* the pid file exists
    ended,      \* the signal that ended the process
    apart       \* why the servers may differ: "no" reason, the file was "edited" between
                \* the one's reading and the other's, or a SIGHUP "missed" the second

process == <<platform, setup>>
servers == <<loaded, published, listening, gone>>
signals == <<handled, hup, signaled, obeyed, ended>>
mainVars == <<process, file, pc, exit, servers, signals, pidfile, apart>>

Servers == {1, 2}
Setups == [second : BOOLEAN, daemon : BOOLEAN, pid : BOOLEAN]
Platforms == {"linux", "console", "service"}
Linux == platform = "linux"

MainInit ==
    /\ platform \in Platforms /\ setup \in Setups
    /\ file = 1
    /\ pc = IF platform = "service" THEN "waiting" ELSE "options"
    /\ exit = "none"
    /\ loaded = [s \in Servers |-> 0]
    /\ published = {} /\ listening = {} /\ gone = {}
    /\ handled = {} /\ hup = 0 /\ signaled = FALSE /\ obeyed = FALSE
    /\ pidfile = FALSE /\ ended = "no" /\ apart = "no"

-----------------------------------------------------------------------------
\* A handler runs in whichever thread the system picks; before a server listens
\* and after the last one has stopped that is main's own.
Runs(point) ==
    /\ pc = point /\ ended = "no"
    /\ hup = 0 \/ listening # {}

Return(code) == pc' = "returned" /\ exit' = code

\* Options: an error, --help and --version end the program.  A service has fixed ones.
Options ==
    /\ Runs("options")
    /\ \/ pc' = "read" /\ UNCHANGED exit
       \/ platform # "service" /\ \E code \in {"ok", "error"} : Return(code)
    /\ UNCHANGED <<process, file, servers, signals, pidfile, apart>>

\* SetConfigFile and ReadConfig of srv; a bad file or threading mode ends the program.
ReadFirst ==
    /\ Runs("read")
    /\ \/ loaded' = [loaded EXCEPT ![1] = file] /\ pc' = "fork" /\ UNCHANGED exit
       \/ Return("error") /\ UNCHANGED loaded
    /\ UNCHANGED <<process, file, published, listening, gone, signals, pidfile, apart>>

\* The parent returns 0 at once, whatever becomes of the child.
Fork ==
    /\ Runs("fork")
    /\ \/ ~(Linux /\ setup.daemon) /\ pc' = "install" /\ UNCHANGED exit
       \/ Linux /\ setup.daemon /\ pc' = "pidfile" /\ UNCHANGED exit
       \/ Linux /\ setup.daemon /\ Return("error")
    /\ UNCHANGED <<process, file, servers, signals, pidfile, apart>>

WritePidFile ==
    /\ Runs("pidfile")
    /\ pidfile' = setup.pid
    /\ pc' = "install"
    /\ UNCHANGED <<process, file, exit, servers, signals, apart>>

InstallHup ==
    /\ Runs("install")
    /\ published' = IF Linux THEN {1} ELSE {}
    /\ handled' = IF Linux THEN {"hup"} ELSE {}
    /\ pc' = "install term"
    /\ UNCHANGED <<process, file, exit, loaded, listening, gone, hup, signaled, obeyed,
                   pidfile, ended, apart>>

InstallTerm ==
    /\ Runs("install term")
    /\ handled' = handled \cup {"term"}
    /\ pc' = "start"
    /\ UNCHANGED <<process, file, exit, servers, hup, signaled, obeyed, pidfile, ended, apart>>

\* StartServer; what it throws is caught behind the calls of StopServer.
Start(s, next) ==
    /\ \/ listening' = listening \cup {s} /\ pc' = next
       \/ pc' = "delete" /\ UNCHANGED listening
    /\ UNCHANGED <<process, file, exit, loaded, published, gone, signals, pidfile, apart>>

StartFirst == Runs("start") /\ Start(1, IF setup.second THEN "read second" ELSE "loop")

ReadSecond_Published ==
    /\ Runs("read second")
    /\ loaded' = [loaded EXCEPT ![2] = file]
    /\ published' = IF Linux THEN {1, 2} ELSE {}
    /\ pc' = "start second"
    /\ UNCHANGED <<process, file, exit, listening, gone, signals, pidfile, apart>>

\* The second server is made, and reads the file anew.
ReadSecond ==
    /\ Runs("read second")
    /\ loaded' = [loaded EXCEPT ![2] = file]
    /\ pc' = "start second"
    /\ UNCHANGED <<process, file, exit, published, listening, gone, signals, pidfile, apart>>

StartSecond == Runs("start second") /\ Start(2, "publish")

Publish_Forgotten ==
    /\ Runs("publish")
    /\ pc' = "loop"
    /\ UNCHANGED <<process, file, exit, servers, signals, pidfile, apart>>

\* g_psrv = psrv: SIGHUP reaches the second server from now on.
Publish ==
    /\ Runs("publish")
    /\ published' = IF Linux THEN {1, 2} ELSE {}
    /\ pc' = "loop"
    /\ UNCHANGED <<process, file, exit, loaded, listening, gone, signals, pidfile, apart>>

LeaveLoop_SignalIgnored(why) ==
    \/ why = "q" /\ Linux /\ ~setup.daemon
    \/ why = "server"

\* The conditions of the two loops.  EHS may ask for the end (ShouldTerminate); q is
\* read in the foreground, which is what a Windows program never is.
LeaveLoop(why) ==
    \/ why = "signaled" /\ ~Linux /\ signaled
    \/ why = "q" /\ Linux /\ ~setup.daemon
    \/ why = "server"

Leave(why) ==
    /\ Runs("loop") /\ LeaveLoop(why)
    /\ obeyed' = (why = "signaled")
    /\ pc' = "stop"
    /\ UNCHANGED <<process, file, exit, servers, handled, hup, signaled, pidfile, ended, apart>>

Stop ==
    /\ Runs("stop")
    /\ \/ 1 \in listening /\ listening' = listening \ {1} /\ UNCHANGED pc
       \/ 1 \notin listening /\ listening' = {} /\ pc' = "delete"
    /\ UNCHANGED <<process, file, exit, loaded, published, gone, signals, pidfile, apart>>

\* delete psrv, to which g_psrv still points.
DeleteSecond ==
    /\ Runs("delete")
    /\ gone' = gone \cup {2}
    /\ pc' = "exiting"
    /\ UNCHANGED <<process, file, exit, loaded, published, listening, signals, pidfile, apart>>

\* return 0: srv is destroyed, WsGate first, which takes the pid file with it ...
DestroyFirst ==
    /\ Runs("exiting") /\ 1 \notin gone
    /\ gone' = Servers
    /\ pidfile' = FALSE
    /\ UNCHANGED <<process, file, pc, exit, loaded, published, listening, signals, apart>>

\* ... and then EHS, which stops a server that StopServer was not called for.
EndFirst ==
    /\ Runs("exiting") /\ 1 \in gone /\ listening # {}
    /\ listening' = {}
    /\ UNCHANGED <<process, file, pc, exit, loaded, published, gone, signals, pidfile, apart>>

ReturnMain ==
    /\ Runs("exiting") /\ 1 \in gone /\ listening = {}
    /\ Return("ok")
    /\ UNCHANGED <<process, file, servers, signals, pidfile, apart>>

Main ==
    \/ Options \/ ReadFirst \/ Fork \/ WritePidFile \/ InstallHup \/ InstallTerm
    \/ StartFirst \/ ReadSecond \/ StartSecond \/ Publish
    \/ Leave("signaled") \/ Stop \/ DeleteSecond \/ DestroyFirst \/ EndFirst \/ ReturnMain

-----------------------------------------------------------------------------
\* Outside main: the administrator and the init scripts.
Present == ended = "no" /\ pc \notin {"waiting", "returned"}

\* One server has read the file and the other comes next: at the start, or at SIGHUP.
Reading == setup.second /\ (hup = 2 \/ (loaded[1] > 0 /\ loaded[2] = 0))

\* There is a second server and g_psrv does not point to it yet.
Unpublished == pc \in {"start second", "publish"}

Edit ==
    /\ file <= MaxEdits
    /\ file' = file + 1
    /\ apart' = IF Reading THEN "edited" ELSE apart
    /\ UNCHANGED <<process, pc, exit, servers, signals, pidfile>>

\* SIGHUP: without a handler it ends the process.  One at a time.
Hup ==
    /\ Present /\ Linux /\ hup = 0
    /\ \/ "hup" \in handled /\ hup' = 1 /\ UNCHANGED ended
       \/ "hup" \notin handled /\ ended' = "hup" /\ UNCHANGED hup
    /\ UNCHANGED <<process, file, pc, exit, servers, handled, signaled, obeyed, pidfile, apart>>

\* reload: ReadConfig through g_srv and then g_psrv, one after the other.
Reload ==
    /\ Present /\ hup # 0
    /\ hup' = IF hup = 1 THEN 2 ELSE 0
    /\ \/ /\ hup \in published \cap gone        \* a destroyed object is used
          /\ ended' = "hup" /\ UNCHANGED <<loaded, apart>>
       \/ /\ hup \in published \ gone
          /\ loaded' = [loaded EXCEPT ![hup] = file]
          /\ apart' = IF hup = 1 THEN "no" ELSE apart
          /\ UNCHANGED ended
       \/ /\ hup \notin published
          /\ apart' = IF hup = 2 /\ Unpublished /\ apart # "edited" THEN "missed" ELSE apart
          /\ UNCHANGED <<loaded, ended>>
    /\ UNCHANGED <<process, file, pc, exit, published, listening, gone, handled, signaled,
                   obeyed, pidfile>>

\* SIGTERM or SIGINT: terminate sets g_signaled on Windows and nothing on Linux.
Terminate ==
    /\ Present /\ platform # "service"
    /\ \/ "term" \in handled /\ signaled' = ~Linux /\ UNCHANGED ended
       \/ "term" \notin handled /\ ended' = "term" /\ UNCHANGED signaled
    /\ UNCHANGED <<process, file, pc, exit, servers, handled, hup, obeyed, pidfile, apart>>

\* What the init scripts do when SIGTERM had no effect.
Kill ==
    /\ Present /\ Linux
    /\ ended' = "kill"
    /\ UNCHANGED <<process, file, pc, exit, servers, handled, hup, signaled, obeyed, pidfile, apart>>

\* The end of the loop that nobody need wait for.
LeaveOtherwise == \E why \in {"q", "server"} : Leave(why)

Outside == LeaveOtherwise \/ Edit \/ Hup \/ Reload \/ Terminate \/ Kill

-----------------------------------------------------------------------------
(***************************************************************************)
(* Properties.                                                             *)
(***************************************************************************)

\* SIGHUP reloads, and ends a process that serves only in one case: the start of the
\* second server failed, StopServer was skipped, and main is destroying the first one,
\* to which g_srv still points.  Otherwise it kills before its handler is installed (the
\* pid file may be there) or after the servers have stopped.
HupHarmless ==
    ended = "hup" =>
        \/ listening = {}
        \/ listening = {1} /\ 1 \in gone /\ setup.second /\ 2 \notin published

\* Two servers of one program have the same configuration between reloads, unless the
\* file changed after one of them had read it and before the other did, or a SIGHUP
\* came before g_psrv pointed to the second, which then has the older one.
ServersAgree ==
    pc = "loop" /\ hup = 0 /\ setup.second =>
        \/ loaded[1] = loaded[2]
        \/ apart = "edited"
        \/ apart = "missed" /\ loaded[2] < loaded[1]
=============================================================================
