---------------------------- MODULE WinService ------------------------------
(***************************************************************************)
(* The program as a Windows service: NTService (NTService.cpp),            *)
(* WsGateService (wsGateService.cpp) and the service control manager, SCM, *)
(* around the main program of Lifecycle.                                   *)
(*                                                                         *)
(* ServiceMain runs in a thread the SCM starts, ControlHandler in the one  *)
(* that dispatches controls; both write m_ServiceStatus and g_signaled and *)
(* neither takes a lock.  The SCM knows what was reported last, and sends  *)
(* a stop only to a service reported as running (external).                *)
(***************************************************************************)
EXTENDS Lifecycle

VARIABLES
    installed,  \* the SCM has the service
    admin,      \* an administrator's command line: "none", or command and IsServiceInstalled
    svc,        \* where ServiceMain is
    ctl,        \* where ControlHandler is with a stop
    current,    \* m_ServiceStatus.dwCurrentState
    code,       \* m_ServiceStatus.dwWin32ExitCode
    reported,   \* the state the SCM was told last
    lost        \* RunService has cleared a g_signaled that was set

scm == <<installed, admin, reported>>
status == <<current, code>>
serviceVars == <<scm, svc, ctl, status, lost>>
vars == <<mainVars, serviceVars>>

NoCommand == <<"none", FALSE>>
Commands == {"--query", "--start", "--stop", "--install", "--remove"}

Init ==
    /\ MainInit
    /\ installed \in (IF platform = "service" THEN BOOLEAN ELSE {FALSE})
    /\ admin = NoCommand
    /\ svc = "none" /\ ctl = "idle"
    /\ current = "stopped" /\ code = "zero" /\ reported = "stopped" /\ lost = FALSE

-----------------------------------------------------------------------------
\* Another process of the program, with one of the special arguments: it looks
\* whether the service is installed ...
ParseSpecialArgs(command) ==
    /\ platform = "service" /\ admin = NoCommand
    /\ admin' = <<command, installed>>
    /\ UNCHANGED <<mainVars, installed, reported, svc, ctl, status, lost>>

\* ... and asks the SCM, which refuses what it cannot do; a refusal is only printed.
Installs == admin = <<"--install", FALSE>> /\ installed' = TRUE
Removes == admin = <<"--remove", TRUE>> /\ installed' = FALSE

StartService ==
    /\ admin[1] = "--start" /\ installed /\ svc = "none"
    /\ svc' = "main thread" /\ reported' = "start pending"

\* The SCM sends a stop to a service that runs as far as it knows.
Deliver == ctl = "idle" /\ reported = "running"

StopService == admin[1] = "--stop" /\ installed /\ Deliver /\ ctl' = "stop"

Command ==
    /\ admin # NoCommand /\ admin' = NoCommand
    /\ \/ Installs /\ UNCHANGED <<reported, svc, ctl>>
       \/ Removes /\ UNCHANGED <<reported, svc, ctl>>
       \/ StartService /\ UNCHANGED <<installed, ctl>>
       \/ StopService /\ UNCHANGED <<installed, reported, svc>>
       \/ UNCHANGED <<installed, reported, svc, ctl>>
    /\ UNCHANGED <<mainVars, status, lost>>

-----------------------------------------------------------------------------
\* ServiceMain.  Where the handler cannot be registered nothing more is said.
ServiceMain ==
    /\ svc = "main thread"
    /\ current' = "start pending"
    /\ svc' \in {"initialize", "unregistered"}
    /\ UNCHANGED <<mainVars, scm, ctl, code, lost>>

InitializeService ==
    /\ svc = "initialize"
    /\ reported' = "start pending"
    /\ svc' = "initialized"
    /\ UNCHANGED <<mainVars, installed, admin, ctl, status, lost>>

\* The exit code is whatever GetLastError says of earlier calls, until RunService.
SetRunning ==
    /\ svc = "initialized"
    /\ current' = "running" /\ code' \in {"zero", "left over"}
    /\ svc' = "report running"
    /\ UNCHANGED <<mainVars, scm, ctl, lost>>

ReportRunning ==
    /\ svc = "report running"
    /\ reported' = current
    /\ svc' = "run"
    /\ UNCHANGED <<mainVars, installed, admin, ctl, status, lost>>

\* RunService begins with g_signaled = false and goes on with the main program.
RunService ==
    /\ svc = "run"
    /\ code' = "zero"
    /\ signaled' = FALSE /\ lost' = signaled
    /\ pc' = "options" /\ svc' = "serving"
    /\ UNCHANGED <<process, file, exit, servers, handled, hup, obeyed, ended, pidfile, apart,
                   scm, ctl, current>>

MainReturned ==
    /\ svc = "serving" /\ pc = "returned"
    /\ code' = IF exit = "error" THEN "specific" ELSE code
    /\ svc' = "set stopped"
    /\ UNCHANGED <<mainVars, scm, ctl, current, lost>>

SetStopped ==
    /\ svc = "set stopped"
    /\ current' = "stopped"
    /\ svc' = "report stopped"
    /\ UNCHANGED <<mainVars, scm, ctl, code, lost>>

ReportStopped ==
    /\ svc = "report stopped"
    /\ reported' = current
    /\ svc' = "over"
    /\ UNCHANGED <<mainVars, installed, admin, ctl, status, lost>>

Service ==
    \/ ServiceMain \/ InitializeService \/ SetRunning \/ ReportRunning
    \/ RunService \/ MainReturned \/ SetStopped \/ ReportStopped

-----------------------------------------------------------------------------
\* ControlHandler.
Registered == svc \notin {"none", "main thread", "unregistered"}

Interrogate ==
    /\ Registered /\ ctl = "idle" /\ reported # "stopped"
    /\ reported' = current
    /\ UNCHANGED <<mainVars, installed, admin, svc, ctl, status, lost>>

SetStopPending_Last ==
    /\ ctl = "stop"
    /\ signaled' = TRUE
    /\ IF signaled THEN current' = "stop pending" /\ ctl' = "report" ELSE UNCHANGED <<current, ctl>>
    /\ UNCHANGED <<process, file, pc, exit, servers, handled, hup, obeyed, ended, pidfile, apart,
                   scm, svc, code, lost>>

SetStopPending ==
    /\ ctl = "stop"
    /\ current' = "stop pending"
    /\ ctl' = "report"
    /\ UNCHANGED <<mainVars, scm, svc, code, lost>>

ReportStopPending ==
    /\ ctl = "report"
    /\ reported' = current
    /\ ctl' = "notify"
    /\ UNCHANGED <<mainVars, installed, admin, svc, status, lost>>

\* OnServiceStop.
OnServiceStop ==
    /\ ctl = "notify"
    /\ signaled' = TRUE
    /\ ctl' = "idle"
    /\ UNCHANGED <<process, file, pc, exit, servers, handled, hup, obeyed, ended, pidfile, apart,
                   scm, svc, status, lost>>

ControlHandler == SetStopPending \/ ReportStopPending \/ OnServiceStop

-----------------------------------------------------------------------------
\* The process, or the service, is over.
Done ==
    /\ ~Present /\ (platform = "service" => svc \in {"none", "over", "unregistered"})
    /\ UNCHANGED vars

MainStep == (Main \/ Outside) /\ UNCHANGED serviceVars

Next ==
    \/ MainStep
    \/ \E command \in Commands : ParseSpecialArgs(command)
    \/ Command
    \/ Service
    \/ Interrogate \/ ControlHandler
    \/ Done

\* The threads of the program are run.
Fairness ==
    /\ WF_vars(Main /\ UNCHANGED serviceVars)
    /\ WF_vars(Service) /\ WF_vars(ControlHandler)

Spec == Init /\ [][Next]_vars /\ Fairness

-----------------------------------------------------------------------------
(***************************************************************************)
(* Properties.                                                             *)
(***************************************************************************)

\* Whoever asks a Windows server to end (a stop of the service, Ctrl-C) is obeyed,
\* except for a stop that came between the report SERVICE_RUNNING and the first
\* statement of RunService, which clears it.
StopEnds == signaled ~> (pc = "returned" \/ lost)

\* A service that ends because it was told to is reported as stopped: the pending state
\* that ControlHandler reports comes before the flag that ServiceMain waits for.
ToldStopped == svc = "over" /\ ctl = "idle" /\ obeyed => reported = "stopped"
=============================================================================
