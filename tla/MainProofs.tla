----------------------------- MODULE MainProofs -----------------------------
(***************************************************************************)
(* The main program and its configuration.                                 *)
(*                                                                         *)
(* Lifecycle and WinService: HupHarmless, ServersAgree and ToldStopped for *)
(* any number of edits, on every platform.  The invariant says, for each   *)
(* part of main and of the service, what is already installed, listening,  *)
(* read or told there.                                                     *)
(*                                                                         *)
(* Configuration: overrides, placeholder and reload, for any number of     *)
(* reloading threads, files, hosts and ports.  What an override has had    *)
(* since a copy began has the value it has now, and whatever was copied; a *)
(* ReadConfig that runs alone leaves behind it what a start stores and     *)
(* before it what was there when it began.                                 *)
(***************************************************************************)
EXTENDS WinService, Configuration, TLAPS

-----------------------------------------------------------------------------
(***************************************************************************)
(* Lifecycle and WinService.                                               *)
(***************************************************************************)

States == {"stopped", "start pending", "running", "stop pending"}
ServicePoints == {"none", "main thread", "initialize", "unregistered", "initialized",
                  "report running", "run", "serving", "set stopped", "report stopped", "over"}

Points == {"waiting", "options", "read", "fork", "pidfile", "install", "install term", "start",
           "read second", "start second", "publish", "loop", "stop", "delete", "exiting", "returned"}

\* Where main is, what it has told, which servers it has.
Places ==
    /\ platform \in Platforms /\ pc \in Points /\ exit \in {"none", "ok", "error"}
    /\ hup \in 0..2 /\ ended \in {"no", "hup", "term", "kill"}

Sets ==
    /\ published \subseteq Servers /\ listening \subseteq Servers /\ gone \subseteq Servers
    /\ handled \subseteq {"hup", "term"}

ServicePlaces ==
    /\ svc \in ServicePoints /\ ctl \in {"idle", "stop", "report", "notify"}
    /\ current \in States /\ reported \in States

Versions ==
    /\ file \in 1..(MaxEdits + 1) /\ loaded \in [Servers -> 0..(MaxEdits + 1)]
    /\ \A s \in Servers : loaded[s] <= file

Flags ==
    /\ setup \in Setups
    /\ signaled \in BOOLEAN /\ obeyed \in BOOLEAN /\ pidfile \in BOOLEAN
    /\ apart \in {"no", "edited", "missed"}

TypeOK == Places /\ Sets /\ ServicePlaces /\ Versions /\ Flags

\* Where main is while the service is in each of its parts.
ServiceInv ==
    /\ platform # "service" => svc = "none" /\ admin = NoCommand /\ pc # "waiting"
    /\ platform = "service" =>
        /\ svc \in {"none", "main thread", "initialize", "unregistered", "initialized",
                    "report running", "run"} => pc = "waiting"
        /\ svc \in {"set stopped", "report stopped", "over"} => pc = "returned"
    /\ hup # 0 => Linux

Early == {"waiting", "options", "read", "fork", "pidfile", "install"}

\* What the handler of SIGHUP finds.
HupInv ==
    /\ pc \in Early => listening = {} /\ published = {}
    /\ pc = "returned" => listening = {}
    /\ Linux /\ pc \notin Early /\ pc # "returned" => "hup" \in handled
    /\ gone # {} => pc \in {"exiting", "returned"}
    /\ pc = "exiting" => gone \in {{2}, Servers}
    /\ 2 \in published => pc \in {"loop", "stop", "delete", "exiting", "returned"}
    /\ 2 \in published /\ pc \in {"delete", "exiting", "returned"} => listening = {}
    /\ pc \in {"read second", "start second", "publish"} => setup.second
    /\ pc \in {"install term", "start"} => listening = {}
    /\ pc \in {"read second", "start second"} => listening = {1}
    /\ pc \in {"delete", "exiting"} => listening = {} \/ (listening = {1} /\ setup.second)
    /\ ended = "hup" => \/ listening = {}
                        \/ listening = {1} /\ 1 \in gone /\ setup.second /\ 2 \notin published

\* Where only the first server has read, and where both have.
OneRead == {"fork", "pidfile", "install", "install term", "start", "read second"}
BothRead == {"start second", "publish", "loop"}

Agree ==
    \/ loaded[1] = loaded[2]
    \/ apart = "edited"
    \/ apart = "missed" /\ loaded[2] < loaded[1]

UpToDate == loaded[1] = file \/ apart = "edited"

\* What the handler reaches.
ReachInv ==
    /\ Linux /\ pc \in {"install term", "start", "read second"} \cup BothRead => 1 \in published
    /\ Linux /\ pc = "loop" /\ setup.second => 2 \in published

\* What the servers have read.
OneReadInv ==
    /\ pc \in {"waiting", "options", "read"} \cup OneRead => loaded[2] = 0
    /\ pc \in OneRead => loaded[1] > 0 /\ (setup.second => UpToDate)

BothReadInv == pc \in BothRead /\ setup.second => IF hup = 2 THEN UpToDate ELSE Agree

ReadInv == ReachInv /\ OneReadInv /\ BothReadInv

\* What the SCM has been told when main is, or will be, asked to end.
StopInv ==
    /\ ctl \in {"report", "notify"} => current \in {"stop pending", "stopped"}
    /\ ctl = "notify" => reported \in {"stop pending", "stopped"}
    /\ platform = "service" =>
        /\ signaled => ctl = "idle" /\ current \in {"stop pending", "stopped"} /\ reported # "running"
        /\ obeyed => signaled /\ pc # "waiting"
        /\ svc \in {"none", "main thread", "initialize", "unregistered", "initialized"} =>
                ctl = "idle" /\ ~signaled /\ reported # "running" /\ current # "running"
    /\ svc = "report stopped" /\ obeyed => current = "stopped"
    /\ svc = "over" /\ obeyed => current = "stopped" /\ reported = "stopped"

IInv == Places /\ Sets /\ ServicePlaces /\ Versions /\ ServiceInv /\ HupInv /\ ReadInv /\ StopInv

-----------------------------------------------------------------------------
\* Who takes a step.
LEMMA Cases ==
    ASSUME [Next]_vars
    PROVE  \/ Main /\ UNCHANGED serviceVars
           \/ Outside /\ UNCHANGED serviceVars
           \/ Service
           \/ Interrogate \/ ControlHandler
           \/ Command \/ \E command \in Commands : ParseSpecialArgs(command)
           \/ UNCHANGED vars
  BY DEF Next, MainStep, Done

\* Main stays in its program.
LEMMA PlacesStep ==
    ASSUME IInv, [Next]_vars PROVE Places'
<1> USE DEF IInv, mainVars, servers, signals, process, serviceVars, scm, status, Places,
     Points, Platforms
<1>1. CASE Main /\ UNCHANGED serviceVars
  BY <1>1 DEF Main, Options, ReadFirst, Fork, WritePidFile, InstallHup, InstallTerm,
     StartFirst, ReadSecond, StartSecond, Publish, Leave, LeaveLoop, Stop, DeleteSecond,
     DestroyFirst, EndFirst, ReturnMain, Start, Return, Runs
<1>2. CASE Outside /\ UNCHANGED serviceVars
  <2>1. CASE LeaveOtherwise /\ UNCHANGED serviceVars
    BY <2>1 DEF LeaveOtherwise, Leave, LeaveLoop, Runs
  <2>2. CASE Edit /\ UNCHANGED serviceVars
    BY <2>2 DEF Edit, Reading
  <2>3. CASE Hup /\ UNCHANGED serviceVars
    <3>1. hup' = hup \/ hup' = 1
      BY <2>3 DEF Hup
    <3>2. ended' = ended \/ ended' = "hup"
      BY <2>3 DEF Hup
    <3>3. UNCHANGED <<platform, pc, exit>>
      BY <2>3 DEF Hup
    <3>4. Places
      BY DEF IInv
    <3> HIDE DEF IInv, Points, Platforms
    <3> QED
      BY <3>1, <3>2, <3>3, <3>4
  <2>4. CASE Reload /\ UNCHANGED serviceVars
    <3>1. hup' = 2 \/ hup' = 0
      BY <2>4 DEF Reload
    <3>2. ended' = ended \/ ended' = "hup"
      BY <2>4 DEF Reload
    <3>3. UNCHANGED <<platform, pc, exit>>
      BY <2>4 DEF Reload
    <3>4. Places
      BY DEF IInv
    <3> HIDE DEF IInv, Points, Platforms
    <3> QED
      BY <3>1, <3>2, <3>3, <3>4
  <2>5. CASE Terminate /\ UNCHANGED serviceVars
    BY <2>5 DEF Terminate, Present
  <2>6. CASE Kill /\ UNCHANGED serviceVars
    BY <2>6 DEF Kill, Present
  <2> QED
    BY <1>2, <2>1, <2>2, <2>3, <2>4, <2>5, <2>6 DEF Outside
<1>3. CASE Service
  BY <1>3 DEF Service, ServiceMain, InitializeService, SetRunning, ReportRunning,
     RunService, MainReturned, SetStopped, ReportStopped
<1>4. CASE Interrogate \/ ControlHandler
  BY <1>4 DEF ControlHandler, Interrogate, Registered, SetStopPending,
     ReportStopPending, OnServiceStop
<1>5. CASE Command \/ \E command \in Commands : ParseSpecialArgs(command)
  BY <1>5 DEF ParseSpecialArgs, Command, Installs, Removes, StartService, StopService,
     Deliver, NoCommand
<1>6. CASE UNCHANGED vars
  BY <1>6 DEF vars
<1> QED
  BY <1>1, <1>2, <1>3, <1>4, <1>5, <1>6, Cases

\* The sets of servers and signals.
LEMMA SetsStep ==
    ASSUME IInv, [Next]_vars PROVE Sets'
<1> USE DEF IInv, mainVars, servers, signals, process, serviceVars, scm, status, Sets,
     Servers
<1>1. CASE Main /\ UNCHANGED serviceVars
  BY <1>1 DEF Main, Options, ReadFirst, Fork, WritePidFile, InstallHup, InstallTerm,
     StartFirst, ReadSecond, StartSecond, Publish, Leave, LeaveLoop, Stop, DeleteSecond,
     DestroyFirst, EndFirst, ReturnMain, Start, Return, Runs
<1>2. CASE Outside /\ UNCHANGED serviceVars
  BY <1>2 DEF Outside, LeaveOtherwise, Leave, LeaveLoop, Runs, Edit, Reading, Hup,
     Reload, Terminate, Kill, Present
<1>3. CASE Service
  BY <1>3 DEF Service, ServiceMain, InitializeService, SetRunning, ReportRunning,
     RunService, MainReturned, SetStopped, ReportStopped
<1>4. CASE Interrogate \/ ControlHandler
  BY <1>4 DEF ControlHandler, Interrogate, Registered, SetStopPending,
     ReportStopPending, OnServiceStop
<1>5. CASE Command \/ \E command \in Commands : ParseSpecialArgs(command)
  BY <1>5 DEF ParseSpecialArgs, Command, Installs, Removes, StartService, StopService,
     Deliver, NoCommand
<1>6. CASE UNCHANGED vars
  BY <1>6 DEF vars
<1> QED
  BY <1>1, <1>2, <1>3, <1>4, <1>5, <1>6, Cases

\* The service's threads stay in their program.
LEMMA ServicePlacesStep ==
    ASSUME IInv, [Next]_vars PROVE ServicePlaces'
<1> USE DEF IInv, mainVars, servers, signals, process, serviceVars, scm, status,
     ServicePlaces, States, ServicePoints
<1>1. CASE Main /\ UNCHANGED serviceVars
  BY <1>1 DEF Main, Options, ReadFirst, Fork, WritePidFile, InstallHup, InstallTerm,
     StartFirst, ReadSecond, StartSecond, Publish, Leave, LeaveLoop, Stop, DeleteSecond,
     DestroyFirst, EndFirst, ReturnMain, Start, Return, Runs
<1>2. CASE Outside /\ UNCHANGED serviceVars
  BY <1>2 DEF Outside, LeaveOtherwise, Leave, LeaveLoop, Runs, Edit, Reading, Hup,
     Reload, Terminate, Kill, Present
<1>3. CASE Service
  BY <1>3 DEF Service, ServiceMain, InitializeService, SetRunning, ReportRunning,
     RunService, MainReturned, SetStopped, ReportStopped
<1>4. CASE Interrogate \/ ControlHandler
  BY <1>4 DEF ControlHandler, Interrogate, Registered, SetStopPending,
     ReportStopPending, OnServiceStop
<1>5. CASE Command \/ \E command \in Commands : ParseSpecialArgs(command)
  BY <1>5 DEF ParseSpecialArgs, Command, Installs, Removes, StartService, StopService,
     Deliver, NoCommand
<1>6. CASE UNCHANGED vars
  BY <1>6 DEF vars
<1> QED
  BY <1>1, <1>2, <1>3, <1>4, <1>5, <1>6, Cases

\* Versions are those the file has had.
LEMMA VersionsStep ==
    ASSUME IInv, [Next]_vars PROVE Versions'
<1> USE DEF IInv, mainVars, servers, signals, process, serviceVars, scm, status,
     Versions, Servers
<1>1. CASE Main /\ UNCHANGED serviceVars
  <2>1. CASE Options /\ UNCHANGED serviceVars
    BY <2>1 DEF Options, Return, Runs
  <2>2. CASE ReadFirst /\ UNCHANGED serviceVars
    BY <2>2 DEF ReadFirst, Return, Runs
  <2>3. CASE Fork /\ UNCHANGED serviceVars
    BY <2>3 DEF Fork, Return, Runs
  <2>4. CASE WritePidFile /\ UNCHANGED serviceVars
    BY <2>4 DEF WritePidFile, Runs
  <2>5. CASE InstallHup /\ UNCHANGED serviceVars
    BY <2>5 DEF InstallHup, Runs
  <2>6. CASE InstallTerm /\ UNCHANGED serviceVars
    BY <2>6 DEF InstallTerm, Runs
  <2>7. CASE StartFirst /\ UNCHANGED serviceVars
    BY <2>7 DEF StartFirst, Start, Runs
  <2>8. CASE ReadSecond /\ UNCHANGED serviceVars
    <3>1. loaded' = [loaded EXCEPT ![2] = file] /\ file' = file
      BY <2>8 DEF ReadSecond
    <3> QED
      BY <3>1
  <2>9. CASE StartSecond /\ UNCHANGED serviceVars
    BY <2>9 DEF StartSecond, Start, Runs
  <2>10. CASE Publish /\ UNCHANGED serviceVars
    BY <2>10 DEF Publish, Runs
  <2>11. CASE Leave("signaled") /\ UNCHANGED serviceVars
    BY <2>11 DEF Leave, LeaveLoop, Runs
  <2>12. CASE Stop /\ UNCHANGED serviceVars
    BY <2>12 DEF Stop, Runs
  <2>13. CASE DeleteSecond /\ UNCHANGED serviceVars
    BY <2>13 DEF DeleteSecond, Runs
  <2>14. CASE DestroyFirst /\ UNCHANGED serviceVars
    BY <2>14 DEF DestroyFirst, Runs
  <2>16. CASE EndFirst /\ UNCHANGED serviceVars
    BY <2>16 DEF EndFirst, Runs
  <2>15. CASE ReturnMain /\ UNCHANGED serviceVars
    BY <2>15 DEF ReturnMain, Return, Runs
  <2> QED
    BY <1>1, <2>1, <2>2, <2>3, <2>4, <2>5, <2>6, <2>7, <2>8, <2>9, <2>10, <2>11, <2>12,
       <2>13, <2>14, <2>15, <2>16 DEF Main
<1>2. CASE Outside /\ UNCHANGED serviceVars
  <2>1. CASE LeaveOtherwise /\ UNCHANGED serviceVars
    BY <2>1 DEF LeaveOtherwise, Leave, LeaveLoop, Runs
  <2>2. CASE Edit /\ UNCHANGED serviceVars
    BY <2>2, LifecycleAssumption DEF Edit
  <2>3. CASE Hup /\ UNCHANGED serviceVars
    BY <2>3 DEF Hup, Present
  <2>4. CASE Reload /\ UNCHANGED serviceVars
    BY <2>4 DEF Reload, Present
  <2>5. CASE Terminate /\ UNCHANGED serviceVars
    BY <2>5 DEF Terminate, Present
  <2>6. CASE Kill /\ UNCHANGED serviceVars
    BY <2>6 DEF Kill, Present
  <2> QED
    BY <1>2, <2>1, <2>2, <2>3, <2>4, <2>5, <2>6 DEF Outside
<1>3. CASE Service
  BY <1>3 DEF Service, ServiceMain, InitializeService, SetRunning, ReportRunning,
     RunService, MainReturned, SetStopped, ReportStopped
<1>4. CASE Interrogate \/ ControlHandler
  BY <1>4 DEF ControlHandler, Interrogate, Registered, SetStopPending,
     ReportStopPending, OnServiceStop
<1>5. CASE Command \/ \E command \in Commands : ParseSpecialArgs(command)
  BY <1>5 DEF ParseSpecialArgs, Command, Installs, Removes, StartService, StopService,
     Deliver, NoCommand
<1>6. CASE UNCHANGED vars
  BY <1>6 DEF vars
<1> QED
  BY <1>1, <1>2, <1>3, <1>4, <1>5, <1>6, Cases

\* Main and the service's threads keep step.
LEMMA ServiceStep ==
    ASSUME IInv, [Next]_vars PROVE ServiceInv'
<1> USE DEF IInv, mainVars, servers, signals, process, serviceVars, scm, status, Places,
     ServicePlaces, ServiceInv, Linux
<1>1. CASE Main /\ UNCHANGED serviceVars
  BY <1>1 DEF Main, Options, ReadFirst, Fork, WritePidFile, InstallHup, InstallTerm,
     StartFirst, ReadSecond, StartSecond, Publish, Leave, LeaveLoop, Stop, DeleteSecond,
     DestroyFirst, EndFirst, ReturnMain, Start, Return, Runs
<1>2. CASE Outside /\ UNCHANGED serviceVars
  BY <1>2 DEF Outside, LeaveOtherwise, Leave, LeaveLoop, Runs, Edit, Reading, Hup,
     Reload, Terminate, Kill, Present
<1>3. CASE Service
  BY <1>3 DEF Service, ServiceMain, InitializeService, SetRunning, ReportRunning,
     RunService, MainReturned, SetStopped, ReportStopped
<1>4. CASE Interrogate \/ ControlHandler
  BY <1>4 DEF ControlHandler, Interrogate, Registered, SetStopPending,
     ReportStopPending, OnServiceStop
<1>5. CASE Command \/ \E command \in Commands : ParseSpecialArgs(command)
  BY <1>5 DEF ParseSpecialArgs, Command, Installs, Removes, StartService, StopService,
     Deliver, NoCommand
<1>6. CASE UNCHANGED vars
  BY <1>6 DEF vars
<1> QED
  BY <1>1, <1>2, <1>3, <1>4, <1>5, <1>6, Cases

\* SIGHUP finds what it needs.
LEMMA HupStep ==
    ASSUME IInv, [Next]_vars PROVE HupInv'
<1> USE DEF IInv, mainVars, servers, signals, process, serviceVars, scm, status, Places,
     Sets, ServiceInv, HupInv, Early, Linux, Servers
<1>1. CASE Main /\ UNCHANGED serviceVars
  <2>1. CASE Options /\ UNCHANGED serviceVars
    BY <2>1 DEF Options, Return, Runs
  <2>2. CASE ReadFirst /\ UNCHANGED serviceVars
    BY <2>2 DEF ReadFirst, Return, Runs
  <2>3. CASE Fork /\ UNCHANGED serviceVars
    BY <2>3 DEF Fork, Return, Runs
  <2>4. CASE WritePidFile /\ UNCHANGED serviceVars
    BY <2>4 DEF WritePidFile, Runs
  <2>5. CASE InstallHup /\ UNCHANGED serviceVars
    <3>0. pc' = "install term" /\ UNCHANGED <<platform, listening, gone, ended>> /\ pc = "install"
      BY <2>5 DEF InstallHup, Runs
    <3>1. listening' = {} /\ gone' = {}
      BY <3>0
    <3>3. 2 \notin published'
      <4>1. published' = {1} \/ published' = {}
        BY <2>5 DEF InstallHup
      <4> HIDE DEF IInv, Places, Sets, ServiceInv, HupInv
      <4> QED
        BY <4>1
    <3>2. Linux => "hup" \in handled'
      BY <2>5 DEF InstallHup
    <3> QED
      BY <3>0, <3>1, <3>2, <3>3
  <2>6. CASE InstallTerm /\ UNCHANGED serviceVars
    BY <2>6 DEF InstallTerm, Runs
  <2>7. CASE StartFirst /\ UNCHANGED serviceVars
    BY <2>7 DEF StartFirst, Start, Runs
  <2>8. CASE ReadSecond /\ UNCHANGED serviceVars
    BY <2>8 DEF ReadSecond, Runs
  <2>9. CASE StartSecond /\ UNCHANGED serviceVars
    BY <2>9 DEF StartSecond, Start, Runs
  <2>10. CASE Publish /\ UNCHANGED serviceVars
    BY <2>10 DEF Publish, Runs
  <2>11. CASE Leave("signaled") /\ UNCHANGED serviceVars
    BY <2>11 DEF Leave, LeaveLoop, Runs
  <2>12. CASE Stop /\ UNCHANGED serviceVars
    BY <2>12 DEF Stop, Runs
  <2>13. CASE DeleteSecond /\ UNCHANGED serviceVars
    BY <2>13 DEF DeleteSecond, Runs
  <2>14. CASE DestroyFirst /\ UNCHANGED serviceVars
    BY <2>14 DEF DestroyFirst, Runs
  <2>16. CASE EndFirst /\ UNCHANGED serviceVars
    BY <2>16 DEF EndFirst, Runs
  <2>15. CASE ReturnMain /\ UNCHANGED serviceVars
    BY <2>15 DEF ReturnMain, Return, Runs
  <2> QED
    BY <1>1, <2>1, <2>2, <2>3, <2>4, <2>5, <2>6, <2>7, <2>8, <2>9, <2>10, <2>11, <2>12,
       <2>13, <2>14, <2>15, <2>16 DEF Main
<1>2. CASE Outside /\ UNCHANGED serviceVars
  BY <1>2 DEF Outside, LeaveOtherwise, Leave, LeaveLoop, Runs, Edit, Reading, Hup,
     Reload, Terminate, Kill, Present
<1>3. CASE Service
  BY <1>3 DEF Service, ServiceMain, InitializeService, SetRunning, ReportRunning,
     RunService, MainReturned, SetStopped, ReportStopped
<1>4. CASE Interrogate \/ ControlHandler
  BY <1>4 DEF ControlHandler, Interrogate, Registered, SetStopPending,
     ReportStopPending, OnServiceStop
<1>5. CASE Command \/ \E command \in Commands : ParseSpecialArgs(command)
  BY <1>5 DEF ParseSpecialArgs, Command, Installs, Removes, StartService, StopService,
     Deliver, NoCommand
<1>6. CASE UNCHANGED vars
  BY <1>6 DEF vars
<1> QED
  BY <1>1, <1>2, <1>3, <1>4, <1>5, <1>6, Cases

\* What the servers have read.
LEMMA ReadStep ==
    ASSUME IInv, [Next]_vars PROVE ReadInv'
<1> USE DEF IInv, mainVars, servers, signals, process, serviceVars, scm, status, Places,
     Sets, Versions, ServiceInv, HupInv, Early, ReadInv, ReachInv, OneReadInv, BothReadInv, OneRead, BothRead, Agree, UpToDate, Linux, Servers
<1>1. CASE Main /\ UNCHANGED serviceVars
  <2>1. CASE Options /\ UNCHANGED serviceVars
    BY <2>1 DEF Options, Return, Runs
  <2>2. CASE ReadFirst /\ UNCHANGED serviceVars
    <3>1. ReadInv /\ HupInv /\ ServiceInv
      BY DEF IInv
    <3>2. /\ file \in 1..(MaxEdits + 1) /\ loaded \in [Servers -> 0..(MaxEdits + 1)]
          /\ \A v \in Servers : loaded[v] <= file
      BY DEF IInv, Versions
    <3> HIDE DEF IInv, Places, Sets, Versions, ServiceInv, HupInv, ReadInv, ReachInv, OneReadInv, BothReadInv, Early, OneRead, BothRead,
         Agree, UpToDate
    <3>3. CASE loaded' = [loaded EXCEPT ![1] = file] /\ pc' = "fork"
      <4>1. file' = file /\ pc = "read"
        BY <2>2 DEF ReadFirst, Runs
      <4>2. loaded'[1] = file' /\ loaded'[1] > 0 /\ loaded'[2] = 0
        BY <3>1, <3>2, <3>3, <4>1, LifecycleAssumption DEF ReadInv, ReachInv, OneReadInv, BothReadInv, OneRead, BothRead
      <4> QED
        BY <3>3, <4>2 DEF ReadInv, ReachInv, OneReadInv, BothReadInv, UpToDate, OneRead, BothRead
    <3>4. CASE pc' = "returned"
      BY <3>4 DEF ReadInv, ReachInv, OneReadInv, BothReadInv, OneRead, BothRead
    <3> QED
      BY <2>2, <3>3, <3>4 DEF ReadFirst, Return
  <2>3. CASE Fork /\ UNCHANGED serviceVars
    BY <2>3 DEF Fork, Return, Runs
  <2>4. CASE WritePidFile /\ UNCHANGED serviceVars
    BY <2>4 DEF WritePidFile, Runs
  <2>5. CASE InstallHup /\ UNCHANGED serviceVars
    BY <2>5 DEF InstallHup, Runs
  <2>6. CASE InstallTerm /\ UNCHANGED serviceVars
    BY <2>6 DEF InstallTerm, Runs
  <2>7. CASE StartFirst /\ UNCHANGED serviceVars
    BY <2>7 DEF StartFirst, Start, Runs
  <2>8. CASE ReadSecond /\ UNCHANGED serviceVars
    <3>1. ReadInv /\ HupInv /\ ServiceInv
      BY DEF IInv
    <3>2. /\ file \in 1..(MaxEdits + 1) /\ loaded \in [Servers -> 0..(MaxEdits + 1)]
          /\ \A v \in Servers : loaded[v] <= file
      BY DEF IInv, Versions
    <3> HIDE DEF IInv, Places, Sets, Versions, ServiceInv, HupInv, ReadInv, ReachInv, OneReadInv, BothReadInv, Early, OneRead, BothRead,
         Agree, UpToDate
    <3>3. /\ pc = "read second" /\ pc' = "start second"
          /\ UNCHANGED <<file, apart, setup, hup, platform, published>>
      BY <2>8 DEF ReadSecond, Runs
    <3>4. loaded' = [loaded EXCEPT ![2] = file]
      BY <2>8 DEF ReadSecond
    <3>5. loaded'[2] = file /\ loaded'[1] = loaded[1]
      BY <3>2, <3>4
    <3>6. setup.second => UpToDate
      BY <3>1, <3>3 DEF ReadInv, ReachInv, OneReadInv, BothReadInv, OneRead
    <3>7. setup.second => UpToDate' /\ Agree'
      BY <3>3, <3>5, <3>6 DEF UpToDate, Agree
    <3>8. Linux => 1 \in published
      BY <3>1, <3>3 DEF ReadInv, ReachInv, OneReadInv, BothReadInv, OneRead, BothRead
    <3> QED
      BY <3>3, <3>7, <3>8 DEF ReadInv, ReachInv, OneReadInv, BothReadInv, OneRead, BothRead, Linux
  <2>9. CASE StartSecond /\ UNCHANGED serviceVars
    BY <2>9 DEF StartSecond, Start, Runs
  <2>10. CASE Publish /\ UNCHANGED serviceVars
    BY <2>10 DEF Publish, Runs
  <2>11. CASE Leave("signaled") /\ UNCHANGED serviceVars
    BY <2>11 DEF Leave, LeaveLoop, Runs
  <2>12. CASE Stop /\ UNCHANGED serviceVars
    BY <2>12 DEF Stop, Runs
  <2>13. CASE DeleteSecond /\ UNCHANGED serviceVars
    BY <2>13 DEF DeleteSecond, Runs
  <2>14. CASE DestroyFirst /\ UNCHANGED serviceVars
    BY <2>14 DEF DestroyFirst, Runs
  <2>16. CASE EndFirst /\ UNCHANGED serviceVars
    BY <2>16 DEF EndFirst, Runs
  <2>15. CASE ReturnMain /\ UNCHANGED serviceVars
    BY <2>15 DEF ReturnMain, Return, Runs
  <2> QED
    BY <1>1, <2>1, <2>2, <2>3, <2>4, <2>5, <2>6, <2>7, <2>8, <2>9, <2>10, <2>11, <2>12,
       <2>13, <2>14, <2>15, <2>16 DEF Main
<1>2. CASE Outside /\ UNCHANGED serviceVars
  <2>1. CASE LeaveOtherwise /\ UNCHANGED serviceVars
    BY <2>1 DEF LeaveOtherwise, Leave, LeaveLoop, Runs
  <2>2. CASE Edit /\ UNCHANGED serviceVars
    <3>1. ReadInv /\ HupInv /\ ServiceInv
      BY DEF IInv
    <3>2. /\ file \in 1..(MaxEdits + 1) /\ loaded \in [Servers -> 0..(MaxEdits + 1)]
          /\ \A v \in Servers : loaded[v] <= file
      BY DEF IInv, Versions
    <3> HIDE DEF IInv, Places, Sets, Versions, ServiceInv, HupInv, ReadInv, ReachInv, OneReadInv, BothReadInv, Early, OneRead, BothRead,
         Agree, UpToDate
    <3>3. UNCHANGED <<pc, platform, setup, loaded, published, hup>>
      BY <2>2 DEF Edit
    <3>4. apart' = IF Reading THEN "edited" ELSE apart
      BY <2>2 DEF Edit
    <3>5. CASE Reading
      <4>1. UpToDate' /\ Agree'
        BY <3>4, <3>5 DEF UpToDate, Agree
      <4> QED
        BY <3>1, <3>3, <4>1 DEF ReadInv, ReachInv, OneReadInv, BothReadInv, OneRead, BothRead, Linux
    <3>6. CASE ~Reading
      <4>1. Agree => Agree'
        BY <3>3, <3>4, <3>6 DEF Agree
      <4>2. setup.second => hup # 2 /\ ~(loaded[1] > 0 /\ loaded[2] = 0)
        BY <3>6 DEF Reading
      <4>3. setup.second => pc \notin OneRead
        BY <3>1, <4>2 DEF ReadInv, ReachInv, OneReadInv, BothReadInv, OneRead, BothRead
      <4> QED
        BY <3>1, <3>3, <4>1, <4>2, <4>3 DEF ReadInv, ReachInv, OneReadInv, BothReadInv, OneRead, BothRead, Linux
    <3> QED
      BY <3>5, <3>6
  <2>3. CASE Hup /\ UNCHANGED serviceVars
    <3>1. ReadInv /\ HupInv /\ ServiceInv
      BY DEF IInv
    <3>2. /\ file \in 1..(MaxEdits + 1) /\ loaded \in [Servers -> 0..(MaxEdits + 1)]
          /\ \A v \in Servers : loaded[v] <= file
      BY DEF IInv, Versions
    <3> HIDE DEF IInv, Places, Sets, Versions, ServiceInv, HupInv, ReadInv, ReachInv, OneReadInv, BothReadInv, Early, OneRead, BothRead,
         Agree, UpToDate
    <3>3. /\ UNCHANGED <<pc, platform, setup, loaded, published, file, apart>>
          /\ hup = 0 /\ hup' \in {0, 1}
      BY <2>3 DEF Hup
    <3>4. (UpToDate <=> UpToDate') /\ (Agree <=> Agree')
      BY <3>3 DEF UpToDate, Agree
    <3> QED
      <4>1. ReachInv'
        BY <3>1, <3>3 DEF ReadInv, ReachInv, BothRead, Linux
      <4>2. OneReadInv'
        BY <3>1, <3>3, <3>4 DEF ReadInv, OneReadInv, OneRead
      <4>3. BothReadInv'
        <5>1. hup # 2 /\ hup' # 2
          BY <3>3
        <5> QED
          BY <3>1, <3>3, <3>4, <5>1 DEF ReadInv, BothReadInv, BothRead
      <4> QED
        BY <4>1, <4>2, <4>3 DEF ReadInv
  <2>4. CASE Reload /\ UNCHANGED serviceVars
    <3>1. ReadInv /\ HupInv /\ ServiceInv
      BY DEF IInv
    <3>2. /\ file \in 1..(MaxEdits + 1) /\ loaded \in [Servers -> 0..(MaxEdits + 1)]
          /\ \A v \in Servers : loaded[v] <= file
      BY DEF IInv, Versions
    <3> HIDE DEF IInv, Places, Sets, Versions, ServiceInv, HupInv, ReadInv, ReachInv, OneReadInv, BothReadInv, Early, OneRead, BothRead,
         Agree, UpToDate
    <3>3. hup \in {1, 2}
      <4>1. hup \in 0..2 /\ hup # 0
        BY <2>4 DEF Reload, IInv, Places
      <4> QED
        BY <4>1
    <3>4. /\ UNCHANGED <<pc, platform, setup, published, file>>
          /\ hup' = IF hup = 1 THEN 2 ELSE 0
      BY <2>4 DEF Reload
    <3>5. CASE hup \in published \cap gone
      <4>1. pc \in {"exiting", "returned"}
        BY <3>1, <3>5 DEF HupInv
      <4> QED
        BY <3>4, <4>1 DEF ReadInv, ReachInv, OneReadInv, BothReadInv, OneRead, BothRead
    <3>6. CASE hup \in published \ gone
      <4>1. loaded' = [loaded EXCEPT ![hup] = file] /\ apart' = IF hup = 1 THEN "no" ELSE apart
        BY <2>4, <3>6 DEF Reload
      <4>2. CASE hup = 1
        <5>1. loaded'[1] = file /\ loaded'[2] = loaded[2] /\ hup' = 2
          BY <3>2, <3>4, <4>1, <4>2
        <5>2. UpToDate' /\ loaded'[1] > 0
          BY <3>2, <3>4, <5>1, LifecycleAssumption DEF UpToDate
        <5> QED
          BY <3>1, <3>4, <5>1, <5>2 DEF ReadInv, ReachInv, OneReadInv, BothReadInv, OneRead, BothRead, Linux
      <4>3. CASE hup = 2
        <5>1. loaded'[2] = file /\ loaded'[1] = loaded[1] /\ hup' = 0 /\ apart' = apart
          BY <3>2, <3>4, <4>1, <4>3
        <5>2. pc \in {"loop", "stop", "delete", "exiting", "returned"}
          BY <3>1, <3>6, <4>3 DEF HupInv
        <5>3. UpToDate => Agree'
          BY <5>1 DEF UpToDate, Agree
        <5> QED
          <6>1. ReachInv'
            BY <3>1, <3>4 DEF ReadInv, ReachInv, BothRead, Linux
          <6>2. OneReadInv'
            BY <3>4, <5>2 DEF OneReadInv, OneRead
          <6>3. BothReadInv'
            <7>1. hup = 2 /\ hup' # 2
              BY <4>3, <5>1
            <7> QED
              BY <3>1, <3>4, <5>3, <7>1 DEF ReadInv, BothReadInv, BothRead
          <6> QED
            BY <6>1, <6>2, <6>3 DEF ReadInv
      <4> QED
        BY <3>3, <4>2, <4>3
    <3>7. CASE hup \notin published
      <4>1. /\ loaded' = loaded
            /\ apart' = IF hup = 2 /\ Unpublished /\ apart # "edited" THEN "missed" ELSE apart
        BY <2>4, <3>7 DEF Reload
      <4>2. Linux
        <5>1. hup # 0
          BY <3>3
        <5> QED
          BY <3>1, <5>1, Zenon DEF ServiceInv
      <4>3. CASE hup = 1
        <5>1. pc \notin BothRead /\ apart' = apart
          <6>1. 1 \notin published
            BY <3>7, <4>3
          <6>2. pc \notin BothRead
            BY <3>1, <4>2, <6>1, Zenon DEF ReadInv, ReachInv
          <6>3. apart' = apart
            BY <4>1, <4>3
          <6> QED
            BY <6>2, <6>3
        <5>2. UpToDate <=> UpToDate'
          BY <3>4, <4>1, <5>1 DEF UpToDate
        <5> QED
          BY <3>1, <3>4, <4>1, <5>1, <5>2 DEF ReadInv, ReachInv, OneReadInv, BothReadInv, OneRead, BothRead, Linux
      <4>4. CASE hup = 2
        <5>1. CASE pc \in BothRead /\ setup.second
          <6>1. UpToDate /\ pc # "loop"
            BY <3>1, <3>7, <4>2, <4>4, <5>1 DEF ReadInv, ReachInv, OneReadInv, BothReadInv, OneRead, BothRead
          <6>2. Unpublished /\ pc \notin OneRead \cup {"waiting", "options", "read", "loop"}
            BY <5>1, <6>1 DEF Unpublished, BothRead, OneRead
          <6>3. loaded[2] <= file
            BY <3>2
          <6>4. Agree'
            <7>1. CASE apart = "edited"
              BY <4>1, <7>1 DEF Agree
            <7>2. CASE apart # "edited"
              <8>1. loaded[1] = file /\ apart' = "missed"
                BY <4>1, <4>4, <6>1, <6>2, <7>2 DEF UpToDate
              <8> QED
                BY <3>2, <4>1, <6>3, <8>1 DEF Agree
            <7> QED
              BY <7>1, <7>2
          <6> QED
            <7>1. ReachInv'
              BY <3>1, <3>4 DEF ReadInv, ReachInv, BothRead, Linux
            <7>2. OneReadInv'
              BY <3>4, <6>2 DEF OneReadInv, OneRead
            <7>3. BothReadInv'
              <8>1. hup' # 2
                BY <3>4, <4>4
              <8> QED
                BY <6>4, <8>1 DEF BothReadInv
            <7> QED
              BY <7>1, <7>2, <7>3 DEF ReadInv
        <5>2. CASE ~(pc \in BothRead /\ setup.second)
          <6>1. UpToDate => UpToDate'
            BY <3>4, <4>1 DEF UpToDate
          <6> QED
            BY <3>1, <3>4, <4>1, <5>2, <6>1 DEF ReadInv, ReachInv, OneReadInv, BothReadInv, OneRead, BothRead, Linux
        <5> QED
          BY <5>1, <5>2
      <4> QED
        BY <3>3, <4>3, <4>4
    <3> QED
      BY <3>5, <3>6, <3>7
  <2>5. CASE Terminate /\ UNCHANGED serviceVars
    BY <2>5 DEF Terminate, Present
  <2>6. CASE Kill /\ UNCHANGED serviceVars
    BY <2>6 DEF Kill, Present
  <2> QED
    BY <1>2, <2>1, <2>2, <2>3, <2>4, <2>5, <2>6 DEF Outside
<1>3. CASE Service
  BY <1>3 DEF Service, ServiceMain, InitializeService, SetRunning, ReportRunning,
     RunService, MainReturned, SetStopped, ReportStopped
<1>4. CASE Interrogate \/ ControlHandler
  BY <1>4 DEF ControlHandler, Interrogate, Registered, SetStopPending,
     ReportStopPending, OnServiceStop
<1>5. CASE Command \/ \E command \in Commands : ParseSpecialArgs(command)
  BY <1>5 DEF ParseSpecialArgs, Command, Installs, Removes, StartService, StopService,
     Deliver, NoCommand
<1>6. CASE UNCHANGED vars
  BY <1>6 DEF vars
<1> QED
  BY <1>1, <1>2, <1>3, <1>4, <1>5, <1>6, Cases

\* What the SCM is told.
LEMMA StopStep ==
    ASSUME IInv, [Next]_vars PROVE StopInv'
<1> USE DEF IInv, mainVars, servers, signals, process, serviceVars, scm, status, Places,
     ServicePlaces, ServiceInv, StopInv, Linux
<1>1. CASE Main /\ UNCHANGED serviceVars
  <2>1. CASE Options /\ UNCHANGED serviceVars
    BY <2>1 DEF Options, Return, Runs
  <2>2. CASE ReadFirst /\ UNCHANGED serviceVars
    BY <2>2 DEF ReadFirst, Return, Runs
  <2>3. CASE Fork /\ UNCHANGED serviceVars
    BY <2>3 DEF Fork, Return, Runs
  <2>4. CASE WritePidFile /\ UNCHANGED serviceVars
    BY <2>4 DEF WritePidFile, Runs
  <2>5. CASE InstallHup /\ UNCHANGED serviceVars
    BY <2>5 DEF InstallHup, Runs
  <2>6. CASE InstallTerm /\ UNCHANGED serviceVars
    BY <2>6 DEF InstallTerm, Runs
  <2>7. CASE StartFirst /\ UNCHANGED serviceVars
    BY <2>7 DEF StartFirst, Start, Runs
  <2>8. CASE ReadSecond /\ UNCHANGED serviceVars
    BY <2>8 DEF ReadSecond, Runs
  <2>9. CASE StartSecond /\ UNCHANGED serviceVars
    BY <2>9 DEF StartSecond, Start, Runs
  <2>10. CASE Publish /\ UNCHANGED serviceVars
    BY <2>10 DEF Publish, Runs
  <2>11. CASE Leave("signaled") /\ UNCHANGED serviceVars
    BY <2>11 DEF Leave, LeaveLoop, Runs
  <2>12. CASE Stop /\ UNCHANGED serviceVars
    BY <2>12 DEF Stop, Runs
  <2>13. CASE DeleteSecond /\ UNCHANGED serviceVars
    BY <2>13 DEF DeleteSecond, Runs
  <2>14. CASE DestroyFirst /\ UNCHANGED serviceVars
    BY <2>14 DEF DestroyFirst, Runs
  <2>16. CASE EndFirst /\ UNCHANGED serviceVars
    BY <2>16 DEF EndFirst, Runs
  <2>15. CASE ReturnMain /\ UNCHANGED serviceVars
    BY <2>15 DEF ReturnMain, Return, Runs
  <2> QED
    BY <1>1, <2>1, <2>2, <2>3, <2>4, <2>5, <2>6, <2>7, <2>8, <2>9, <2>10, <2>11, <2>12,
       <2>13, <2>14, <2>15, <2>16 DEF Main
<1>2. CASE Outside /\ UNCHANGED serviceVars
  <2>1. CASE LeaveOtherwise /\ UNCHANGED serviceVars
    <3>1. ~obeyed'
      BY <2>1, Zenon DEF LeaveOtherwise, Leave
    <3>2. pc = "loop" /\ pc' = "stop" /\ UNCHANGED <<platform, signaled, svc, ctl, current, reported>>
      BY <2>1 DEF LeaveOtherwise, Leave, Runs
    <3>3. StopInv
      BY DEF IInv
    <3> HIDE DEF IInv, Places, ServicePlaces, ServiceInv
    <3> QED
      BY <3>1, <3>2, <3>3
  <2>2. CASE Edit /\ UNCHANGED serviceVars
    BY <2>2 DEF Edit, Reading
  <2>3. CASE Hup /\ UNCHANGED serviceVars
    BY <2>3 DEF Hup, Present
  <2>4. CASE Reload /\ UNCHANGED serviceVars
    BY <2>4 DEF Reload, Present
  <2>5. CASE Terminate /\ UNCHANGED serviceVars
    BY <2>5 DEF Terminate, Present
  <2>6. CASE Kill /\ UNCHANGED serviceVars
    BY <2>6 DEF Kill, Present
  <2> QED
    BY <1>2, <2>1, <2>2, <2>3, <2>4, <2>5, <2>6 DEF Outside
<1>3. CASE Service
  <2>1. CASE ServiceMain
    BY <2>1 DEF ServiceMain
  <2>2. CASE InitializeService
    BY <2>2 DEF InitializeService
  <2>3. CASE SetRunning
    BY <2>3 DEF SetRunning
  <2>4. CASE ReportRunning
    BY <2>4 DEF ReportRunning
  <2>5. CASE RunService
    BY <2>5 DEF RunService
  <2>6. CASE MainReturned
    BY <2>6 DEF MainReturned
  <2>7. CASE SetStopped
    BY <2>7 DEF SetStopped
  <2>8. CASE ReportStopped
    BY <2>8 DEF ReportStopped
  <2> QED
    BY <1>3, <2>1, <2>2, <2>3, <2>4, <2>5, <2>6, <2>7, <2>8 DEF Service
<1>4. CASE Interrogate \/ ControlHandler
  <2>1. CASE Interrogate
    BY <2>1 DEF Interrogate, Registered
  <2>2. CASE SetStopPending
    BY <2>2 DEF SetStopPending
  <2>3. CASE ReportStopPending
    BY <2>3 DEF ReportStopPending
  <2>4. CASE OnServiceStop
    BY <2>4 DEF OnServiceStop
  <2> QED
    BY <1>4, <2>1, <2>2, <2>3, <2>4 DEF ControlHandler
<1>5. CASE Command \/ \E command \in Commands : ParseSpecialArgs(command)
  <2>1. CASE Command
    BY <2>1 DEF Command, Installs, Removes, StartService, StopService, Deliver,
       NoCommand
  <2>2. CASE \E command \in Commands : ParseSpecialArgs(command)
    <3>1. UNCHANGED <<mainVars, reported, svc, ctl, status>>
      BY <2>2 DEF ParseSpecialArgs
    <3>2. StopInv
      BY DEF IInv
    <3> HIDE DEF IInv, Places, ServicePlaces, ServiceInv
    <3> QED
      BY <3>1, <3>2
  <2> QED
    BY <1>5, <2>1, <2>2
<1>6. CASE UNCHANGED vars
  BY <1>6 DEF vars
<1> QED
  BY <1>1, <1>2, <1>3, <1>4, <1>5, <1>6, Cases

LEMMA Initially == Init => IInv
<1> SUFFICES ASSUME Init PROVE IInv
  OBVIOUS
<1>1. Places /\ ServiceInv
  <2>1. platform \in Platforms
    BY DEF Init, MainInit
  <2>2. /\ pc = (IF platform = "service" THEN "waiting" ELSE "options")
        /\ exit = "none" /\ hup = 0 /\ ended = "no" /\ svc = "none" /\ admin = NoCommand
    BY DEF Init, MainInit
  <2> QED
    BY <2>1, <2>2 DEF Places, ServiceInv, Points
<1>2. Sets /\ ServicePlaces
  BY DEF Init, MainInit, Sets, ServicePlaces, States, ServicePoints
<1>3. Versions
  BY LifecycleAssumption DEF Init, MainInit, Versions
<1>4. HupInv /\ ReadInv
  <2>1. /\ pc \in {"waiting", "options"} /\ ended = "no"
        /\ listening = {} /\ published = {} /\ gone = {}
    BY DEF Init, MainInit
  <2>2. HupInv
    BY <2>1 DEF HupInv, Early
  <2>3. ReadInv
    <3>1. loaded = [v \in Servers |-> 0]
      BY DEF Init, MainInit
    <3> QED
      BY <2>1, <3>1 DEF ReadInv, ReachInv, OneReadInv, BothReadInv, OneRead, BothRead, Servers
  <2> QED
    BY <2>2, <2>3
<1>5. StopInv
  BY DEF Init, MainInit, StopInv
<1> QED
  BY <1>1, <1>2, <1>3, <1>4, <1>5 DEF IInv

\* In every reachable state each part of main and of the service finds what it needs.
THEOREM Invariance == Spec => []IInv
<1>1. IInv /\ [Next]_vars => IInv'
  BY PlacesStep, SetsStep, ServicePlacesStep, VersionsStep, ServiceStep, HupStep, ReadStep,
     StopStep DEF IInv
<1> QED
  BY <1>1, Initially, PTL DEF Spec

\* SIGHUP ends no process that serves, for any number of edits and signals, unless main
\* is destroying the first server because the second could not be started.
THEOREM HupDoesNoHarm == Spec => []HupHarmless
<1>1. IInv => HupHarmless
  BY DEF IInv, HupInv, HupHarmless
<1> QED
  BY <1>1, Invariance, PTL

\* Both servers have one configuration between reloads, unless the file changed between
\* the one's reading and the other's, or a SIGHUP came before g_psrv was set.
THEOREM TwoServersAgree == Spec => []ServersAgree
<1>1. IInv => ServersAgree
  BY DEF IInv, ReadInv, BothReadInv, BothRead, Agree, ServersAgree
<1> QED
  BY <1>1, Invariance, PTL

\* A service that ends because it was told to is reported as stopped.
THEOREM ServiceIsToldStopped == Spec => []ToldStopped
<1>1. IInv => ToldStopped
  BY DEF IInv, StopInv, ToldStopped
<1> QED
  BY <1>1, Invariance, PTL

\* The variables keep their types: TypeOK adds to the invariant the flags.
THEOREM TypeCorrect == Spec => []TypeOK
<1>1. Init => Flags
  BY DEF Init, MainInit, Flags
<1>2. Flags /\ [Next]_vars => Flags'
  <2> SUFFICES ASSUME Flags, [Next]_vars PROVE Flags'
    OBVIOUS
  <2> USE DEF Flags, mainVars, servers, signals, process, serviceVars, scm, status
  <2>1. CASE Main /\ UNCHANGED serviceVars
    <3>1. CASE Options /\ UNCHANGED serviceVars
      BY <3>1 DEF Options, Return, Runs
    <3>2. CASE ReadFirst /\ UNCHANGED serviceVars
      BY <3>2 DEF ReadFirst, Return, Runs
    <3>3. CASE Fork /\ UNCHANGED serviceVars
      BY <3>3 DEF Fork, Return, Runs
    <3>4. CASE WritePidFile /\ UNCHANGED serviceVars
      <4>1. UNCHANGED <<setup, signaled, obeyed, apart>>
        BY <3>4 DEF WritePidFile, Setups
      <4>2. pidfile' \in BOOLEAN
        BY <3>4, Zenon DEF WritePidFile, Setups
      <4> QED
        BY <4>1, <4>2
    <3>5. CASE InstallHup /\ UNCHANGED serviceVars
      BY <3>5 DEF InstallHup, Runs
    <3>6. CASE InstallTerm /\ UNCHANGED serviceVars
      BY <3>6 DEF InstallTerm, Runs
    <3>7. CASE StartFirst /\ UNCHANGED serviceVars
      BY <3>7 DEF StartFirst, Start, Runs
    <3>8. CASE ReadSecond /\ UNCHANGED serviceVars
      BY <3>8 DEF ReadSecond, Runs
    <3>9. CASE StartSecond /\ UNCHANGED serviceVars
      BY <3>9 DEF StartSecond, Start, Runs
    <3>10. CASE Publish /\ UNCHANGED serviceVars
      BY <3>10 DEF Publish, Runs
    <3>11. CASE Leave("signaled") /\ UNCHANGED serviceVars
      <4>1. UNCHANGED <<setup, signaled, pidfile, apart>>
        BY <3>11 DEF Leave
      <4>2. obeyed' \in BOOLEAN
        BY <3>11, Zenon DEF Leave
      <4> QED
        BY <4>1, <4>2
    <3>12. CASE Stop /\ UNCHANGED serviceVars
      BY <3>12 DEF Stop, Runs
    <3>13. CASE DeleteSecond /\ UNCHANGED serviceVars
      BY <3>13 DEF DeleteSecond, Runs
    <3>14. CASE DestroyFirst /\ UNCHANGED serviceVars
      <4>1. UNCHANGED <<setup, signaled, obeyed, apart>>
        BY <3>14 DEF DestroyFirst
      <4>2. pidfile' \in BOOLEAN
        BY <3>14, Zenon DEF DestroyFirst
      <4> QED
        BY <4>1, <4>2
    <3>16. CASE EndFirst /\ UNCHANGED serviceVars
      BY <3>16 DEF EndFirst, Runs
    <3>15. CASE ReturnMain /\ UNCHANGED serviceVars
      BY <3>15 DEF ReturnMain, Return, Runs
    <3> QED
      BY <2>1, <3>1, <3>2, <3>3, <3>4, <3>5, <3>6, <3>7, <3>8, <3>9, <3>10, <3>11, <3>12,
         <3>13, <3>14, <3>15, <3>16 DEF Main
  <2>2. CASE Outside /\ UNCHANGED serviceVars
    <3>1. CASE LeaveOtherwise /\ UNCHANGED serviceVars
      <4>1. UNCHANGED <<setup, signaled, pidfile, apart>>
        BY <3>1 DEF LeaveOtherwise, Leave
      <4>2. obeyed' \in BOOLEAN
        BY <3>1, Zenon DEF LeaveOtherwise, Leave
      <4> QED
        BY <4>1, <4>2
    <3>2. CASE Edit /\ UNCHANGED serviceVars
      <4>1. UNCHANGED <<setup, signaled, obeyed, pidfile>>
        BY <3>2 DEF Edit
      <4>2. apart' \in {"no", "edited", "missed"}
        BY <3>2 DEF Edit
      <4> QED
        BY <4>1, <4>2
    <3>3. CASE Hup /\ UNCHANGED serviceVars
      BY <3>3 DEF Hup, Present
    <3>4. CASE Reload /\ UNCHANGED serviceVars
      BY <3>4 DEF Reload, Present
    <3>5. CASE Terminate /\ UNCHANGED serviceVars
      <4>1. UNCHANGED <<setup, apart, obeyed, pidfile>>
        BY <3>5 DEF Terminate
      <4>2. signaled' \in BOOLEAN
        BY <3>5, Zenon DEF Terminate
      <4> QED
        BY <4>1, <4>2
    <3>6. CASE Kill /\ UNCHANGED serviceVars
      BY <3>6 DEF Kill, Present
    <3> QED
      BY <2>2, <3>1, <3>2, <3>3, <3>4, <3>5, <3>6 DEF Outside
  <2>3. CASE Service
    <3>1. CASE ServiceMain
      BY <3>1 DEF ServiceMain
    <3>2. CASE InitializeService
      BY <3>2 DEF InitializeService
    <3>3. CASE SetRunning
      BY <3>3 DEF SetRunning
    <3>4. CASE ReportRunning
      BY <3>4 DEF ReportRunning
    <3>5. CASE RunService
      <4>1. UNCHANGED <<setup, apart, obeyed, pidfile>>
        BY <3>5 DEF RunService
      <4>2. signaled' \in BOOLEAN
        BY <3>5, Zenon DEF RunService
      <4> QED
        BY <4>1, <4>2
    <3>6. CASE MainReturned
      BY <3>6 DEF MainReturned
    <3>7. CASE SetStopped
      BY <3>7 DEF SetStopped
    <3>8. CASE ReportStopped
      BY <3>8 DEF ReportStopped
    <3> QED
      BY <2>3, <3>1, <3>2, <3>3, <3>4, <3>5, <3>6, <3>7, <3>8 DEF Service
  <2>4. CASE Interrogate \/ ControlHandler
    <3>1. CASE Interrogate
      BY <3>1 DEF Interrogate, Registered
    <3>2. CASE SetStopPending
      BY <3>2 DEF SetStopPending
    <3>3. CASE ReportStopPending
      BY <3>3 DEF ReportStopPending
    <3>4. CASE OnServiceStop
      <4>1. UNCHANGED <<setup, apart, obeyed, pidfile>>
        BY <3>4 DEF OnServiceStop
      <4>2. signaled' \in BOOLEAN
        BY <3>4, Zenon DEF OnServiceStop
      <4> QED
        BY <4>1, <4>2
    <3> QED
      BY <2>4, <3>1, <3>2, <3>3, <3>4 DEF ControlHandler
  <2>5. CASE Command \/ \E command \in Commands : ParseSpecialArgs(command)
    <3>1. CASE Command
      BY <3>1 DEF Command, Installs, Removes, StartService, StopService, Deliver,
         NoCommand
    <3>2. CASE \E command \in Commands : ParseSpecialArgs(command)
      BY <3>2 DEF ParseSpecialArgs
    <3> QED
      BY <2>5, <3>1, <3>2
  <2>6. CASE UNCHANGED vars
    BY <2>6 DEF vars
  <2> QED
    BY <2>1, <2>2, <2>3, <2>4, <2>5, <2>6, Cases
<1>3. IInv /\ Flags => TypeOK
  BY DEF IInv, TypeOK
<1> QED
  BY <1>1, <1>2, <1>3, Invariance, PTL DEF Spec

-----------------------------------------------------------------------------
(***************************************************************************)
(* Configuration.                                                          *)
(***************************************************************************)

Results == {"running", "done"} \cup Names

\* What a setting may be once ReadConfig has stored it.
Holdings(k) ==
    CASE k = "deny" -> {{}}
      [] k = "order" -> BOOLEAN
      [] OTHER -> Value(k) \cup {Absent}

Held == UNION {Holdings(k) : k \in Names}

\* Where a visitor may be.
Stages == {"page", "form", "prepare", "connected", "started"}

ConfigTypeOK ==
    /\ iniFile \in Files
    /\ reading \in [Reloaders -> [at : 0..5, ini : Files]]
    /\ conf \in [Names -> Held] /\ \A k \in Names : conf[k] \in Holdings(k)
    /\ reloads \in Nat
    /\ visit \in [kind : {"plain", "embedded"}, at : Stages, count : Nat]
    /\ own \in [host : Destinations, port : Ports, nowdrag : {FALSE}]
    /\ DOMAIN op \in SUBSET Overrides /\ DOMAIN form \in SUBSET Overrides
    /\ DOMAIN page \in SUBSET Overrides /\ DOMAIN fields \in SUBSET Overrides
    /\ stamped \in BOOLEAN
    /\ held1 \in [Overrides -> SUBSET Held] /\ held2 \in [Overrides -> SUBSET Held]
    /\ last \in [ini : Files, before : [Names -> Held], result : Results, alone : BOOLEAN]

\* What an override has had since PrepareRDP began to copy.
CopyInv ==
    /\ \A k \in Overrides : conf[k] \in held2[k] /\ held2[k] \subseteq Holdings(k)
    /\ \A k \in DOMAIN op : op[k] \in held2[k]
    /\ visit.at \in {"page", "form"} => op = Nothing
    /\ visit.at \in {"connected", "started"} =>
          \A k \in {"host", "port"} : \/ used[k] \in held2[k] /\ used[k] # Absent
                                      \/ used[k] = form[k] /\ Absent \in held2[k]

\* A page hides a host only if there was an override to hide.
PageInv ==
    /\ visit.at # "page" => DOMAIN page = Overrides /\ DOMAIN fields = Overrides
    /\ visit.at = "page" => fields = Nothing /\ form = Nothing
    /\ "host" \in DOMAIN page => page["host"] \in {Absent, Placeholder}
    /\ "host" \in DOMAIN page /\ page["host"] # Absent => \E v \in held1["host"] : v # Absent

\* The placeholder is in the cookie only after a session from such a page.
CookieInv ==
    cookie # Nothing =>
        /\ DOMAIN cookie = Overrides /\ cookie["host"] \in Destinations \cup {Placeholder}
        /\ cookie["host"] = Placeholder => stamped

\* It is in the fields only by the page or by the cookie.
FieldsInv ==
    DOMAIN fields = Overrides =>
        /\ fields["host"] \in Destinations \cup {Placeholder}
        /\ fields["host"] = Placeholder =>
              page["host"] # Absent \/ (cookie # Nothing /\ cookie["host"] = Placeholder)

\* It is in the form only if it is in the fields.
FormInv ==
    /\ visit.at \notin {"page", "form"} => DOMAIN form = Overrides
    /\ "host" \in DOMAIN form => /\ form["host"] # Absent
                                 /\ form["host"] = Placeholder => fields["host"] = Placeholder

HiddenInv == PageInv /\ CookieInv /\ FieldsInv /\ FormInv

\* A ReadConfig that began alone is the only one, or has ended.
AloneInv ==
    last.alone =>
        \/ /\ last.result = "running"
           /\ \E t \in Reloaders :
                /\ Running(t) /\ reading[t].ini = last.ini
                /\ \A s \in Reloaders \ {t} : ~Running(s)
                /\ \A i \in 1..5 :
                      conf[Settings[i]] = IF i < reading[t].at
                                          THEN Stored(Settings[i], last.ini, last.before[Settings[i]])
                                          ELSE last.before[Settings[i]]
        \/ /\ last.result # "running"
           /\ \A t \in Reloaders : ~Running(t)
           /\ last.result = "done" => \A k \in Names : conf[k] = Stored(k, last.ini, last.before[k])

ConfigInv == ConfigTypeOK /\ CopyInv /\ HiddenInv /\ AloneInv

-----------------------------------------------------------------------------
\* Settings.

LEMMA SettingsAre ==
    /\ Names = {"order", "deny", "host", "port", "nowdrag"} /\ Len(Settings) = 5
    /\ Settings[1] = "order" /\ Settings[2] = "deny" /\ Settings[3] = "host"
    /\ Settings[4] = "port" /\ Settings[5] = "nowdrag"
<1>1. /\ Len(Settings) = 5
      /\ Settings[1] = "order" /\ Settings[2] = "deny" /\ Settings[3] = "host"
      /\ Settings[4] = "port" /\ Settings[5] = "nowdrag"
  BY DEF Settings
<1>2. 1..5 = {1, 2, 3, 4, 5}
  OBVIOUS
<1>3. Names = {Settings[i] : i \in {1, 2, 3, 4, 5}}
  BY <1>1, <1>2 DEF Names
<1> QED
  BY <1>1, <1>3

LEMMA EachSetting ==
    /\ \A i \in 1..5 : Settings[i] \in Names
    /\ \A k \in Names : \E i \in 1..5 : Settings[i] = k
    /\ \A i, j \in 1..5 : Settings[i] = Settings[j] => i = j
<1>1. 1..5 = {1, 2, 3, 4, 5}
  OBVIOUS
<1> QED
  BY <1>1, SettingsAre

\* What a file says of a setting, unless it is bad, may be stored.
LEMMA FileHolds ==
    ASSUME NEW f \in Files, NEW k \in Names, f[k] # Bad
    PROVE  /\ k \in Overrides => f[k] \in Holdings(k)
           /\ k = "order" => f[k] \in BOOLEAN \cup {Absent}
  BY SettingsAre, ConfigurationAssumption DEF Holdings, Overrides, Value

\* A setting that is stored: what a start would store, if conf has for it what it
\* had before.
LEMMA StoreIsRight ==
    ASSUME NEW f \in Files, NEW k \in Names, f[k] # Bad, conf[k] \in Holdings(k)
    PROVE  Store(k, f) \in Holdings(k) /\ Store(k, f) = Stored(k, f, conf[k])
<1>1. CASE k = "deny"
  <2>1. Store(k, f) = (IF f[k] = Absent THEN conf[k] ELSE {})
    BY <1>1 DEF Store, HostList, Overrides
  <2>2. Stored(k, f, conf[k]) = {}
    BY <1>1 DEF Stored
  <2>3. Holdings(k) = {{}}
    BY <1>1 DEF Holdings
  <2> QED
    BY <2>1, <2>2, <2>3
<1>2. CASE k = "order"
  <2>0. Stored(k, f, conf[k]) = IF f[k] = Absent THEN conf[k] ELSE f[k]
    BY <1>2 DEF Stored
  <2>1. Store(k, f) = IF f[k] = Absent THEN conf[k] ELSE f[k]
    BY <1>2 DEF Store, Overrides
  <2>2. f[k] \in BOOLEAN \cup {Absent} /\ conf[k] \in BOOLEAN /\ Holdings(k) = BOOLEAN
    BY <1>2, FileHolds DEF Holdings
  <2> QED
    BY <2>0, <2>1, <2>2
<1>3. CASE k \in Overrides
  <2>1. Store(k, f) = f[k] /\ Stored(k, f, conf[k]) = f[k]
    BY <1>3 DEF Store, Stored, Overrides
  <2> QED
    BY <1>3, <2>1, FileHolds
<1> QED
  BY <1>1, <1>2, <1>3, SettingsAre DEF Overrides

LEMMA OverridesHeld ==
    /\ Overrides \subseteq Names
    /\ \A k \in Names : Holdings(k) \subseteq Held
    /\ Holdings("host") = Destinations \cup {Absent}
  BY SettingsAre DEF Overrides, Held, Holdings, Value

-----------------------------------------------------------------------------
\* The steps.

LEMMA ConfigInitially == ConfigInit => ConfigInv
<1> SUFFICES ASSUME ConfigInit PROVE ConfigInv
  OBVIOUS
<1>1. /\ iniFile \in Files /\ \A k \in Names : iniFile[k] # Bad
      /\ conf = [k \in Names |-> Stored(k, iniFile, TRUE)]
      /\ reading = [t \in Reloaders |-> [at |-> 0, ini |-> iniFile]]
      /\ reloads = 0 /\ visit \in [kind : {"plain", "embedded"}, at : {"page"}, count : {1}]
      /\ own \in [host : Destinations, port : Ports, nowdrag : {FALSE}]
      /\ form = Nothing /\ op = Nothing /\ page = Nothing /\ fields = Nothing /\ cookie = Nothing
      /\ stamped = FALSE
      /\ held1 = [k \in Overrides |-> {conf[k]}] /\ held2 = held1
      /\ last = [ini |-> iniFile, before |-> conf, result |-> "done", alone |-> TRUE]
  BY DEF ConfigInit
<1>2. ASSUME NEW k \in Names PROVE conf[k] \in Holdings(k) /\ conf[k] = Stored(k, iniFile, conf[k])
  <2>1. conf[k] = Stored(k, iniFile, TRUE) /\ iniFile[k] # Bad
    BY <1>1
  <2>2. CASE k = "deny"
    BY <2>1, <2>2 DEF Stored, Holdings
  <2>3. CASE k = "order"
    <3>1. conf[k] = (IF iniFile[k] = Absent THEN TRUE ELSE iniFile[k])
      BY <2>1, <2>3 DEF Stored
    <3>2. iniFile[k] \in BOOLEAN \cup {Absent} /\ Holdings(k) = BOOLEAN
      BY <1>1, <2>1, <2>3, FileHolds DEF Holdings
    <3> QED
      BY <2>3, <3>1, <3>2 DEF Stored
  <2>4. CASE k \in Overrides
    BY <1>1, <2>1, <2>4, FileHolds DEF Stored, Overrides
  <2> QED
    BY <2>2, <2>3, <2>4, SettingsAre DEF Overrides
<1>3. conf \in [Names -> Held]
  BY <1>1, <1>2, OverridesHeld
<1>4. ConfigTypeOK
  <2>1. held1 \in [Overrides -> SUBSET Held] /\ held2 \in [Overrides -> SUBSET Held]
    BY <1>1, <1>2, OverridesHeld
  <2>2. visit \in [kind : {"plain", "embedded"}, at : Stages, count : Nat]
    BY <1>1 DEF Stages
  <2>3. /\ DOMAIN op \in SUBSET Overrides /\ DOMAIN form \in SUBSET Overrides
        /\ DOMAIN page \in SUBSET Overrides /\ DOMAIN fields \in SUBSET Overrides /\ stamped \in BOOLEAN
    BY <1>1 DEF Nothing
  <2>4. last \in [ini : Files, before : [Names -> Held], result : Results, alone : BOOLEAN]
    BY <1>1, <1>3 DEF Results
  <2>5. reading \in [Reloaders -> [at : 0..5, ini : Files]]
    <3>1. [at |-> 0, ini |-> iniFile] \in [at : 0..5, ini : Files]
      BY <1>1
    <3> QED
      BY <1>1, <3>1
  <2>6. reloads \in Nat /\ own \in [host : Destinations, port : Ports, nowdrag : {FALSE}] /\ iniFile \in Files
    BY <1>1
  <2> QED
    BY <1>2, <1>3, <2>1, <2>2, <2>3, <2>4, <2>5, <2>6 DEF ConfigTypeOK
<1>5. CopyInv
  <2>1. \A k \in Overrides : conf[k] \in held2[k] /\ held2[k] \subseteq Holdings(k)
    BY <1>1, <1>2, OverridesHeld
  <2>2. op = Nothing /\ DOMAIN op = {} /\ visit.at = "page"
    BY <1>1 DEF Nothing
  <2> QED
    BY <2>1, <2>2 DEF CopyInv
<1>6. HiddenInv
  <2>1. DOMAIN form = {} /\ DOMAIN page = {} /\ DOMAIN fields = {} /\ visit.at = "page" /\ "host" \in Overrides
    BY <1>1 DEF Nothing, Overrides
  <2> QED
    BY <1>1, <2>1 DEF HiddenInv, PageInv, CookieInv, FieldsInv, FormInv
<1>7. AloneInv
  BY <1>1, <1>2 DEF AloneInv, Running
<1> QED
  BY <1>4, <1>5, <1>6, <1>7 DEF ConfigInv

LEMMA EditFileStep == ASSUME ConfigInv, EditFile PROVE ConfigInv'
<1>1. iniFile' \in Files /\ UNCHANGED <<reading, conf, reloads, last, visit, own, page, fields, cookie, form, op, used, stamped, held1, held2>>
  BY DEF EditFile, visitor
<1>2. HiddenInv'
  BY <1>1 DEF ConfigInv, HiddenInv, PageInv, CookieInv, FieldsInv, FormInv
<1> QED
  BY <1>1, <1>2 DEF ConfigInv, ConfigTypeOK, CopyInv, AloneInv, Running

LEMMA ReadIniStep == ASSUME ConfigInv, NEW t \in Reloaders, ReadIni(t) PROVE ConfigInv'
<1>1. /\ UNCHANGED <<iniFile, conf, visit, own, page, fields, cookie, form, op, used, stamped, held1, held2>>
      /\ reloads' = reloads + 1 /\ ~Running(t)
      /\ reading' = [reading EXCEPT ![t] = [at |-> 1, ini |-> iniFile]]
      /\ last' = [ini |-> iniFile, before |-> conf, result |-> "running",
                  alone |-> \A s \in Reloaders : ~Running(s)]
  BY DEF ReadIni, visitor
<1>2. ConfigTypeOK'
  <2>1. reading' \in [Reloaders -> [at : 0..5, ini : Files]]
    BY <1>1 DEF ConfigInv, ConfigTypeOK
  <2>2. last' \in [ini : Files, before : [Names -> Held], result : Results, alone : BOOLEAN]
    <3>1. (\A s \in Reloaders : ~Running(s)) \in BOOLEAN
      OBVIOUS
    <3> QED
      BY <1>1, <3>1 DEF ConfigInv, ConfigTypeOK, Results
  <2>3. reloads' \in Nat
    BY <1>1 DEF ConfigInv, ConfigTypeOK
  <2> QED
    BY <1>1, <2>1, <2>2, <2>3 DEF ConfigInv, ConfigTypeOK
<1>3. CopyInv' /\ HiddenInv'
  BY <1>1 DEF ConfigInv, CopyInv, HiddenInv, PageInv, CookieInv, FieldsInv, FormInv
<1>4. AloneInv'
  <2> SUFFICES ASSUME last'.alone PROVE AloneInv'
    BY DEF AloneInv
  <2>1. \A s \in Reloaders : ~Running(s)
    BY <1>1
  <2>2. reading'[t] = [at |-> 1, ini |-> iniFile] /\ \A s \in Reloaders \ {t} : reading'[s] = reading[s]
    BY <1>1 DEF ConfigInv, ConfigTypeOK
  <2>3. Running(t)' /\ reading'[t].ini = last'.ini /\ \A s \in Reloaders \ {t} : ~Running(s)'
    BY <1>1, <2>1, <2>2 DEF Running
  <2>4. \A i \in 1..5 : ~(i < reading'[t].at) /\ conf'[Settings[i]] = last'.before[Settings[i]]
    BY <1>1, <2>2
  <2> QED
    BY <1>1, <2>3, <2>4 DEF AloneInv
<1> QED
  BY <1>2, <1>3, <1>4 DEF ConfigInv

LEMMA ReadSettingStep == ASSUME ConfigInv, NEW t \in Reloaders, ReadSetting(t) PROVE ConfigInv'
<1>0. PICK a, k, ini : a = reading[t].at /\ k = Settings[a] /\ ini = reading[t].ini
  OBVIOUS
<1>1. a \in 1..5 /\ k \in Names /\ ini \in Files /\ Running(t) /\ Len(Settings) = 5
  <2>1. reading[t] \in [at : 0..5, ini : Files] /\ Running(t) /\ a # 0
    BY <1>0 DEF ReadSetting, ConfigInv, ConfigTypeOK, Running
  <2>2. a \in 0..5 /\ ini \in Files
    BY <1>0, <2>1
  <2> QED
    BY <1>0, <2>1, <2>2, EachSetting, SettingsAre
<1>2. UNCHANGED <<iniFile, reloads, visit, own, page, fields, cookie, form, op, used, stamped>>
  BY DEF ReadSetting, visitor
<1>3. CASE /\ ini[k] # Bad
           /\ conf' = [conf EXCEPT ![k] = Store(k, ini)]
           /\ Holds(k, conf'[k])
           /\ reading' = [reading EXCEPT ![t].at = IF @ = Len(Settings) THEN 0 ELSE @ + 1]
           /\ last' = IF reading'[t].at = 0 THEN [last EXCEPT !.result = "done"] ELSE last
  <2>1. PICK v : v = Store(k, ini)
    OBVIOUS
  <2>2. v \in Holdings(k) /\ v = Stored(k, ini, conf[k])
    BY <1>1, <1>3, <2>1, StoreIsRight DEF ConfigInv, ConfigTypeOK
  <2>3. \A j \in Names : conf'[j] = IF j = k THEN v ELSE conf[j]
    BY <1>3, <2>1 DEF ConfigInv, ConfigTypeOK
  <2>4. \A j \in Overrides : /\ held1'[j] = IF j = k THEN held1[j] \cup {v} ELSE held1[j]
                             /\ held2'[j] = IF j = k THEN held2[j] \cup {v} ELSE held2[j]
    BY <1>1, <1>3, <2>3 DEF Holds, ConfigInv, ConfigTypeOK
  <2>5. PICK b : b = IF a = 5 THEN 0 ELSE a + 1
    OBVIOUS
  <2>6. /\ reading' = [reading EXCEPT ![t].at = b]
        /\ reading'[t].at = b /\ reading'[t].ini = ini
        /\ \A s \in Reloaders \ {t} : reading'[s] = reading[s]
    BY <1>0, <1>1, <1>3, <2>5 DEF ConfigInv, ConfigTypeOK
  <2>7. ConfigTypeOK'
    <3>1. b \in 0..5
      BY <1>1, <2>5
    <3>2. reading' \in [Reloaders -> [at : 0..5, ini : Files]]
      BY <2>6, <3>1 DEF ConfigInv, ConfigTypeOK
    <3>3. v \in Held
      BY <1>1, <2>2, OverridesHeld
    <3>4. conf' \in [Names -> Held] /\ \A j \in Names : conf'[j] \in Holdings(j)
      BY <1>3, <2>1, <2>2, <2>3, <3>3 DEF ConfigInv, ConfigTypeOK
    <3>5. held1' \in [Overrides -> SUBSET Held] /\ held2' \in [Overrides -> SUBSET Held]
      BY <1>1, <1>3, <2>3, <3>3 DEF Holds, ConfigInv, ConfigTypeOK
    <3>6. last' \in [ini : Files, before : [Names -> Held], result : Results, alone : BOOLEAN]
      BY <1>3 DEF ConfigInv, ConfigTypeOK, Results
    <3> QED
      BY <1>2, <3>2, <3>4, <3>5, <3>6 DEF ConfigInv, ConfigTypeOK
  <2>8. CopyInv'
    <3>1. \A j \in Overrides : conf'[j] \in held2'[j] /\ held2'[j] \subseteq Holdings(j) /\ held2[j] \subseteq held2'[j]
      BY <2>2, <2>3, <2>4, OverridesHeld DEF ConfigInv, CopyInv
    <3>2. \A j \in DOMAIN op : op[j] \in held2'[j]
      BY <3>1 DEF ConfigInv, CopyInv, ConfigTypeOK
    <3>3. "host" \in Overrides /\ "port" \in Overrides
      BY DEF Overrides
    <3> QED
      BY <1>2, <3>1, <3>2, <3>3 DEF ConfigInv, CopyInv
  <2>9. HiddenInv'
    <3>1. held1["host"] \subseteq held1'["host"]
      BY <2>4 DEF Overrides
    <3>2. PageInv'
      BY <1>2, <3>1 DEF ConfigInv, HiddenInv, PageInv
    <3> QED
      BY <1>2, <3>2 DEF ConfigInv, HiddenInv, CookieInv, FieldsInv, FormInv
  <2>10. AloneInv'
    <3> SUFFICES ASSUME last'.alone PROVE AloneInv'
      BY DEF AloneInv
    <3>1. /\ last.alone /\ last'.ini = last.ini /\ last'.before = last.before
          /\ last'.result = IF b = 0 THEN "done" ELSE last.result
      BY <1>3, <2>6 DEF ConfigInv, ConfigTypeOK
    <3>2. /\ last.result = "running" /\ ini = last.ini /\ \A s \in Reloaders \ {t} : ~Running(s)
          /\ \A i \in 1..5 : conf[Settings[i]] = IF i < a THEN Stored(Settings[i], ini, last.before[Settings[i]])
                                                 ELSE last.before[Settings[i]]
      BY <1>0, <1>1, <3>1 DEF ConfigInv, AloneInv
    <3>3. \A i \in 1..5 : conf'[Settings[i]] = IF i < a + 1 THEN Stored(Settings[i], ini, last.before[Settings[i]])
                                               ELSE last.before[Settings[i]]
      <4> SUFFICES ASSUME NEW i \in 1..5
                   PROVE  conf'[Settings[i]] = IF i < a + 1 THEN Stored(Settings[i], ini, last.before[Settings[i]])
                                               ELSE last.before[Settings[i]]
        OBVIOUS
      <4>1. CASE i = a
        <5>1. Settings[i] = k /\ conf[k] = last.before[k] /\ i < a + 1
          BY <1>0, <1>1, <3>2, <4>1
        <5> QED
          BY <1>1, <2>2, <2>3, <5>1
      <4>2. CASE i # a
        <5>1. Settings[i] # k /\ Settings[i] \in Names /\ (i < a <=> i < a + 1)
          BY <1>0, <1>1, <4>2, EachSetting
        <5> QED
          BY <2>3, <3>2, <5>1
      <4> QED
        BY <4>1, <4>2
    <3>4. CASE a = 5
      <4>1. b = 0 /\ \A s \in Reloaders : ~Running(s)'
        BY <2>5, <2>6, <3>2, <3>4 DEF Running
      <4>2. \A i \in 1..5 : conf'[Settings[i]] = Stored(Settings[i], ini, last.before[Settings[i]])
        BY <3>3, <3>4
      <4>3. \A j \in Names : conf'[j] = Stored(j, ini, last.before[j])
        BY <4>2, EachSetting
      <4> QED
        BY <3>1, <3>2, <4>1, <4>3 DEF AloneInv
    <3>5. CASE a # 5
      <4>1. b = a + 1 /\ b # 0
        BY <1>1, <2>5, <3>5
      <4>2. Running(t)' /\ \A s \in Reloaders \ {t} : ~Running(s)'
        BY <2>6, <3>2, <4>1 DEF Running
      <4> QED
        BY <2>6, <3>1, <3>2, <3>3, <4>1, <4>2 DEF AloneInv
    <3> QED
      BY <3>4, <3>5
  <2> QED
    BY <2>7, <2>8, <2>9, <2>10 DEF ConfigInv
<1>4. CASE /\ ini[k] = Bad
           /\ reading' = [reading EXCEPT ![t].at = 0]
           /\ last' = [last EXCEPT !.result = k]
           /\ UNCHANGED <<conf, held1, held2>>
  <2>1. /\ reading' \in [Reloaders -> [at : 0..5, ini : Files]] /\ reading'[t].at = 0
        /\ \A s \in Reloaders \ {t} : reading'[s] = reading[s]
    BY <1>4 DEF ConfigInv, ConfigTypeOK
  <2>2. k \in Results /\ k # "running" /\ k # "done"
    BY <1>1, SettingsAre DEF Results
  <2>3. /\ last' \in [ini : Files, before : [Names -> Held], result : Results, alone : BOOLEAN]
        /\ last'.result = k /\ last'.alone = last.alone
    BY <1>4, <2>2 DEF ConfigInv, ConfigTypeOK
  <2>4. ConfigTypeOK' /\ CopyInv' /\ HiddenInv'
    <3>1. ConfigTypeOK' /\ CopyInv'
      BY <1>2, <1>4, <2>1, <2>3 DEF ConfigInv, ConfigTypeOK, CopyInv
    <3>2. HiddenInv'
      BY <1>2, <1>4 DEF ConfigInv, HiddenInv, PageInv, CookieInv, FieldsInv, FormInv
    <3> QED
      BY <3>1, <3>2
  <2>5. AloneInv'
    <3> SUFFICES ASSUME last'.alone PROVE AloneInv'
      BY DEF AloneInv
    <3>1. \A s \in Reloaders \ {t} : ~Running(s)
      BY <1>1, <2>3 DEF ConfigInv, AloneInv
    <3>2. \A s \in Reloaders : ~Running(s)'
      BY <2>1, <3>1 DEF Running
    <3> QED
      BY <2>2, <2>3, <3>2 DEF AloneInv
  <2> QED
    BY <2>4, <2>5 DEF ConfigInv
<1> QED
  BY <1>0, <1>3, <1>4 DEF ReadSetting

LEMMA ReadPageStep == ASSUME ConfigInv, NEW k \in Overrides, ReadPage(k) PROVE ConfigInv'
<1>1. /\ visit.at = "page" /\ k \notin DOMAIN page
      /\ page' = [j \in DOMAIN page \cup {k} |-> IF j = k THEN PageValue(k) ELSE page[j]]
      /\ held1' = [held1 EXCEPT ![k] = {conf[k]}]
      /\ UNCHANGED <<iniFile, reading, conf, reloads, last, visit, own, fields, cookie, form, op, used, held2, stamped>>
  BY DEF ReadPage, server
<1>2. conf[k] \in Held /\ held1'[k] = {conf[k]}
  BY <1>1, OverridesHeld DEF ConfigInv, ConfigTypeOK
<1>3. DOMAIN page' = DOMAIN page \cup {k} /\ page'[k] = PageValue(k)
      /\ \A j \in DOMAIN page : page'[j] = page[j] /\ held1'[j] = held1[j]
  BY <1>1 DEF ConfigInv, ConfigTypeOK
<1>4. ConfigTypeOK'
  BY <1>1, <1>2, <1>3 DEF ConfigInv, ConfigTypeOK
<1>5. CopyInv'
  BY <1>1 DEF ConfigInv, CopyInv
<1>6. PageInv'
  <2>1. CASE k = "host"
    <3>1. page'["host"] \in {Absent, Placeholder} /\ (page'["host"] # Absent => conf["host"] # Absent)
      BY <1>3, <2>1 DEF PageValue
    <3> QED
      BY <1>1, <1>2, <2>1, <3>1 DEF ConfigInv, HiddenInv, PageInv
  <2>2. CASE k # "host"
    BY <1>1, <1>3, <2>2 DEF ConfigInv, HiddenInv, PageInv
  <2> QED
    BY <2>1, <2>2
<1>7. FieldsInv'
  <2>1. fields = Nothing /\ DOMAIN Nothing = {} /\ Overrides # {}
    BY <1>1 DEF ConfigInv, HiddenInv, PageInv, Nothing, Overrides
  <2> QED
    BY <1>1, <2>1 DEF FieldsInv
<1>8. HiddenInv'
  BY <1>1, <1>6, <1>7 DEF ConfigInv, HiddenInv, CookieInv, FormInv
<1>9. AloneInv'
  BY <1>1 DEF ConfigInv, AloneInv, Running
<1> QED
  BY <1>4, <1>5, <1>8, <1>9 DEF ConfigInv

LEMMA LoadPageStep ==
    ASSUME ConfigInv, NEW applied \in BOOLEAN, NEW typed \in SUBSET Overrides, LoadPage(applied, typed)
    PROVE  ConfigInv'
<1>1. /\ visit.at = "page" /\ DOMAIN page = Overrides
      /\ applied => cookie # Nothing
      /\ fields' = [k \in Overrides |-> IF k \in typed THEN own[k] ELSE Shown(k, applied)]
      /\ visit' = [visit EXCEPT !.at = "form"]
      /\ UNCHANGED <<iniFile, reading, conf, reloads, last, own, page, cookie, form, op, used, held1, held2, stamped>>
  BY DEF LoadPage, server
<1>2. visit' \in [kind : {"plain", "embedded"}, at : Stages, count : Nat] /\ visit'.at = "form"
  BY <1>1 DEF ConfigInv, ConfigTypeOK, Stages
<1>3. ConfigTypeOK'
  BY <1>1, <1>2 DEF ConfigInv, ConfigTypeOK
<1>4. CopyInv'
  BY <1>1, <1>2 DEF ConfigInv, CopyInv
<1>5. FieldsInv'
  <2>1. own["host"] \in Destinations /\ Placeholder \notin Destinations /\ "host" \in Overrides
    BY ConfigurationAssumption DEF ConfigInv, ConfigTypeOK, Overrides
  <2>2. fields'["host"] = IF "host" \in typed THEN own["host"] ELSE Shown("host", applied)
    BY <1>1, <2>1
  <2>3. CASE "host" \in typed
    BY <2>1, <2>2, <2>3 DEF FieldsInv
  <2>4. CASE "host" \notin typed /\ applied
    <3>1. fields'["host"] = cookie["host"] /\ cookie # Nothing
      BY <1>1, <2>2, <2>4 DEF Shown
    <3>2. cookie["host"] \in Destinations \cup {Placeholder}
      BY <3>1 DEF ConfigInv, HiddenInv, CookieInv
    <3> QED
      BY <1>1, <3>1, <3>2 DEF FieldsInv
  <2>5. CASE "host" \notin typed /\ ~applied
    <3>1. fields'["host"] = IF page["host"] = Absent THEN own["host"] ELSE page["host"]
      BY <2>1, <2>2, <2>5 DEF Shown, Free
    <3>2. page["host"] \in {Absent, Placeholder}
      BY <1>1, <2>1 DEF ConfigInv, HiddenInv, PageInv
    <3> QED
      BY <1>1, <2>1, <3>1, <3>2, ConfigurationAssumption DEF FieldsInv
  <2> QED
    BY <2>3, <2>4, <2>5
<1>6. PageInv'
  BY <1>1, <1>2 DEF ConfigInv, HiddenInv, PageInv
<1>7. FormInv'
  <2>1. form = Nothing /\ DOMAIN Nothing = {}
    BY <1>1 DEF ConfigInv, HiddenInv, PageInv, Nothing
  <2> QED
    BY <1>1, <1>2, <2>1 DEF FormInv
<1>8. HiddenInv'
  BY <1>1, <1>5, <1>6, <1>7 DEF ConfigInv, HiddenInv, CookieInv
<1>9. AloneInv'
  BY <1>1 DEF ConfigInv, AloneInv, Running
<1> QED
  BY <1>3, <1>4, <1>8, <1>9 DEF ConfigInv

LEMMA ReadTokenStep == ASSUME ConfigInv, NEW k \in Overrides, ReadToken(k) PROVE ConfigInv'
<1>1. /\ visit.at = "form" /\ k \notin DOMAIN form
      /\ form' = [j \in DOMAIN form \cup {k} |-> IF j = k THEN TokenValue(k) ELSE form[j]]
      /\ UNCHANGED <<iniFile, reading, conf, reloads, last, visit, own, page, fields, cookie, op, used, held1, held2, stamped>>
  BY DEF ReadToken, server
<1>2. DOMAIN form' = DOMAIN form \cup {k} /\ form'[k] = TokenValue(k)
      /\ \A j \in DOMAIN form : form'[j] = form[j]
  BY <1>1
<1>3. ConfigTypeOK'
  BY <1>1, <1>2 DEF ConfigInv, ConfigTypeOK
<1>4. CopyInv'
  BY <1>1 DEF ConfigInv, CopyInv
<1>5. FormInv'
  <2>1. CASE k = "host"
    <3>1. conf["host"] \in Destinations \cup {Absent} /\ own["host"] \in Destinations
      BY OverridesHeld DEF ConfigInv, ConfigTypeOK, Overrides
    <3>2. form'["host"] \in Destinations
      BY <1>2, <2>1, <3>1 DEF TokenValue
    <3>3. Absent \notin Destinations /\ Placeholder \notin Destinations
      BY ConfigurationAssumption, SettingsAre DEF Value
    <3> QED
      BY <1>1, <3>2, <3>3 DEF FormInv
  <2>2. CASE k # "host"
    BY <1>1, <1>2, <2>2 DEF ConfigInv, HiddenInv, FormInv
  <2> QED
    BY <2>1, <2>2
<1>6. HiddenInv'
  BY <1>1, <1>5 DEF ConfigInv, HiddenInv, PageInv, CookieInv, FieldsInv
<1>7. AloneInv'
  BY <1>1 DEF ConfigInv, AloneInv, Running
<1> QED
  BY <1>3, <1>4, <1>6, <1>7 DEF ConfigInv

LEMMA SendStep == ASSUME ConfigInv, SendCredentials PROVE ConfigInv'
<1>1. /\ visit.at = "form" /\ form' = fields
      /\ UNCHANGED <<iniFile, reading, conf, reloads, last, visit, own, page, fields, cookie, op, used, held1, held2, stamped>>
  BY DEF SendCredentials, server
<1>2. ConfigTypeOK' /\ CopyInv'
  BY <1>1 DEF ConfigInv, ConfigTypeOK, CopyInv
<1>3. FormInv'
  <2>1. fields["host"] \in Destinations \cup {Placeholder}
    BY <1>1 DEF ConfigInv, HiddenInv, PageInv, FieldsInv
  <2>2. Absent \notin Destinations /\ Placeholder # Absent
    BY ConfigurationAssumption, SettingsAre DEF Value
  <2> QED
    BY <1>1, <2>1, <2>2 DEF FormInv
<1>4. HiddenInv'
  BY <1>1, <1>3 DEF ConfigInv, HiddenInv, PageInv, CookieInv, FieldsInv
<1>5. AloneInv'
  BY <1>1 DEF ConfigInv, AloneInv, Running
<1> QED
  BY <1>2, <1>4, <1>5 DEF ConfigInv

LEMMA RequestStep == ASSUME ConfigInv, Request PROVE ConfigInv'
<1>1. /\ visit.at = "form" /\ DOMAIN form = Overrides
      /\ visit' = [visit EXCEPT !.at = "prepare"]
      /\ held2' = [k \in Overrides |-> {conf[k]}]
      /\ UNCHANGED <<iniFile, reading, conf, reloads, last, own, page, fields, cookie, form, op, used, held1, stamped>>
  BY DEF Request, server
<1>2. visit' \in [kind : {"plain", "embedded"}, at : Stages, count : Nat] /\ visit'.at = "prepare"
  BY <1>1 DEF ConfigInv, ConfigTypeOK, Stages
<1>3. \A k \in Overrides : conf[k] \in Holdings(k) /\ conf[k] \in Held
  BY OverridesHeld DEF ConfigInv, ConfigTypeOK
<1>4. ConfigTypeOK'
  <2>1. held2' \in [Overrides -> SUBSET Held]
    BY <1>1, <1>3
  <2> QED
    BY <1>1, <1>2, <2>1 DEF ConfigInv, ConfigTypeOK
<1>5. CopyInv'
  <2>1. op = Nothing /\ DOMAIN Nothing = {}
    BY <1>1 DEF ConfigInv, CopyInv, Nothing
  <2> QED
    BY <1>1, <1>2, <1>3, <2>1 DEF CopyInv
<1>6. HiddenInv' /\ AloneInv'
  BY <1>1, <1>2 DEF ConfigInv, HiddenInv, PageInv, CookieInv, FieldsInv, FormInv, AloneInv, Running
<1> QED
  BY <1>4, <1>5, <1>6 DEF ConfigInv

LEMMA CopyStep == ASSUME ConfigInv, NEW k \in Overrides, CopyOverride(k) PROVE ConfigInv'
<1>1. /\ visit.at = "prepare"
      /\ op' = [j \in DOMAIN op \cup {k} |-> IF j = k THEN conf[k] ELSE op[j]]
      /\ UNCHANGED <<iniFile, reading, conf, reloads, last, visit, own, page, fields, cookie, form, used, held1, held2, stamped>>
  BY DEF CopyOverride, server
<1>2. ConfigTypeOK'
  BY <1>1 DEF ConfigInv, ConfigTypeOK
<1>3. CopyInv'
  BY <1>1 DEF ConfigInv, CopyInv
<1>4. HiddenInv' /\ AloneInv'
  BY <1>1 DEF ConfigInv, HiddenInv, PageInv, CookieInv, FieldsInv, FormInv, AloneInv, Running
<1> QED
  BY <1>2, <1>3, <1>4 DEF ConfigInv

LEMMA PrepareStep == ASSUME ConfigInv, PrepareRDP PROVE ConfigInv'
<1>1. /\ visit.at = "prepare" /\ DOMAIN op = Overrides
      /\ used' = [k \in Overrides |-> UsedValue(k)]
      /\ visit' = [visit EXCEPT !.at = "connected"]
      /\ UNCHANGED <<iniFile, reading, conf, reloads, last, own, page, fields, cookie, form, op, held1, held2, stamped>>
  BY DEF PrepareRDP, server
<1>2. visit' \in [kind : {"plain", "embedded"}, at : Stages, count : Nat] /\ visit'.at = "connected"
  BY <1>1 DEF ConfigInv, ConfigTypeOK, Stages
<1>3. ConfigTypeOK'
  BY <1>1, <1>2 DEF ConfigInv, ConfigTypeOK
<1>4. \A k \in {"host", "port"} : \/ used'[k] \in held2[k] /\ used'[k] # Absent
                                  \/ used'[k] = form[k] /\ Absent \in held2[k]
  <2> SUFFICES ASSUME NEW k \in {"host", "port"}
               PROVE  \/ used'[k] \in held2[k] /\ used'[k] # Absent
                      \/ used'[k] = form[k] /\ Absent \in held2[k]
    OBVIOUS
  <2>1. k \in Overrides /\ k # "nowdrag"
    BY DEF Overrides
  <2>2. used'[k] = IF op[k] = Absent THEN form[k] ELSE op[k]
    BY <1>1, <2>1 DEF UsedValue
  <2>3. op[k] \in held2[k]
    BY <1>1, <2>1 DEF ConfigInv, CopyInv
  <2> QED
    BY <2>2, <2>3
<1>5. CopyInv'
  BY <1>1, <1>2, <1>4 DEF ConfigInv, CopyInv
<1>6. HiddenInv' /\ AloneInv'
  BY <1>1, <1>2 DEF ConfigInv, HiddenInv, PageInv, CookieInv, FieldsInv, FormInv, AloneInv, Running
<1> QED
  BY <1>3, <1>5, <1>6 DEF ConfigInv

LEMMA SettingsSetStep == ASSUME ConfigInv, SettingsSet PROVE ConfigInv'
<1>1. /\ visit.at = "connected" /\ cookie' = fields
      /\ stamped' = (stamped \/ page["host"] # Absent)
      /\ visit' = [visit EXCEPT !.at = "started"]
      /\ UNCHANGED <<iniFile, reading, conf, reloads, last, own, page, fields, form, op, used, held1, held2>>
  BY DEF SettingsSet, server
<1>2. visit' \in [kind : {"plain", "embedded"}, at : Stages, count : Nat] /\ visit'.at = "started"
  BY <1>1 DEF ConfigInv, ConfigTypeOK, Stages
<1>3. stamped' \in BOOLEAN /\ (stamped' <=> stamped \/ page["host"] # Absent)
  BY <1>1, Zenon
<1>4. ConfigTypeOK'
  BY <1>1, <1>2, <1>3 DEF ConfigInv, ConfigTypeOK
<1>5. CopyInv'
  BY <1>1, <1>2 DEF ConfigInv, CopyInv
<1>6. /\ DOMAIN fields = Overrides /\ fields["host"] \in Destinations \cup {Placeholder}
      /\ fields["host"] = Placeholder => page["host"] # Absent \/ stamped
  BY <1>1 DEF ConfigInv, HiddenInv, PageInv, FieldsInv, CookieInv
<1>7. cookie' # Nothing
  <2>1. DOMAIN Nothing = {} /\ Overrides # {}
    BY DEF Nothing, Overrides
  <2> QED
    BY <1>1, <1>6, <2>1
<1>8. CookieInv'
  BY <1>1, <1>3, <1>6 DEF CookieInv
<1>9. FieldsInv'
  BY <1>1, <1>6, <1>7 DEF FieldsInv
<1>10. PageInv' /\ FormInv'
  BY <1>1, <1>2 DEF ConfigInv, HiddenInv, PageInv, FormInv
<1>11. AloneInv'
  BY <1>1 DEF ConfigInv, AloneInv, Running
<1> QED
  BY <1>4, <1>5, <1>8, <1>9, <1>10, <1>11 DEF ConfigInv, HiddenInv

LEMMA ComeBackStep == ASSUME ConfigInv, NEW kind \in {"plain", "embedded"}, ComeBack(kind) PROVE ConfigInv'
<1>1. /\ visit' = [kind |-> kind, at |-> "page", count |-> visit.count + 1]
      /\ \/ page' = Nothing /\ held1' = [k \in Overrides |-> {conf[k]}]
         \/ UNCHANGED <<page, held1>>
      /\ fields' = Nothing /\ form' = Nothing /\ op' = Nothing
      /\ held2' = [k \in Overrides |-> {conf[k]}]
      /\ UNCHANGED <<iniFile, reading, conf, reloads, last, own, cookie, stamped>>
  BY DEF ComeBack, server
<1>2. visit' \in [kind : {"plain", "embedded"}, at : Stages, count : Nat] /\ visit'.at = "page"
  BY <1>1 DEF ConfigInv, ConfigTypeOK, Stages
<1>3. \A k \in Overrides : conf[k] \in Holdings(k) /\ conf[k] \in Held
  BY OverridesHeld DEF ConfigInv, ConfigTypeOK
<1>4. DOMAIN Nothing = {} /\ Overrides # {} /\ "host" \in Overrides
  BY DEF Nothing, Overrides
<1>5. ConfigTypeOK'
  <2>1. held1' \in [Overrides -> SUBSET Held] /\ held2' \in [Overrides -> SUBSET Held]
    BY <1>1, <1>3 DEF ConfigInv, ConfigTypeOK
  <2>2. DOMAIN page' \in SUBSET Overrides
    BY <1>1, <1>4 DEF ConfigInv, ConfigTypeOK
  <2> QED
    BY <1>1, <1>2, <1>4, <2>1, <2>2 DEF ConfigInv, ConfigTypeOK
<1>6. CopyInv'
  BY <1>1, <1>2, <1>3, <1>4 DEF CopyInv
<1>7. PageInv'
  BY <1>1, <1>2, <1>4 DEF ConfigInv, HiddenInv, PageInv
<1>8. FieldsInv' /\ FormInv'
  BY <1>1, <1>2, <1>4 DEF FieldsInv, FormInv
<1>9. CookieInv'
  BY <1>1 DEF ConfigInv, HiddenInv, CookieInv
<1>10. AloneInv'
  BY <1>1 DEF ConfigInv, AloneInv, Running
<1> QED
  BY <1>5, <1>6, <1>7, <1>8, <1>9, <1>10 DEF ConfigInv, HiddenInv

LEMMA ConfigStep == ConfigInv /\ [ConfigNext]_configVars => ConfigInv'
<1> SUFFICES ASSUME ConfigInv, [ConfigNext]_configVars PROVE ConfigInv'
  OBVIOUS
<1>1. CASE UNCHANGED configVars
  <2>1. UNCHANGED <<iniFile, reading, conf, reloads, last, visit, own, page, fields, cookie, form, op, used, stamped, held1, held2>>
    BY <1>1 DEF configVars, server, visitor
  <2>2. HiddenInv'
    BY <2>1 DEF ConfigInv, HiddenInv, PageInv, CookieInv, FieldsInv, FormInv
  <2> QED
    BY <2>1, <2>2 DEF ConfigInv, ConfigTypeOK, CopyInv, AloneInv, Running
<1> QED
  BY <1>1, EditFileStep, ReadIniStep, ReadSettingStep, ReadPageStep, LoadPageStep, ReadTokenStep, SendStep,
     RequestStep, CopyStep, PrepareStep, SettingsSetStep, ComeBackStep DEF ConfigNext, Quiescent

-----------------------------------------------------------------------------
\* In every reachable state the copies and the readings are as the parts say.
THEOREM ConfigInvariance == ConfigSpec => []ConfigInv
<1>1. ConfigInit => ConfigInv
  BY ConfigInitially
<1>2. ConfigInv /\ [ConfigNext]_configVars => ConfigInv'
  BY ConfigStep
<1> QED
  BY <1>1, <1>2, PTL DEF ConfigSpec

\* Every variable stays within its type; what is stored for a setting is absent or one
\* of its values.
THEOREM ConfigTypeCorrect == ConfigSpec => []ConfigTypeOK
<1>1. ConfigInv => ConfigTypeOK
  BY DEF ConfigInv
<1> QED
  BY <1>1, ConfigInvariance, PTL

\* getOverrideParams beside ReadConfig: an override that was there all the time is what
\* Connect is called with, for any number of reloads.
THEOREM OverridesWin == ConfigSpec => []OverrideWins
<1>1. ConfigInv => OverrideWins
  BY DEF ConfigInv, CopyInv, OverrideWins, Connected
<1> QED
  BY <1>1, ConfigInvariance, PTL

\* The placeholder reaches Connect only by way of a page made before its override was
\* taken away, or of the cookie settingsSet stored when a session from such a page began.
THEOREM PlaceholdersExplained == ConfigSpec => []PlaceholderExplained
<1>1. ConfigInv => PlaceholderExplained
  <2> SUFFICES ASSUME ConfigInv, Connected, used["host"] = Placeholder
               PROVE  /\ Absent \in held2["host"]
                      /\ held1["host"] # {Absent} \/ (stamped /\ cookie["host"] = Placeholder)
    BY DEF PlaceholderExplained
  <2>1. Placeholder \notin Destinations \cup {Absent} /\ "host" \in Overrides
    BY ConfigurationAssumption DEF Overrides
  <2>2. used["host"] \notin held2["host"]
    BY <2>1, OverridesHeld DEF ConfigInv, CopyInv
  <2>3. form["host"] = Placeholder /\ Absent \in held2["host"]
    BY <2>2 DEF ConfigInv, CopyInv, Connected
  <2>4. /\ DOMAIN form = Overrides /\ DOMAIN fields = Overrides /\ DOMAIN page = Overrides
        /\ fields["host"] = Placeholder
    BY <2>1, <2>3 DEF ConfigInv, HiddenInv, FormInv, PageInv, Connected
  <2>5. page["host"] # Absent \/ (cookie # Nothing /\ cookie["host"] = Placeholder)
    BY <2>4 DEF ConfigInv, HiddenInv, FieldsInv
  <2>6. page["host"] # Absent => held1["host"] # {Absent}
    BY <2>1, <2>4 DEF ConfigInv, HiddenInv, PageInv
  <2> QED
    BY <2>3, <2>5, <2>6 DEF ConfigInv, HiddenInv, CookieInv
<1> QED
  BY <1>1, ConfigInvariance, PTL

\* ReadConfig at a SIGHUP against a start with the same file.
THEOREM ReloadsAsRestarts == ConfigSpec => []ReloadAsRestart
<1>1. ConfigInv => ReloadAsRestart
  BY DEF ConfigInv, AloneInv, ReloadAsRestart
<1> QED
  BY <1>1, ConfigInvariance, PTL
=============================================================================
