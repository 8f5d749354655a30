--------------------------- MODULE Configuration ---------------------------
(***************************************************************************)
(* The configuration of WsGate (wsgateEHS.cpp) while it is in use: the     *)
(* file, ReadConfig as SIGHUP runs it beside the threads that serve        *)
(* requests, the overrides of a visitor's parameters, which are read twice *)
(* on the way to a session and never locked, the cookie by which the page  *)
(* keeps its fields from one session to the next, and the access rules.    *)
(*                                                                         *)
(* A setting of the file is absent, bad (ReadConfig throws at it) or a     *)
(* value.  One setting of each kind stands for all of its kind: "host" for *)
(* those whose value the page hides (user, password and pcb are treated    *)
(* alike), "port" for those whose value is checked (performance and NTLM), *)
(* "nowdrag" for the Boolean ones.                                         *)
(***************************************************************************)
EXTENDS Naturals, Sequences

CONSTANTS
    Files,          \* contents the configuration file may have
    Reloaders,      \* threads that may have a SIGHUP to handle
    Destinations,   \* hosts
    Ports,
    MaxReloads,     \* bound: SIGHUPs
    MaxVisits,      \* bound: sessions of the visitor, one after the other
    Absent, Bad, Placeholder

Overrides == {"host", "port", "nowdrag"}

\* The settings in the order in which ReadConfig comes to them.
Settings == <<"order", "deny", "host", "port", "nowdrag">>
Names == {Settings[i] : i \in 1..Len(Settings)}

Value(k) ==
    CASE k \in {"host", "deny"} -> Destinations
      [] k = "port" -> Ports
      [] k \in {"order", "nowdrag"} -> BOOLEAN

ASSUME ConfigurationAssumption ==
    /\ MaxReloads \in Nat /\ MaxVisits \in Nat /\ Ports \subseteq Nat
    /\ \A f \in Files :
        /\ DOMAIN f = Names
        /\ \A k \in Names : f[k] \in Value(k) \cup {Absent, Bad}
        /\ f["host"] # Bad /\ f["deny"] # Bad
    /\ \A k \in Names : Absent \notin Value(k) /\ Bad \notin Value(k)
    /\ Placeholder \notin Destinations \cup {Absent, Bad} /\ Absent # Bad

VARIABLES
    iniFile,    \* what the file says now
    reading,    \* of each reloader, how far its ReadConfig is and what read_ini read
    conf,       \* what ReadConfig stored: an override is Absent or a value
    reloads,    \* SIGHUPs so far
    visit,      \* the visitor: kind of session, program point, and which visit it is
    own,        \* the parameters the visitor chooses, or the token's
    page,       \* the overrides as the page shows them, Absent for a field left free
    fields,     \* the values of the fields of the page
    cookie,     \* those a session that has started left in the browser
    form,       \* those sent by the page, or given to PrepareRDP
    op,         \* PrepareRDP's copy of the overrides, as far as it is made
    used,       \* those Connect is called with
    held1,      \* values an override has had since the page was made
    held2,      \* values an override has had since PrepareRDP began to copy
    stamped,    \* history: a session was started from a page that hid a host
    last        \* the ReadConfig that started last: how it ended, and what was there before

server == <<iniFile, reading, conf, reloads, last>>
visitor == <<visit, own, page, fields, cookie, form, op, used, stamped>>
configVars == <<server, visitor, held1, held2>>

Running(t) == reading[t].at # 0

Nothing == [k \in {} |-> Absent]

\* What a start with file f stores.
Stored(k, f, before) ==
    CASE k = "deny" -> {}
      [] k = "order" -> IF f[k] = Absent THEN before ELSE f[k]
      [] OTHER -> f[k]

ConfigInit ==
    /\ iniFile \in Files /\ \A k \in Names : iniFile[k] # Bad
    /\ conf = [k \in Names |-> Stored(k, iniFile, TRUE)]
    /\ reading = [t \in Reloaders |-> [at |-> 0, ini |-> iniFile]]
    /\ reloads = 0
    /\ visit \in [kind : {"plain", "embedded"}, at : {"page"}, count : {1}]
    /\ own \in [host : Destinations, port : Ports, nowdrag : {FALSE}]
    /\ page = Nothing /\ fields = Nothing /\ cookie = Nothing
    /\ form = Nothing /\ op = Nothing /\ used = Nothing
    /\ held1 = [k \in Overrides |-> {conf[k]}] /\ held2 = held1
    /\ stamped = FALSE
    /\ last = [ini |-> iniFile, before |-> conf, result |-> "done", alone |-> TRUE]

-----------------------------------------------------------------------------
(***************************************************************************)
(* ReadConfig.                                                             *)
(***************************************************************************)

\* The administrator changes the file.
EditFile ==
    /\ iniFile' \in Files /\ iniFile' # iniFile
    /\ reloads < MaxReloads
    /\ UNCHANGED <<reading, conf, reloads, last, visitor, held1, held2>>

\* SIGHUP: read_ini.  A file that cannot be parsed changes nothing.
ReadIni(t) ==
    /\ ~Running(t) /\ reloads < MaxReloads
    /\ reloads' = reloads + 1
    /\ reading' = [reading EXCEPT ![t] = [at |-> 1, ini |-> iniFile]]
    /\ last' = [ini |-> iniFile, before |-> conf, result |-> "running",
                alone |-> \A s \in Reloaders : ~Running(s)]
    /\ UNCHANGED <<iniFile, conf, visitor, held1, held2>>

Holds(k, v) ==
    /\ held1' = IF k \in Overrides THEN [held1 EXCEPT ![k] = @ \cup {v}] ELSE held1
    /\ held2' = IF k \in Overrides THEN [held2 EXCEPT ![k] = @ \cup {v}] ELSE held2

\* The host lists are made from the children of their key, and a key of an ini
\* file has none.
HostList(ini) == {}

Store_KeepsAbsent(k, ini) == IF k = "deny" THEN HostList(ini) ELSE IF ini[k] = Absent THEN conf[k] ELSE ini[k]

\* An override that is absent is switched off; an order that is absent stays.
Store(k, ini) ==
    CASE k = "deny" -> IF ini[k] = Absent THEN conf[k] ELSE HostList(ini)
      [] k = "order" -> IF ini[k] = Absent THEN conf[k] ELSE ini[k]
      [] k \in Overrides -> ini[k]

\* One setting: stored, or found bad, which ends ReadConfig where it is.
ReadSetting(t) ==
    LET k == Settings[reading[t].at]  ini == reading[t].ini
    IN /\ Running(t)
       /\ \/ /\ ini[k] # Bad
             /\ conf' = [conf EXCEPT ![k] = Store(k, ini)]
             /\ Holds(k, conf'[k])
             /\ reading' = [reading EXCEPT ![t].at = IF @ = Len(Settings) THEN 0 ELSE @ + 1]
             /\ last' = IF reading'[t].at = 0 THEN [last EXCEPT !.result = "done"] ELSE last
          \/ /\ ini[k] = Bad
             /\ reading' = [reading EXCEPT ![t].at = 0]
             /\ last' = [last EXCEPT !.result = k]
             /\ UNCHANGED <<conf, held1, held2>>
       /\ UNCHANGED <<iniFile, reloads, visitor>>

-----------------------------------------------------------------------------
(***************************************************************************)
(* A visitor.                                                              *)
(***************************************************************************)

\* The rules are evaluated, and the answer is yes.
Denied(h) ==
    IF conf["order"] THEN h \in conf["deny"] ELSE TRUE

ConnectionIsAllowed(h) == Denied(h) \in BOOLEAN

\* HandleHTTPRequest makes the page and reads the overrides, one after the other:
\* a field that is overridden cannot be changed, and shows the value or hides it.
PageValue(k) == IF k = "host" /\ conf[k] # Absent THEN Placeholder ELSE conf[k]

ReadPage(k) ==
    /\ visit.at = "page" /\ k \in Overrides \ DOMAIN page
    /\ page' = [j \in DOMAIN page \cup {k} |-> IF j = k THEN PageValue(k) ELSE page[j]]
    /\ held1' = [held1 EXCEPT ![k] = {conf[k]}]
    /\ UNCHANGED <<server, visit, own, fields, cookie, form, op, used, held2, stamped>>

Free == {k \in Overrides : page[k] = Absent}

\* The page is loaded.  settingsApply puts the cookie into its fields, those that
\* cannot be changed included, and the visitor types into some of the others.
Shown(k, applied) == IF applied THEN cookie[k] ELSE IF k \in Free THEN own[k] ELSE page[k]

LoadPage(applied, typed) ==
    /\ visit.at = "page" /\ DOMAIN page = Overrides
    /\ applied => cookie # Nothing
    /\ typed \subseteq Free /\ (visit.kind = "embedded" => typed = {})
    /\ fields' = [k \in Overrides |-> IF k \in typed THEN own[k] ELSE Shown(k, applied)]
    /\ visit' = [visit EXCEPT !.at = "form"]
    /\ UNCHANGED <<server, own, page, cookie, form, op, used, held1, held2, stamped>>

\* The parameters HandleWsgateRequest makes for a token, with CheckForPredefined.
TokenValue(k) == IF conf[k] = Absent \/ k = "port" THEN own[k] ELSE conf[k]

ReadToken(k) ==
    /\ visit.at = "form" /\ visit.kind = "embedded" /\ k \in Overrides \ DOMAIN form
    /\ form' = [j \in DOMAIN form \cup {k} |-> IF j = k THEN TokenValue(k) ELSE form[j]]
    /\ UNCHANGED <<server, visit, own, page, fields, cookie, op, used, held1, held2, stamped>>

\* For a plain session the page sends its fields when the websocket is open.
SendCredentials ==
    /\ visit.at = "form" /\ visit.kind = "plain" /\ form = Nothing
    /\ form' = fields
    /\ UNCHANGED <<server, visit, own, page, fields, cookie, op, used, held1, held2, stamped>>

\* The parameters are there, and PrepareRDP is called with them.
Request ==
    /\ visit.at = "form" /\ DOMAIN form = Overrides
    /\ ConnectionIsAllowed(form["host"])
    /\ visit' = [visit EXCEPT !.at = "prepare"]
    /\ held2' = [k \in Overrides |-> {conf[k]}]
    /\ UNCHANGED <<server, own, page, fields, cookie, form, op, used, held1, stamped>>

\* getOverrideParams copies the overrides one after the other.
CopyOverride(k) ==
    /\ visit.at = "prepare" /\ k \in Overrides \ DOMAIN op
    /\ op' = [j \in DOMAIN op \cup {k} |-> IF j = k THEN conf[k] ELSE op[j]]
    /\ UNCHANGED <<server, visit, own, page, fields, cookie, form, used, held1, held2, stamped>>

UsedValue_AsForm(k) ==
    IF op[k] = Absent \/ visit.kind = "plain" THEN form[k]
    ELSE IF k = "nowdrag" THEN TRUE ELSE op[k]

\* The overrides of PrepareRDP.  That of nowdrag copies the flag for the value.
UsedValue(k) ==
    IF op[k] = Absent THEN form[k]
    ELSE IF k = "nowdrag" THEN TRUE ELSE op[k]

PrepareRDP ==
    /\ visit.at = "prepare" /\ DOMAIN op = Overrides
    /\ used' = [k \in Overrides |-> UsedValue(k)]
    /\ visit' = [visit EXCEPT !.at = "connected"]
    /\ UNCHANGED <<server, own, page, fields, cookie, form, op, held1, held2, stamped>>

\* "C:": the connection worked, and settingsSet stores the fields of the page.
SettingsSet ==
    /\ visit.at = "connected" /\ used["host"] # Placeholder
    /\ cookie' = fields
    /\ stamped' = (stamped \/ page["host"] # Absent)
    /\ visit' = [visit EXCEPT !.at = "started"]
    /\ UNCHANGED <<server, own, page, fields, form, op, used, held1, held2>>

\* The session is over, and the visitor comes back.  The page is asked for again and
\* made anew, or answered with 304 as long as its template is the same.
ComeBack(kind) ==
    /\ visit.at \in {"connected", "started"} /\ visit.count < MaxVisits
    /\ visit' = [kind |-> kind, at |-> "page", count |-> visit.count + 1]
    /\ \/ page' = Nothing /\ held1' = [k \in Overrides |-> {conf[k]}]
       \/ kind = visit.kind /\ UNCHANGED <<page, held1>>
    /\ fields' = Nothing /\ form' = Nothing /\ op' = Nothing /\ used' = Nothing
    /\ held2' = [k \in Overrides |-> {conf[k]}]
    /\ UNCHANGED <<server, own, cookie, stamped>>

Quiescent ==
    /\ visit.at \in {"connected", "started"} /\ visit.count = MaxVisits /\ reloads = MaxReloads
    /\ \A t \in Reloaders : ~Running(t)
    /\ UNCHANGED configVars

ConfigNext ==
    \/ EditFile
    \/ \E t \in Reloaders : ReadIni(t) \/ ReadSetting(t)
    \/ \E k \in Overrides : ReadPage(k) \/ ReadToken(k) \/ CopyOverride(k)
    \/ \E applied \in BOOLEAN, typed \in SUBSET Overrides : LoadPage(applied, typed)
    \/ SendCredentials
    \/ Request
    \/ PrepareRDP
    \/ SettingsSet
    \/ \E kind \in {"plain", "embedded"} : ComeBack(kind)
    \/ Quiescent

ConfigSpec == ConfigInit /\ [][ConfigNext]_configVars

-----------------------------------------------------------------------------
(***************************************************************************)
(* Properties.                                                             *)
(***************************************************************************)

Connected == visit.at \in {"connected", "started"}

\* An override that was there all the time PrepareRDP took to copy the overrides is
\* what the session gets, whatever the page was made from.
OverrideWins ==
    Connected => \A k \in {"host", "port"} :
        Absent \notin held2[k] => used[k] \in held2[k]

\* The placeholder of the page is used as a host only when PrepareRDP found no
\* override, and there was one when the page was made or the cookie brought the
\* placeholder back, which only a session can have put there that started from a
\* page with an override.
PlaceholderExplained ==
    Connected /\ used["host"] = Placeholder =>
        /\ Absent \in held2["host"]
        /\ held1["host"] # {Absent} \/ (stamped /\ cookie["host"] = Placeholder)

\* After a ReadConfig that ran alone to its end the overrides are what a start
\* with the same file would have made; only the order may be older.
ReloadAsRestart ==
    last.alone /\ last.result = "done" =>
        \A k \in Names : conf[k] = Stored(k, last.ini, last.before[k])

=============================================================================
