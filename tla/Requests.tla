------------------------------ MODULE Requests ------------------------------
(***************************************************************************)
(* A request as WsGate::HandleRequest takes it (wsgateEHS.cpp): refused,   *)
(* redirected to the TLS port, given to the handler of its path, or made a *)
(* WebSocket, the key of which is answered with a digest (Base64, Sha1).   *)
(* The servers listen on the ports of the start, while a reload, or the    *)
(* second server's own reading of the file, changes the configuration.     *)
(*                                                                         *)
(* Cursors and Pages have what their handlers do, Gateway has Prepare, and *)
(* Login what comes before with a token; here they answer.                 *)
(***************************************************************************)
EXTENDS Base64, Sha1

CONSTANTS
    HttpRequests,   \* requests: a set of records
    Lower,          \* the lower-case form of each host name
    Hostnames,      \* values of global.hostname; "" is none
    SslPorts,       \* values of ssl.port; 0 is none
    Accepted        \* what a client expects for each proper key

\* The paths HandleRequest tells apart; a key has no NUL, at which operator<< would end it.
ASSUME RequestAssumption ==
    /\ 0 \in SslPorts /\ "" \in Hostnames
    /\ \A r \in HttpRequests : /\ r.path \in {"robots", "cur", "connect", "page", "wsgate"}
                              /\ r.key \in Seq(1..255)

VARIABLES
    listening,      \* the port of the TLS server, 0 if there is none
    conf,           \* the configuration: ssl.port, redirect and hostname
    reloaded,       \* ssl.port has had another value since the start
    exchange        \* the request at hand and what has become of it

requestVars == <<listening, conf, reloaded, exchange>>

Confs == [sslPort : SslPorts, redirect : BOOLEAN, hostname : Hostnames]
Idle == [pc |-> "idle"]

RequestInit ==
    /\ conf \in Confs /\ listening = conf.sslPort
    /\ reloaded = FALSE /\ exchange = Idle

\* ReadConfig of a changed file; the servers stay on their ports.
ReloadConf(c) ==
    /\ conf' = c
    /\ reloaded' = (reloaded \/ c.sslPort # listening)
    /\ UNCHANGED <<listening, exchange>>

thisHost(r) == IF conf.hostname = "" THEN r.host ELSE conf.hostname

\* An answer; port is that of a redirect, accept that of a handshake.
Answered(r, handler, status, port, accept) ==
    [pc |-> "replied", request |-> r, handler |-> handler, status |-> status, port |-> port, accept |-> accept]

Respond(r, handler, status) == Answered(r, handler, status, 0, <<>>)

-----------------------------------------------------------------------------
\* HandleRedirectRequest: the port of the configuration, whatever is listened on.
Redirect_Kept(r) == Answered(r, "redirect", 301, conf.sslPort, <<>>)

Redirect(r) ==
    IF conf.sslPort = 0 THEN Respond(r, "redirect", 404)
    ELSE Answered(r, "redirect", 301, conf.sslPort, <<>>)

\* CheckIfWSocketRequest: the first thing that is wrong.
CheckIfWSocketRequest(r) ==
    CASE ~r.http11 -> 400
      [] ~r.connection -> 400
      [] ~r.upgrade -> 400
      [] Lower[r.host] # thisHost(r) -> 400
      [] Len(base64_decode(r.key)) # 16 -> 400
      [] ~r.version13 -> 426
      [] OTHER -> 0

ws_magic == <<50, 53, 56, 69, 65, 70, 65, 53, 45, 69, 57, 49, 52, 45, 52, 55, 68, 65,
              45, 57, 53, 67, 65, 45, 67, 53, 65, 66, 48, 68, 67, 56, 53, 66, 49, 49>>

\* HandleWsgateRequest after the parameters and ConnectionIsAllowed, which lets every
\* host pass: the check, the digest.
HandleWsgateRequest(r) ==
    IF CheckIfWSocketRequest(r) # 0 THEN Respond(r, "wsgate", CheckIfWSocketRequest(r))
    ELSE [pc |-> "digest", request |-> r, rest |-> r.key \o ws_magic, sha1 |-> NewSHA1]

\* HandleRequest.
HandleRequest(r) ==
    /\ exchange.pc = "idle"
    /\ r.secure => listening # 0
    /\ \/ /\ ~r.get
          /\ exchange' = Respond(r, "none", 400)
       \/ /\ r.get /\ conf.redirect /\ ~r.secure
          /\ exchange' = Redirect(r)
       \/ /\ r.get /\ (conf.redirect => r.secure) /\ r.path # "wsgate"
          /\ exchange' = IF r.path = "page" /\ thisHost(r) # r.host
                         THEN Respond(r, "page", 404) ELSE Respond(r, r.path, 200)
       \/ /\ r.get /\ (conf.redirect => r.secure) /\ r.path = "wsgate"
          /\ exchange' = HandleWsgateRequest(r)
    /\ UNCHANGED <<listening, conf, reloaded>>

\* operator<<: one character after the other.
Digest ==
    /\ exchange.pc = "digest" /\ exchange.rest # <<>>
    /\ exchange' = [exchange EXCEPT !.sha1 = Input(@, Head(exchange.rest)), !.rest = Tail(@)]
    /\ UNCHANGED <<listening, conf, reloaded>>

\* Result, and the session: Prepare may fail.
Accept(prepared) ==
    /\ exchange.pc = "digest" /\ exchange.rest = <<>>
    /\ exchange' = IF prepared
                   THEN Answered(exchange.request, "wsgate", 101, 0, base64_encode(Result(exchange.sha1)))
                   ELSE Respond(exchange.request, "wsgate", 503)
    /\ UNCHANGED <<listening, conf, reloaded>>

NextRequest ==
    /\ exchange.pc = "replied" /\ exchange' = Idle
    /\ UNCHANGED <<listening, conf, reloaded>>

RequestNext ==
    \/ \E c \in Confs : ReloadConf(c)
    \/ \E r \in HttpRequests : HandleRequest(r)
    \/ Digest \/ NextRequest
    \/ \E prepared \in BOOLEAN : Accept(prepared)

RequestSpec == RequestInit /\ [][RequestNext]_requestVars

-----------------------------------------------------------------------------
(* Keys of every length the check lets pass, which fill the last block of   *)
(* the digest to every side of its boundaries: the answer to a handshake is *)
(* the one the client computes (wsgateEHS.cpp:369-416, sha1.cpp:526), and   *)
(* no handshake is answered with a digest without having been checked.      *)
AcceptCorrect ==
    exchange.pc = "replied" =>
        IF exchange.status = 101
        THEN exchange.request.key \in DOMAIN Accepted /\ exchange.accept = Accepted[exchange.request.key]
        ELSE exchange.accept = <<>>

(* The configuration may change under running servers: a visitor without    *)
(* TLS is sent to the port the TLS server listens on, and told that there   *)
(* is none only if there is none, unless ssl.port has been changed since    *)
(* the servers started (wsgateEHS.cpp:189-201).                             *)
RedirectExplained ==
    (exchange.pc = "replied" /\ exchange.handler = "redirect" /\ ~reloaded) =>
        exchange.port = listening /\ (exchange.status = 404) = (listening = 0)
=============================================================================
