# A verification development of FreeRDP-WebConnect (wsgate)

FreeRDP-WebConnect is a gateway between a browser and an RDP server. A browser
loads a page and a script from the gateway's HTTP server, opens a WebSocket on
the same port and speaks a small protocol over it; the gateway opens the RDP
connection with libfreerdp and translates in both directions. This directory
holds TLA+ models of the parts of that program whose correctness depends on an
order of events, on two threads, or on a calculation that is easy to get wrong,
the TLC runs that check them, and TLAPS proofs of the properties that matter
most.

All paths below are under `src/wsgate/`.

## 1. The system and its parts

    browser (wsgate-debug.js) <-> EHS HTTP server (external library)
        WsGate ............ HTTP requests, configuration, session map
        MyRawSocketHandler  connection map, one entry per WebSocket
          wsendpoint ...... RFC 6455 endpoint: close handshake, frames
            frame::parser . incremental frame parser
          MyWsHandler ..... glue: frame -> message, response -> EHS
          RDP ............. session object with a worker thread
            Update, Primary drawing orders -> WebSocket messages
    RDP worker thread <-> libfreerdp (external) <-> RDP server

Server threads of EHS call into the gateway (OnData, OnDisconnect, HTTP
requests); there is one worker thread for every RDP object. The two sides meet
in `RDP::m_bThreadLoop` and `RDP::m_State` (no lock), in the endpoint's
`m_state` (a recursive lock, taken by some operations and not by others), in the
connection map and the session map (no lock), and in the cursor map (no lock).

| Component | State it keeps | Operations | Who calls it |
|---|---|---|---|
| RDP session (`RDP.cpp`) | `m_bThreadLoop`, `m_State`, `m_errMsg`, `m_lastError`, settings, cursor map | constructor, `Connect`, `Disconnect`, `ThreadFunc`, `OnWsMessage`, pointer and drawing callbacks, destructor | server thread, its own worker, libfreerdp (on the worker) |
| WebSocket endpoint (`wsendpoint.cpp`) | `m_state`, `m_lock`, the parser | `AddRxData`, `send`, `pong`, `send_close`, `send_close_ack`, `shutdown` | server thread (data), worker (send) |
| Frame parser (`wsframe.hpp`) | `m_state`, `m_bytes_needed`, `m_degraded`, `m_header`, `m_payload` | `consume`, `reset`, setters for outgoing frames | endpoint |
| Connections and sessions (`myrawsocket.cpp`) | `m_cmap`, `conn`; `WsGate::m_SessionMap` | `Prepare`, `PrepareRDP`, `OnData`, `OnMessage`, `OnDisconnect`, `RegisterRdpSession`, `UnregisterRdpSession` | EHS, `WsGate`, `RDP` |
| WsGate (`wsgateEHS.cpp`) | overrides, access rules, ini tree, static file cache | `HandleRequest` and the handlers it calls, `ReadConfig` | EHS threads, SIGHUP |
| Message glue (`myWsHandler.cpp`, `wshandler.cpp`) | none of its own | `on_message`, `on_close`, `do_response`, `send_text`, `send_binary` | endpoint, RDP |
| Drawing orders (`Update.cpp`, `Primary.cpp`) | none of its own | one callback for every order | libfreerdp on the worker |
| Encodings (`sha1.cpp`, `base64.cpp`) | the digest being computed | `Input`, `Result`, `base64_encode`, `base64_decode` | `HandleWsgateRequest`, handshake check |
| OpenStack tokens (`nova_token_auth.cpp`) | one lazily made instance | `get_console_info` | `HandleWsgateRequest` |
| Browser client (`webroot/js/wsgate-debug.js`) | canvas stack, cursors, session id, buttons, touch timers, socket | event handlers, `_pmsg`, `_reset` | browser |
| Page (`webroot/index-debug.html`) | the last client object, dialog, buttons and their listeners, the settings cookie | `RDPStart`, `showDialog`, `settingsApply`, `settingsSet`, `altTabEvent`, listeners of client events | visitor, client object |
| Main program (`wsgate_main.cpp`) | the two `WsGate` servers, pid file, signal handlers | `main`, `reload`, `terminate` | operating system |
| Windows service (`NTService.cpp`, `wsGateService.cpp`) | `m_ServiceStatus`, `g_signaled` | `ServiceMain`, `ControlHandler`, `ParseSpecialArgs` | service control manager, in two threads |

### What is hard about it

* **Two threads, no lock.** `Disconnect` looks at `m_State` and `m_bThreadLoop`
  while the worker changes them; between its look and its act the connection may
  come up or the worker may stop itself. `Connect` looks at neither `m_State`
  nor the thread it is called on.
* **A lock that some take.** `send` and `shutdown` lock, `AddRxData` and
  `send_close_ack` do not: a drawing order may come between the answer to a close
  frame and the end of the connection.
* **Bytes in pieces.** A frame is cut anywhere by the network, and the parser has
  to be in step after each piece, after each error, and in its recovery.
* **Errors that leave by several doors.** The parser throws `wserror`, what is
  left of one after `throw e`, and string literals; each takes another way out of
  `AddRxData`.
* **One variable for all visitors.** `PrepareRDP` finds the session through the
  member `conn`, which each `Prepare` overwrites: a stranger's parameters reach an
  object in any state, connected or about to be destroyed, and keep it alive.
* **Names that are used again.** Connections and sessions are known by their
  addresses.
* **A configuration that changes under the requests.** SIGHUP rewrites the
  overrides that a visitor's parameters meet twice on their way to a session, and
  the page keeps in a cookie what the overrides once made of it.
* **What the other end believes.** The RDP server knows of buttons and keys only
  what it is sent, and every release is sent under conditions (timers, modes,
  artificial buttons, the state of the session) that may have changed since the
  press.
* **A page with several clients.** Each start of a session makes a new object; the
  old ones keep their socket until it has closed and still reach the dialog, the
  button and the canvas.
* **Signals and controls at any moment.** SIGHUP, SIGTERM, Ctrl-C and the stop of a
  service come before there is a server, between two, and while they are
  destroyed; the service's two threads share a status without a lock.
* **Copies that go stale.** The page cache, the browser's cache and the cursor map
  are compared by dates of one second, beside edits and other requests.
* **A canvas with memory.** Clipping region and raster operation of one order stay
  for the next ones, until the context is restored.

### What makes each part correct

* RDP session: the two threads stay out of each other's library calls; the
  connection and the worker end with the object; each error and the end of a
  session reach the browser, once; a destructor always returns.
* Endpoint: nothing follows a close frame except what the protocol allows; one
  close handshake; the lock is always given back and `AddRxData` returns.
* Parser: what is handled is exactly a frame the peer wrote and a valid one; after
  an error only a close frame is; the parser always knows how many bytes it needs.
* Connections and sessions: a visitor's parameters reach that visitor's session; a
  session is registered as long as its connection lives and no longer; a cursor
  request finds the visitor's own session.
* Configuration: an override in force wins; a reload leaves what a restart would.
* Input: nothing stays held that the visitor does not hold; text arrives once.
* Browser: no session goes on where the visitor cannot see or end it; he can always
  start another; the page shows nothing of a session that is over.
* Drawing: an order changes the cells it asks for, within its bounds, and no others.
* Main program and service: SIGHUP reloads and kills nobody who is served; both
  servers have one configuration; a stop is obeyed and reported.
* Requests: the pointer and the page shown are not older than what was asked for;
  a redirect leads to a port that listens; a handshake is answered with the digest
  the client computes; a token leads to the configured region.

## 2. The modules

| Module | Models | Run against |
|---|---|---|
| `SessionContract` | abstract specification: one session as a browser may rely on it | refined by `RdpSession` |
| `RdpSession` | `RDP.cpp`: the server's threads, strangers' among them, and the worker of one RDP object | `MCRdpSession` |
| `RdpSessionProofs` | theorems about `RdpSession`, with the refinement of `SessionContract` | |
| `WireContract` | abstract specification: the frames of one WebSocket as a browser may rely on them | implemented by `WsEndpoint` |
| `WsEndpoint` | `wsendpoint.cpp`: server thread and worker on one endpoint | `MCWsEndpoint` |
| `WsEndpointProofs` | theorems about `WsEndpoint`, with the refinement of `WireContract` | |
| `FrameParser` | `wsframe.hpp` with the loop of `AddRxData`: bytes to frames | `MCFrameParser` |
| `FrameProofs` | theorems about `FrameParser`, `FrameCodec`, `Requests`, `Sha1` and `Base64` | |
| `Gateway` | `myrawsocket.cpp` and the session map: connections, visitors, sessions | `MCGateway` |
| `GatewayProofs` | theorems about `Gateway` | |
| `Configuration` | `ReadConfig`, overrides, access rules, the fields of the page and their cookie | `MCConfiguration` |
| `Input` | mouse, fingers and keys in the client, `OnWsMessage` at the gateway | `MCInput` |
| `Browser` | the page and the client objects with their sockets | `MCBrowser` |
| `BrowserProofs` | theorems about `Browser` | |
| `Painting` | `Update.cpp`, `Primary.cpp` and the client's drawing | `MCPainting` |
| `CanvasProofs` | theorems about `Painting` and `Input`, the client's screen and hands | |
| `Lifecycle` | `wsgate_main.cpp`: options, daemon, two servers, signals | through `WinService` |
| `WinService` | `NTService.cpp`, `wsGateService.cpp` around `Lifecycle` | `MCLifecycle` |
| `MainProofs` | theorems about both and about `Configuration`, which they read | |
| `Cursors` | pointer callbacks, cursor map, cursor requests, the client's pointers | `MCRequests` |
| `Pages` | `HandleHTTPRequest`: pages, files, the static cache, dates | `MCRequests` |
| `FetchProofs` | theorems about `Pages`, `Login` and `Cursors` | |
| `Login` | `nova_token_auth.cpp`: a login with a token | `MCRequests` |
| `Requests` | `HandleRequest`: dispatch, redirect, handshake | `MCRequests` |
| `Base64` | `base64.cpp` | through `Requests` |
| `Sha1` | `sha1.cpp` | through `Requests` |
| `FrameCodec` | `wsframe.hpp`, `wsendpoint.cpp`: the octets of frames, read and written | `MCRequests` |

Definitions named `X_Something` directly before a definition `X` are variants of
`X` with a plausible mistake. They are not used by any specification; replacing
`X` by one of them must make the property it is meant for fail, which shows that
the property depends on that piece of code.

### RdpSession

The variables are the fields of `RDP` that several threads touch, how far each
thread's `PrepareRDP` is with the object (`call`), how far its destruction is
(`opc`), the worker's place (`wpc`), what keeps the object alive (`mapped`: the
tuple in `m_cmap`, with the handler the worker sends through; `registered`: the
session map; a `PrepareRDP` in progress) and what the library answers
(`errorInfo`, `shall`, `link`). Each read and each write of `m_bThreadLoop` and
`m_State` is a step of its own; what lies between two of them, and touches nothing
another thread can see, is part of the step.

`PrepareRDP` takes the object from `m_cmap[conn]`, and `conn` may be another
visitor's. So `Connect` is called by the thread of the object's own visitor
(`Own`) and by `Strangers`, who come in any state, `connecting` and `CONNECTED`
included, beside each other and beside the destruction that waits for them.
`strays` counts the requests they have written into the object.

| Actions | Code |
|---|---|
| `Construct` | `RDP::RDP`, which starts the worker, and the tuple `Prepare` stores |
| `Credentials` | `OnWsMessage`: heard from the object's own visitor, in `STATE_INITIAL` |
| `Stray` | `PrepareRDP` of another visitor finds this object, in any state |
| `ConnectTest`, `ConnectRequest` | `Connect`, on any thread |
| `Register`, `ReturnPrepare` | the rest of `PrepareRDP` |
| `OnDisconnect`, `Replace` | the tuple leaves `m_cmap`, with or without the session map |
| `Destroy`, `DisconnectTest` ... `DisconnectJoin`, `Free` | `~RDP` with the last pointer, `Disconnect` |
| `WorkerLoop` ... `WorkerExit` | `ThreadFunc`, one action per test of the loop |
| `WorkerAfterFree`, `WorkerUnheard` | the worker of an object, or with a handler, that is gone: it gets away with it or crashes |
| `ConnectSucceeds`, `ConnectFails`, `ServerSpeaks` | libfreerdp (external) |

`Phase` maps a state to what the browser can tell: waiting, connecting, started,
over, gone. `SessionContract` says how these may follow each other and that an
attempt is answered; `Implements` is the refinement.

### WsEndpoint

`rx` is the server thread in `AddRxData`, `tx` the worker in `send`, `lock` the
owner of `m_lock`, `wire` what went out. What the parser makes of the bytes is
the choice of a frame, by the classes the code distinguishes; the parser itself is
`FrameParser`.

`Phase` says how far the close handshake is, from `m_state` and from whether an answer
went out: open, closing (the server began), answered (the browser began), over.
`WireContract` has what may be sent in each; `KeepsContract` is the refinement.

### FrameParser

`avail` bytes of the current call are left, `needed` is `m_bytes_needed`. A frame
is chosen when its basic header is complete, among all combinations of opcode,
FIN, RSV, mask and length form. `pos` (bytes of the peer's frame taken so far)
and `broken` (a frame has been thrown away) are not in the program: the
properties compare the program with them.

### Gateway

A visitor is one call of `Prepare`. `Prepare`, `StoreConn`, `Lookup`, `Connect`,
`Register` and `Upgrade` are the steps of one request thread, `Credentials`,
`Disconnect` and again `Lookup`, `Connect`, `Register` those of the thread that
serves raw sockets. Addresses of connections and of RDP objects are used again
as soon as nothing refers to them. EHS is external: it runs HTTP requests in
threads of their own and calls the raw socket handler from one thread.

### Configuration

One setting of each kind stands for all of its kind. `ReadSetting` stores one
setting per step, or finds it bad and ends the reload where it is. A visitor has
several sessions, one after the other. For each he reads the overrides when the
page is made (`ReadPage`; a 304 leaves him the page he had, `ComeBack`) or the token
is looked up (`ReadToken`), and again in `PrepareRDP`. `LoadPage` fills the fields
(`settingsApply`, what the visitor types), `Request` sends them, and `SettingsSet`
stores them in the cookie once the session has started: `page`, `fields` and
`cookie` are what each of the three holds. The history variables `held1`, `held2`
collect the values an override has had since the two readings; `stamped` records
that the cookie was written from a page with the placeholder.

### Input

`buttons` and `keys` are what the RDP server holds; the rest is the client's state
and the visitor's hands. One behaviour has one device, since the handlers of
mouse, fingers and keys share nothing else. A timer is a flag (`fTid`) or a number
of running timers (`cooling`) whose end is an action that may come at any time.
`odd`, `uneven`, `carried` and `sentIn` are history: they record the circumstances
under which the properties allow something to stay held, or text to be lost.

### Browser

A client object is a number; `rdp` is the last one made. `_reset` and `Close` are
the two halves of the code's `_reset` (page and socket), used by every action that
calls it: `Disconnect`, `onWSmsg` for the texts that end a session, `onWSclose`.
Opening, failing and closing of a socket are the browser's, in any order. `early`
and `disturbed` record the two circumstances under which a session may go on
behind the page.

### Painting

An order is the set of cells it changes and the set it blanks, which follow from
clipping region, composite operation and `_ckclp`; `order` keeps how they differ
from what was asked. The order of the calls is libfreerdp's: paints are bracketed,
bounds are given before an order and taken back after it.

### Lifecycle and WinService

`pc` is where `main` is; a server is 1 (the port with TLS, if there are two) or 2.
The handler of SIGHUP is steps of its own (`hup` is the server it comes to next),
which interrupt `main` while nothing else could run them, and run beside it once a
server listens. A server is destroyed in two steps, `~WsGate` and then `~EHS`; only
the second ends the listening if `StopServer` was not called (`EndFirst`). The file has a version; what happens while `ReadConfig` reads it is
`Configuration`'s. `WinService` adds the service control manager with its
administrator, `ServiceMain` and `ControlHandler`, one step for each write of the
status and each report. `apart` (why the two servers may have read different files),
`obeyed` and `lost` are history.

### Cursors

A pointer's number is its place in `m_cursorMap`; its image is the session and the
number it was made for, with the second it was stored in. The callbacks run on the
worker and put messages on `wire`; the browser asks for the image by the name (the
address of the session and the number), with the date of what it keeps, and the
answer is given at any later time. Sessions follow each other on one address.

### Pages

The file's content is the number of the edit that made it, and `history` the dates
the contents had. `HandleHTTPRequest` is one action per look at the outside world:
the date, the cache, the file, the placeholders. `asked` is history: what was there
when the request came.

### Login

A catalog is any sequence of services with any sequences of endpoints within the
bounds; the loops over it are the place they stop at or the last they pass. Every
answer of Keystone and Nova may also be a refusal.

### Requests, Base64 and Sha1

A request is a record of what `HandleRequest` and `CheckIfWSocketRequest` look at;
`Requests` follows it to its answer. The digest is computed octet by octet, with the
operators of `Sha1`, where a word of 32 bits is the set of the places of its ones, so that
the operators of C are those of sets. The answers a client expects are given by
`MCRequests`.

### FrameCodec

A client's frame is its opcode, payload and masking key; `ClientHeader` and `Masked`
lay it out as RFC 6455 says, `Process` unmasks and answers it, `Send` is a message of
the session. `m_header` has the 14 octets of the code, in which the setters and
`get_header_len` find their way. The endpoint is open until a close frame is handled;
frames in pieces and the endpoint's own close are in `FrameParser` and `WsEndpoint`.

`MCRequests` checks `Cursors`, `Pages`, `Login`, `Requests` and `FrameCodec` in one run. They share no state, so that one
behaviour is about one of them (`subject`).

## 3. The runs

| Run | Module, configuration | Properties | What it shows |
|---|---|---|---|
| `rdp` | `MCRdpSession`, `RdpSession.cfg` | `LibraryExclusion`, `UnjoinedExplained`, `LeakExplained`, `NoErrorLost`, `DestroyEnds`, `RequestServed`, `Implements` | All interleavings of the object's own server thread, a thread that brings it a stranger's parameters in any state, and the worker, with silent and reported server errors; under fair scheduling destruction ends, a request is taken up and the session implements the contract the browser relies on. |
| `ws` | `MCWsEndpoint`, `WsEndpoint.cfg` | `KeepsContract`, `CloseEnds`, `AddReturns` | Server thread and worker on one endpoint with every code wserror has and every class of close frame: what is sent keeps the contract of the connection, and a close frame ends it. |
| `frame` | `MCFrameParser`, `FrameParser.cfg` | `FramesInStep`, `OnlyValidHandled`, `ErrorIsFinal`, `MethodInvariantExplained`, `FoundCloseEnds` | Every frame shape in every cut of the stream, with the three ways an error leaves the parser; AddRxData returns and recovery leads to the end of the session. |
| `gateway` | `MCGateway`, `Gateway.cfg` | `StrayIsLater`, `OrphanExplained`, `CursorServed`, `CrashExplained` | Three calls of Prepare on two connections whose addresses, like those of RDP objects, are used again: what the single member conn lets go wrong, and what still holds. |
| `config` | `MCConfiguration`, `Configuration.cfg` | `OverrideWins`, `PlaceholderExplained`, `ReloadAsRestart` | Two reloads, which may overlap and may fail, beside a visitor of two sessions, one after the other, whose parameters meet the overrides twice in each and whose fields the cookie keeps. |
| `input` | `MCInput`, `Input.cfg` | `ButtonsExplained`, `KeysExplained`, `TextExplained` | Two sessions with a mouse, with up to three fingers or with a keyboard and input method: what stays held at the RDP server, and which text arrives twice or never. |
| `browser` | `MCBrowser`, `Browser.cfg` | `OrphansExplained`, `PageShowsOpen`, `EndedEnds` | Three starts of a session in every order of opening, ending and closing: which sockets stay open behind the page, and that an ended session ends. |
| `painting` | `MCPainting`, `Painting.cfg` | `BitmapExact`, `OrdersExplained` | Every order with every rectangle and bounds on six cells: which cells an order changes or blanks, against those it asks for. |
| `lifecycle` | `MCLifecycle`, `Lifecycle.cfg` | `HupHarmless`, `ServersAgree`, `ToldStopped`, `StopEnds` | The main program on Linux and Windows and as a Windows service, with signals, reloads, edits of the file and controls of the service at every moment: who is obeyed, and which configuration two servers have. |
| `requests` | `MCRequests`, `Requests.cfg` | `CursorExplained`, `PageExplained`, `LoginInRegion`, `AcceptCorrect`, `RedirectExplained`, `AnswersRight` | What a visitor fetches: pointers beside the worker that makes and frees them, pages while the file and the settings change, a console through Keystone and Nova, and requests of every kind through the dispatcher, with handshakes whose keys end on every side of SHA-1's block boundary, and the frames on the WebSocket with payloads and close codes on both sides of each limit. |

Runs in which TLC must find the stated property violated (section 5):

| Run | Configuration | Property | What it shows |
|---|---|---|---|
| `rdp_disconnect_terminates` | `RdpSession_DisconnectTerminates.cfg` | `DisconnectTerminates` | Without strangers: a connection that comes up after Disconnect looked at m_State survives a Disconnect that joined the worker and returned success. |
| `gateway_own_session` | `Gateway_OwnSession.cfg` | `OwnSession` | Two visitors in Prepare: the parameters of the first connect the RDP object of the second. |

### Bounds, and why they are enough

* `RdpSession`: one quiet error word and two loud ones, two credential messages and
  a stranger's thread with at most two requests; 243,454 states. The code tells apart
  no more classes; a session can fail once and be asked for again, and a stranger
  comes once while it connects and once more when it is up. `DisconnectTerminates` is
  looked for without strangers, who are another finding's.
* `WsEndpoint`: four frames on the wire and three in one call of `AddRxData`: a
  data frame before and after each of the two frames of a handshake.
* `FrameParser`: the limits 125, 65535 and 100 MB are scaled down to 2, 3 and 4,
  in order, with a length below, at and above each; a call brings up to 24 bytes,
  more than the longest frame. `FrameProofs` needs none of these bounds.
* `Gateway`: three visitors on two connections, three session addresses: one
  visitor more than addresses, so that an address is used again while two others
  race.
* `Configuration`: two sessions of one visitor, of which the first leaves the cookie for
  the second, two reloads in two threads, four files: one that sets nearly
  nothing, one that sets everything, and one with a bad setting after and one
  with a bad setting before the overrides it changes; about 5.3 million states.
* `Input`: two sessions (the second shows what the first leaves behind), three
  fingers (four behave as three), two timers at a time, two buttons, and one
  character key beside Enter and Alt, which have conditions of their own.
* `Browser`: three objects: two that are old beside one that is new.
* `Painting`: six cells, 3 by 2: rectangles on the diagonal and off it, square and
  not, as large as the canvas and smaller, which is all `_cR` distinguishes. The
  depth of the state space is not bounded.
* `Lifecycle`: two edits of the file, one before and one between the readings of two
  servers; about 156,000 states. `MainProofs` needs no bound.
* `Cursors`: two slots and three pointers (a slot is used again), two sessions on one
  address, two seconds, two messages on their way. `Pages`: two threads, three
  contents, two values, two seconds: a request that is overtaken by another, and
  dates that are alike. `Login`: two regions, two services with up to two endpoints:
  a match before and after a mismatch. `Requests`: one request for each thing that is
  tested, and keys for which key and magic have 58 to 120 octets: one and two blocks,
  with room for the padding and without. `FrameCodec`: each opcode, payloads of 0, 1, 5,
  125 and 126 octets, 14 close codes around the limits of `close::status` with reasons
  of up to 123 octets, and messages of up to 100,000,001 octets, of which only the
  length is kept. The run has about 1.35 million states.

### Fairness

* `RdpSession`: weak fairness of the worker, of the destruction once nothing keeps the
  object, and of each thread's `PrepareRDP` once it has begun (a runnable thread runs).
  None of the browser or of strangers; of the library only that a call returns, which
  the code itself waits for.
* `WsEndpoint`: strong fairness of the server thread's handling and weak fairness
  of the worker's write. A mutex is handed to a waiting thread some time; weak
  fairness would let the worker take it again each time.
* `FrameParser`: weak fairness of the next step: the peer goes on sending, and a
  call that has begun runs on. The one liveness property is about such a peer.
* `WinService`: weak fairness of `main`, of the thread of `ServiceMain` and of that of
  `ControlHandler`: runnable threads run. None of signals, of the administrator or of
  the service control manager.
* `Browser`: weak fairness of the end of a socket that is closing, which the
  WebSocket API promises (the browser gives up waiting for the peer).

## 4. What is proved

The proofs hold for every value of the constants under the assumptions named in
the modules (`ErrorsAssumption`, `EndpointAssumption`, `SizeAssumption`, `GatewayAssumption`,
`NamesAssumption`, `StartsAssumption`, `LifecycleAssumption`, `ConfigurationAssumption`,
`InputAssumption`, `PageAssumption`, `LoginAssumption`, `CursorAssumption`,
`RequestAssumption`, `CodecAssumption`). Four of them limit what the outside may do:
`ConfigurationAssumption` that a host name and an access list are never malformed, which
`ReadConfig` takes as they come; `InputAssumption` that at most four fingers are on the
screen, the most `onTs` looks at; `RequestAssumption` that no key has a NUL, at which
`SHA1::operator<<` would end it; `CodecAssumption` that a client's frame is masked, has an
opcode of RFC 6455 and a length within its limits (frames that break the protocol are
`FrameParser`'s).

* **`RdpSessionProofs`.** No safety property is inductive by itself: that
  `Disconnect` skips the join only for a worker that stopped itself needs to know
  who may have cleared `m_bThreadLoop`, and that needs the place of both threads.
  `IInv` has, beside the types, `WorkerInv` (state, link, texts and pending errors
  against the worker's place), `LoopInv` (who cleared the flag), `OwnerInv` (what the
  place of the destruction says of state and result), `CallInv` (who is in
  `PrepareRDP` keeps the object alive, and its own visitor is there only with a request
  nobody but a stranger can have overtaken) and `TextInv` (the sessions announced and
  the requests not yet answered are no more than the strangers' requests and one).
  `Step` proves it action by action, for any number of strangers and requests; the
  safety properties follow from it. The refinement of the safety part
  of `SessionContract` uses `IInv` to show that each step moves `Phase` along the
  contract or not at all.
* **`WsEndpointProofs`.** `IInv` says that the lock belongs to the thread whose
  place says so, that what was tested under the lock still holds when the thread
  acts, and how `m_state` and the frames sent agree. With it each step is a step of
  `WireContract` or changes neither `Phase` nor the wire (`NextKeeps`); the step that
  sends decides which: `PhaseAfter` says what a frame makes of the phase.
* **`FrameProofs`.** For `FrameParser`, `IInv` gives `m_bytes_needed` and `m_header` their
  meaning in each state. The core is `PosInv`: in each state the bytes taken and
  the bytes needed add up to a boundary of the peer's frame. Lemmas on the lengths
  of a header come first.

  For `FrameCodec`, for every payload, key, close code and length: the invariant is short
  (`CodecInv`: between two frames the header is clear, with one it holds what the client
  wrote, and the last frame was answered as it should be) and the work is in lemmas about
  the operators. An octet is the sum of its bits, so that masking twice gives it back
  (`XorUndone`); a length is the number its octets make (`TwoOctets`, `FourOctets`); the
  setters leave a header in which the client finds opcode and length (`Written`), and
  `get_header_len` finds the client's key behind each form (`HeaderRead`); together the
  parser has what the client masked (`UnmaskedIsPayload`). `CodesAre` shows that what
  `reserved` and `invalid` let pass are the codes that may be sent, `CloseAck` that
  another one, or none, is answered with a code that may be.

  For `Requests`, for any ports and requests: while `reloaded` is false the
  configuration has the port that is listened on (`RedirectExplained`), and a request whose
  digest is being computed has been checked, so that nothing becomes a WebSocket without
  (`HandshakeChecked`). `DigestInv` says that the object of `SHA1` has been given exactly
  what is no longer in `rest`.

  What that object then holds is said without recursion (`Absorbed`): there is a sequence
  of hash words from `H0` on, one for each full block of the text, whose last is in the
  object, beside the octets behind those blocks and the number of bits. `Input` keeps that,
  whether it fills a block or not (`HashGoesOn`), and `Result` makes of it the
  hash of the whole text, padded as FIPS 180 has it, in one block more or two (`HashEnds`);
  `Padded` is the closed form of the padding, and `LengthIsWritten` says that its last
  octets are the number of bits (`LengthOctets` has the lower word of the code's length,
  enough for texts below 2^29 octets). So each handshake is answered with base64 of the digest of
  its key and the magic text (`HandshakesDigested`), whatever the function on one block.
  `AcceptCorrect` follows under one hypothesis about the clients, `ClientsKnow`: for each
  key of 16 octets a client expects just that. What the hypothesis leaves open is that
  `ProcessMessageBlock` is SHA-1's function; the run checks it for RFC 6455's example and
  keys on each side of the block boundary, whose digests are known from elsewhere.

  For `Base64`, for octets of any number: a character is found at the number it stands for
  (`CharFound`), three octets are in four numbers of six bits (`SextetsBack`), and so a
  group of one, two or three octets decodes to itself (`GroupDecodes`). Groups are
  defined by their place in the text, so that the whole needs no induction: `TextIs` says
  where each group's characters are and that the padding is the only part of the text
  outside the alphabet; reading ends there, its groups of four are those of three that
  were encoded, and `RoundTrip` follows: `base64_decode(base64_encode(s)) = s`.
* **`GatewayProofs`.** For any number of connections, RDP objects and visitors.
  `VisitInv` and `OwnerInv` say that the map has each visitor's own object and no
  object twice, although addresses are used again; `ThreadInv` says whose parameters
  a thread has. `StrayIsLater` needs `TurnInv` and `StrayInv`: turns are given in
  order, and the connection stored last has the latest turn or a new visitor whose
  turn is still to come, so parameters that go astray through it go to somebody
  later. A lemma counts the turns (`TurnsCount`). `CursorServed` needs `ToldInv`:
  what a browser was told is what its connection has.
* **`BrowserProofs`.** For any number of sessions. `Reachable`: an object whose socket
  may be open is the last one, behind no dialog, or one of those the code forgets;
  a new session needs the dialog and leaves only those behind.
* **`FetchProofs`.** `PageExplained`, for any number of threads, edits and seconds. What the
  cache and the browser hold is dated with the date of its own content or of an earlier one;
  a thread compares it with the date of a content no older than its request. What
  passes and is older therefore shows two contents whose dates are not in order.
  `LoginInRegion`, for any catalog: the places of endpoints are finitely many, so there
  is a last one (`LastIsOne`, from the well-foundedness of the naturals), and it is in
  the region. `CursorExplained`, for any number of pointers, slots, sessions and
  messages on their way: `WireInv` says that each pointer a message sets has a name by
  then, and that the last one set is in a slot of libfreerdp, where `SlotInv` finds its
  image; `KeptImageInv` says that what the browser keeps is the image stored or has the
  date of an earlier session, no later than any of this one, which is what a 304 rests on.
* **`MainProofs`.** For `Lifecycle` and `WinService`, for any number of edits and signals, on each platform.
  `ServiceInv` ties the place of `main` to those of the service, `HupInv` says what
  the handler's pointers are at each place (a server that is gone may still listen),
  `ReadInv` which versions the servers have, and why they may differ, `StopInv` what the service control manager has been told. For `Configuration`, for
  any number of reloads, sessions and files: `CopyInv` says that each override copied so far is one
  of those in force since the copying began and that the visitor's own value is used only
  if there was a time without one; `HiddenInv` that page, cookie, fields and form
  (`PageInv`, `CookieInv`, `FieldsInv`, `FormInv`) have the placeholder only if there was
  an override to hide when this page was made, or an earlier page's came through the cookie; `AloneInv` that a `ReadConfig` without another beside it
  has stored exactly the settings before its place, which is why it ends with those of a
  start. `OverrideWins` is about the moment of use and would not survive the step before.
* **`CanvasProofs`.** For `Painting`, for a canvas of any size. `ContextInv`: between paints the
  context is as new; within one the region is what `_cR` makes of the bounds, until
  the first bounds are taken back. Each order has a lemma of its own. For `Input`, for any
  keys and sessions: `MouseInv` and `TouchInv` tie the buttons the server holds to the
  client's flags, timers and fingers (a press that still waits for its timer with no finger
  down is already odd); `KeyInv` remembers the modes each press was sent in, so that a
  release in one of them is sent too; `TextInv` says what may be pending in the textarea in
  each mode. `SessionInv`: a session that is over holds nothing.

| Property | Run | Theorem |
|---|---|---|
| `LibraryExclusion`, `UnjoinedExplained`, `LeakExplained`, `NoErrorLost` | `rdp` | `RdpSessionProofs` |
| `KeepsContract` | `ws` | `WsEndpointProofs` |
| `FramesInStep`, `OnlyValidHandled`, `ErrorIsFinal`, `MethodInvariantExplained` | `frame` | `FrameProofs` |
| `StrayIsLater`, `OrphanExplained`, `CursorServed`, `CrashExplained` | `gateway` | `GatewayProofs` |
| `OrphansExplained`, `PageShowsOpen` | `browser` | `BrowserProofs` |
| `BitmapExact`, `OrdersExplained` | `painting` | `CanvasProofs` |
| `ButtonsExplained`, `KeysExplained`, `TextExplained` | `input` | `CanvasProofs` |
| `OverrideWins`, `PlaceholderExplained`, `ReloadAsRestart` | `config` | `MainProofs` |
| `HupHarmless`, `ServersAgree`, `ToldStopped` | `lifecycle` | `MainProofs` |
| `PageExplained`, `LoginInRegion`, `CursorExplained` | `requests` | `FetchProofs` |
| `RedirectExplained`, `AcceptCorrect`, `AnswersRight` | `requests` | `FrameProofs` |

Only model-checked: every liveness property (`DestroyEnds`, `RequestServed`, `CloseEnds`,
`AddReturns`, `FoundCloseEnds`, `EndedEnds`, `StopEnds`, and the liveness of
`SessionContract` in `Implements`, whose safety is proved), since the prover has neither
fairness nor ENABLED; and that `ProcessMessageBlock` is the function of the standard
(`ClientsKnow` above), since a reference would repeat the code. Every invariant of the passing runs is proved.

Some theorems state properties that no run repeats, because the proof holds for all
bounds: `NoTextTwice`, `EndIsTold`, `StateMovesInOrder`, `Quiet`, `AckThenData`,
`OneHandshake`, `NothingLeft`, `HandshakeChecked`, `AnswersAreDigests`, `RoundTrip`, and
type correctness; the invariants
of `FetchProofs` and of `Input` have it as a part.

## 5. Where the code and its comments part

Each of these is a run that finds a behaviour the quoted text excludes; see
`findings` in `PROJECT.json`. The passing runs check what does hold instead
(`UnjoinedExplained`, `LeakExplained`, `StrayIsLater`, ...).

* `DisconnectTerminates` (`rdp_disconnect_terminates`, `RDP.cpp:462`): Disconnect calls freerdp_disconnect only if m_State is CONNECTED when it looks; a freerdp_connect that begins or is in progress then succeeds, the loop ends, the join returns and Disconnect returns true with the connection still up. RDP.hpp:90-91 says "Actively terminates a session. @return true on success."
* `OwnSession` (`gateway_own_session`, `myrawsocket.cpp:92`): PrepareRDP looks the session up under the member conn, which every Prepare overwrites: between Prepare and PrepareRDP of one visitor another's Prepare makes it the other's session. myrawsocket.hpp:95 says "Creates an RDP session using parameters specified to wsgate::MyRawSocketHandler::Prepare".

Seen while modelling, without a run of its own:

* `throw e` (`wsframe.hpp:304`) copies the caught `wserror` into a `std::exception`,
  so the catch of `wserror` in `AddRxData` never sees a protocol violation: no close
  frame is sent and the session stays open, where `wsframe.hpp:76` says
  "PROTOCOL_VIOLATION = 2, // must end session". `FrameParser` has the way out;
  `FoundCloseEnds` says what does end such a session. Any other exception leaves
  `AddRxData` in the same way (`wsendpoint.cpp:239`).
* "x == y == 0" compares a Boolean with 0 (`webroot/js/wsgate-debug.js:548`), so the
  four zeroes of `SetBounds(NULL)` do not take the return and an empty rectangle is
  clipped: after the first bounded order of a paint nothing but exact copies is drawn
  until `EndPaint`, where the comment beside it says "All zero means: reset to full
  canvas size". `LostExplained` has the exception.
* `ThreadFunc` leaves its loop on `freerdp_shall_disconnect` without clearing
  `m_bThreadLoop` (`RDP.cpp:1101`), so `Connect` takes a dead worker for a live
  one (`RDP.cpp:381`). `RequestServed` has the exception: a worker that is done while
  the flag of the library is set.
* `Connect` does not look at `m_State`, so that a stranger's request (`OwnSession`)
  rewrites the settings a running `freerdp_connect` reads (`RDP.cpp:385`), and takes
  a session that is up from `STATE_CONNECTED` back to `STATE_CONNECT` (`RDP.cpp:453`).
  `Disconnect` then does not disconnect it, a worker that ends meanwhile sends no "T:",
  and one that goes on connects again and sends a second "C:". `LibraryExclusion`,
  `LeakExplained`, `EndIsTold`, `NoTextTwice` and `StateMovesInOrder` name the case.
* `RegisterRdpSession` puts the object into `m_SessionMap` also when its connection has
  gone meanwhile. Nobody takes it out; its worker goes on and sends through the handler
  that was freed with the tuple (`WorkerUnheard`). `DestroyEnds` has the exception.
* A session that starts stores the fields of its page in a cookie
  (`webroot/index-debug.html:349`, `webroot/js/wsgate-debug.js:1113`), the placeholder
  `<predefined>` with them. `settingsApply` puts it back into a page made when the
  override has gone, and the visitor is connected to a host of that name.
  `PlaceholderExplained` has the exception.
* If the second port cannot be bound, `main` leaves without `StopServer`: the first
  server is destroyed while it still listens, and a SIGHUP then finds a pointer to it
  (`wsgate_main.cpp:351`). `HupHarmless` has the exception.
* A SIGHUP before `g_psrv` points to the second server (`wsgate_main.cpp:303`) reloads
  the first one alone, and the second goes on with the older file. `ServersAgree` has
  the exception.
* A drawing order can follow the answer to a close frame (`wsendpoint.cpp:271`);
  `AckThenData` says that nothing else can.
* Fragments of a message are handled one by one, whatever
  `wsendpoint.hpp:105-106` says of waiting for the whole message.
* `send_close` and the state CLOSING cannot be reached as the code is: the only
  call is in the handler of `wserror`s that `throw e` never lets through. The
  model keeps them, with the parser's exceptions as a constant.
* `Disconnect` returns true without `pthread_join` when the worker cleared
  `m_bThreadLoop` itself (`RDP.cpp:460`, error words at `RDP.cpp:1076`), so `~RDP`
  frees the object under a running worker; `UnjoinedExplained` has the exception.
* A close frame with status 1006 reaches the throw of `send_close_ack` that the
  comment at `wsendpoint.cpp:236` asks about; it is the `escaped = "here"` of
  `WsEndpoint`.
* A payload above the limit is thrown as a string literal (`wsframe.hpp:711`) and
  leaves the parser in `EXTENDED_HEADER` with nothing to read, against the
  invariant at `wsframe.hpp:215`; `MethodInvariantExplained` has the exception.
* `ConnectionIsAllowed` computes a decision and returns true (`wsgateEHS.cpp:135`);
  the host of a plain session is known only later, from the credentials, and is
  not checked at all.
* The override of `nowdrag` copies its flag for its value (`myrawsocket.cpp:82`).
* `_reset` closes a socket only if it is open (`webroot/js/wsgate-debug.js:666`): a
  session disconnected while it is connecting opens afterwards and connects, where
  the comment says "Reset our state to disconnected"; `OrphansExplained` has the
  exception.
* A pattern order with `GDI_PATCOPY` draws in the mode `copy`, which blanks the
  rest of the region (`webroot/js/wsgate-debug.js:586`); if `_cR` took its early
  return that is more than the rectangle. `SpillExplained` has the exception.
* DSTBLT, LINETO and POLYLINE are announced to the server (`RDP.cpp:794-805`) but
  only logged (`Primary.cpp`).
* `rdpoverride.size` is accepted and never used; a port of 65536 is accepted.
* Main program: on Linux the handler of SIGTERM and SIGINT does nothing, so the
  program ends by SIGKILL and leaves its pid file. The parent of the daemon returns 0
  before the child has bound a port. An exception that `main` catches skips
  `StopServer` and returns 0. `--foreground` has no effect: it is looked for among
  the settings of the file instead of the options (`wsgate_main.cpp:225-228`).
* Service: one that ends for another reason than a stop may be reported as
  `STOP_PENDING` after `STOPPED`; a stop between `SERVICE_RUNNING` and the first
  statement of `RunService` is lost (`StopEnds` has the exception); only stops are
  accepted, so that a shutdown of the system is never told.
* Requests: a `Host` with upper-case letters is refused in the handshake, since it is
  compared in lower case with itself as it came; keys without padding, or with octets
  behind it, are accepted. A page is answered 304 by the file's date alone, so changed
  overrides or cookies are not shown, where the comment at `wsgateEHS.cpp:422` says
  "generates a page for each http request"; `PageExplained` has the exception.
  `externalRequest` is always false.
* Tokens: without a configured region a v2 catalog gives the first endpoint of the last
  service, a v3 catalog the last endpoint.
* `set_opcode` tests the opcode that is there, not the new one (`wsframe.hpp:374`).
* A close frame with the code 1005, which a client may not send, is answered as one
  without a code (`wsendpoint.cpp:232`); codes 1012 to 1014 are refused as reserved.
* Without `HAVE_BOOST_LOCK_GUARD` the lock of the endpoint is a temporary that is
  destroyed in the statement that makes it (`wsendpoint.cpp:130`), so that nothing is
  locked. `WsEndpoint` models the build with boost's guard (`CMakeLists.txt:527`).
* Two first requests with a token at a time each make an instance, and one is lost
  (`nova_token_auth.cpp:324`); each start of a session adds another listener to the
  same button, whose sequence of keys is then sent as often
  (`webroot/index-debug.html:341`). Neither is in a model.

## 6. What is not modelled, and why

* **Inside libfreerdp, EHS, boost**: external; they are the nondeterminism of the
  models.
* **Data races as such.** A plain `bool` or `enum` that two threads use is
  modelled as if each access were atomic and in program order, and each access of
  an unlocked `std::map` as atomic. The models show what goes wrong even then.
* **Logging and exceptions, PNG encoding, build files**: no decision depends on them.
* **The UTF-8 validator** (`wsutf8.hpp`) is used by `get_close_msg` alone, which nothing
  calls.
* **Decompression in the client** (`dRLE16_RGBA`, `dRGB162RGBA`, `flipV`): functions of
  one message's bytes, whose reference is libfreerdp's encoder, which is external.
* **The keyboard on the screen, the helper that binds ports**: layout, and one call
  before the program runs.

## 7. What could be added

1. The composition of `Gateway` with `SessionContract` in the place of each session, and
   of `Browser` with both: a visitor's session from the button to the RDP server.
2. Run-length decoding (`dRLE16_RGBA`) against a reference definition.
3. A refinement proof for the composition of point 1.
