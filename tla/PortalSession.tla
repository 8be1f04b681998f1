---------------------------- MODULE PortalSession ----------------------------
(***************************************************************************)
(* One session of the portal after the other: the application task starts  *)
(* the network, the captive DNS and the HTTP server (portal_idf.c,         *)
(* captive_portal_idf.c), waits for Back or one of the two time limits,    *)
(* and takes it all down again, while the server's task runs at most one   *)
(* handler, the DNS task answers from its static storage and the event     *)
(* task reports on the radio.                                              *)
(*                                                                         *)
(* Time is counted in units of which the idle limit and the absolute limit *)
(* are a few.  What a handler does to settings and clock is in             *)
(* SettingsClock, what an upload does to flash in PackageStore; here a     *)
(* request uploads, synchronises the time, or is answered at once.         *)
(***************************************************************************)
EXTENDS Radios

CONSTANTS
  IdleLimit,     \* WATCHY_PORTAL_IDLE_TIMEOUT_MS, in units
  AbsoluteLimit, \* WATCHY_PORTAL_ABSOLUTE_TIMEOUT_MS, in units
  Chunks,        \* bound: the pieces an upload arrives in
  MaxSessions,   \* bound: starts of the portal
  MaxClock       \* bound: units of time

ASSUME LimitsAssumption ==
  /\ {IdleLimit, AbsoluteLimit, Chunks} \subseteq Nat \ {0}
  /\ IdleLimit < AbsoluteLimit

VARIABLES
  pc,       \* what the application task is at
  session,  \* s_portal
  clock,    \* esp_timer_get_time
  httpd,    \* the server's task runs
  handler,  \* the request it serves
  upload,   \* an upload of watchy_packages_upload_begin is active
  dns,      \* s_dns
  dnsTask,  \* what the DNS task is at
  lost,     \* history: a server that could not be stopped runs on
  starts

portalVars == <<pc, session, clock, httpd, handler, upload, dns, dnsTask, lost, starts>>
vars == <<radioVars, portalVars>>

radioButCall == <<wifi, ble, mode, held, event, faults>>
radioButFaults == <<wifi, ble, mode, held, event, call>>

NoSession == [server |-> FALSE, running |-> FALSE, client |-> FALSE, started |-> 0, last |-> 0]
NoHandler == [pc |-> "none"]
DnsDown == [lifecycle |-> "STOPPED", socket |-> FALSE, task |-> FALSE]

(* Unsigned: a difference below zero is beyond every limit.                *)
Reached(now, since, limit) == now < since \/ now - since >= limit

TimedOut ==
  /\ session.running
  /\ \/ Reached(clock, session.last, IdleLimit)
     \/ Reached(clock, session.started, AbsoluteLimit)

(* watchy_portal_session_accept.                                           *)
SessionAccepts(now, authenticated) ==
  /\ authenticated
  /\ ~Reached(now, session.started, AbsoluteLimit)
  /\ ~Reached(now, session.last, IdleLimit)

Init ==
  /\ RadioInit
  /\ pc = "idle" /\ session = NoSession /\ clock = 1
  /\ httpd = FALSE /\ handler = NoHandler /\ upload = FALSE
  /\ dns = DnsDown /\ dnsTask = "none" /\ lost = FALSE /\ starts = 0

(* The application task takes a step of its own, the radio as it is.       *)
AppOnly == UNCHANGED <<radioVars, clock, starts>>

-----------------------------------------------------------------------------
(* Start.                                                                  *)

(* watchy_portal_start, refused while a session runs: s_portal is wiped,   *)
(* and the network of the mode is started.                                 *)
PortalStart(m) ==
  /\ pc = "idle" /\ ~session.running
  /\ starts < MaxSessions /\ starts' = starts + 1
  /\ session' = NoSession
  /\ StartWifi(m)
  /\ pc' = "network"
  /\ UNCHANGED <<clock, httpd, handler, upload, dns, dnsTask, lost>>

NetworkUp ==
  /\ pc = "network" /\ TakeAnswer(TRUE)
  /\ pc' = IF mode = "AP" THEN "claimDns" ELSE "connecting"
  /\ UNCHANGED <<radioButCall, session, clock, httpd, handler,
                 upload, dns, dnsTask, lost, starts>>

(* A network that does not start leaves nothing to stop but the record;    *)
(* the start of the radio has stopped it, or found it not stopped.         *)
NetworkDown ==
  /\ pc \in {"network", "givingUp"} /\ \E ok \in BOOLEAN : (pc = "network" => ~ok) /\ TakeAnswer(ok)
  /\ session' = NoSession /\ pc' = "idle"
  /\ UNCHANGED <<radioButCall, clock, httpd, handler, upload, dns,
                 dnsTask, lost, starts>>

Connected ==
  /\ pc = "connecting" /\ wifi = "STA_CONNECTED"
  /\ session' = [session EXCEPT !.client = TRUE]
  /\ pc' = "startHttp"
  /\ AppOnly /\ UNCHANGED <<httpd, handler, upload, dns, dnsTask, lost>>

(* The wait for the connection ends without one, or without an address.    *)
NotConnected ==
  /\ pc = "connecting"
  /\ StopRadio("wifi")
  /\ pc' = "givingUp"
  /\ UNCHANGED <<session, clock, httpd, handler, upload, dns, dnsTask, lost, starts>>

Leave(server) ==
  /\ session' = [session EXCEPT !.server = FALSE, !.running = FALSE]
  /\ pc' = IF server THEN "stopHttp" ELSE "abortUpload"

(* Mutant: only a session that opened has a server to stop.                *)
StopOpened(server) == Leave(server /\ session.running)

(* watchy_portal_stop takes the server out of the record first.            *)
StopSession(server) == Leave(server)

ClaimDns ==
  /\ pc = "claimDns"
  /\ IF dns = DnsDown
     THEN /\ dns' = [dns EXCEPT !.lifecycle = "STARTING"]
          /\ pc' = "openDns" /\ UNCHANGED session
     ELSE StopSession(FALSE) /\ UNCHANGED dns
  /\ AppOnly /\ UNCHANGED <<httpd, handler, upload, dnsTask, lost>>

OpenDns ==
  /\ pc = "openDns"
  /\ dns' = [dns EXCEPT !.socket = TRUE] /\ pc' = "createDns"
  /\ AppOnly /\ UNCHANGED <<session, httpd, handler, upload, dnsTask, lost>>

(* The static storage of the task is cleared and the task made in it.      *)
CreateDns ==
  /\ pc = "createDns"
  /\ dnsTask' = "top" /\ pc' = "runDns"
  /\ AppOnly /\ UNCHANGED <<session, httpd, handler, upload, dns, lost>>

(* Memory, socket, time limit, port or task: the lifecycle goes back.      *)
DnsFails ==
  /\ pc \in {"openDns", "createDns"} /\ Fault
  /\ dns' = DnsDown /\ StopSession(FALSE)
  /\ UNCHANGED <<radioButFaults, clock, httpd, handler, upload, dnsTask,
                 lost, starts>>

RunDns ==
  /\ pc = "runDns"
  /\ dns' = [dns EXCEPT !.task = TRUE, !.lifecycle = "RUNNING"]
  /\ pc' = "startHttp"
  /\ AppOnly /\ UNCHANGED <<session, httpd, handler, upload, dnsTask, lost>>

(* Requests are served from here on, before the session has its times.  A  *)
(* server that could not be stopped keeps the port.                        *)
StartHttp ==
  /\ pc = "startHttp" /\ ~httpd
  /\ httpd' = TRUE /\ session' = [session EXCEPT !.server = TRUE] /\ pc' = "open"
  /\ AppOnly /\ UNCHANGED <<handler, upload, dns, dnsTask, lost>>

(* The server does not start, or does and a route is not registered.       *)
HttpFails ==
  /\ pc = "startHttp"
  /\ \E up \in IF httpd THEN {FALSE} ELSE BOOLEAN :
       /\ httpd' = (httpd \/ up)
       /\ StopSession(up)
  /\ IF httpd THEN UNCHANGED faults ELSE Fault
  /\ UNCHANGED <<radioButFaults, clock, handler, upload, dns, dnsTask, lost,
                 starts>>

Open ==
  /\ pc = "open"
  /\ session' = [session EXCEPT !.started = clock, !.last = clock, !.running = TRUE]
  /\ pc' = "loop"
  /\ AppOnly /\ UNCHANGED <<httpd, handler, upload, dns, dnsTask, lost>>

-----------------------------------------------------------------------------
(* Stop: by Back, or by one of the limits.                                 *)

Exit(wanted) ==
  /\ pc = "loop" /\ wanted
  /\ StopSession(session.server)
  /\ AppOnly /\ UNCHANGED <<httpd, handler, upload, dns, dnsTask, lost>>

Back == Exit(TRUE)
LimitReached == Exit(TimedOut)

(* httpd_stop waits for the handler that runs.                             *)
StopHttp ==
  /\ pc = "stopHttp" /\ handler = NoHandler
  /\ httpd' = FALSE /\ pc' = "abortUpload"
  /\ AppOnly /\ UNCHANGED <<session, handler, upload, dns, dnsTask, lost>>

(* The server cannot be told to stop: it goes on, and nobody knows it.     *)
StopHttpFails ==
  /\ pc = "stopHttp" /\ Fault
  /\ lost' = TRUE /\ pc' = "abortUpload"
  /\ UNCHANGED <<radioButFaults, session, clock, httpd, handler, upload, dns,
                 dnsTask, starts>>

AbortUpload ==
  /\ pc = "abortUpload"
  /\ upload' = FALSE /\ pc' = "stopDns"
  /\ AppOnly /\ UNCHANGED <<session, httpd, handler, dns, dnsTask, lost>>

(* The socket is closed under the task, whether or not that succeeds.      *)
StopDns ==
  /\ pc = "stopDns"
  /\ IF dns.lifecycle = "RUNNING"
     THEN dns' = [dns EXCEPT !.lifecycle = "STOPPING", !.socket = FALSE] /\ pc' = "joinDns"
     ELSE UNCHANGED dns /\ pc' = "stopWifi"
  /\ AppOnly /\ UNCHANGED <<session, httpd, handler, upload, dnsTask, lost>>

JoinDns ==
  /\ pc = "joinDns" /\ dnsTask = "suspended"
  /\ dns' = DnsDown /\ dnsTask' = "none" /\ pc' = "stopWifi"
  /\ AppOnly /\ UNCHANGED <<session, httpd, handler, upload, lost>>

StopWifi ==
  /\ pc = "stopWifi"
  /\ StopRadio("wifi") /\ pc' = "wipe"
  /\ UNCHANGED <<session, clock, httpd, handler, upload, dns, dnsTask, lost, starts>>

(* BLE is off while the portal is up, so that its stop does nothing.       *)
Wipe ==
  /\ pc = "wipe" /\ \E ok \in BOOLEAN : TakeAnswer(ok)
  /\ session' = NoSession /\ pc' = "idle"
  /\ UNCHANGED <<radioButCall, clock, httpd, handler, upload, dns, dnsTask, lost, starts>>

-----------------------------------------------------------------------------
(* The server's task.                                                      *)

HandlerOnly == UNCHANGED <<radioVars, pc, clock, httpd, dns, dnsTask, lost, starts>>

RouteTable ==
  {<<"GET", "/", "page">>, <<"GET", "/api/v1/status", "status">>,
   <<"GET", "/api/v1/settings", "settings">>, <<"PUT", "/api/v1/settings", "update">>,
   <<"GET", "/api/v1/packages", "packages">>, <<"POST", "/api/v1/packages", "upload">>,
   <<"PUT", "/api/v1/wifi", "wifi">>, <<"POST", "/api/v1/wifi", "wifi">>,
   <<"PUT", "/api/v1/time", "time">>, <<"POST", "/api/v1/time/ntp", "sync">>,
   <<"POST", "/api/v1/watchface/id/version/activate", "activate">>,
   <<"DELETE", "/api/v1/packages/id/version", "remove">>}

Methods == {route[1] : route \in RouteTable}
Paths == {route[2] : route \in RouteTable} \cup {"/generate_204", "/api/v1"}

(* Of the actions a route may have only two are more than one step here.   *)
KindOf(method, path) ==
  IF \E action \in {"upload", "sync"} : <<method, path, action>> \in RouteTable
  THEN CHOOSE action \in {"upload", "sync"} : <<method, path, action>> \in RouteTable
  ELSE "other"

RedirectPath(path) == path \notin {"/", "/api/v1"} \cup {route[2] : route \in RouteTable}

(* request_handler takes the time before it reads the session.  A probe of *)
(* a phone is sent to the page and counts as nothing.                      *)
Arrive(method, path, proved) ==
  /\ httpd /\ handler = NoHandler
  /\ ~(method = "GET" /\ ~session.client /\ RedirectPath(path))
  /\ handler' = [pc |-> "judge", kind |-> KindOf(method, path), proved |-> proved, at |-> clock]
  /\ HandlerOnly /\ UNCHANGED <<session, upload>>

(* On the watch's own network its password has been proof enough.          *)
Authorized(proved) == ~session.client \/ proved

Judge ==
  /\ handler.pc = "judge"
  /\ handler' = IF SessionAccepts(handler.at, Authorized(handler.proved))
                THEN [handler EXCEPT !.pc = "accept"] ELSE NoHandler
  /\ HandlerOnly /\ UNCHANGED <<session, upload>>

Accept ==
  /\ handler.pc = "accept"
  /\ session' = [session EXCEPT !.last = handler.at]
  /\ handler' = [handler EXCEPT !.pc = "serve"]
  /\ HandlerOnly /\ UNCHANGED upload

(* A page, a refusal, or a change of settings, clock or packages.          *)
ServeOther ==
  /\ handler.pc = "serve" /\ handler.kind = "other"
  /\ handler' = NoHandler
  /\ HandlerOnly /\ UNCHANGED <<session, upload>>

(* The time is synchronised over the client's network: the wait for the    *)
(* answer counts as activity from its begin to its end.  It is refused     *)
(* before in the watch's own network, or when no known one can be read.    *)
ServeSync ==
  /\ handler.pc = "serve" /\ handler.kind = "sync"
  /\ \/ /\ session.client
        /\ session' = [session EXCEPT !.last = clock]
        /\ handler' = [handler EXCEPT !.pc = "syncing"]
     \/ handler' = NoHandler /\ UNCHANGED session
  /\ HandlerOnly /\ UNCHANGED upload

SyncEnds ==
  /\ handler.pc = "syncing"
  /\ session' = [session EXCEPT !.last = clock]
  /\ handler' = NoHandler
  /\ HandlerOnly /\ UNCHANGED upload

(* Battery, space, size or type are refused, or another upload runs.       *)
UploadRefused ==
  /\ handler.pc = "serve" /\ handler.kind = "upload"
  /\ handler' = NoHandler
  /\ HandlerOnly /\ UNCHANGED <<session, upload>>

(* One upload at a time.                                                   *)
UploadBegins ==
  /\ handler.pc = "serve" /\ handler.kind = "upload"
  /\ ~upload /\ upload' = TRUE
  /\ handler' = [pc |-> "receive", left |-> Chunks]
  /\ HandlerOnly /\ UNCHANGED session

(* A piece has come, and the limits are looked at before it is written.    *)
Receive ==
  /\ handler.pc = "receive" /\ handler.left > 0
  /\ IF TimedOut
     THEN handler' = NoHandler /\ upload' = FALSE
     ELSE handler' = [handler EXCEPT !.pc = "write"] /\ UNCHANGED upload
  /\ HandlerOnly /\ UNCHANGED session

(* The client is silent for ten seconds, or gone.                          *)
ClientGone ==
  /\ handler.pc = "receive" /\ handler.left > 0
  /\ handler' = NoHandler /\ upload' = FALSE
  /\ HandlerOnly /\ UNCHANGED session

(* An upload that was aborted meanwhile takes no more.                     *)
Write ==
  /\ handler.pc = "write"
  /\ IF upload
     THEN /\ handler' = [pc |-> "receive", left |-> handler.left - 1]
          /\ session' = [session EXCEPT !.last = clock]
     ELSE handler' = NoHandler /\ UNCHANGED session
  /\ HandlerOnly /\ UNCHANGED upload

WriteFails ==
  /\ handler.pc = "write"
  /\ handler' = NoHandler /\ upload' = FALSE
  /\ HandlerOnly /\ UNCHANGED session

UploadFinishes ==
  /\ handler.pc = "receive" /\ handler.left = 0
  /\ handler' = NoHandler /\ upload' = FALSE
  /\ HandlerOnly /\ UNCHANGED session

Serve == Judge \/ Accept \/ ServeOther \/ ServeSync \/ SyncEnds \/ UploadRefused \/ UploadBegins
           \/ Receive \/ ClientGone \/ Write \/ WriteFails \/ UploadFinishes

-----------------------------------------------------------------------------
(* The DNS task.                                                           *)

DnsTaskGoes(from, to) == dnsTask = from /\ dnsTask' = to
DnsOnly == UNCHANGED <<radioVars, pc, session, clock, httpd, handler, upload, dns, lost, starts>>

(* Mutant: the service counts as running until it is stopped.              *)
ServingWhileStopping == dns.lifecycle # "STOPPED"

Serving == dns.lifecycle \in {"STARTING", "RUNNING"}

(* Waits on the socket, unless the service has ended meanwhile.            *)
DnsTop == DnsTaskGoes("top", IF Serving THEN "waiting" ELSE "suspended") /\ DnsOnly

(* Nothing within 200 ms, an error, or a closed socket.                    *)
DnsNothing == DnsTaskGoes("waiting", "top") /\ DnsOnly

DnsQuery == dns.socket /\ DnsTaskGoes("waiting", "received") /\ DnsOnly

DnsReply == DnsTaskGoes("received", IF Serving THEN "top" ELSE "suspended") /\ DnsOnly

DnsStep == DnsTop \/ DnsNothing \/ DnsQuery \/ DnsReply

-----------------------------------------------------------------------------
(* Bound: before a session opens the clock stays where its absolute limit  *)
(* can still be reached.                                                   *)
Tick ==
  /\ clock < IF session.running THEN MaxClock ELSE MaxClock - AbsoluteLimit
  /\ clock' = clock + 1
  /\ UNCHANGED <<radioVars, pc, session, httpd, handler, upload, dns, dnsTask, lost, starts>>

AppStep ==
  \/ NetworkUp \/ NetworkDown \/ Connected \/ NotConnected \/ ClaimDns \/ OpenDns \/ CreateDns
  \/ DnsFails \/ RunDns \/ StartHttp \/ HttpFails \/ Open \/ LimitReached \/ StopHttpFails
  \/ AbortUpload \/ StopDns \/ JoinDns \/ StopWifi \/ Wipe

RadioStep == (RadioCallStep \/ WifiEvent) /\ UNCHANGED portalVars

Next ==
  \/ \E m \in {"AP", "STA"} : clock + AbsoluteLimit <= MaxClock /\ PortalStart(m)
  \/ AppStep \/ Back \/ StopHttp
  \/ \E method \in Methods, path \in Paths, proved \in BOOLEAN : Arrive(method, path, proved)
  \/ Serve \/ DnsStep \/ Tick
  \/ RadioStep

Spec == Init /\ [][Next]_vars

(* The tasks are scheduled, time passes, and every wait within a request   *)
(* or on the socket has a time limit.  The server looks at its control     *)
(* socket between two requests, and the event loop gives its mutex away    *)
(* between two events, so that neither clients that keep asking nor        *)
(* events that keep coming put a stop off for ever.                        *)
FairSpec ==
  /\ Spec
  /\ WF_vars(AppStep) /\ SF_vars(StopHttp) /\ WF_vars(Serve)
  /\ WF_vars(DnsStep) /\ WF_vars(Tick)
  /\ SF_vars(RadioCallStep /\ UNCHANGED portalVars)
  /\ WF_vars(EventWrites /\ UNCHANGED portalVars)

-----------------------------------------------------------------------------
(* Properties.                                                             *)

(* When no session is up and the application task is back in its loop,     *)
(* nothing of the last one is left: no server, handler or upload, no DNS   *)
(* task on the static storage and no socket, no credential, and the radio  *)
(* off.  Only a server that could not be told to stop goes on, and of the  *)
(* radio what a failed step kept: a stop that reports success leaves none, *)
(* whatever the stops before it had left.                                  *)
NothingLeftBehind ==
  /\ pc = "idle" =>
       /\ session # NoSession \/ httpd \/ handler # NoHandler \/ upload => lost
       /\ dns = DnsDown /\ dnsTask = "none"
       /\ held # {} => faults > 0
  /\ pc = "wipe" /\ call = Done(TRUE) => held = {}

(* The state tells the truth whenever no start, stop or event is under     *)
(* way: STOPPED, which alone lets a radio be started, exactly when nothing *)
(* is held, although wifi_event may overwrite the STOPPING of a stop.      *)
RadioTruthful ==
  call.op \in {"none", "done"} /\ event = "none" =>
    \A radio \in {"wifi", "ble"} : StateOf(radio) = "STOPPED" <=> HeldOf(radio) = {}

(* A session ends, and the watch gets its radio and its loop back,         *)
(* whatever clients ask for, upload or send to the DNS.                    *)
SessionEnds == session.running ~> pc = "idle"

=============================================================================
