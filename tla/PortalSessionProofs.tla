------------------------- MODULE PortalSessionProofs -------------------------
(***************************************************************************)
(* For every limit, every number of clients' requests and every fault: a   *)
(* session of the portal leaves nothing behind, and the radio's state is   *)
(* true whenever no call of radios.c is under way.                         *)
(*                                                                         *)
(* The invariant says where the application task may be while a server, a  *)
(* handler, an upload, the DNS task or a radio is still alive.  What the   *)
(* radios do underneath is taken from RadiosProofs.                        *)
(***************************************************************************)
EXTENDS PortalSession, RadiosProofs

PortalPlaces ==
  {"idle", "network", "connecting", "givingUp", "claimDns", "openDns", "createDns", "runDns",
   "startHttp", "open", "loop", "stopHttp", "abortUpload", "stopDns", "joinDns", "stopWifi",
   "wipe"}

SessionRecord ==
  [server : BOOLEAN, running : BOOLEAN, client : BOOLEAN, started : Nat, last : Nat]
DnsRecord ==
  [lifecycle : {"STOPPED", "STARTING", "RUNNING", "STOPPING"}, socket : BOOLEAN,
   task : BOOLEAN]

(* What a request is at: waiting to be judged or served, or an upload.     *)
Request ==
  [pc : {"judge", "accept", "serve", "syncing"}, kind : {"upload", "sync", "other"},
   proved : BOOLEAN, at : Nat]
Uploading ==
  [pc : {"receive"}, left : Nat] \cup [pc : {"write"}, left : Nat \ {0}]

PortalTyped ==
  /\ pc \in PortalPlaces
  /\ session \in SessionRecord
  /\ clock \in Nat /\ starts \in Nat
  /\ httpd \in BOOLEAN /\ upload \in BOOLEAN /\ lost \in BOOLEAN
  /\ handler \in {NoHandler} \cup Request \cup Uploading
  /\ dns \in DnsRecord
  /\ dnsTask \in {"none", "top", "waiting", "received", "suspended"}

(* The task has a call of radios.c under way in three places only, it is   *)
(* about Wi-Fi, and without a fault the start of a network does not fail.  *)
CallSound ==
  /\ call.op # "none" => pc \in {"network", "givingUp", "wipe"}
  /\ call.op \in {"start", "stop"} => call.radio = "wifi"
  /\ call.op = "start" => pc = "network"
  /\ pc = "network" /\ faults = 0 => call.op = "start" \/ call = Done(TRUE)

(* BLE is never up, and Wi-Fi is down when the record is wiped: for sure   *)
(* when the stop says so, and otherwise unless a step has failed.          *)
RadioDown ==
  /\ Down("ble")
  /\ pc = "idle" /\ faults = 0 => Down("wifi")
  /\ pc \in {"wipe", "givingUp"} /\ call.op = "done" /\ (faults = 0 \/ call = Done(TRUE))
       => Down("wifi")

(* A request is served only by a server that runs, an upload is one        *)
(* request's, and the record knows the server unless it was lost.          *)
ServerSound ==
  /\ upload => handler.pc \in {"receive", "write"}
  /\ handler # NoHandler => httpd
  /\ httpd /\ ~lost => pc \in {"open", "loop", "stopHttp"}
  /\ pc \in {"open", "loop"} => session.server
  /\ pc = "idle" /\ ~lost => session = NoSession

(* The storage of the DNS task is its own until it has been joined.        *)
DnsOff == dns = DnsDown /\ dnsTask = "none"

DnsSound ==
  /\ pc \in {"idle", "network", "connecting", "givingUp", "claimDns", "stopWifi", "wipe"}
       => DnsOff
  /\ pc \in {"openDns", "createDns"} => dnsTask = "none"
  /\ pc \in {"startHttp", "open", "loop", "stopHttp", "abortUpload", "stopDns"}
       => DnsOff \/ dns.lifecycle = "RUNNING"

PortalInv ==
  RadioInv /\ PortalTyped /\ CallSound /\ RadioDown /\ ServerSound /\ DnsSound

USE DEF RadioNames, radioVars, radioButCall, radioButFaults, portalVars
-----------------------------------------------------------------------------
(* The radios, while the portal takes a step of its own.                   *)

(* Where the task waits for a call of radios.c.                            *)
RadioPlaces == {"network", "givingUp", "wipe"}

LEMMA QuietKeeps ==
  ASSUME PortalInv, UNCHANGED <<wifi, ble, mode, held, event, call>>,
         faults' \in {faults, faults + 1},
         pc' = pc \/ (pc \notin RadioPlaces /\ pc' \notin RadioPlaces \cup {"idle"})
  PROVE  RadioInv' /\ CallSound' /\ RadioDown'
<1> USE DEF PortalInv
<1>1. faults \in Nat /\ faults' \in Nat /\ (faults' = 0 => faults = 0)
  BY DEF RadioInv, RadioTyped
<1>2. RadioInv' /\ \A r \in RadioNames : (Down(r))' = Down(r)
  BY <1>1, RadioQuiet
<1>3. CallSound'
  BY <1>1 DEF CallSound, RadioPlaces
<1>4. RadioDown'
  BY <1>1, <1>2 DEF RadioDown, RadioPlaces
<1> QED BY <1>2, <1>3, <1>4

(* An answer that is taken.                                                *)
LEMMA AnswerKeeps ==
  ASSUME PortalInv, NEW ok \in BOOLEAN, TakeAnswer(ok), UNCHANGED radioButCall,
         pc' \notin RadioPlaces,
         pc' = "idle" => pc # "network" \/ ~ok
  PROVE  RadioInv' /\ CallSound' /\ RadioDown'
<1> USE DEF PortalInv
<1>1. RadioInv'
  BY TakeAnswerKeeps
<1>2. call = Done(ok) /\ call.op = "done" /\ call'.op = "none"
  BY DEF TakeAnswer, Done, NoRadioCall
<1>3. \A r \in RadioNames : (Down(r))' = Down(r)
  BY DEF Down, StateOf, HeldOf
<1>4. CallSound'
  BY <1>2 DEF CallSound, RadioPlaces
<1>5. pc' = "idle" /\ faults = 0 => Down("wifi")
  <2>1. pc \in RadioPlaces
    BY <1>2 DEF CallSound, RadioPlaces
  <2>2. CASE pc = "network"
    BY <1>2, <2>2 DEF CallSound, Done
  <2> QED BY <1>2, <2>1, <2>2 DEF RadioDown, RadioPlaces
<1>6. RadioDown'
  BY <1>2, <1>3, <1>5 DEF RadioDown
<1> QED BY <1>1, <1>4, <1>6

(* A stop that is asked for.                                               *)
LEMMA StopKeeps ==
  ASSUME PortalInv, StopRadio("wifi"), pc' \in {"givingUp", "wipe"}
  PROVE  RadioInv' /\ CallSound' /\ RadioDown'
<1> USE DEF PortalInv
<1>1. /\ UNCHANGED <<held, event, faults>>
      /\ \A r \in RadioNames : (HeldOf(r))' = HeldOf(r)
      /\ (StateOf("ble"))' = StateOf("ble")
      /\ IF Down("wifi")
         THEN call' = Done(TRUE) /\ UNCHANGED <<wifi, ble>>
         ELSE call'.op = "stop" /\ call'.radio = "wifi"
  BY StopRadioEffects
<1>2. RadioInv'
  BY StopRadioKeeps
<1>3. CallSound'
  BY <1>1 DEF CallSound, Done
<1>4. (Down("ble"))'
  BY <1>1 DEF RadioDown, Down
<1>5. call'.op = "done" => (Down("wifi"))'
  BY <1>1 DEF Down, StateOf
<1> QED BY <1>2, <1>3, <1>4, <1>5 DEF RadioDown

(* The network that is started.                                            *)
LEMMA StartKeeps ==
  ASSUME PortalInv, NEW m, StartWifi(m), pc = "idle", pc' = "network"
  PROVE  RadioInv' /\ CallSound' /\ RadioDown'
<1> USE DEF PortalInv
<1>1. RadioInv'
  BY StartWifiKeeps
<1>2. /\ UNCHANGED <<wifi, ble, held, event, faults>>
      /\ wifi = "STOPPED" => call'.op = "start" /\ call'.radio = "wifi"
      /\ wifi # "STOPPED" => call' = Done(FALSE)
  <2>1. CASE wifi = "STOPPED"
    <3>1. call' = [op |-> "start", radio |-> "wifi", left |-> WifiParts]
      BY <2>1 DEF StartWifi
    <3> QED BY <2>1, <3>1 DEF StartWifi
  <2>2. CASE wifi # "STOPPED"
    BY <2>2 DEF StartWifi
  <2> QED BY <2>1, <2>2
<1>3. faults = 0 => wifi = "STOPPED"
  BY DEF RadioDown, Down, StateOf
<1>4. CallSound'
  BY <1>2, <1>3 DEF CallSound, Done
<1>5. (Down("ble"))'
  BY <1>2 DEF RadioDown, Down, StateOf, HeldOf
<1> QED BY <1>1, <1>4, <1>5 DEF RadioDown

(* The radios' own steps, while the portal waits.                          *)
LEMMA RadioStepKeeps ==
  ASSUME PortalInv, RadioStep
  PROVE  RadioInv' /\ CallSound' /\ RadioDown'
<1> USE DEF PortalInv
<1>1. pc' = pc
  BY DEF RadioStep
<1>2. CASE WifiEvent
  <2>1. /\ RadioInv' /\ UNCHANGED <<ble, held, call, faults>>
        /\ wifi' # wifi => "STOPPED" \notin {wifi', wifi} \/ Busy("wifi")
    BY <1>2, WifiEventKeeps
  <2>2. /\ \A r \in RadioNames : (HeldOf(r))' = HeldOf(r)
        /\ (StateOf("ble"))' = StateOf("ble")
    BY <2>1 DEF HeldOf, StateOf
  <2>3. (Down("ble"))' = Down("ble") /\ (Down("wifi") /\ ~Busy("wifi") => (Down("wifi"))')
    BY <2>1, <2>2 DEF Down, StateOf
  <2>4. pc = "idle" \/ call.op = "done" => ~Busy("wifi")
    BY DEF CallSound, Busy
  <2>5. CallSound'
    BY <1>1, <2>1 DEF CallSound
  <2>6. RadioDown'
    BY <1>1, <2>1, <2>3, <2>4 DEF RadioDown
  <2> QED BY <2>1, <2>5, <2>6
<1>3. CASE RadioCallStep
  <2>1. /\ RadioInv'
        /\ call.op \in {"start", "stop"}
        /\ call'.op \in {"start", "stop", "done"}
        /\ call'.op \in {"start", "stop"} => call'.radio = call.radio
        /\ call'.op = "start" => call.op = "start"
        /\ faults' \in Nat /\ (faults' = 0 => faults = 0)
        /\ \A r \in RadioNames :
             IF r = call.radio
             THEN call.op = "stop" /\ call'.op = "done"
                    /\ (faults' = 0 \/ call' = Done(TRUE)) => (Down(r))'
             ELSE (StateOf(r))' = StateOf(r) /\ (HeldOf(r))' = HeldOf(r)
    BY <1>3, CallStepEffects
  <2>2. call.radio = "wifi" /\ pc \in RadioPlaces
    BY <2>1 DEF CallSound, RadioPlaces
  <2>3. pc = "network" /\ faults' = 0 => call'.op = "start" \/ call' = Done(TRUE)
    <3>1. pc = "network" /\ faults' = 0 => call.op = "start"
      BY <2>1 DEF CallSound, Done
    <3> QED BY <1>3, <3>1, StartSteps
  <2>4. CallSound'
    BY <1>1, <2>1, <2>2, <2>3 DEF CallSound, RadioPlaces
  <2>5. (Down("ble"))'
    BY <2>1, <2>2 DEF RadioDown, Down
  <2>6. pc # "network" => call.op = "stop"
    BY <2>1 DEF CallSound
  <2>7. RadioDown'
    BY <1>1, <2>1, <2>2, <2>5, <2>6 DEF RadioDown, RadioPlaces
  <2> QED BY <2>1, <2>4, <2>7
<1> QED BY <1>2, <1>3 DEF RadioStep

-----------------------------------------------------------------------------
(* The record, the server, its request and the DNS task.                   *)
RecordInv == PortalTyped /\ ServerSound /\ DnsSound

USE DEF PortalPlaces, DnsOff

LEMMA Nothing ==
  /\ NoSession \in SessionRecord /\ DnsDown \in DnsRecord
  /\ NoHandler.pc = "none" /\ NoHandler \notin Request \cup Uploading
BY DEF NoSession, NoHandler, Request, Uploading, SessionRecord, DnsRecord, DnsDown

(* What the steps write into the records.                                  *)
LEMMA SessionChanges ==
  ASSUME NEW s \in SessionRecord
  PROVE  /\ [s EXCEPT !.client = TRUE] \in SessionRecord
         /\ [s EXCEPT !.server = TRUE] \in SessionRecord
         /\ [s EXCEPT !.server = TRUE].server
         /\ [s EXCEPT !.server = FALSE, !.running = FALSE] \in SessionRecord
         /\ s.server \in BOOLEAN
BY DEF SessionRecord

LEMMA SessionTimes ==
  ASSUME NEW s \in SessionRecord, NEW n \in Nat
  PROVE  /\ [s EXCEPT !.started = n, !.last = n, !.running = TRUE] \in SessionRecord
         /\ [s EXCEPT !.started = n, !.last = n, !.running = TRUE].server = s.server
         /\ [s EXCEPT !.last = n] \in SessionRecord
         /\ [s EXCEPT !.last = n].server = s.server
BY DEF SessionRecord

LEMMA DnsChanges ==
  ASSUME NEW d \in DnsRecord
  PROVE  /\ [d EXCEPT !.lifecycle = "STARTING"] \in DnsRecord
         /\ [d EXCEPT !.socket = TRUE] \in DnsRecord
         /\ [d EXCEPT !.task = TRUE, !.lifecycle = "RUNNING"] \in DnsRecord
         /\ [d EXCEPT !.task = TRUE, !.lifecycle = "RUNNING"].lifecycle = "RUNNING"
         /\ [d EXCEPT !.lifecycle = "STOPPING", !.socket = FALSE] \in DnsRecord
BY DEF DnsRecord

(* A request or upload is known by what it is at.                          *)
LEMMA HandlerIs ==
  ASSUME PortalTyped
  PROVE  /\ handler.pc \in {"judge", "accept", "serve", "syncing"} => handler \in Request
         /\ handler.pc = "receive" => handler \in [pc : {"receive"}, left : Nat]
         /\ handler.pc = "write" => handler \in [pc : {"write"}, left : Nat \ {0}]
BY Nothing DEF PortalTyped, Request, Uploading

LEMMA RequestChanges ==
  ASSUME NEW h \in Request, NEW p \in {"accept", "serve", "syncing"}
  PROVE  [h EXCEPT !.pc = p] \in Request /\ h.at \in Nat
BY DEF Request

LEMMA UploadChanges ==
  /\ \A h \in [pc : {"receive"}, left : Nat] :
       h.left > 0 => /\ [h EXCEPT !.pc = "write"] \in Uploading
                    /\ [h EXCEPT !.pc = "write"].pc = "write"
  /\ \A n \in Nat : [pc |-> "receive", left |-> n] \in Uploading
  /\ \A h \in [pc : {"write"}, left : Nat \ {0}] : h.left - 1 \in Nat
BY DEF Uploading

(* Starting.                                                               *)
LEMMA StartingKeeps ==
  ASSUME RecordInv,
         \/ \E m \in {"AP", "STA"} : PortalStart(m)
         \/ NetworkUp \/ NetworkDown \/ Connected \/ NotConnected
  PROVE  RecordInv'
<1> USE DEF RecordInv
<1>1. CASE \E m \in {"AP", "STA"} : PortalStart(m)
  BY <1>1, Nothing DEF PortalStart, PortalTyped, ServerSound, DnsSound
<1>2. CASE NetworkUp
  BY <1>2 DEF NetworkUp, PortalTyped, ServerSound, DnsSound
<1>3. CASE NetworkDown
  BY <1>3, Nothing DEF NetworkDown, PortalTyped, ServerSound, DnsSound
<1>4. CASE Connected
  BY <1>4, SessionChanges DEF Connected, AppOnly, PortalTyped, ServerSound, DnsSound
<1>5. CASE NotConnected
  BY <1>5 DEF NotConnected, PortalTyped, ServerSound, DnsSound
<1> QED BY <1>1, <1>2, <1>3, <1>4, <1>5

(* The DNS task, from its claim to its run.                                *)
LEMMA StartDnsKeeps ==
  ASSUME RecordInv, ClaimDns \/ OpenDns \/ CreateDns \/ DnsFails \/ RunDns
  PROVE  RecordInv'
<1> USE DEF RecordInv, AppOnly, StopSession, Leave
<1>1. CASE ClaimDns
  <2>1. dns = DnsDown
    BY <1>1 DEF ClaimDns, DnsSound
  <2>2. /\ pc = "claimDns" /\ pc' = "openDns" /\ dns' = [dns EXCEPT !.lifecycle = "STARTING"]
        /\ UNCHANGED <<session, clock, starts, httpd, handler, upload, dnsTask, lost>>
    BY <1>1, <2>1 DEF ClaimDns
  <2>3. dns' \in DnsRecord
    BY <2>2, DnsChanges DEF PortalTyped
  <2> QED BY <2>2, <2>3 DEF PortalTyped, ServerSound, DnsSound
<1>2. CASE OpenDns
  BY <1>2, DnsChanges DEF OpenDns, PortalTyped, ServerSound, DnsSound
<1>3. CASE CreateDns
  BY <1>3 DEF CreateDns, PortalTyped, ServerSound, DnsSound
<1>4. CASE DnsFails
  BY <1>4, SessionChanges, Nothing DEF DnsFails, PortalTyped, ServerSound, DnsSound
<1>5. CASE RunDns
  BY <1>5, DnsChanges DEF RunDns, PortalTyped, ServerSound, DnsSound
<1> QED BY <1>1, <1>2, <1>3, <1>4, <1>5

(* The server, from its start to the end of the session.                   *)
LEMMA OpeningKeeps ==
  ASSUME RecordInv, StartHttp \/ HttpFails \/ Open \/ Back \/ LimitReached
  PROVE  RecordInv'
<1> USE DEF RecordInv, AppOnly, StopSession, Leave
<1>1. CASE StartHttp
  BY <1>1, SessionChanges DEF StartHttp, PortalTyped, ServerSound, DnsSound
<1>2. CASE HttpFails
  <2>1. PICK up \in BOOLEAN :
          /\ session' = [session EXCEPT !.server = FALSE, !.running = FALSE]
          /\ httpd' = (httpd \/ up) /\ (httpd => ~up)
          /\ pc' = IF up THEN "stopHttp" ELSE "abortUpload"
    BY <1>2 DEF HttpFails
  <2>2. /\ UNCHANGED <<clock, handler, upload, dns, dnsTask, lost, starts>>
        /\ pc = "startHttp"
    BY <1>2 DEF HttpFails
  <2>3. PortalTyped'
    BY <2>1, <2>2, SessionChanges DEF PortalTyped
  <2> QED BY <2>1, <2>2, <2>3 DEF PortalTyped, ServerSound, DnsSound
<1>3. CASE Open
  BY <1>3, SessionTimes DEF Open, PortalTyped, ServerSound, DnsSound
<1>4. CASE Back \/ LimitReached
  <2>1. pc = "loop" /\ StopSession(session.server) /\ AppOnly
        /\ UNCHANGED <<httpd, handler, upload, dns, dnsTask, lost>>
    BY <1>4 DEF Back, LimitReached, Exit
  <2> QED BY <2>1, SessionChanges DEF PortalTyped, ServerSound, DnsSound
<1> QED BY <1>1, <1>2, <1>3, <1>4

(* Stopping.                                                               *)
LEMMA StoppingKeeps ==
  ASSUME RecordInv,
         StopHttp \/ StopHttpFails \/ AbortUpload \/ StopDns \/ JoinDns \/ StopWifi \/ Wipe
  PROVE  RecordInv'
<1> USE DEF RecordInv, AppOnly
<1>1. CASE StopHttp
  BY <1>1 DEF StopHttp, PortalTyped, ServerSound, DnsSound
<1>2. CASE StopHttpFails
  BY <1>2 DEF StopHttpFails, PortalTyped, ServerSound, DnsSound
<1>3. CASE AbortUpload
  BY <1>3 DEF AbortUpload, PortalTyped, ServerSound, DnsSound
<1>4. CASE StopDns
  BY <1>4, DnsChanges DEF StopDns, PortalTyped, ServerSound, DnsSound
<1>5. CASE JoinDns
  BY <1>5, Nothing DEF JoinDns, PortalTyped, ServerSound, DnsSound, DnsDown
<1>6. CASE StopWifi
  BY <1>6 DEF StopWifi, PortalTyped, ServerSound, DnsSound
<1>7. CASE Wipe
  BY <1>7, Nothing DEF Wipe, PortalTyped, ServerSound, DnsSound
<1> QED BY <1>1, <1>2, <1>3, <1>4, <1>5, <1>6, <1>7

(* A request that arrives, is judged and is answered.                      *)
LEMMA KindIs == \A method, path : KindOf(method, path) \in {"upload", "sync", "other"}
BY DEF KindOf

LEMMA RequestKeeps ==
  ASSUME RecordInv,
         \/ \E method \in Methods, path \in Paths, proved \in BOOLEAN :
              Arrive(method, path, proved)
         \/ Judge \/ Accept \/ ServeOther \/ ServeSync \/ SyncEnds \/ UploadRefused
  PROVE  RecordInv'
<1> USE Nothing DEF RecordInv, HandlerOnly
<1>1. ASSUME NEW method \in Methods, NEW path \in Paths, NEW proved \in BOOLEAN,
             Arrive(method, path, proved)
      PROVE  RecordInv'
  <2>1. handler' \in Request /\ handler = NoHandler
    BY <1>1, KindIs DEF Arrive, PortalTyped, Request
  <2> QED BY <1>1, <2>1 DEF Arrive, PortalTyped, ServerSound, DnsSound
<1>2. CASE Judge
  BY <1>2, HandlerIs, RequestChanges DEF Judge, PortalTyped, ServerSound, DnsSound
<1>3. CASE Accept
  BY <1>3, HandlerIs, RequestChanges, SessionTimes
  DEF Accept, PortalTyped, ServerSound, DnsSound
<1>4. CASE ServeOther \/ UploadRefused
  BY <1>4 DEF ServeOther, UploadRefused, PortalTyped, ServerSound, DnsSound
<1>5. CASE ServeSync
  <2>1. CASE session' = [session EXCEPT !.last = clock]
             /\ handler' = [handler EXCEPT !.pc = "syncing"]
    <3>1. /\ session' = [session EXCEPT !.last = clock]
          /\ handler' = [handler EXCEPT !.pc = "syncing"] /\ handler # NoHandler
          /\ UNCHANGED <<radioVars, pc, clock, starts, httpd, upload, dns, dnsTask, lost>>
      BY <1>5, <2>1 DEF ServeSync
    <3>2. handler' \in Request /\ handler.pc = "serve"
      BY <1>5, <3>1, HandlerIs, RequestChanges DEF ServeSync
    <3>3. session' \in SessionRecord /\ session'.server = session.server
      BY <3>1, SessionTimes DEF PortalTyped
    <3> QED BY <3>1, <3>2, <3>3 DEF PortalTyped, ServerSound, DnsSound
  <2>2. CASE handler' = NoHandler /\ UNCHANGED session
    BY <1>5, <2>2 DEF ServeSync, PortalTyped, ServerSound, DnsSound
  <2> QED BY <1>5, <2>1, <2>2 DEF ServeSync
<1>6. CASE SyncEnds
  BY <1>6, SessionTimes DEF SyncEnds, PortalTyped, ServerSound, DnsSound
<1> QED BY <1>1, <1>2, <1>3, <1>4, <1>5, <1>6

(* An upload, piece by piece.                                              *)
LEMMA UploadKeeps ==
  ASSUME RecordInv,
         UploadBegins \/ Receive \/ ClientGone \/ Write \/ WriteFails \/ UploadFinishes
  PROVE  RecordInv'
<1> USE Nothing DEF RecordInv, HandlerOnly
<1>1. CASE UploadBegins
  BY <1>1, UploadChanges, LimitsAssumption
  DEF UploadBegins, PortalTyped, ServerSound, DnsSound
<1>2. CASE Receive
  <2>1. handler \in [pc : {"receive"}, left : Nat] /\ handler.left > 0
    BY <1>2, HandlerIs DEF Receive
  <2>2. /\ UNCHANGED <<radioVars, pc, session, clock, starts, httpd, dns, dnsTask, lost>>
        /\ \/ handler' = NoHandler /\ upload' = FALSE
           \/ handler' = [handler EXCEPT !.pc = "write"] /\ upload' = upload
    BY <1>2 DEF Receive
  <2>3. /\ handler' \in {NoHandler} \cup Uploading
        /\ upload' \in BOOLEAN /\ (upload' => handler'.pc = "write")
    BY <2>1, <2>2, UploadChanges DEF PortalTyped
  <2>4. handler # NoHandler
    BY <1>2 DEF Receive
  <2> QED BY <2>2, <2>3, <2>4 DEF PortalTyped, ServerSound, DnsSound
<1>3. CASE ClientGone \/ WriteFails \/ UploadFinishes
  BY <1>3 DEF ClientGone, WriteFails, UploadFinishes, PortalTyped, ServerSound, DnsSound
<1>4. CASE Write
  <2>1. CASE upload
    <3>1. /\ handler' = [pc |-> "receive", left |-> handler.left - 1]
          /\ session' = [session EXCEPT !.last = clock]
          /\ handler # NoHandler
          /\ UNCHANGED <<radioVars, pc, clock, starts, httpd, upload, dns, dnsTask, lost>>
      BY <1>4, <2>1 DEF Write
    <3>2. handler' \in Uploading /\ handler'.pc = "receive"
      BY <1>4, <3>1, HandlerIs, UploadChanges DEF Write
    <3>3. session' \in SessionRecord /\ session'.server = session.server
      BY <3>1, SessionTimes DEF PortalTyped
    <3> QED BY <3>1, <3>2, <3>3 DEF PortalTyped, ServerSound, DnsSound
  <2>2. CASE ~upload
    BY <1>4, <2>2 DEF Write, PortalTyped, ServerSound, DnsSound
  <2> QED BY <2>1, <2>2
<1> QED BY <1>1, <1>2, <1>3, <1>4

(* The DNS task changes what it is at, as long as there is one.            *)
LEMMA DnsKeeps ==
  ASSUME RecordInv, DnsStep
  PROVE  RecordInv'
<1>1. /\ dnsTask # "none" /\ dnsTask' \in {"top", "waiting", "received", "suspended"}
      /\ UNCHANGED <<pc, session, clock, httpd, handler, upload, dns, lost, starts>>
  BY DEF DnsStep, DnsTop, DnsNothing, DnsQuery, DnsReply, DnsTaskGoes, DnsOnly
<1> QED BY <1>1 DEF RecordInv, PortalTyped, ServerSound, DnsSound

LEMMA TickKeeps ==
  ASSUME RecordInv, Tick
  PROVE  RecordInv'
BY DEF RecordInv, Tick, PortalTyped, ServerSound, DnsSound

-----------------------------------------------------------------------------
LEMMA PortalInit == Init => PortalInv
<1> SUFFICES ASSUME Init PROVE PortalInv
  OBVIOUS
<1>1. RadioInv /\ Down("wifi") /\ Down("ble") /\ call.op = "none"
  BY RadiosInit, Holdings DEF Init, RadioInit, Down, StateOf, NoRadioCall
<1>2. RecordInv
  BY Nothing DEF Init, RecordInv, PortalTyped, ServerSound, DnsSound, DnsDown
<1> QED BY <1>1, <1>2 DEF PortalInv, CallSound, RadioDown, RecordInv, Init

LEMMA PortalNext ==
  ASSUME PortalInv, [Next]_vars
  PROVE  PortalInv'
<1> SUFFICES RecordInv' /\ RadioInv' /\ CallSound' /\ RadioDown'
  BY DEF PortalInv, RecordInv
<1>0. RecordInv /\ faults \in Nat
  BY DEF PortalInv, RecordInv, RadioInv, RadioTyped
<1> USE DEF RadioPlaces
<1>1. CASE \E m \in {"AP", "STA"} : clock + AbsoluteLimit <= MaxClock /\ PortalStart(m)
  BY <1>0, <1>1, StartingKeeps, StartKeeps DEF PortalStart
<1>2. CASE NetworkUp \/ NetworkDown
  <2>1. PICK ok \in BOOLEAN : TakeAnswer(ok) /\ (NetworkDown => pc # "network" \/ ~ok)
    BY <1>2 DEF NetworkUp, NetworkDown
  <2>2. UNCHANGED radioButCall /\ pc' \notin RadioPlaces /\ (pc' = "idle" => NetworkDown)
    BY <1>2 DEF NetworkUp, NetworkDown
  <2> QED BY <1>0, <1>2, <2>1, <2>2, StartingKeeps, AnswerKeeps
<1>3. CASE Wipe
  <2>1. PICK ok \in BOOLEAN : TakeAnswer(ok)
    BY <1>3 DEF Wipe
  <2> QED BY <1>0, <1>3, <2>1, StoppingKeeps, AnswerKeeps DEF Wipe
<1>4. CASE NotConnected \/ StopWifi
  BY <1>0, <1>4, StartingKeeps, StoppingKeeps, StopKeeps DEF NotConnected, StopWifi
<1>5. CASE \/ Connected \/ ClaimDns \/ OpenDns \/ CreateDns \/ RunDns \/ StartHttp \/ Open
           \/ Back \/ LimitReached \/ StopHttp \/ AbortUpload \/ StopDns \/ JoinDns
  <2>1. /\ UNCHANGED radioVars
        /\ pc \notin RadioPlaces /\ pc' \notin RadioPlaces \cup {"idle"}
    BY <1>5 DEF AppOnly, Connected, ClaimDns, OpenDns, CreateDns, RunDns, StartHttp, Open,
       Back, LimitReached, Exit, StopHttp, AbortUpload, StopDns, JoinDns, StopSession, Leave
  <2> QED
    BY <1>0, <1>5, <2>1, QuietKeeps, StartingKeeps, StartDnsKeeps, OpeningKeeps, StoppingKeeps
<1>6. CASE DnsFails \/ HttpFails \/ StopHttpFails
  <2>1. /\ UNCHANGED <<wifi, ble, mode, held, event, call>> /\ faults' \in {faults, faults + 1}
        /\ pc \notin RadioPlaces /\ pc' \notin RadioPlaces \cup {"idle"}
    BY <1>6 DEF DnsFails, HttpFails, StopHttpFails, Fault, StopSession, Leave
  <2> QED BY <1>0, <1>6, <2>1, QuietKeeps, StartDnsKeeps, OpeningKeeps, StoppingKeeps
<1>7. CASE \E method \in Methods, path \in Paths, proved \in BOOLEAN :
             Arrive(method, path, proved)
  BY <1>0, <1>7, RequestKeeps, QuietKeeps DEF Arrive, HandlerOnly
<1>8. CASE Serve
  <2>1. UNCHANGED radioVars /\ pc' = pc
    BY <1>8 DEF Serve, HandlerOnly, Judge, Accept, ServeOther, ServeSync, SyncEnds,
       UploadRefused, UploadBegins, Receive, ClientGone, Write, WriteFails, UploadFinishes
  <2> QED BY <1>0, <1>8, <2>1, RequestKeeps, UploadKeeps, QuietKeeps DEF Serve
<1>9. CASE DnsStep
  <2>1. UNCHANGED radioVars /\ pc' = pc
    BY <1>9 DEF DnsStep, DnsTop, DnsNothing, DnsQuery, DnsReply, DnsOnly
  <2> QED BY <1>0, <1>9, <2>1, DnsKeeps, QuietKeeps
<1>10. CASE Tick
  BY <1>0, <1>10, TickKeeps, QuietKeeps DEF Tick
<1>11. CASE RadioStep
  <2>1. RecordInv'
    BY <1>0, <1>11 DEF RadioStep, RecordInv, PortalTyped, ServerSound, DnsSound
  <2> QED BY <1>11, <2>1, RadioStepKeeps
<1>12. CASE UNCHANGED vars
  <2>1. RecordInv'
    BY <1>0, <1>12 DEF vars, RecordInv, PortalTyped, ServerSound, DnsSound
  <2> QED BY <1>0, <1>12, <2>1, QuietKeeps DEF vars
<1> QED
  BY <1>1, <1>2, <1>3, <1>4, <1>5, <1>6, <1>7, <1>8, <1>9, <1>10, <1>11, <1>12
  DEF Next, AppStep

(* Wherever the application task is in a session of the portal, the        *)
(* server, its request, the upload, the DNS task and the radios agree with *)
(* the record it keeps.                                                    *)
THEOREM PortalInvariant == Spec => []PortalInv
<1> HIDE DEF PortalInv
<1> QED BY PortalInit, PortalNext, PTL DEF Spec

(* A session that has ended, by Back, a limit or a failure on the way up,  *)
(* leaves no server, request, upload, DNS task, socket or credential, and  *)
(* the radio off: but for a server that could not be told to stop, and for *)
(* what a failed step of the radio kept.                                   *)
THEOREM NothingEverLeftBehind == Spec => []NothingLeftBehind
<1>1. PortalInv => NothingLeftBehind
  <2> SUFFICES ASSUME PortalInv PROVE NothingLeftBehind
    OBVIOUS
  <2>1. held \subseteq WifiHeld \cup BleHeld /\ Down("ble")
    BY DEF PortalInv, RadioInv, RadioTyped, RadioDown
  <2>2. Down("wifi") => held = {}
    BY <2>1, Holdings DEF Down
  <2>3. pc = "idle" /\ (session # NoSession \/ httpd \/ handler # NoHandler \/ upload) => lost
    BY Nothing DEF PortalInv, ServerSound
  <2>4. pc = "idle" => DnsOff
    BY DEF PortalInv, DnsSound
  <2>5. /\ pc = "idle" /\ held # {} => faults > 0
        /\ pc = "wipe" /\ call = Done(TRUE) => held = {}
    BY <2>2 DEF PortalInv, RadioDown, RadioInv, RadioTyped, Done
  <2> QED BY <2>3, <2>4, <2>5 DEF NothingLeftBehind
<1> HIDE DEF PortalInv, NothingLeftBehind
<1> QED BY <1>1, PortalInvariant, PTL

(* wifi_event may write over the STOPPING of a stop, but no state outlives *)
(* the call that is under way: a radio is STOPPED, and may be started,     *)
(* exactly when nothing of it is held.                                     *)
THEOREM RadioAlwaysTruthful == Spec => []RadioTruthful
<1>1. PortalInv => RadioTruthful
  BY DEF PortalInv, RadioInv, StatesTruthful, Busy, RadioTruthful
<1> HIDE DEF PortalInv, RadioTruthful
<1> QED BY <1>1, PortalInvariant, PTL
=============================================================================
