------------------------------- MODULE Radios -------------------------------
(***************************************************************************)
(* The two radios of radios.c, as the application task starts and stops    *)
(* them while the event task runs wifi_event.                              *)
(*                                                                         *)
(* Each radio is a chain of resources that a start acquires one by one and *)
(* a stop gives back in an order of its own.  Every step may fail: a       *)
(* failed start stops the radio, a failed step of a stop keeps its         *)
(* resource and the stop goes on with the others.  A caller sets `call`    *)
(* and goes on when it is Done.  Advertising over BLE is left out: nothing *)
(* in the firmware asks for it, so no event of the BLE host matters.       *)
(***************************************************************************)
EXTENDS Naturals, Sequences

CONSTANT MaxFaults   \* bound: steps that fail

VARIABLES
  wifi,    \* s_wifi_state
  ble,     \* s_ble_state
  mode,    \* the mode of the Wi-Fi driver, AP or STA
  held,    \* the resources of both radios that are held
  event,   \* what wifi_event has decided to write, and not written yet
  call,    \* the start or stop the application task is in
  faults

radioVars == <<wifi, ble, mode, held, event, call, faults>>

WifiParts == <<"netif", "driver", "wifiHandler", "ipHandler", "wifiStarted">>
WifiStopOrder == <<"wifiStarted", "wifiHandler", "ipHandler", "driver", "netif">>
BleParts == <<"events", "controller", "enabled", "bluedroid", "bluedroidOn">>
BleStopOrder == <<"bluedroidOn", "bluedroid", "enabled", "controller", "events">>

Members(s) == {s[i] : i \in DOMAIN s}
HeldOf(radio) == held \cap Members(IF radio = "wifi" THEN WifiParts ELSE BleParts)
StateOf(radio) == IF radio = "wifi" THEN wifi ELSE ble

NoRadioCall == [op |-> "none"]
Done(ok) == [op |-> "done", ok |-> ok]

Fault == faults < MaxFaults /\ faults' = faults + 1

RadioInit ==
  /\ wifi = "STOPPED" /\ ble = "STOPPED" /\ mode = "AP"
  /\ held = {} /\ event = "none" /\ call = NoRadioCall /\ faults = 0

SetState(radio, s) ==
  /\ wifi' = IF radio = "wifi" THEN s ELSE wifi
  /\ ble' = IF radio = "ble" THEN s ELSE ble

-----------------------------------------------------------------------------
(* The calls, by a caller that has none under way.                         *)

(* Either refuses a radio that is not STOPPED, one left in STOPPING too.   *)
StartWifi(m) ==
  /\ call = NoRadioCall
  /\ IF wifi = "STOPPED"
     THEN /\ call' = [op |-> "start", radio |-> "wifi", left |-> WifiParts]
          /\ mode' = m
     ELSE call' = Done(FALSE) /\ UNCHANGED mode
  /\ UNCHANGED <<wifi, ble, held, event, faults>>

StartBle ==
  /\ call = NoRadioCall
  /\ call' = CASE ble = "HOST_RUNNING" -> Done(TRUE)
               [] ble = "STOPPED" -> [op |-> "start", radio |-> "ble", left |-> BleParts]
               [] OTHER -> Done(FALSE)
  /\ UNCHANGED <<wifi, ble, mode, held, event, faults>>

(* Mutant: a stop that trusts the state and not the resources.             *)
EnterStopByState(radio, ok) ==
  IF StateOf(radio) \in {"STOPPED", "STOPPING"}
  THEN call' = Done(ok) /\ UNCHANGED <<wifi, ble>>
  ELSE /\ SetState(radio, "STOPPING")
       /\ call' = [op |-> "stop", radio |-> radio, ok |-> ok, prior |-> StateOf(radio),
                   left |-> IF radio = "wifi" THEN WifiStopOrder ELSE BleStopOrder]

(* Enters the stop of a radio; ok is what its caller may answer at best.   *)
EnterStop(radio, ok) ==
  IF HeldOf(radio) = {} /\ StateOf(radio) = "STOPPED"
  THEN call' = Done(ok) /\ UNCHANGED <<wifi, ble>>
  ELSE /\ SetState(radio, "STOPPING")
       /\ call' = [op |-> "stop", radio |-> radio, ok |-> ok, prior |-> StateOf(radio),
                   left |-> IF radio = "wifi" THEN WifiStopOrder ELSE BleStopOrder]

StopRadio(radio) ==
  /\ call = NoRadioCall
  /\ EnterStop(radio, TRUE)
  /\ UNCHANGED <<mode, held, event, faults>>

TakeAnswer(ok) == call = Done(ok) /\ call' = NoRadioCall

-----------------------------------------------------------------------------
(* The steps of a start.                                                   *)

StateAfter(part) ==
  CASE part = "driver" -> <<"INITIALIZED", ble>>
    [] part = "wifiStarted" -> <<IF mode = "AP" THEN "AP_RUNNING" ELSE "STA_STARTING", ble>>
    [] part = "controller" -> <<wifi, "INITIALIZED">>
    [] OTHER -> <<wifi, ble>>

Acquire ==
  /\ call.op = "start" /\ call.left # <<>>
  /\ held' = held \cup {Head(call.left)}
  /\ wifi' = StateAfter(Head(call.left))[1]
  /\ ble' = StateAfter(Head(call.left))[2]
  /\ call' = [call EXCEPT !.left = Tail(@)]
  /\ UNCHANGED <<mode, event, faults>>

(* The last steps hold nothing: esp_wifi_connect, or the GAP callback.     *)
Started ==
  /\ call.op = "start" /\ call.left = <<>>
  /\ ble' = IF call.radio = "ble" THEN "HOST_RUNNING" ELSE ble
  /\ call' = Done(TRUE)
  /\ UNCHANGED <<wifi, mode, held, event, faults>>

StartFails ==
  /\ call.op = "start" /\ Fault
  /\ EnterStop(call.radio, FALSE)
  /\ UNCHANGED <<mode, held, event>>

-----------------------------------------------------------------------------
(* The steps of a stop.                                                    *)

(* The interface goes only after its driver, the event group only after    *)
(* the whole BLE stack.                                                    *)
MayRelease(part) ==
  /\ part \in held
  /\ part = "netif" => "driver" \notin held
  /\ part = "events" => HeldOf("ble") = {"events"}

(* To unregister a handler waits for one that runs: the event loop holds   *)
(* its mutex meanwhile.                                                    *)
LoopFree(part) == part \in {"wifiHandler", "ipHandler"} => event = "none"

Release ==
  /\ call.op = "stop" /\ call.left # <<>>
  /\ LET part == Head(call.left)
     IN  /\ IF MayRelease(part)
            THEN /\ LoopFree(part)
                 /\ \/ held' = held \ {part} /\ UNCHANGED <<call, faults>>
                    \/ /\ part \notin {"netif", "events"} /\ Fault
                       /\ call' = [call EXCEPT !.left = Tail(@), !.ok = FALSE]
                       /\ UNCHANGED held
            ELSE /\ call' = [call EXCEPT !.left = Tail(@)]
                 /\ UNCHANGED <<held, faults>>
  /\ UNCHANGED <<wifi, ble, mode, event>>

(* esp_wifi_disconnect fails: reported, and the stop goes on.              *)
DisconnectFails ==
  /\ call.op = "stop" /\ call.left = WifiStopOrder /\ call.ok
  /\ "wifiStarted" \in held /\ call.prior \in {"STA_STARTING", "STA_CONNECTED"}
  /\ Fault
  /\ call' = [call EXCEPT !.ok = FALSE]
  /\ UNCHANGED <<wifi, ble, mode, held, event>>

StopEnds ==
  /\ call.op = "stop" /\ call.left = <<>>
  /\ SetState(call.radio, IF HeldOf(call.radio) = {} THEN "STOPPED" ELSE "STOPPING")
  /\ call' = Done(call.ok /\ HeldOf(call.radio) = {})
  /\ UNCHANGED <<mode, held, event, faults>>

-----------------------------------------------------------------------------
(* wifi_event: what it tests and what it writes are two steps.             *)

ShouldReconnect(s) == s \in {"STA_STARTING", "STA_CONNECTED"}

Disconnected ==
  /\ event = "none" /\ mode = "STA" /\ "wifiHandler" \in held
  /\ ShouldReconnect(wifi)
  /\ event' = "STA_STARTING"
  /\ UNCHANGED <<wifi, ble, mode, held, call, faults>>

MayReport(s) == s # "STOPPING"

(* No address is got before the driver has been started.                   *)
GotIp ==
  /\ event = "none" /\ mode = "STA" /\ "ipHandler" \in held
  /\ wifi # "INITIALIZED" /\ MayReport(wifi)
  /\ event' = "STA_CONNECTED"
  /\ UNCHANGED <<wifi, ble, mode, held, call, faults>>

EventWrites ==
  /\ event # "none"
  /\ wifi' = event /\ event' = "none"
  /\ UNCHANGED <<ble, mode, held, call, faults>>

RadioCallStep == Acquire \/ Started \/ StartFails \/ Release \/ DisconnectFails \/ StopEnds
WifiEvent == Disconnected \/ GotIp \/ EventWrites
=============================================================================
