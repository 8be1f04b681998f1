----------------------------- MODULE RadiosProofs -----------------------------
(***************************************************************************)
(* What a start and a stop of a radio leave behind, whichever of their     *)
(* steps fail and whatever wifi_event writes meanwhile.  Modules that make *)
(* the calls build their own invariants on this one.                       *)
(*                                                                         *)
(* A start holds exactly the resources it has passed; a stop without a     *)
(* fault holds none it has passed.  The event task can have something to   *)
(* write only while a handler is held, and to give a handler back waits    *)
(* for it: so a radio that is down stays down until it is started.         *)
(***************************************************************************)
EXTENDS Radios, TLAPS

WifiStates ==
  {"STOPPED", "INITIALIZED", "AP_RUNNING", "STA_STARTING", "STA_CONNECTED", "STOPPING"}
BleStates == {"STOPPED", "INITIALIZED", "HOST_RUNNING", "STOPPING"}
RadioNames == {"wifi", "ble"}

WifiHeld == {"netif", "driver", "wifiHandler", "ipHandler", "wifiStarted"}
BleHeld == {"events", "controller", "enabled", "bluedroid", "bluedroidOn"}
HeldParts(radio) == IF radio = "wifi" THEN WifiHeld ELSE BleHeld

(* What is left of a start and of a stop at each of their steps.           *)
WifiStarts ==
  {<<"netif", "driver", "wifiHandler", "ipHandler", "wifiStarted">>,
   <<"driver", "wifiHandler", "ipHandler", "wifiStarted">>,
   <<"wifiHandler", "ipHandler", "wifiStarted">>,
   <<"ipHandler", "wifiStarted">>, <<"wifiStarted">>, <<>>}
BleStarts ==
  {<<"events", "controller", "enabled", "bluedroid", "bluedroidOn">>,
   <<"controller", "enabled", "bluedroid", "bluedroidOn">>,
   <<"enabled", "bluedroid", "bluedroidOn">>,
   <<"bluedroid", "bluedroidOn">>, <<"bluedroidOn">>, <<>>}
WifiStops ==
  {<<"wifiStarted", "wifiHandler", "ipHandler", "driver", "netif">>,
   <<"wifiHandler", "ipHandler", "driver", "netif">>,
   <<"ipHandler", "driver", "netif">>, <<"driver", "netif">>, <<"netif">>, <<>>}
BleStops ==
  {<<"bluedroidOn", "bluedroid", "enabled", "controller", "events">>,
   <<"bluedroid", "enabled", "controller", "events">>,
   <<"enabled", "controller", "events">>, <<"controller", "events">>, <<"events">>, <<>>}

Starts(radio) == IF radio = "wifi" THEN WifiStarts ELSE BleStarts
Stops(radio) == IF radio = "wifi" THEN WifiStops ELSE BleStops

StartCall(radio) == [op : {"start"}, radio : {radio}, left : Starts(radio)]
StopCall(radio) ==
  [op : {"stop"}, radio : {radio}, ok : BOOLEAN, prior : WifiStates \cup BleStates,
   left : Stops(radio)]

RadioTyped ==
  /\ wifi \in WifiStates /\ ble \in BleStates
  /\ held \subseteq WifiHeld \cup BleHeld
  /\ event \in {"none", "STA_STARTING", "STA_CONNECTED"}
  /\ faults \in Nat
  /\ \/ call = NoRadioCall
     \/ call \in {Done(TRUE), Done(FALSE)}
     \/ \E radio \in RadioNames : call \in StartCall(radio) \cup StopCall(radio)

Busy(radio) == call.op \in {"start", "stop"} /\ call.radio = radio
Down(radio) == StateOf(radio) = "STOPPED" /\ HeldOf(radio) = {}

EventHeld == event # "none" => {"wifiHandler", "ipHandler"} \cap held # {}

StatesTruthful ==
  \A radio \in RadioNames :
    ~Busy(radio) => (StateOf(radio) = "STOPPED" <=> HeldOf(radio) = {})

StartSound ==
  call.op = "start" =>
    /\ HeldOf(call.radio) = HeldParts(call.radio) \ Members(call.left)
    /\ call.radio = "wifi" /\ "driver" \notin Members(call.left) => wifi # "STOPPED"

StopSound ==
  call.op = "stop" /\ faults = 0 => HeldOf(call.radio) \subseteq Members(call.left)

StoppingSound ==
  faults = 0 =>
    \A radio \in RadioNames :
      StateOf(radio) = "STOPPING" => call.op = "stop" /\ call.radio = radio

RadioInv ==
  RadioTyped /\ EventHeld /\ StatesTruthful /\ StartSound /\ StopSound /\ StoppingSound

USE DEF RadioNames
-----------------------------------------------------------------------------
(* The chains of resources, spelled out.                                   *)
LEMMA Chains ==
  /\ Members(WifiParts) = WifiHeld /\ Members(BleParts) = BleHeld
  /\ WifiParts \in WifiStarts /\ BleParts \in BleStarts
  /\ WifiStopOrder \in WifiStops /\ BleStopOrder \in BleStops
  /\ Members(WifiStopOrder) = WifiHeld /\ Members(BleStopOrder) = BleHeld
  /\ Members(<<>>) = {}
BY DEF Members, WifiParts, BleParts, WifiHeld, BleHeld, WifiStarts, BleStarts,
       WifiStopOrder, BleStopOrder, WifiStops, BleStops

LEMMA Holdings ==
  HeldOf("wifi") = held \cap WifiHeld /\ HeldOf("ble") = held \cap BleHeld
BY Chains DEF HeldOf

(* A start goes one part on: the part belongs to its radio, is left no     *)
(* more, and the rest is again what a start may have left.                 *)
StartGoesOn(radio, left) ==
  /\ Tail(left) \in Starts(radio)
  /\ Head(left) \in HeldParts(radio)
  /\ Members(Tail(left)) = Members(left) \ {Head(left)}
  /\ Head(left) \in Members(left)

(* A stop goes one part on; only the last part waits for others.           *)
StopGoesOn(radio, left) ==
  /\ Tail(left) \in Stops(radio)
  /\ Head(left) \in HeldParts(radio)
  /\ Members(left) = Members(Tail(left)) \cup {Head(left)}
  /\ Head(left) = "netif" => Members(left) = {"netif"}
  /\ Head(left) = "events" => Members(left) = {"events"}

(* A chain of different resources, the one that goes on and the rest.      *)
LinkOf(left, first, rest) ==
  /\ Head(left) = first /\ Tail(left) = rest
  /\ Members(left) = Members(rest) \cup {first}
  /\ first \notin Members(rest)

LEMMA Links ==
  /\ \A a : LinkOf(<<a>>, a, <<>>)
  /\ \A a, b : a \notin {b} => LinkOf(<<a, b>>, a, <<b>>)
  /\ \A a, b, c : a \notin {b, c} => LinkOf(<<a, b, c>>, a, <<b, c>>)
  /\ \A a, b, c, d : a \notin {b, c, d} => LinkOf(<<a, b, c, d>>, a, <<b, c, d>>)
  /\ \A a, b, c, d, e : a \notin {b, c, d, e} => LinkOf(<<a, b, c, d, e>>, a, <<b, c, d, e>>)
<1>1. ASSUME NEW a
      PROVE  LinkOf(<<a>>, a, <<>>)
  <2>1. Head(<<a>>) = a /\ Tail(<<a>>) = <<>>
    OBVIOUS
  <2>2. Members(<<a>>) = {a} /\ Members(<<>>) = {}
    BY DEF Members
  <2> QED BY ONLY <1>1, <2>1, <2>2 DEF LinkOf
<1>2. ASSUME NEW a, NEW b, a \notin {b}
      PROVE  LinkOf(<<a, b>>, a, <<b>>)
  <2>1. Head(<<a, b>>) = a /\ Tail(<<a, b>>) = <<b>>
    OBVIOUS
  <2>2. Members(<<a, b>>) = {a, b} /\ Members(<<b>>) = {b}
    BY DEF Members
  <2> QED BY ONLY <1>2, <2>1, <2>2 DEF LinkOf
<1>3. ASSUME NEW a, NEW b, NEW c, a \notin {b, c}
      PROVE  LinkOf(<<a, b, c>>, a, <<b, c>>)
  <2>1. Head(<<a, b, c>>) = a /\ Tail(<<a, b, c>>) = <<b, c>>
    OBVIOUS
  <2>2. Members(<<a, b, c>>) = {a, b, c} /\ Members(<<b, c>>) = {b, c}
    BY DEF Members
  <2> QED BY ONLY <1>3, <2>1, <2>2 DEF LinkOf
<1>4. ASSUME NEW a, NEW b, NEW c, NEW d, a \notin {b, c, d}
      PROVE  LinkOf(<<a, b, c, d>>, a, <<b, c, d>>)
  <2>1. Head(<<a, b, c, d>>) = a /\ Tail(<<a, b, c, d>>) = <<b, c, d>>
    OBVIOUS
  <2>2. Members(<<a, b, c, d>>) = {a, b, c, d} /\ Members(<<b, c, d>>) = {b, c, d}
    BY DEF Members
  <2> QED BY ONLY <1>4, <2>1, <2>2 DEF LinkOf
<1>5. ASSUME NEW a, NEW b, NEW c, NEW d, NEW e, a \notin {b, c, d, e}
      PROVE  LinkOf(<<a, b, c, d, e>>, a, <<b, c, d, e>>)
  <2>1. Head(<<a, b, c, d, e>>) = a /\ Tail(<<a, b, c, d, e>>) = <<b, c, d, e>>
    OBVIOUS
  <2>2. Members(<<a, b, c, d, e>>) = {a, b, c, d, e} /\ Members(<<b, c, d, e>>) = {b, c, d, e}
    BY DEF Members
  <2> QED BY ONLY <1>5, <2>1, <2>2 DEF LinkOf
<1> QED BY <1>1, <1>2, <1>3, <1>4, <1>5

LEMMA WifiStartGoesOn ==
  ASSUME NEW left \in WifiStarts, left # <<>>
  PROVE  StartGoesOn("wifi", left)
<1>1. CASE left = <<"netif", "driver", "wifiHandler", "ipHandler", "wifiStarted">>
  <2>1. LinkOf(left, "netif", <<"driver", "wifiHandler", "ipHandler", "wifiStarted">>)
    BY <1>1, Links
  <2> QED BY ONLY <1>1, <2>1 DEF LinkOf, StartGoesOn, Starts, WifiStarts, HeldParts, WifiHeld
<1>2. CASE left = <<"driver", "wifiHandler", "ipHandler", "wifiStarted">>
  <2>1. LinkOf(left, "driver", <<"wifiHandler", "ipHandler", "wifiStarted">>)
    BY <1>2, Links
  <2> QED BY ONLY <1>2, <2>1 DEF LinkOf, StartGoesOn, Starts, WifiStarts, HeldParts, WifiHeld
<1>3. CASE left = <<"wifiHandler", "ipHandler", "wifiStarted">>
  <2>1. LinkOf(left, "wifiHandler", <<"ipHandler", "wifiStarted">>)
    BY <1>3, Links
  <2> QED BY ONLY <1>3, <2>1 DEF LinkOf, StartGoesOn, Starts, WifiStarts, HeldParts, WifiHeld
<1>4. CASE left = <<"ipHandler", "wifiStarted">>
  <2>1. LinkOf(left, "ipHandler", <<"wifiStarted">>)
    BY <1>4, Links
  <2> QED BY ONLY <1>4, <2>1 DEF LinkOf, StartGoesOn, Starts, WifiStarts, HeldParts, WifiHeld
<1>5. CASE left = <<"wifiStarted">>
  <2>1. LinkOf(left, "wifiStarted", <<>>)
    BY <1>5, Links
  <2> QED BY ONLY <1>5, <2>1 DEF LinkOf, StartGoesOn, Starts, WifiStarts, HeldParts, WifiHeld
<1> QED BY <1>1, <1>2, <1>3, <1>4, <1>5 DEF WifiStarts

LEMMA BleStartGoesOn ==
  ASSUME NEW left \in BleStarts, left # <<>>
  PROVE  StartGoesOn("ble", left)
<1>1. CASE left = <<"events", "controller", "enabled", "bluedroid", "bluedroidOn">>
  <2>1. LinkOf(left, "events", <<"controller", "enabled", "bluedroid", "bluedroidOn">>)
    BY <1>1, Links
  <2> QED BY ONLY <1>1, <2>1 DEF LinkOf, StartGoesOn, Starts, BleStarts, HeldParts, BleHeld
<1>2. CASE left = <<"controller", "enabled", "bluedroid", "bluedroidOn">>
  <2>1. LinkOf(left, "controller", <<"enabled", "bluedroid", "bluedroidOn">>)
    BY <1>2, Links
  <2> QED BY ONLY <1>2, <2>1 DEF LinkOf, StartGoesOn, Starts, BleStarts, HeldParts, BleHeld
<1>3. CASE left = <<"enabled", "bluedroid", "bluedroidOn">>
  <2>1. LinkOf(left, "enabled", <<"bluedroid", "bluedroidOn">>)
    BY <1>3, Links
  <2> QED BY ONLY <1>3, <2>1 DEF LinkOf, StartGoesOn, Starts, BleStarts, HeldParts, BleHeld
<1>4. CASE left = <<"bluedroid", "bluedroidOn">>
  <2>1. LinkOf(left, "bluedroid", <<"bluedroidOn">>)
    BY <1>4, Links
  <2> QED BY ONLY <1>4, <2>1 DEF LinkOf, StartGoesOn, Starts, BleStarts, HeldParts, BleHeld
<1>5. CASE left = <<"bluedroidOn">>
  <2>1. LinkOf(left, "bluedroidOn", <<>>)
    BY <1>5, Links
  <2> QED BY ONLY <1>5, <2>1 DEF LinkOf, StartGoesOn, Starts, BleStarts, HeldParts, BleHeld
<1> QED BY <1>1, <1>2, <1>3, <1>4, <1>5 DEF BleStarts

LEMMA WifiStopGoesOn ==
  ASSUME NEW left \in WifiStops, left # <<>>
  PROVE  StopGoesOn("wifi", left)
<1>1. CASE left = <<"wifiStarted", "wifiHandler", "ipHandler", "driver", "netif">>
  <2>1. LinkOf(left, "wifiStarted", <<"wifiHandler", "ipHandler", "driver", "netif">>)
    BY <1>1, Links
  <2> QED BY ONLY <1>1, <2>1 DEF LinkOf, StopGoesOn, Stops, WifiStops, HeldParts, WifiHeld
<1>2. CASE left = <<"wifiHandler", "ipHandler", "driver", "netif">>
  <2>1. LinkOf(left, "wifiHandler", <<"ipHandler", "driver", "netif">>)
    BY <1>2, Links
  <2> QED BY ONLY <1>2, <2>1 DEF LinkOf, StopGoesOn, Stops, WifiStops, HeldParts, WifiHeld
<1>3. CASE left = <<"ipHandler", "driver", "netif">>
  <2>1. LinkOf(left, "ipHandler", <<"driver", "netif">>)
    BY <1>3, Links
  <2> QED BY ONLY <1>3, <2>1 DEF LinkOf, StopGoesOn, Stops, WifiStops, HeldParts, WifiHeld
<1>4. CASE left = <<"driver", "netif">>
  <2>1. LinkOf(left, "driver", <<"netif">>)
    BY <1>4, Links
  <2> QED BY ONLY <1>4, <2>1 DEF LinkOf, StopGoesOn, Stops, WifiStops, HeldParts, WifiHeld
<1>5. CASE left = <<"netif">>
  <2>1. LinkOf(left, "netif", <<>>)
    BY <1>5, Links
  <2> QED BY ONLY <1>5, <2>1, Chains DEF LinkOf, StopGoesOn, Stops, WifiStops, HeldParts, WifiHeld
<1> QED BY <1>1, <1>2, <1>3, <1>4, <1>5 DEF WifiStops

LEMMA BleStopGoesOn ==
  ASSUME NEW left \in BleStops, left # <<>>
  PROVE  StopGoesOn("ble", left)
<1>1. CASE left = <<"bluedroidOn", "bluedroid", "enabled", "controller", "events">>
  <2>1. LinkOf(left, "bluedroidOn", <<"bluedroid", "enabled", "controller", "events">>)
    BY <1>1, Links
  <2> QED BY ONLY <1>1, <2>1 DEF LinkOf, StopGoesOn, Stops, BleStops, HeldParts, BleHeld
<1>2. CASE left = <<"bluedroid", "enabled", "controller", "events">>
  <2>1. LinkOf(left, "bluedroid", <<"enabled", "controller", "events">>)
    BY <1>2, Links
  <2> QED BY ONLY <1>2, <2>1 DEF LinkOf, StopGoesOn, Stops, BleStops, HeldParts, BleHeld
<1>3. CASE left = <<"enabled", "controller", "events">>
  <2>1. LinkOf(left, "enabled", <<"controller", "events">>)
    BY <1>3, Links
  <2> QED BY ONLY <1>3, <2>1 DEF LinkOf, StopGoesOn, Stops, BleStops, HeldParts, BleHeld
<1>4. CASE left = <<"controller", "events">>
  <2>1. LinkOf(left, "controller", <<"events">>)
    BY <1>4, Links
  <2> QED BY ONLY <1>4, <2>1 DEF LinkOf, StopGoesOn, Stops, BleStops, HeldParts, BleHeld
<1>5. CASE left = <<"events">>
  <2>1. LinkOf(left, "events", <<>>)
    BY <1>5, Links
  <2> QED BY ONLY <1>5, <2>1, Chains DEF LinkOf, StopGoesOn, Stops, BleStops, HeldParts, BleHeld
<1> QED BY <1>1, <1>2, <1>3, <1>4, <1>5 DEF BleStops
-----------------------------------------------------------------------------
(* The shape of a call that is under way.                                  *)
LEMMA CallShapes ==
  ASSUME RadioTyped
  PROVE  /\ call.op = "start" =>
              call.radio \in RadioNames /\ call \in StartCall(call.radio)
         /\ call.op = "stop" =>
              call.radio \in RadioNames /\ call \in StopCall(call.radio)
         /\ call.op \in {"none", "start", "stop", "done"}
         /\ call.op = "none" <=> call = NoRadioCall
BY DEF RadioTyped, StartCall, StopCall, NoRadioCall, Done

(* A state of a radio, and what it holds, in terms of its own.             *)
LEMMA OfRadio ==
  ASSUME NEW radio \in RadioNames
  PROVE  /\ HeldOf(radio) = held \cap HeldParts(radio)
         /\ (HeldOf(radio))' = held' \cap HeldParts(radio)
BY Chains DEF HeldOf, HeldParts

LEMMA Apart == WifiHeld \cap BleHeld = {}
BY DEF WifiHeld, BleHeld

LEMMA GoesOn ==
  ASSUME NEW radio \in RadioNames, NEW left, left # <<>>
  PROVE  /\ left \in Starts(radio) => StartGoesOn(radio, left)
         /\ left \in Stops(radio) => StopGoesOn(radio, left)
BY WifiStartGoesOn, BleStartGoesOn, WifiStopGoesOn, BleStopGoesOn DEF Starts, Stops

-----------------------------------------------------------------------------
(* Before the first call of radios.c no radio holds anything.              *)
THEOREM RadiosInit == RadioInit => RadioInv
<1> SUFFICES ASSUME RadioInit PROVE RadioInv
  OBVIOUS
<1>1. RadioTyped
  BY DEF RadioInit, RadioTyped, WifiStates, BleStates, NoRadioCall
<1>2. HeldOf("wifi") = {} /\ HeldOf("ble") = {}
  BY Holdings DEF RadioInit
<1> QED
  BY <1>1, <1>2 DEF RadioInit, RadioInv, EventHeld, StatesTruthful, StartSound,
     StopSound, StoppingSound, StateOf, NoRadioCall

-----------------------------------------------------------------------------
(* A stop is entered by a caller with no call under way, or by the start   *)
(* that has just failed.                                                   *)
LEMMA EnterStopKeeps ==
  ASSUME RadioInv, NEW radio \in RadioNames, NEW ok \in BOOLEAN,
         EnterStop(radio, ok), UNCHANGED <<mode, held, event>>,
         faults' \in Nat, faults' = 0 => faults = 0,
         call.op \in {"start", "stop"} => call.op = "start" /\ call.radio = radio
  PROVE  RadioInv'
<1> USE DEF RadioInv
<1>1. /\ HeldOf(radio) = held \cap HeldParts(radio)
      /\ \A r \in RadioNames : (HeldOf(r))' = HeldOf(r)
  BY OfRadio
<1>2. CASE HeldOf(radio) = {} /\ StateOf(radio) = "STOPPED"
  <2>1. call' = Done(ok) /\ UNCHANGED <<wifi, ble>>
    BY <1>2 DEF EnterStop
  <2>2. RadioTyped'
    BY <2>1 DEF RadioTyped, Done
  <2>3. EventHeld'
    BY <2>1 DEF EventHeld
  <2>4. StatesTruthful'
    BY <2>1, <1>1, <1>2 DEF StatesTruthful, Busy, StateOf, Done
  <2>5. StartSound' /\ StopSound'
    BY <2>1 DEF StartSound, StopSound, Done
  <2>6. StoppingSound'
    BY <2>1, <1>1, <1>2 DEF StoppingSound, StateOf, Done
  <2> QED BY <2>2, <2>3, <2>4, <2>5, <2>6
<1>3. CASE ~(HeldOf(radio) = {} /\ StateOf(radio) = "STOPPED")
  <2> DEFINE order == IF radio = "wifi" THEN WifiStopOrder ELSE BleStopOrder
  <2>1. /\ SetState(radio, "STOPPING")
        /\ call' = [op |-> "stop", radio |-> radio, ok |-> ok, prior |-> StateOf(radio),
                    left |-> order]
    BY <1>3 DEF EnterStop
  <2>2. order \in Stops(radio) /\ Members(order) = HeldParts(radio)
    BY Chains DEF Stops, HeldParts
  <2>3. call' \in StopCall(radio)
    BY <2>1, <2>2 DEF StopCall, RadioTyped, StateOf
  <2>4. RadioTyped'
    BY <2>1, <2>3 DEF RadioTyped, SetState, WifiStates, BleStates
  <2>5. EventHeld'
    BY DEF EventHeld
  <2> HIDE DEF order
  <2>6. StatesTruthful'
    BY <2>1, <1>1, <1>3 DEF StatesTruthful, Busy, StateOf, SetState
  <2>7. StartSound'
    BY <2>1 DEF StartSound
  <2>8. StopSound'
    BY <2>1, <2>2, <1>1 DEF StopSound
  <2>9. StoppingSound'
    BY <2>1, <1>1 DEF StoppingSound, StateOf, SetState
  <2> QED BY <2>4, <2>5, <2>6, <2>7, <2>8, <2>9
<1> QED BY <1>2, <1>3

(* The calls themselves.                                                   *)
LEMMA StartWifiKeeps ==
  ASSUME RadioInv, NEW m, StartWifi(m)
  PROVE  RadioInv'
<1> USE DEF RadioInv
<1>1. /\ \A r \in RadioNames : (HeldOf(r))' = HeldOf(r) /\ (StateOf(r))' = StateOf(r)
      /\ call.op = "none" /\ UNCHANGED <<wifi, ble, held, event, faults>>
  BY DEF StartWifi, HeldOf, StateOf, NoRadioCall
<1>2. EventHeld' /\ StoppingSound'
  BY <1>1 DEF EventHeld, StoppingSound, StartWifi, Done
<1>3. CASE wifi = "STOPPED"
  <2>1. call' = [op |-> "start", radio |-> "wifi", left |-> WifiParts]
    BY <1>3 DEF StartWifi
  <2>2. call' \in StartCall("wifi")
    BY <2>1, Chains DEF StartCall, Starts
  <2>3. HeldOf("wifi") = {}
    BY <1>1, <1>3 DEF StatesTruthful, Busy, StateOf
  <2>4. RadioTyped' /\ StatesTruthful' /\ StopSound'
    BY <2>1, <2>2, <1>1 DEF RadioTyped, StatesTruthful, StopSound, Busy
  <2>5. StartSound'
    BY <2>1, <2>3, <1>1, Chains DEF StartSound, HeldParts, WifiHeld
  <2> QED BY <2>4, <2>5, <1>2
<1>4. CASE wifi # "STOPPED"
  BY <1>4, <1>1, <1>2 DEF StartWifi, RadioTyped, StatesTruthful, StartSound, StopSound,
     Busy, Done
<1> QED BY <1>3, <1>4

LEMMA StartBleKeeps ==
  ASSUME RadioInv, StartBle
  PROVE  RadioInv'
<1> USE DEF RadioInv
<1>1. /\ \A r \in RadioNames : (HeldOf(r))' = HeldOf(r) /\ (StateOf(r))' = StateOf(r)
      /\ call.op = "none" /\ UNCHANGED <<wifi, ble, held, event, faults>>
  BY DEF StartBle, HeldOf, StateOf, NoRadioCall
<1>2. CASE ble = "STOPPED"
  <2>1. call' = [op |-> "start", radio |-> "ble", left |-> BleParts]
    BY <1>2 DEF StartBle
  <2>2. call' \in StartCall("ble")
    BY <2>1, Chains DEF StartCall, Starts
  <2>3. HeldOf("ble") = {}
    BY <1>1, <1>2 DEF StatesTruthful, Busy, StateOf
  <2>4. RadioTyped' /\ StatesTruthful' /\ StopSound' /\ EventHeld' /\ StoppingSound'
    BY <2>1, <2>2, <1>1
    DEF RadioTyped, StatesTruthful, StopSound, Busy, EventHeld, StoppingSound
  <2>5. StartSound'
    BY <2>1, <2>3, <1>1, Chains DEF StartSound, HeldParts, BleHeld
  <2> QED BY <2>4, <2>5
<1>3. CASE ble # "STOPPED"
  <2>1. call' \in {Done(TRUE), Done(FALSE)}
    BY <1>3 DEF StartBle
  <2> QED
    BY <2>1, <1>1 DEF RadioTyped, StatesTruthful, StartSound, StopSound, EventHeld,
       StoppingSound, Busy, Done
<1> QED BY <1>2, <1>3

LEMMA StopRadioKeeps ==
  ASSUME RadioInv, NEW radio \in RadioNames, StopRadio(radio)
  PROVE  RadioInv'
<1>1. call.op = "none" /\ faults' = faults /\ faults \in Nat
  BY DEF StopRadio, NoRadioCall, RadioInv, RadioTyped
<1> QED BY <1>1, EnterStopKeeps DEF StopRadio

LEMMA TakeAnswerKeeps ==
  ASSUME RadioInv, NEW ok \in BOOLEAN, TakeAnswer(ok),
         UNCHANGED <<wifi, ble, mode, held, event, faults>>
  PROVE  RadioInv'
<1>1. /\ \A r \in RadioNames : (HeldOf(r))' = HeldOf(r) /\ (StateOf(r))' = StateOf(r)
      /\ call.op = "done" /\ call'.op = "none" /\ call' = NoRadioCall
  BY DEF TakeAnswer, HeldOf, StateOf, NoRadioCall, Done
<1> QED
  BY <1>1 DEF RadioInv, RadioTyped, StatesTruthful, StartSound, StopSound, EventHeld,
     StoppingSound, Busy

LEMMA RefusedKeeps ==
  ASSUME RadioInv, call = NoRadioCall, call' = Done(FALSE),
         UNCHANGED <<wifi, ble, mode, held, event, faults>>
  PROVE  RadioInv'
<1>1. /\ \A r \in RadioNames : (HeldOf(r))' = HeldOf(r) /\ (StateOf(r))' = StateOf(r)
      /\ call.op = "none" /\ call'.op = "done"
  BY DEF HeldOf, StateOf, NoRadioCall, Done
<1> QED
  BY <1>1 DEF RadioInv, RadioTyped, StatesTruthful, StartSound, StopSound, EventHeld,
     StoppingSound, Busy

-----------------------------------------------------------------------------
(* The steps of a start.                                                   *)
LEMMA AcquireKeeps ==
  ASSUME RadioInv, Acquire
  PROVE  RadioInv'
<1> DEFINE part == Head(call.left)
<1> USE DEF RadioInv
<1> PICK radio \in RadioNames : radio = call.radio
  BY CallShapes DEF Acquire
<1>1. /\ call \in StartCall(radio)
      /\ call.op = "start" /\ call.left \in Starts(radio) /\ call.left # <<>>
  BY CallShapes DEF Acquire, StartCall
<1>2. StartGoesOn(radio, call.left)
  BY <1>1, GoesOn
<1>3. /\ call' \in StartCall(radio) /\ call'.op = "start" /\ call'.radio = radio
      /\ call'.left = Tail(call.left)
  BY <1>1, <1>2 DEF Acquire, StartCall, StartGoesOn
<1>4. part \in HeldParts(radio)
  BY <1>2 DEF StartGoesOn
<1>5. /\ wifi' = IF part = "driver" THEN "INITIALIZED"
                 ELSE IF part # "wifiStarted" THEN wifi
                 ELSE IF mode = "AP" THEN "AP_RUNNING" ELSE "STA_STARTING"
      /\ ble' = IF part = "controller" THEN "INITIALIZED" ELSE ble
  BY DEF Acquire, StateAfter
<1>6. UNCHANGED <<mode, event, faults>> /\ held' = held \cup {part}
  BY DEF Acquire
<1>7. /\ radio = "wifi" => ble' = ble
      /\ radio = "ble" => wifi' = wifi
  BY <1>4, <1>5, <1>1 DEF HeldParts, WifiHeld, BleHeld
<1>8. /\ (HeldOf(radio))' = HeldOf(radio) \cup {part}
      /\ \A r \in RadioNames : r # radio => (HeldOf(r))' = HeldOf(r)
  <2>1. \A r \in RadioNames : r # radio => part \notin HeldParts(r)
    BY <1>4, Apart DEF HeldParts
  <2> QED BY <2>1, <1>4, <1>6, OfRadio
<1> HIDE DEF part
<1>9. RadioTyped'
  BY <1>1, <1>3, <1>4, <1>5, <1>6 DEF RadioTyped, WifiStates, BleStates, HeldParts
<1>10. EventHeld'
  BY <1>6 DEF EventHeld
<1>11. StatesTruthful'
  <2> SUFFICES ASSUME NEW r \in RadioNames, ~(Busy(r))'
               PROVE  (StateOf(r))' = "STOPPED" <=> (HeldOf(r))' = {}
    BY DEF StatesTruthful
  <2>1. r # radio
    BY <1>3 DEF Busy
  <2>2. (StateOf(r))' = StateOf(r) /\ (HeldOf(r))' = HeldOf(r)
    BY <2>1, <1>1, <1>7, <1>8 DEF StateOf
  <2>3. ~Busy(r)
    BY <2>1 DEF Busy
  <2> QED BY <2>2, <2>3 DEF StatesTruthful
<1>12. StartSound'
  <2>1. HeldOf(radio) = HeldParts(radio) \ Members(call.left)
    BY <1>1 DEF StartSound
  <2>2. (HeldOf(radio))' = HeldParts(radio) \ Members(Tail(call.left))
    BY <2>1, <1>2, <1>4, <1>8 DEF StartGoesOn, part
  <2>3. radio = "wifi" /\ "driver" \notin Members(Tail(call.left)) => wifi' # "STOPPED"
    BY <1>2, <1>5, <1>1 DEF StartGoesOn, part, StartSound
  <2> QED BY <2>2, <2>3, <1>3 DEF StartSound
<1>13. StopSound'
  BY <1>3 DEF StopSound
<1>14. StoppingSound'
  BY <1>1, <1>5, <1>6 DEF StoppingSound, StateOf
<1> QED BY <1>9, <1>10, <1>11, <1>12, <1>13, <1>14

LEMMA StartedKeeps ==
  ASSUME RadioInv, Started
  PROVE  RadioInv'
<1> USE DEF RadioInv
<1>1. /\ call.radio \in RadioNames /\ call.op = "start" /\ call.left = <<>>
      /\ UNCHANGED <<wifi, mode, held, event, faults>> /\ call' = Done(TRUE)
      /\ ble' = IF call.radio = "ble" THEN "HOST_RUNNING" ELSE ble
  BY CallShapes DEF Started
<1>2. \A r \in RadioNames : (HeldOf(r))' = HeldOf(r)
  BY <1>1 DEF HeldOf
<1>3. /\ HeldOf(call.radio) = HeldParts(call.radio)
      /\ call.radio = "wifi" => wifi # "STOPPED"
  BY <1>1, Chains DEF StartSound
<1>4. StatesTruthful'
  BY <1>1, <1>2, <1>3 DEF StatesTruthful, Busy, StateOf, Done, HeldParts, WifiHeld, BleHeld
<1>5. StoppingSound'
  BY <1>1 DEF StoppingSound, StateOf
<1> QED
  BY <1>1, <1>4, <1>5 DEF RadioTyped, EventHeld, StartSound, StopSound, Done, BleStates

LEMMA StartFailsKeeps ==
  ASSUME RadioInv, StartFails
  PROVE  RadioInv'
<1>1. /\ call.op = "start" /\ call.radio \in RadioNames
      /\ EnterStop(call.radio, FALSE) /\ UNCHANGED <<mode, held, event>>
  BY CallShapes DEF StartFails, RadioInv
<1>2. faults' \in Nat \ {0}
  BY DEF StartFails, Fault, RadioInv, RadioTyped
<1> QED BY <1>1, <1>2, EnterStopKeeps

-----------------------------------------------------------------------------
(* The steps of a stop.                                                    *)

(* A step of a stop that changes no state and gives back at most the part  *)
(* it is at.                                                               *)
LEMMA ReleaseKeeps ==
  ASSUME RadioInv, Release
  PROVE  RadioInv'
<1> DEFINE part == Head(call.left)
<1> USE DEF RadioInv
<1> PICK radio \in RadioNames : radio = call.radio
  BY CallShapes DEF Release
<1>1. /\ call \in StopCall(radio)
      /\ call.op = "stop" /\ call.left \in Stops(radio) /\ call.left # <<>>
  BY CallShapes DEF Release, StopCall
<1>2. StopGoesOn(radio, call.left)
  BY <1>1, GoesOn
<1>3. UNCHANGED <<wifi, ble, mode, event>> /\ faults' \in Nat /\ (faults' = 0 => faults = 0)
  BY DEF Release, Fault, RadioTyped
<1>4. /\ call' \in StopCall(radio) /\ call'.op = "stop" /\ call'.radio = radio
      /\ call'.left \in {call.left, Tail(call.left)}
  BY <1>1, <1>2 DEF Release, StopCall, StopGoesOn
<1>5. held' = held \/ (MayRelease(part) /\ LoopFree(part) /\ held' = held \ {part})
  BY DEF Release
<1>6. part \in HeldParts(radio)
  BY <1>2 DEF StopGoesOn
<1>7. /\ (HeldOf(radio))' \subseteq HeldOf(radio)
      /\ \A r \in RadioNames : r # radio => (HeldOf(r))' = HeldOf(r)
  <2>1. \A r \in RadioNames : r # radio => part \notin HeldParts(r)
    BY <1>6, Apart DEF HeldParts
  <2>2. /\ held' \subseteq held
        /\ \A x \in held : x # part => x \in held'
    BY <1>5
  <2> HIDE DEF part
  <2> QED BY <2>1, <2>2, OfRadio
<1>8. RadioTyped'
  BY <1>1, <1>3, <1>4, <1>5 DEF RadioTyped
<1>9. EventHeld'
  BY <1>3, <1>5 DEF EventHeld, LoopFree
<1>10. StatesTruthful'
  <2> SUFFICES ASSUME NEW r \in RadioNames, ~(Busy(r))'
               PROVE  (StateOf(r))' = "STOPPED" <=> (HeldOf(r))' = {}
    BY DEF StatesTruthful
  <2>1. r # radio
    BY <1>4 DEF Busy
  <2>2. (StateOf(r))' = StateOf(r) /\ (HeldOf(r))' = HeldOf(r)
    BY <2>1, <1>1, <1>3, <1>7 DEF StateOf
  <2>3. ~Busy(r)
    BY <2>1 DEF Busy
  <2> QED BY <2>2, <2>3 DEF StatesTruthful
<1>11. StartSound'
  BY <1>4 DEF StartSound
<1>12. StopSound'
  <2> SUFFICES ASSUME faults' = 0
               PROVE  (HeldOf(radio))' \subseteq Members(call'.left)
    BY <1>4 DEF StopSound
  <2>1. HeldOf(radio) \subseteq Members(call.left)
    BY <1>1, <1>3 DEF StopSound
  <2>2. CASE call'.left = call.left
    BY <2>1, <2>2, <1>7
  <2>3. CASE call'.left # call.left
    <3>1. call'.left = Tail(call.left)
      BY <2>3, <1>4
    <3>2. ~MayRelease(part) /\ held' = held
      BY <2>3 DEF Release, Fault, RadioTyped
    <3>3. part \notin held
      <4>1. CASE part = "netif"
        <5>1. HeldOf(radio) \subseteq {"netif"}
          BY <2>1, <4>1, <1>2 DEF StopGoesOn
        <5>2. radio = "wifi"
          BY <4>1, <1>1, <1>6 DEF HeldParts, BleHeld
        <5>3. "driver" \notin held
          BY <5>1, <5>2, OfRadio DEF HeldParts, WifiHeld
        <5> QED BY <4>1, <5>3, <3>2 DEF MayRelease
      <4>2. CASE part = "events"
        <5>1. HeldOf(radio) \subseteq {"events"}
          BY <2>1, <4>2, <1>2 DEF StopGoesOn
        <5>2. radio = "ble"
          BY <4>2, <1>1, <1>6 DEF HeldParts, WifiHeld
        <5>3. "events" \in held => HeldOf("ble") = {"events"}
          BY <5>1, <5>2, OfRadio DEF HeldParts, BleHeld
        <5> QED BY <4>2, <5>3, <3>2 DEF MayRelease
      <4>3. CASE part \notin {"netif", "events"}
        BY <4>3, <3>2 DEF MayRelease
      <4> QED BY <4>1, <4>2, <4>3
    <3>4. part \notin HeldOf(radio)
      BY <3>3, <1>1, OfRadio
    <3> QED BY <3>1, <3>4, <2>1, <1>2, <1>7 DEF StopGoesOn
  <2> QED BY <2>2, <2>3
<1>13. StoppingSound'
  BY <1>1, <1>3, <1>4 DEF StoppingSound, StateOf
<1> QED BY <1>8, <1>9, <1>10, <1>11, <1>12, <1>13

LEMMA DisconnectFailsKeeps ==
  ASSUME RadioInv, DisconnectFails
  PROVE  RadioInv'
<1> USE DEF RadioInv
<1>0. call.op = "stop" /\ call.radio \in RadioNames /\ call \in StopCall(call.radio)
  BY CallShapes DEF DisconnectFails
<1>1. /\ UNCHANGED <<wifi, ble, mode, held, event>> /\ faults' \in Nat \ {0}
  BY DEF DisconnectFails, Fault, RadioTyped
<1>2. /\ call' \in StopCall(call.radio) /\ call'.op = "stop" /\ call'.radio = call.radio
  BY <1>0, <1>1 DEF DisconnectFails, StopCall
<1>3. \A r \in RadioNames : (HeldOf(r))' = HeldOf(r) /\ (StateOf(r))' = StateOf(r)
  BY <1>1 DEF HeldOf, StateOf
<1> QED
  BY <1>0, <1>1, <1>2, <1>3 DEF RadioTyped, EventHeld, StatesTruthful, StartSound, StopSound,
     StoppingSound, Busy

LEMMA StopEndsKeeps ==
  ASSUME RadioInv, StopEnds
  PROVE  /\ RadioInv'
         /\ \A radio \in RadioNames :
              radio = call.radio /\ (faults = 0 \/ call' = Done(TRUE)) => (Down(radio))'
<1> USE DEF RadioInv
<1> PICK radio \in RadioNames : radio = call.radio
  BY CallShapes DEF StopEnds
<1>1. /\ call \in StopCall(radio) /\ call.op = "stop"
      /\ call.left = <<>> /\ UNCHANGED <<mode, held, event, faults>>
      /\ SetState(radio, IF HeldOf(radio) = {} THEN "STOPPED" ELSE "STOPPING")
  BY CallShapes DEF StopEnds
<1>2. call' \in {Done(TRUE), Done(FALSE)} /\ (call' = Done(TRUE) => HeldOf(radio) = {})
  BY <1>1 DEF StopEnds, StopCall, Done
<1>3. /\ (StateOf(radio))' = IF HeldOf(radio) = {} THEN "STOPPED" ELSE "STOPPING"
      /\ \A r \in RadioNames : r # radio => (StateOf(r))' = StateOf(r)
  BY <1>1 DEF SetState, StateOf
<1>4. \A r \in RadioNames : (HeldOf(r))' = HeldOf(r)
  BY <1>1 DEF HeldOf
<1>5. call'.op = "done"
  BY <1>2 DEF Done
<1>6. faults = 0 => HeldOf(radio) = {}
  BY <1>1, Chains DEF StopSound
<1>7. RadioTyped'
  BY <1>1, <1>2 DEF RadioTyped, SetState, WifiStates, BleStates
<1>8. StatesTruthful'
  <2> SUFFICES ASSUME NEW r \in RadioNames
               PROVE  (StateOf(r))' = "STOPPED" <=> (HeldOf(r))' = {}
    BY DEF StatesTruthful
  <2>1. CASE r = radio
    BY <2>1, <1>1, <1>3, <1>4
  <2>2. CASE r # radio
    BY <2>2, <1>3, <1>4 DEF StatesTruthful, Busy
  <2> QED BY <2>1, <2>2
<1>9. StoppingSound'
  BY <1>1, <1>3, <1>6 DEF StoppingSound
<1>10. EventHeld' /\ StartSound' /\ StopSound'
  BY <1>1, <1>5 DEF EventHeld, StartSound, StopSound
<1>11. faults = 0 \/ call' = Done(TRUE) => (Down(radio))'
  BY <1>1, <1>2, <1>3, <1>4, <1>6 DEF Down
<1> QED BY <1>7, <1>8, <1>9, <1>10, <1>11

-----------------------------------------------------------------------------
(* The event task.                                                         *)
LEMMA WifiEventKeeps ==
  ASSUME RadioInv, WifiEvent
  PROVE  /\ RadioInv'
         /\ UNCHANGED <<ble, mode, held, call, faults>>
         /\ wifi' # wifi => "STOPPED" \notin {wifi', wifi} \/ Busy("wifi")
         /\ wifi' # "AP_RUNNING" \/ wifi = "AP_RUNNING"
<1> USE DEF RadioInv
<1>1. UNCHANGED <<ble, mode, held, call, faults>>
  BY DEF WifiEvent, Disconnected, GotIp, EventWrites
<1>2. \A r \in RadioNames : (HeldOf(r))' = HeldOf(r) /\ (Busy(r))' = Busy(r)
  BY <1>1 DEF HeldOf, Busy
<1>5. call.op \in {"start", "stop"} => call.radio \in RadioNames
  BY CallShapes
<1>3. CASE Disconnected \/ GotIp
  <2>1. wifi' = wifi /\ event' \in {"STA_STARTING", "STA_CONNECTED"}
        /\ {"wifiHandler", "ipHandler"} \cap held # {}
    BY <1>3 DEF Disconnected, GotIp
  <2>2. \A r \in RadioNames : (StateOf(r))' = StateOf(r)
    BY <2>1, <1>1 DEF StateOf
  <2>3. RadioTyped' /\ EventHeld'
    BY <1>1, <2>1 DEF RadioTyped, EventHeld
  <2>4. StatesTruthful' /\ StoppingSound'
    BY <1>1, <1>2, <2>2 DEF StatesTruthful, StoppingSound
  <2>5. StartSound' /\ StopSound'
    BY <1>1, <1>2, <1>5, <2>1 DEF StartSound, StopSound
  <2> QED
    BY <1>1, <2>1, <2>3, <2>4, <2>5 DEF RadioTyped
<1>4. CASE EventWrites
  <2>1. wifi' \in {"STA_STARTING", "STA_CONNECTED"} /\ event' = "none"
    BY <1>4 DEF EventWrites, RadioTyped
  <2>2. HeldOf("wifi") # {}
    BY <1>4, Holdings DEF EventWrites, EventHeld, WifiHeld
  <2>3. ~Busy("wifi") => wifi # "STOPPED"
    BY <2>2 DEF StatesTruthful, StateOf
  <2>4. RadioTyped' /\ EventHeld'
    BY <2>1, <1>1 DEF RadioTyped, EventHeld, WifiStates
  <2>5. StatesTruthful'
    BY <2>1, <2>2, <1>1, <1>2 DEF StatesTruthful, StateOf
  <2>6. StartSound' /\ StopSound'
    BY <2>1, <1>1, <1>2, <1>5 DEF StartSound, StopSound
  <2>7. StoppingSound'
    BY <2>1, <1>1 DEF StoppingSound, StateOf
  <2> QED BY <1>1, <2>1, <2>3, <2>4, <2>5, <2>6, <2>7
<1> QED BY <1>3, <1>4 DEF WifiEvent

-----------------------------------------------------------------------------
(* What the callers may rely on, step by step: a call is about one radio   *)
(* until it is Done, a stop that is Done has that radio down if no step of *)
(* it failed or it says so, the other radio is left alone, and the driver  *)
(* is an access point only if it was asked to be one.                      *)
THEOREM CallStepEffects ==
  ASSUME RadioInv, RadioCallStep
  PROVE  /\ RadioInv'
         /\ call.op \in {"start", "stop"} /\ call.radio \in RadioNames
         /\ call'.op \in {"start", "stop", "done"}
         /\ call'.op \in {"start", "stop"} => call'.radio = call.radio
         /\ call'.op = "start" => call.op = "start"
         /\ mode' = mode /\ faults' \in Nat /\ (faults' = 0 => faults = 0)
         /\ wifi' = "AP_RUNNING" => wifi = "AP_RUNNING" \/ (mode = "AP" /\ call.op = "start")
         /\ \A r \in RadioNames :
              IF r = call.radio
              THEN call.op = "stop" /\ call'.op = "done"
                     /\ (faults' = 0 \/ call' = Done(TRUE)) => (Down(r))'
              ELSE (StateOf(r))' = StateOf(r) /\ (HeldOf(r))' = HeldOf(r)
<1>1. PICK radio \in RadioNames :
        /\ radio = call.radio /\ call.op \in {"start", "stop"}
        /\ call.op = "start" => call \in StartCall(radio)
        /\ call.op = "stop" => call \in StopCall(radio)
  BY CallShapes
  DEF RadioInv, RadioCallStep, Acquire, Started, StartFails, Release, DisconnectFails, StopEnds
<1>2. RadioInv'
  BY AcquireKeeps, StartedKeeps, StartFailsKeeps, ReleaseKeeps, DisconnectFailsKeeps,
     StopEndsKeeps DEF RadioCallStep
<1>3. /\ mode' = mode /\ faults' \in Nat /\ (faults' = 0 => faults = 0)
  <2>1. faults \in Nat
    BY DEF RadioInv, RadioTyped
  <2>2. CASE Acquire \/ Started \/ StopEnds
    BY <2>1, <2>2 DEF Acquire, Started, StopEnds
  <2>3. CASE StartFails
    BY <2>1, <2>3 DEF StartFails, Fault
  <2>5. CASE DisconnectFails
    BY <2>1, <2>5 DEF DisconnectFails, Fault
  <2>4. CASE Release
    BY <2>1, <2>4 DEF Release, Fault
  <2> QED BY <2>2, <2>3, <2>4, <2>5 DEF RadioCallStep
<1>4. /\ call'.op \in {"start", "stop", "done"}
      /\ call'.op \in {"start", "stop"} => call'.radio = radio
      /\ call'.op = "start" => call.op = "start"
      /\ call'.op = "done" /\ call.op = "stop" => StopEnds
  <2>1. CASE Acquire
    BY <2>1, <1>1 DEF Acquire, StartCall
  <2>2. CASE Started \/ StopEnds
    BY <2>2, <1>1 DEF Started, StopEnds, Done
  <2>3. CASE StartFails
    BY <2>3, <1>1 DEF StartFails, EnterStop, Done
  <2>4. CASE Release \/ DisconnectFails
    BY <2>4, <1>1 DEF Release, DisconnectFails, StopCall
  <2> QED BY <2>1, <2>2, <2>3, <2>4 DEF RadioCallStep
<1>5. wifi' = "AP_RUNNING" => wifi = "AP_RUNNING" \/ (mode = "AP" /\ call.op = "start")
  BY DEF RadioCallStep, Acquire, Started, StartFails, Release, DisconnectFails,
     StopEnds, EnterStop, SetState, StateAfter
<1>6. ASSUME NEW r \in RadioNames, r # radio
         PROVE  (StateOf(r))' = StateOf(r) /\ (HeldOf(r))' = HeldOf(r)
  <2>1. CASE Acquire \/ Release
    <3>1. Head(call.left) \in HeldParts(radio)
      <4>1. call.left \in Starts(radio) \cup Stops(radio) /\ call.left # <<>>
        BY <2>1, <1>1 DEF Acquire, Release, StartCall, StopCall
      <4> QED BY <4>1, GoesOn DEF StartGoesOn, StopGoesOn
    <3>2. Head(call.left) \notin HeldParts(r)
      BY <3>1, <1>6, Apart DEF HeldParts
    <3>3. \A x : x # Head(call.left) => (x \in held' <=> x \in held)
      BY <2>1 DEF Acquire, Release
    <3>4. (HeldOf(r))' = HeldOf(r)
      BY <3>2, <3>3, OfRadio
    <3>5. /\ radio = "wifi" => ble' = ble
          /\ radio = "ble" => wifi' = wifi
      BY <2>1, <3>1, <1>1 DEF Acquire, Release, StateAfter, HeldParts, WifiHeld, BleHeld
    <3> QED BY <3>4, <3>5, <1>6, <1>1 DEF StateOf
  <2>2. CASE Started \/ StartFails \/ DisconnectFails \/ StopEnds
    <3>1. held' = held
      BY <2>2 DEF Started, StartFails, DisconnectFails, StopEnds
    <3>2. (StateOf(r))' = StateOf(r)
      BY <2>2, <1>1, <1>6 DEF Started, StartFails, DisconnectFails, StopEnds, EnterStop,
         SetState, StateOf
    <3> QED BY <3>1, <3>2 DEF HeldOf
  <2> QED BY <2>1, <2>2 DEF RadioCallStep
<1>7. call.op = "stop" /\ call'.op = "done" /\ (faults' = 0 \/ call' = Done(TRUE))
        => (Down(radio))'
  BY <1>1, <1>3, <1>4, StopEndsKeeps
<1> QED BY <1>1, <1>2, <1>3, <1>4, <1>5, <1>6, <1>7

(* A stop that is asked of a radio that is down is Done at once; of one    *)
(* that is not, it is under way.                                           *)
LEMMA StopRadioEffects ==
  ASSUME RadioInv, NEW radio \in RadioNames, StopRadio(radio)
  PROVE  /\ UNCHANGED <<mode, held, event, faults>>
         /\ \A r \in RadioNames : (HeldOf(r))' = HeldOf(r)
         /\ \A r \in RadioNames : r # radio => (StateOf(r))' = StateOf(r)
         /\ wifi' \in {wifi, "STOPPING"}
         /\ IF Down(radio)
            THEN call' = Done(TRUE) /\ UNCHANGED <<wifi, ble>>
            ELSE call'.op = "stop" /\ call'.radio = radio
<1>1. /\ UNCHANGED <<mode, held, event, faults>> /\ EnterStop(radio, TRUE)
      /\ \A r \in RadioNames : (HeldOf(r))' = HeldOf(r)
  BY DEF StopRadio, HeldOf
<1>2. CASE Down(radio)
  BY <1>1, <1>2 DEF EnterStop, Down, StateOf
<1>3. CASE ~Down(radio)
  <2> DEFINE order == IF radio = "wifi" THEN WifiStopOrder ELSE BleStopOrder
  <2>1. /\ SetState(radio, "STOPPING")
        /\ call' = [op |-> "stop", radio |-> radio, ok |-> TRUE, prior |-> StateOf(radio),
                    left |-> order]
    BY <1>1, <1>3 DEF EnterStop, Down
  <2> HIDE DEF order
  <2>2. call'.op = "stop" /\ call'.radio = radio
    BY <2>1
  <2>3. /\ wifi' \in {wifi, "STOPPING"}
        /\ \A r \in RadioNames : r # radio => (StateOf(r))' = StateOf(r)
    BY <2>1 DEF SetState, StateOf
  <2> QED BY <1>1, <1>3, <2>2, <2>3
<1> QED BY <1>1, <1>2, <1>3

(* Without a fault a start goes on to its end.                             *)
LEMMA StartSteps ==
  ASSUME RadioInv, RadioCallStep, call.op = "start", faults' = 0
  PROVE  call'.op = "start" \/ call' = Done(TRUE)
<1>1. faults \in Nat
  BY DEF RadioInv, RadioTyped
<1>2. call \in StartCall(call.radio)
  BY CallShapes DEF RadioInv
<1>3. ASSUME StartFails
      PROVE  FALSE
  <2>1. faults' = faults + 1
    BY <1>3 DEF StartFails, Fault
  <2> QED BY <1>1, <2>1
<1>4. CASE Acquire
  BY <1>2, <1>4 DEF Acquire, StartCall
<1>5. CASE Started
  BY <1>5 DEF Started
<1> QED
  BY <1>3, <1>4, <1>5 DEF RadioCallStep, Release, DisconnectFails, StopEnds

(* What a fault alone does to the radios' invariant: it asks for less.     *)
LEMMA RadioQuiet ==
  ASSUME RadioInv, UNCHANGED <<wifi, ble, mode, held, event, call>>,
         faults' \in Nat, faults' = 0 => faults = 0
  PROVE  RadioInv' /\ \A r \in RadioNames : (Down(r))' = Down(r) /\ (Busy(r))' = Busy(r)
<1>1. \A r \in RadioNames : (HeldOf(r))' = HeldOf(r) /\ (StateOf(r))' = StateOf(r)
  BY DEF HeldOf, StateOf
<1>2. RadioTyped' /\ EventHeld'
  BY DEF RadioInv, RadioTyped, EventHeld
<1>3. StatesTruthful' /\ StoppingSound'
  BY <1>1 DEF RadioInv, StatesTruthful, StoppingSound, Busy
<1>4. call.op \in {"start", "stop"} => call.radio \in RadioNames
  BY CallShapes DEF RadioInv
<1>5. StartSound' /\ StopSound'
  BY <1>1, <1>4 DEF RadioInv, StartSound, StopSound
<1> QED BY <1>1, <1>2, <1>3, <1>5 DEF RadioInv, Down, Busy
=============================================================================
