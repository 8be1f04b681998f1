--------------------------- MODULE PackageSession ---------------------------
(***************************************************************************)
(* One package in memory: its image, its callbacks, the host services it   *)
(* calls from them, and the two that run it, the cycle of the watchface    *)
(* and the loop of an app (package_runtime.c, runtime.c, host_caps.c,      *)
(* package_policy.c, idf_runtime.c, watchface_action_policy.c).            *)
(*                                                                         *)
(* All of it happens in the application task under s_package_mutex; only   *)
(* wifi_event of Radios runs beside it.  A callback does what it likes     *)
(* with the host and returns good or bad: bad is an error, a canvas or a   *)
(* mode it may not return, or more time than its budget.  Requests are     *)
(* pumped after a callback, never while the loop waits for a button.  What *)
(* an attempt does to the index is PackageRunner's.                        *)
(***************************************************************************)
EXTENDS Radios

CONSTANTS
  RequestTimeout,  \* WATCHY_PACKAGE_RADIO_REQUEST_TIMEOUT_MS, in ticks
  IdleTimeout,     \* the idle timeout of the app loop, in ticks
  MaxCalls,        \* bound: host calls that the packages make
  MaxPresses,      \* bound: presses that reach the app loop
  MaxRuns          \* bound: packages run one after the other

ASSUME TimeoutsAssumption == RequestTimeout \in Nat \ {0} /\ IdleTimeout \in Nat

VARIABLES
  task,    \* the place of the application task, the runner's operation it is
           \* in, the radio and the callback it goes on with, its status
  sess,    \* s_runner.session
  owner,   \* s_owner is set
  images,  \* images of packages that are mapped
  view,    \* what the package has been told of its life
  active,  \* s_runner.active
  host,    \* s_runner.host
  slots,   \* its network_request and bluetooth_request
  app,     \* the caller: face or app, presses in hand, ticks without one
  used     \* how much of the bounds is used up

sessionVars == <<sess, owner, images, view>>
hostVars == <<host, slots>>
vars == <<radioVars, task, sessionVars, active, hostVars, app, used>>

SlotOf == {"wifi", "ble"}
NoSlot == [op |-> "none", state |-> "none", started |-> FALSE, left |-> 0]
NoHost == [ready |-> FALSE, exit |-> FALSE, refresh |-> FALSE, latch |-> FALSE]
NoSession == [state |-> "EMPTY", open |-> FALSE, poisoned |-> FALSE, loadDone |-> FALSE]

HostCallbacks == {"on_load", "on_start", "on_event", "on_render", "on_stop", "on_unload"}

Away == [at |-> "off", step |-> "none", cur |-> "wifi", ret |-> "off", ok |-> TRUE]
NoApp == [kind |-> "face", pending |-> {}, idle |-> 0, back |-> FALSE]

Init ==
  /\ RadioInit
  /\ task = Away
  /\ sess = NoSession /\ owner = FALSE /\ images = 0 /\ view = "none"
  /\ active = FALSE /\ host = NoHost /\ slots = [r \in SlotOf |-> NoSlot]
  /\ app = NoApp
  /\ used = [calls |-> 0, presses |-> 0, runs |-> 0]

Goto(place) == task' = [task EXCEPT !.at = place]
Operation(step) == task' = [task EXCEPT !.at = "enter", !.step = step, !.ok = TRUE]

-----------------------------------------------------------------------------
(* runner_finish, and the close of a session, which always leads to it.    *)

Finish(ok) == task' = [task EXCEPT !.at = "finish", !.ok = ok]

AfterStop == IF sess.loadDone THEN "on_unload" ELSE "dlclose"

(* close_session_locked, entered with the status of what failed.           *)
Close(callStop, ok) ==
  task' = [task EXCEPT !.ok = ok,
                       !.at = IF callStop /\ sess.state = "STARTED" THEN "on_stop"
                              ELSE AfterStop]

(* Mutant: a start that failed before it was active needs no clean-up.     *)
FinishIfActive ==
  /\ task.at = "finish"
  /\ IF sess.open /\ ~sess.poisoned THEN Close(TRUE, task.ok) /\ UNCHANGED active
     ELSE /\ task' = [task EXCEPT !.at = IF active THEN "deinit" ELSE "return", !.cur = "wifi"]
          /\ UNCHANGED active
  /\ UNCHANGED <<radioVars, sessionVars, hostVars, app, used>>

(* A session that is open is closed first, a poisoned one never again.     *)
FinishStep ==
  /\ task.at = "finish"
  /\ IF sess.open /\ ~sess.poisoned THEN Close(TRUE, task.ok) /\ UNCHANGED active
     ELSE /\ task' = [task EXCEPT !.at = IF host.ready THEN "deinit" ELSE "return",
                                  !.cur = "wifi"]
          /\ active' = (active /\ host.ready)
  /\ UNCHANGED <<radioVars, sessionVars, hostVars, app, used>>

OnStopReturns ==
  /\ task.at = "on_stop"
  /\ \E inTime \in BOOLEAN : task' = [task EXCEPT !.at = AfterStop, !.ok = @ /\ inTime]
  /\ sess' = [sess EXCEPT !.state = "STOPPED"]
  /\ view' = "stopped"
  /\ UNCHANGED <<radioVars, owner, images, active, hostVars, app, used>>

OnUnloadReturns ==
  /\ task.at = "on_unload"
  /\ \E inTime \in BOOLEAN : task' = [task EXCEPT !.at = "dlclose", !.ok = @ /\ inTime]
  /\ sess' = [sess EXCEPT !.loadDone = FALSE]
  /\ view' = "none"
  /\ UNCHANGED <<radioVars, owner, images, active, hostVars, app, used>>

Dlclose ==
  /\ task.at = "dlclose"
  /\ \/ /\ Finish(task.ok)
        /\ sess' = NoSession /\ owner' = FALSE /\ images' = images - 1
        /\ UNCHANGED faults
     \/ /\ Fault
        /\ Finish(FALSE)
        /\ sess' = [sess EXCEPT !.poisoned = TRUE]
        /\ UNCHANGED <<owner, images>>
  /\ UNCHANGED <<wifi, ble, mode, held, event, call, view, active, hostVars, app, used>>

(* watchy_package_host_deinit: both radios are stopped, whatever the first *)
(* one answers, and nothing of the host is kept.                           *)
StopRadios ==
  /\ task.at = "deinit"
  /\ StopRadio(task.cur)
  /\ Goto("deinit_wait")
  /\ UNCHANGED <<sessionVars, active, hostVars, app, used>>

RadiosStopped ==
  /\ task.at = "deinit_wait"
  /\ \E ok \in BOOLEAN : TakeAnswer(ok)
  /\ IF task.cur = "wifi"
     THEN task' = [task EXCEPT !.at = "deinit", !.cur = "ble"] /\ UNCHANGED <<active, hostVars>>
     ELSE /\ task' = [task EXCEPT !.at = "return", !.cur = "wifi"]
          /\ host' = NoHost /\ slots' = [r \in SlotOf |-> NoSlot] /\ active' = FALSE
  /\ UNCHANGED <<wifi, ble, mode, held, event, faults, sessionVars, app, used>>

-----------------------------------------------------------------------------
(* runner_start: the host, the session and the image, then the callbacks.  *)

(* A session that could not be closed keeps every later package out.       *)
Resident == active \/ sess.open

(* An operation takes the watchdog; one that cannot ends the package.      *)
EnterStart ==
  /\ task.at = "enter" /\ task.step = "start"
  /\ \/ /\ task' = [task EXCEPT !.at = IF Resident THEN "return" ELSE "host_init",
                                !.ok = ~Resident]
        /\ UNCHANGED faults
     \/ Fault /\ task' = [task EXCEPT !.at = "return", !.ok = FALSE]
  /\ UNCHANGED <<wifi, ble, mode, held, event, call, sessionVars, active, hostVars,
                 app, used>>

EnterActive ==
  /\ task.at = "enter" /\ task.step # "start"
  /\ \/ /\ task' = [task EXCEPT !.at = CASE task.step = "event" -> "on_event"
                                         [] task.step = "render" -> "on_render"
                                         [] task.step = "stop" -> "finish"]
        /\ UNCHANGED faults
     \/ Fault /\ Finish(FALSE)
  /\ UNCHANGED <<wifi, ble, mode, held, event, call, sessionVars, active, hostVars,
                 app, used>>

(* The manifest, the image's validation or the host's directories fail, or *)
(* the host is ready and the session is initialised.                       *)
HostInit ==
  /\ task.at = "host_init"
  /\ \/ Finish(FALSE) /\ UNCHANGED <<sess, host, slots>>
     \/ /\ host' = [NoHost EXCEPT !.ready = TRUE]
        /\ slots' = [r \in SlotOf |-> NoSlot]
        /\ IF owner THEN Finish(FALSE) /\ UNCHANGED sess
           ELSE Goto("dlopen") /\ sess' = NoSession
  /\ UNCHANGED <<radioVars, owner, images, view, active, app, used>>

Dlopen ==
  /\ task.at = "dlopen"
  /\ \/ Finish(FALSE) /\ UNCHANGED <<sess, owner, images>>
     \/ /\ ~owner
        /\ sess' = [sess EXCEPT !.open = TRUE] /\ owner' = TRUE /\ images' = images + 1
        /\ Goto("entry")
  /\ UNCHANGED <<radioVars, view, active, hostVars, app, used>>

(* The symbol, the entry function and the descriptor it returns.           *)
EntryReturns ==
  /\ task.at = "entry"
  /\ Goto("on_load") \/ Close(FALSE, FALSE)
  /\ UNCHANGED <<radioVars, sessionVars, active, hostVars, app, used>>

(* Mutant: the early on_unload does not forget that on_load succeeded.     *)
OnLoadKept ==
  /\ task.at = "on_load"
  /\ \E ok, inTime, data \in BOOLEAN :
       /\ view' = IF ok \/ data THEN "loaded" ELSE "none"
       /\ IF ok /\ inTime
          THEN Goto("on_start") /\ sess' = [sess EXCEPT !.state = "LOADED", !.loadDone = TRUE]
          ELSE /\ sess' = [sess EXCEPT !.loadDone = ok]
               /\ task' = [task EXCEPT !.at = IF data THEN "unload_early"
                                              ELSE IF ok THEN "on_unload" ELSE "dlclose",
                                       !.ok = FALSE]
  /\ UNCHANGED <<radioVars, owner, images, active, hostVars, app, used>>

(* on_load may fail and yet leave user data, which on_unload is given then *)
(* and there; one that succeeds too late is unloaded either way.           *)
OnLoadReturns ==
  /\ task.at = "on_load"
  /\ \E ok, inTime, data \in BOOLEAN :
       /\ view' = IF ok \/ data THEN "loaded" ELSE "none"
       /\ IF ok /\ inTime
          THEN Goto("on_start") /\ sess' = [sess EXCEPT !.state = "LOADED", !.loadDone = TRUE]
          ELSE /\ sess' = [sess EXCEPT !.loadDone = ok /\ ~data]
               /\ task' = [task EXCEPT !.at = IF data THEN "unload_early"
                                              ELSE IF ok THEN "on_unload" ELSE "dlclose",
                                       !.ok = FALSE]
  /\ UNCHANGED <<radioVars, owner, images, active, hostVars, app, used>>

UnloadEarlyReturns ==
  /\ task.at = "unload_early"
  /\ Goto(AfterStop)
  /\ view' = "none"
  /\ UNCHANGED <<radioVars, sess, owner, images, active, hostVars, app, used>>

OnStartReturns ==
  /\ task.at = "on_start"
  /\ \/ /\ sess' = [sess EXCEPT !.state = "STARTED"] /\ view' = "started"
        /\ active' = TRUE
        /\ task' = [task EXCEPT !.at = "pump", !.cur = "wifi"]
     \/ Close(FALSE, FALSE) /\ UNCHANGED <<sess, view, active>>
  /\ UNCHANGED <<radioVars, owner, images, hostVars, app, used>>

-----------------------------------------------------------------------------
(* runner_event, runner_render and the presentation of the frame.          *)

OnEventReturns ==
  /\ task.at = "on_event"
  /\ task' = [task EXCEPT !.at = "pump", !.cur = "wifi"] \/ Close(TRUE, FALSE)
  /\ UNCHANGED <<radioVars, sessionVars, active, hostVars, app, used>>

OnRenderReturns ==
  /\ task.at = "on_render"
  /\ Goto("present") \/ Close(TRUE, FALSE)
  /\ UNCHANGED <<radioVars, sessionVars, active, hostVars, app, used>>

(* A press that cancels a presentation is kept for the loop to take.       *)
Presented(outcome, mask) ==
  app' = [app EXCEPT !.pending = IF outcome = "cancelled" THEN @ \cup mask ELSE @]

Mask == {{"MENU"}, {"BACK"}}
Press(mask) ==
  /\ used.presses < MaxPresses
  /\ used' = [used EXCEPT !.presses = @ + 1]

Outcome(outcome, mask) ==
  /\ IF outcome = "cancelled" THEN Press(mask) ELSE UNCHANGED used
  /\ IF outcome = "failed" THEN Fault ELSE UNCHANGED faults
  /\ Presented(outcome, mask)

Present ==
  /\ task.at = "present"
  /\ host' = [host EXCEPT !.latch = FALSE]
  /\ \E outcome \in {"shown", "cancelled", "failed"}, mask \in Mask :
       /\ Outcome(outcome, mask)
       /\ IF outcome = "failed" THEN Finish(FALSE)
          ELSE task' = [task EXCEPT !.at = "pump", !.cur = "wifi"]
  /\ UNCHANGED <<wifi, ble, mode, held, event, call, sessionVars, active, slots>>

(* runner_post_callback after the pump: a refresh that was asked for, then *)
(* an exit.                                                                *)
Post ==
  /\ task.at = "post"
  /\ host' = [host EXCEPT !.refresh = FALSE, !.exit = FALSE]
  /\ \E outcome \in IF host.refresh THEN {"shown", "cancelled", "failed"} ELSE {"none"},
        mask \in Mask :
       /\ Outcome(outcome, mask)
       /\ IF outcome = "failed" THEN Finish(FALSE)
          ELSE IF host.exit THEN Finish(TRUE) ELSE Goto("return")
  /\ UNCHANGED <<wifi, ble, mode, held, event, call, sessionVars, active, slots>>

-----------------------------------------------------------------------------
(* What a callback may ask of the host.                                    *)

Calls == /\ task.at \in HostCallbacks \cup {"unload_early"}
         /\ used.calls < MaxCalls
         /\ used' = [used EXCEPT !.calls = @ + 1]

Ask ==
  /\ Calls
  /\ \/ host' = [host EXCEPT !.exit = TRUE]
     \/ host' = [host EXCEPT !.refresh = TRUE]
     \/ ~host.latch /\ host' = [host EXCEPT !.latch = TRUE]
  /\ UNCHANGED <<radioVars, task, sessionVars, active, slots, app>>

Request(r, op) ==
  /\ Calls
  /\ slots[r] = NoSlot
  /\ slots' = [slots EXCEPT ![r] = [NoSlot EXCEPT !.op = op, !.state = "PENDING"]]
  /\ UNCHANGED <<radioVars, task, sessionVars, active, host, app>>

(* The answer frees the slot; an id that is not the slot's is refused.     *)
Status(r) ==
  /\ Calls
  /\ slots[r].state \notin {"none", "PENDING"}
  /\ slots' = [slots EXCEPT ![r] = NoSlot]
  /\ UNCHANGED <<radioVars, task, sessionVars, active, host, app>>

(* A request that has started is rolled back: its radio is stopped.        *)
Cancel(r) ==
  /\ Calls
  /\ slots[r].state = "PENDING"
  /\ IF slots[r].started
     THEN /\ StopRadio(r)
          /\ task' = [task EXCEPT !.at = "cancel_wait", !.cur = r, !.ret = task.at]
          /\ UNCHANGED slots
     ELSE /\ slots' = [slots EXCEPT ![r].state = "CANCELLED"]
          /\ UNCHANGED <<radioVars, task>>
  /\ UNCHANGED <<sessionVars, active, host, app>>

Cancelled ==
  /\ task.at = "cancel_wait"
  /\ \E ok \in BOOLEAN :
       /\ TakeAnswer(ok)
       /\ slots' = [slots EXCEPT ![task.cur].state = IF ok THEN "CANCELLED" ELSE "FAILED"]
  /\ task' = [task EXCEPT !.at = task.ret, !.ret = "off", !.cur = "wifi"]
  /\ UNCHANGED <<wifi, ble, mode, held, event, faults, sessionVars, active, host, app, used>>

-----------------------------------------------------------------------------
(* watchy_package_host_pump: the network's slot, then Bluetooth's.         *)

Slot == slots[task.cur]
Pumped == task' = IF task.cur = "wifi" THEN [task EXCEPT !.cur = "ble", !.at = "pump"]
                  ELSE [task EXCEPT !.at = "post", !.cur = "wifi"]
Answered(s) == slots' = [slots EXCEPT ![task.cur].state = s]

PumpIdle ==
  /\ task.at = "pump"
  /\ IF Slot.state # "PENDING" THEN Pumped ELSE Slot.started /\ Goto("observe")
  /\ UNCHANGED <<radioVars, sessionVars, active, hostVars, app, used>>

(* No credentials are stored: the network is not even tried.               *)
NoCredentials ==
  /\ call = NoRadioCall /\ call' = Done(FALSE)
  /\ UNCHANGED <<wifi, ble, mode, held, event, faults>>

Execute ==
  /\ task.at = "pump" /\ Slot.state = "PENDING" /\ ~Slot.started
  /\ slots' = [slots EXCEPT ![task.cur].started = TRUE,
                            ![task.cur].left = RequestTimeout]
  /\ Goto("execute_wait")
  /\ IF Slot.op = "off" THEN StopRadio(task.cur)
     ELSE IF task.cur = "ble" THEN StartBle
     ELSE StartWifi("STA") \/ NoCredentials
  /\ UNCHANGED <<sessionVars, active, host, app, used>>

Executed ==
  /\ task.at = "execute_wait"
  /\ \E ok \in BOOLEAN : TakeAnswer(ok) /\ Goto(IF ok THEN "observe" ELSE "rollback")
  /\ UNCHANGED <<wifi, ble, mode, held, event, faults, sessionVars, active, hostVars,
                 app, used>>

Observed(r, op) ==
  CASE op = "off" -> IF StateOf(r) = "STOPPED" THEN "SUCCEEDED" ELSE "PENDING"
    [] StateOf(r) \in {"STA_CONNECTED", "HOST_RUNNING"} -> "SUCCEEDED"
    [] StateOf(r) \in {"STOPPED", "AP_RUNNING", "STOPPING"} -> "FAILED"
    [] OTHER -> "PENDING"

(* Mutant: a request past its deadline fails, and its radio stays on.      *)
ObserveOnly ==
  /\ task.at = "observe"
  /\ LET seen == Observed(task.cur, Slot.op)
     IN  IF seen = "PENDING" /\ Slot.left > 0 THEN Pumped /\ UNCHANGED slots
         ELSE Answered(IF seen = "PENDING" THEN "FAILED" ELSE seen) /\ Pumped
  /\ UNCHANGED <<radioVars, sessionVars, active, host, app, used>>

Observe ==
  /\ task.at = "observe"
  /\ LET seen == Observed(task.cur, Slot.op)
     IN  IF seen # "PENDING" THEN Answered(seen) /\ Pumped
         ELSE /\ UNCHANGED slots
              /\ IF Slot.left = 0 THEN Goto("rollback") ELSE Pumped
  /\ UNCHANGED <<radioVars, sessionVars, active, host, app, used>>

Rollback ==
  /\ task.at = "rollback"
  /\ StopRadio(task.cur)
  /\ Goto("rollback_wait")
  /\ UNCHANGED <<sessionVars, active, hostVars, app, used>>

RolledBack ==
  /\ task.at = "rollback_wait"
  /\ \E ok \in BOOLEAN : TakeAnswer(ok)
  /\ Answered("FAILED") /\ Pumped
  /\ UNCHANGED <<wifi, ble, mode, held, event, faults, sessionVars, active, host, app, used>>

-----------------------------------------------------------------------------
(* The callers: the cycle of the watchface and the loop of an app.         *)

Run(kind) ==
  /\ task.at = "off" /\ used.runs < MaxRuns
  /\ Operation("start")
  /\ used' = [used EXCEPT !.runs = @ + 1]
  /\ app' = [NoApp EXCEPT !.kind = kind]
  /\ UNCHANGED <<radioVars, sessionVars, active, hostVars>>

(* Back that leaves the package active is a stop.                          *)
Falls == task.step = "render" /\ app.back

(* What the caller does with the answer of an operation.                   *)
Wants ==
  CASE ~active -> "off"
    [] active /\ task.ok /\ task.step \in {"start", "event"} -> "render"
    [] active /\ task.ok /\ app.kind = "app" /\ ~Falls -> "wait"
    [] OTHER -> "stop"

Return ==
  /\ task.at = "return"
  /\ CASE Wants = "off" -> task' = Away
       [] Wants = "wait" -> Goto("wait")
       [] OTHER -> Operation(Wants)
  /\ UNCHANGED <<radioVars, sessionVars, active, hostVars, app, used>>

(* The button of a mask: Menu before Back, the others first of neither.    *)
ButtonFrom(mask) == IF "MENU" \in mask THEN "MENU" ELSE "BACK"

IdleOver == app.idle >= IdleTimeout

(* A press in hand when the app has been idle too long goes to the shell;  *)
(* otherwise it is dispatched as one button.                               *)
Handles(pressed) ==
  IF IdleOver THEN Operation("stop") /\ app' = [app EXCEPT !.pending = pressed]
  ELSE /\ Operation("event")
       /\ app' = [app EXCEPT !.pending = {}, !.idle = 0,
                             !.back = ButtonFrom(pressed) = "BACK"]

TakePending ==
  /\ task.at = "wait" /\ app.pending # {}
  /\ Handles(app.pending)
  /\ UNCHANGED <<radioVars, sessionVars, active, hostVars, used>>

TakePress(mask) ==
  /\ task.at = "wait" /\ app.pending = {} /\ Press(mask)
  /\ Handles(mask)
  /\ UNCHANGED <<radioVars, sessionVars, active, hostVars>>

(* Mutant: the idle timeout is looked at only when a press comes.          *)
GiveUpOnOverflow ==
  /\ task.at = "wait" /\ app.pending = {} /\ Fault
  /\ Operation("stop")
  /\ UNCHANGED <<wifi, ble, mode, held, event, call, sessionVars, active, hostVars,
                 app, used>>

(* No press: the idle timeout, or a queue that has overflowed.             *)
GiveUp ==
  /\ task.at = "wait" /\ app.pending = {}
  /\ Operation("stop")
  /\ \/ IdleOver /\ UNCHANGED faults
     \/ ~IdleOver /\ Fault
  /\ UNCHANGED <<wifi, ble, mode, held, event, call, sessionVars, active, hostVars,
                 app, used>>

(* Time passes in the loop; a callback is short beside a tick.             *)
Tick ==
  /\ task.at = "wait"
  /\ app' = [app EXCEPT !.idle = IF IdleOver THEN @ ELSE @ + 1]
  /\ slots' = [r \in SlotOf |-> [slots[r] EXCEPT !.left = IF @ = 0 THEN 0 ELSE @ - 1]]
  /\ UNCHANGED <<radioVars, task, sessionVars, active, host, used>>

-----------------------------------------------------------------------------
RadioStep ==
  /\ RadioCallStep \/ WifiEvent
  /\ UNCHANGED <<task, sessionVars, active, hostVars, app, used>>

HostCall ==
  \/ Ask
  \/ \E r \in SlotOf : Status(r) \/ Cancel(r) \/ \E op \in {"on", "off"} : Request(r, op)

CallbackReturns ==
  \/ EntryReturns \/ OnLoadReturns \/ UnloadEarlyReturns \/ OnStartReturns
  \/ OnEventReturns \/ OnRenderReturns \/ OnStopReturns \/ OnUnloadReturns

TaskStep ==
  \/ FinishStep \/ Dlclose \/ StopRadios \/ RadiosStopped
  \/ EnterStart \/ EnterActive \/ HostInit \/ Dlopen \/ Present \/ Post \/ Cancelled
  \/ PumpIdle \/ Execute \/ Executed \/ Observe \/ Rollback \/ RolledBack
  \/ Return \/ TakePending \/ GiveUp \/ CallbackReturns

Next ==
  \/ TaskStep \/ HostCall \/ RadioStep \/ Tick
  \/ \E kind \in {"face", "app"} : Run(kind)
  \/ \E mask \in Mask : TakePress(mask)

Spec == Init /\ [][Next]_vars

(* A callback returns or the watchdog resets the watch; the event loop     *)
(* takes its turn; the clock runs.                                         *)
FairSpec ==
  /\ Spec
  /\ WF_vars(TaskStep \/ Tick)
  /\ WF_vars(RadioStep /\ EventWrites) /\ SF_vars(RadioStep /\ RadioCallStep)

-----------------------------------------------------------------------------
(* A package is told its life in order and to the end, whichever of its    *)
(* callbacks fails: on_stop only if it was started, on_unload once for an  *)
(* on_load that succeeded or left data, and both before the image goes.    *)
LifecyclePaired ==
  /\ task.at = "on_stop" => view = "started"
  /\ task.at \in {"on_unload", "unload_early"} => view \in {"loaded", "stopped"}
  /\ task.at = "dlclose" => view = "none"
  /\ task.at \in HostCallbacks => images = 1 /\ ~sess.poisoned

(* When the runner comes back to its caller nothing of the package is left *)
(* in the host, its requests or the radios, however it ended; what may be  *)
(* left is an image that cannot be unmapped, and what failed to stop.      *)
NothingResident ==
  task.at = "off" =>
    /\ ~active /\ host = NoHost /\ \A r \in SlotOf : slots[r] = NoSlot
    /\ sess.open => sess.poisoned
    /\ faults = 0 => held = {} /\ wifi = "STOPPED" /\ ble = "STOPPED"

(* A start that the package is told has failed, or that it has cancelled,  *)
(* has left its radio down, if every step of the stop succeeded.           *)
EndedMeansOff ==
  \A r \in SlotOf :
    /\ slots[r].op = "on" /\ slots[r].started /\ faults = 0
    /\ slots[r].state \in {"FAILED", "CANCELLED"}
    => StateOf(r) = "STOPPED" /\ HeldOf(r) = {}

(* A package that is run comes back, however its callbacks and radios      *)
(* behave, once the wearer leaves it alone.                                *)
ComesBack == task.at # "off" ~> task.at = "off"

=============================================================================
