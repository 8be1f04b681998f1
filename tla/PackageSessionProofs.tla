------------------------- MODULE PackageSessionProofs -------------------------
(***************************************************************************)
(* Proofs about one package in memory, for every timeout and every bound.  *)
(*                                                                         *)
(* The three properties lean on each other.  Where the task is says what   *)
(* the package has been told and what of it is mapped (InRun, InLoad,      *)
(* OutOfRun); what is mapped says whether the host is ready (HostSound);   *)
(* and whether the radios are down when the host goes is known only from   *)
(* the call the task waits for (CallSound, StopsDone), by the invariant of *)
(* Radios.                                                                 *)
(***************************************************************************)
EXTENDS PackageSession, RadiosProofs

Callbacks == HostCallbacks \cup {"unload_early"}
RequestPlaces == {"observe", "execute_wait", "rollback", "rollback_wait"}
Running == {"pump", "on_event", "on_render", "present", "post", "wait", "on_stop"}
             \cup RequestPlaces
Waits == {"deinit_wait", "cancel_wait", "execute_wait", "rollback_wait"}
Places == {"off", "enter", "host_init", "dlopen", "entry", "dlclose", "finish", "deinit",
           "return"} \cup Callbacks \cup Running \cup Waits
SlotStates == {"none", "PENDING", "SUCCEEDED", "FAILED", "CANCELLED"}

(* The place a task that waits for a cancelled request comes back to.      *)
Place == IF task.at = "cancel_wait" THEN task.ret ELSE task.at

Gone == sess.open => sess.poisoned

Steps == {"none", "start", "event", "render", "stop"}
TaskType ==
  [at : Places, step : Steps, cur : SlotOf, ret : {"off"} \cup Callbacks, ok : BOOLEAN]

TaskTyped ==
  /\ task \in TaskType
  /\ task.at = "enter" => task.step # "none"
  /\ task.at = "cancel_wait" => task.ret \in Callbacks

SlotType ==
  [op : {"none", "on", "off"}, state : SlotStates, started : BOOLEAN, left : Nat]
HostType == [ready : BOOLEAN, exit : BOOLEAN, refresh : BOOLEAN, latch : BOOLEAN]
SessType ==
  [state : {"EMPTY", "LOADED", "STARTED", "STOPPED"}, open : BOOLEAN, poisoned : BOOLEAN,
   loadDone : BOOLEAN]

SessionTyped ==
  /\ sess \in SessType
  /\ view \in {"none", "loaded", "started", "stopped"}
  /\ active \in BOOLEAN
  /\ host \in HostType
  /\ slots \in [SlotOf -> SlotType]

(* An image is mapped exactly while its session is open.                   *)
ImageSound ==
  /\ owner = sess.open
  /\ images = (IF sess.open THEN 1 ELSE 0)
  /\ ~sess.open => sess = NoSession
  /\ Gone => view = "none"

(* A package that runs has been told so, and nothing else.                 *)
Runs ==
  \/ Place \in Running
  \/ Place = "enter" /\ task.step # "start"
  \/ Place = "return" /\ active
  \/ Place = "finish" /\ ~Gone

InRun ==
  Runs => /\ ~Gone /\ sess.state = "STARTED" /\ sess.loadDone /\ view = "started"
          /\ active /\ host.ready

(* A package on its way in or out.                                         *)
InLoad ==
  /\ Place \in {"entry", "on_load", "unload_early", "on_start", "on_unload", "dlclose"} =>
       ~Gone /\ host.ready /\ sess.state # "STARTED"
  /\ Place \in {"entry", "on_load"} => ~sess.loadDone /\ view = "none"
  /\ Place = "unload_early" => ~sess.loadDone /\ view = "loaded"
  /\ Place = "on_start" => sess.loadDone /\ view = "loaded"
  /\ Place = "on_unload" => sess.loadDone /\ view \in {"loaded", "stopped"}
  /\ Place = "dlclose" => ~sess.loadDone /\ view = "none"

OutOfRun ==
  /\ Place \in {"host_init", "dlopen"} => ~sess.open
  /\ Place \in {"dlopen", "deinit", "deinit_wait"} => host.ready
  /\ \/ Place \in {"off", "host_init"}
     \/ Place = "enter" /\ task.step = "start"
     \/ Place = "return" /\ ~active
     => ~host.ready /\ ~active
  /\ Place \in {"off", "deinit", "deinit_wait", "return", "enter"} => Gone \/ Runs

(* A host that is not ready keeps nothing, and has left the radios down.   *)
HostSound ==
  ~host.ready =>
    /\ host = NoHost /\ slots = [r \in SlotOf |-> NoSlot]
    /\ faults = 0 => Down("wifi") /\ Down("ble")

(* The task is at a place of its own while a call is under way, and only   *)
(* to execute a request starts a radio.                                    *)
CallSound ==
  /\ call.op # "none" => task.at \in Waits
  /\ call.op \in {"start", "stop"} => call.radio = task.cur
  /\ call.op = "start" => task.at = "execute_wait"
  /\ task.at \in RequestPlaces \cup {"cancel_wait"} =>
       slots[task.cur].state = "PENDING" /\ slots[task.cur].started

(* The network of a package is a station, never an access point.           *)
StationOnly ==
  /\ wifi # "AP_RUNNING"
  /\ call.op = "start" /\ call.radio = "wifi" => mode = "STA"

StopsDone ==
  faults = 0 =>
    /\ task.at \in {"deinit_wait", "rollback_wait", "cancel_wait"} /\ call.op = "done" =>
         Down(task.cur)
    /\ task.at \in {"deinit", "deinit_wait"} /\ task.cur = "ble" => Down("wifi")

Ended(r) ==
  slots[r].op = "on" /\ slots[r].started /\ slots[r].state \in {"FAILED", "CANCELLED"}

EndedDown == \A r \in SlotOf : Ended(r) /\ faults = 0 => Down(r) /\ ~Busy(r)

(* The package and its place; the radios and what waits for them.          *)
Life == SessionTyped /\ ImageSound /\ InRun /\ InLoad /\ OutOfRun
RadioParts == RadioInv /\ HostSound /\ CallSound /\ StationOnly /\ StopsDone /\ EndedDown
SessionInv == TaskTyped /\ Life /\ RadioParts

USE DEF SlotOf, RadioNames, sessionVars, hostVars, radioVars, RadioParts
-----------------------------------------------------------------------------
(* A step of the task between the calls of the radios.                     *)
LEMMA QuietKeeps ==
  ASSUME SessionInv, UNCHANGED <<wifi, ble, mode, held, event, call>>,
         faults' \in {faults, faults + 1},
         task.at \notin Waits, task'.at # "deinit_wait",
         task'.at = "deinit" => task'.cur = "wifi",
         \A r \in SlotOf :
           (Ended(r))' /\ faults' = 0 => Ended(r) \/ (Down(r) /\ ~Busy(r)),
         ~host'.ready => ~host.ready /\ UNCHANGED <<host, slots>>,
         task'.at \in RequestPlaces \cup {"cancel_wait"} =>
           slots'[task'.cur].state = "PENDING" /\ slots'[task'.cur].started
  PROVE  RadioParts'
<1> USE DEF SessionInv
<1>1. faults \in Nat /\ faults' \in Nat /\ (faults' = 0 => faults = 0)
  BY DEF RadioInv, RadioTyped
<1>2. RadioInv' /\ \A r \in RadioNames : (Down(r))' = Down(r) /\ (Busy(r))' = Busy(r)
  BY <1>1, RadioQuiet
<1>3. call.op = "none" /\ call' = call
  BY DEF CallSound, RadioInv, RadioTyped, NoRadioCall, Done, StartCall, StopCall
<1>4. HostSound'
  BY <1>1, <1>2 DEF HostSound
<1>5. CallSound' /\ StationOnly' /\ StopsDone'
  BY <1>1, <1>3 DEF CallSound, StationOnly, StopsDone
<1>6. EndedDown'
  BY <1>1, <1>2 DEF EndedDown
<1> QED BY <1>2, <1>4, <1>5, <1>6

-----------------------------------------------------------------------------
(* Where the task is after a change of some of its fields.                 *)
TaskAt(p, st, c, r, o) == [at : {p}, step : {st}, cur : {c}, ret : {r}, ok : {o}]

LEMMA TaskChanges ==
  ASSUME task \in TaskType, NEW p, NEW st, NEW c, NEW r, NEW o
  PROVE  /\ [task EXCEPT !.at = p] \in TaskAt(p, task.step, task.cur, task.ret, task.ok)
         /\ [task EXCEPT !.at = p, !.ok = o] \in TaskAt(p, task.step, task.cur, task.ret, o)
         /\ [task EXCEPT !.ok = o, !.at = p] \in TaskAt(p, task.step, task.cur, task.ret, o)
         /\ [task EXCEPT !.at = p, !.cur = c] \in TaskAt(p, task.step, c, task.ret, task.ok)
         /\ [task EXCEPT !.cur = c, !.at = p] \in TaskAt(p, task.step, c, task.ret, task.ok)
         /\ [task EXCEPT !.at = p, !.step = st, !.ok = o] \in TaskAt(p, st, task.cur, task.ret, o)
         /\ [task EXCEPT !.at = p, !.cur = c, !.ret = r] \in TaskAt(p, task.step, c, r, task.ok)
         /\ [task EXCEPT !.at = p, !.ret = r, !.cur = c] \in TaskAt(p, task.step, c, r, task.ok)
BY DEF TaskType, TaskAt

(* A move that keeps all but the place and the status.                     *)
Whole(t) == t \in TaskAt(t.at, t.step, t.cur, t.ret, t.ok)

TaskKept ==
  /\ Whole(task') /\ task'.ok \in BOOLEAN
  /\ task'.step = task.step /\ task'.cur = task.cur /\ task'.ret = task.ret

LEMMA TaskFields ==
  ASSUME NEW t, NEW p, NEW st, NEW c, NEW r, NEW o, t \in TaskAt(p, st, c, r, o)
  PROVE  /\ t.at = p /\ t.step = st /\ t.cur = c /\ t.ret = r /\ t.ok = o
         /\ Whole(t)
BY DEF TaskAt, Whole

LEMMA TaskIs ==
  ASSUME TaskTyped
  PROVE  /\ task \in TaskType /\ task.at \in Places /\ task.step \in Steps
         /\ task.cur \in SlotOf /\ task.ret \in {"off"} \cup Callbacks /\ task.ok \in BOOLEAN
BY DEF TaskTyped, TaskType

LEMMA TaskStays ==
  ASSUME Whole(task'), task'.at \in Places, task'.step \in Steps, task'.cur \in SlotOf,
         task'.ret \in {"off"} \cup Callbacks, task'.ok \in BOOLEAN,
         task'.at = "enter" => task'.step # "none",
         task'.at = "cancel_wait" => task'.ret \in Callbacks
  PROVE  TaskTyped'
BY DEF Whole, TaskAt, TaskTyped, TaskType

LEMMA KeptTyped ==
  ASSUME TaskTyped, TaskKept, task'.at \in Places \ {"enter", "cancel_wait"}
  PROVE  TaskTyped'
BY TaskStays, TaskIs DEF TaskKept

ClosedAt(callStop) == IF callStop /\ sess.state = "STARTED" THEN "on_stop" ELSE AfterStop

LEMMA TaskMoves ==
  ASSUME TaskTyped
  PROVE  /\ \A p : Goto(p) => TaskKept /\ task'.at = p
         /\ \A o \in BOOLEAN : Finish(o) => TaskKept /\ task'.at = "finish"
         /\ \A b, o \in BOOLEAN : Close(b, o) => TaskKept /\ task'.at = ClosedAt(b)
         /\ \A p : \A o \in BOOLEAN :
              task' = [task EXCEPT !.at = p, !.ok = o] => TaskKept /\ task'.at = p
         /\ \A p, c : task' = [task EXCEPT !.at = p, !.cur = c] =>
              /\ Whole(task') /\ task'.at = p /\ task'.cur = c /\ task'.step = task.step
              /\ task'.ret = task.ret /\ task'.ok = task.ok
         /\ \A p, c : task' = [task EXCEPT !.cur = c, !.at = p] =>
              /\ Whole(task') /\ task'.at = p /\ task'.cur = c /\ task'.step = task.step
              /\ task'.ret = task.ret /\ task'.ok = task.ok
         /\ \A st : Operation(st) =>
              /\ Whole(task') /\ task'.at = "enter" /\ task'.cur = task.cur
              /\ task'.step = st /\ task'.ret = task.ret /\ task'.ok = TRUE
<1>0. task \in TaskType /\ task.ok \in BOOLEAN
  BY TaskIs
<1>1. ASSUME NEW p, Goto(p) PROVE TaskKept /\ task'.at = p
  <2>1. task' \in TaskAt(p, task.step, task.cur, task.ret, task.ok)
    BY <1>0, <1>1, TaskChanges DEF Goto
  <2> QED BY <2>1, <1>0, TaskFields DEF TaskKept
<1>2. ASSUME NEW p, NEW o \in BOOLEAN,
             \/ task' = [task EXCEPT !.at = p, !.ok = o]
             \/ task' = [task EXCEPT !.ok = o, !.at = p]
      PROVE  TaskKept /\ task'.at = p
  <2>1. task' \in TaskAt(p, task.step, task.cur, task.ret, o)
    BY <1>0, <1>2, TaskChanges
  <2> QED BY <2>1, TaskFields DEF TaskKept
<1>3. ASSUME NEW o \in BOOLEAN, Finish(o) PROVE TaskKept /\ task'.at = "finish"
  BY <1>2, <1>3 DEF Finish
<1>4. ASSUME NEW b, NEW o \in BOOLEAN, Close(b, o) PROVE TaskKept /\ task'.at = ClosedAt(b)
  BY <1>2, <1>4 DEF Close, ClosedAt
<1>5. ASSUME NEW p, NEW c,
             \/ task' = [task EXCEPT !.at = p, !.cur = c]
             \/ task' = [task EXCEPT !.cur = c, !.at = p]
      PROVE  /\ Whole(task') /\ task'.at = p /\ task'.cur = c /\ task'.step = task.step
             /\ task'.ret = task.ret /\ task'.ok = task.ok
  <2>1. task' \in TaskAt(p, task.step, c, task.ret, task.ok)
    BY <1>0, <1>5, TaskChanges
  <2> QED BY <2>1, TaskFields
<1>6. ASSUME NEW st, Operation(st)
      PROVE  /\ Whole(task') /\ task'.at = "enter" /\ task'.cur = task.cur
             /\ task'.step = st /\ task'.ret = task.ret /\ task'.ok = TRUE
  <2>1. task' \in TaskAt("enter", st, task.cur, task.ret, TRUE)
    BY <1>0, <1>6, TaskChanges DEF Operation
  <2> QED BY <2>1 DEF TaskAt, Whole
<1> QED BY <1>1, <1>2, <1>3, <1>4, <1>5, <1>6

LEMMA TaskInTime ==
  ASSUME TaskTyped, NEW p, NEW t \in BOOLEAN,
         task' = [task EXCEPT !.at = p, !.ok = @ /\ t]
  PROVE  TaskKept /\ task'.at = p
<1> DEFINE o == task.ok /\ t
<1>1. o \in BOOLEAN
  OBVIOUS
<1>2. task' = [task EXCEPT !.at = p, !.ok = o]
  BY TaskIs
<1> HIDE DEF o
<1> QED BY <1>1, <1>2, TaskMoves

(* From here on a state is one of the invariant.                           *)
USE DEF SessionInv, Life, SlotType, HostType, SessType, SessionTyped, ImageSound, InRun,
        InLoad, OutOfRun, Runs, Place, Gone, Running, RequestPlaces

LEMMA QuietLife ==
  ASSUME SessionInv, UNCHANGED <<wifi, ble, mode, held, event, call, host, slots>>,
         faults' \in {faults, faults + 1},
         task.at \notin Waits,
         task'.at = "deinit" => task'.cur = "wifi",
         task'.at \notin {"deinit_wait", "execute_wait", "rollback", "rollback_wait",
                          "cancel_wait", "observe"}
  PROVE  RadioParts'
<1>1. \A r \in SlotOf : (Ended(r))' => Ended(r)
  BY DEF Ended
<1> QED BY <1>1, QuietKeeps

-----------------------------------------------------------------------------
(* The end of a package.                                                   *)
LEMMA FinishStepKeeps ==
  ASSUME SessionInv, FinishStep
  PROVE  SessionInv'
<1>1. /\ Whole(task') /\ task'.ok \in BOOLEAN /\ task'.cur \in SlotOf
      /\ task'.step = task.step /\ task'.ret = task.ret
      /\ task'.at \in {"on_stop", "on_unload", "dlclose", "deinit", "return"}
      /\ task'.at = "deinit" => task'.cur = "wifi"
      /\ task'.at = IF ~Gone THEN IF sess.state = "STARTED" THEN "on_stop" ELSE AfterStop
                    ELSE IF host.ready THEN "deinit" ELSE "return"
  <2>1. CASE ~Gone
    <3>1. Close(TRUE, task.ok)
      BY <2>1 DEF FinishStep
    <3> QED BY <2>1, <3>1, TaskMoves, TaskIs DEF ClosedAt, AfterStop, TaskKept
  <2>2. CASE Gone
    <3> DEFINE p == IF host.ready THEN "deinit" ELSE "return"
    <3>1. task' = [task EXCEPT !.at = p, !.cur = "wifi"]
      BY <2>2 DEF FinishStep
    <3> HIDE DEF p
    <3>2. /\ Whole(task') /\ task'.at = p /\ task'.cur = "wifi" /\ task'.step = task.step
          /\ task'.ret = task.ret /\ task'.ok = task.ok
      BY <3>1, TaskMoves
    <3> QED BY <2>2, <3>2, TaskIs DEF p
  <2> QED BY <2>1, <2>2
<1>2. TaskTyped'
  BY <1>1, TaskIs, TaskStays DEF Places, Callbacks, HostCallbacks
<1> USE <1>1 DEF FinishStep, AfterStop
<1>3. Life'
  <2>1. SessionTyped' /\ ImageSound'
    OBVIOUS
  <2>2. InRun' /\ InLoad'
    OBVIOUS
  <2>3. OutOfRun'
    OBVIOUS
  <2> QED BY <2>1, <2>2, <2>3
<1>4. RadioParts'
  BY QuietLife DEF Waits, Fault
<1> QED BY <1>2, <1>3, <1>4

LEMMA OnStopReturnsKeeps ==
  ASSUME SessionInv, OnStopReturns
  PROVE  SessionInv'
<1>1. TaskKept /\ task'.at \in {"on_unload", "dlclose"}
      /\ task'.at = AfterStop
  <2>1. PICK t \in BOOLEAN : task' = [task EXCEPT !.at = AfterStop, !.ok = @ /\ t]
    BY DEF OnStopReturns
  <2> QED BY <2>1, TaskInTime DEF AfterStop
<1>2. TaskTyped'
  BY <1>1, KeptTyped DEF Places, Callbacks, HostCallbacks
<1> USE <1>1 DEF TaskKept, OnStopReturns, AfterStop
<1>3. Life'
  OBVIOUS
<1>4. RadioParts'
  BY QuietLife DEF Waits, Fault
<1> QED BY <1>2, <1>3, <1>4

LEMMA OnUnloadReturnsKeeps ==
  ASSUME SessionInv, OnUnloadReturns
  PROVE  SessionInv'
<1>1. TaskKept /\ task'.at = "dlclose"
  <2>1. PICK t \in BOOLEAN : task' = [task EXCEPT !.at = "dlclose", !.ok = @ /\ t]
    BY DEF OnUnloadReturns
  <2> QED BY <2>1, TaskInTime DEF AfterStop
<1>2. TaskTyped'
  BY <1>1, KeptTyped DEF Places, Callbacks, HostCallbacks
<1> USE <1>1 DEF TaskKept, OnUnloadReturns
<1>3. Life'
  OBVIOUS
<1>4. RadioParts'
  BY QuietLife DEF Waits, Fault
<1> QED BY <1>2, <1>3, <1>4

LEMMA DlcloseKeeps ==
  ASSUME SessionInv, Dlclose
  PROVE  SessionInv'
<1>1. TaskKept /\ task'.at = "finish"
  <2>1. Finish(task.ok) \/ Finish(FALSE)
    BY DEF Dlclose
  <2> QED BY <2>1, TaskMoves, TaskIs
<1>2. TaskTyped'
  BY <1>1, KeptTyped DEF Places, Callbacks, HostCallbacks
<1>3. \/ sess' = NoSession /\ owner' = FALSE /\ images' = images - 1
      \/ sess' = [sess EXCEPT !.poisoned = TRUE] /\ UNCHANGED <<owner, images>>
  BY DEF Dlclose
<1>4. \/ /\ sess'.open = FALSE /\ owner' = FALSE /\ images' = 0 /\ sess' = NoSession
      \/ /\ sess'.open = TRUE /\ owner' = TRUE /\ images' = 1 /\ sess'.poisoned
  BY <1>3 DEF Dlclose, NoSession
<1>5. task.at = "dlclose" /\ UNCHANGED <<view, active, host, slots>>
  BY DEF Dlclose
<1>6. sess' \in SessType
  <2>1. CASE sess' = NoSession
    BY <2>1 DEF NoSession
  <2>2. CASE sess' = [sess EXCEPT !.poisoned = TRUE]
    BY <2>2
  <2> QED BY <2>1, <2>2, <1>3
<1> USE <1>1, <1>4, <1>5, <1>6 DEF TaskKept
<1>7. Life'
  OBVIOUS
<1>8. RadioParts'
  BY QuietLife DEF Dlclose, Waits, Fault
<1> QED BY <1>2, <1>7, <1>8

-----------------------------------------------------------------------------
(* The start of a package.                                                 *)
LEMMA EnterStartKeeps ==
  ASSUME SessionInv, EnterStart
  PROVE  SessionInv'
<1>1. TaskKept /\ task'.at \in {"return", "host_init"}
      /\ (task'.at = "host_init" => ~Resident)
  <2>1. CASE task' = [task EXCEPT !.at = IF Resident THEN "return" ELSE "host_init",
                                  !.ok = ~Resident]
    <3> DEFINE p == IF Resident THEN "return" ELSE "host_init"
               o == ~Resident
    <3>1. o \in BOOLEAN /\ p \in {"return", "host_init"} /\ (p = "host_init" => ~Resident)
      OBVIOUS
    <3>2. task' = [task EXCEPT !.at = p, !.ok = o]
      BY <2>1
    <3> HIDE DEF p, o
    <3> QED BY <3>1, <3>2, TaskMoves
  <2>2. CASE task' = [task EXCEPT !.at = "return", !.ok = FALSE]
    <3> DEFINE o == FALSE
               p == "return"
    <3>1. o \in BOOLEAN
      OBVIOUS
    <3>2. task' = [task EXCEPT !.at = p, !.ok = o]
      BY <2>2
    <3> HIDE DEF o, p
    <3>3. TaskKept /\ task'.at = p
      BY <3>1, <3>2, TaskMoves
    <3> QED BY <3>3 DEF p
  <2> QED BY <2>1, <2>2 DEF EnterStart
<1>2. TaskTyped'
  BY <1>1, KeptTyped DEF Places, Callbacks, HostCallbacks
<1> USE <1>1 DEF TaskKept, EnterStart, Resident, Fault
<1>3. Life'
  OBVIOUS
<1>4. RadioParts'
  BY QuietLife DEF Waits, Fault
<1> QED BY <1>2, <1>3, <1>4

LEMMA EnterActiveKeeps ==
  ASSUME SessionInv, EnterActive
  PROVE  SessionInv'
<1>1. TaskKept /\ task'.at \in {"on_event", "on_render", "finish"}
  <2>1. task.step \in {"event", "render", "stop"}
    BY TaskIs DEF EnterActive, TaskTyped, Steps
  <2>2. CASE Finish(FALSE)
    BY <2>2, TaskMoves
  <2>3. CASE ~Finish(FALSE)
    <3> DEFINE p == CASE task.step = "event" -> "on_event"
                      [] task.step = "render" -> "on_render"
                      [] task.step = "stop" -> "finish"
    <3>1. p \in {"on_event", "on_render", "finish"}
      BY <2>1
    <3>2. Goto(p)
      BY <2>3 DEF EnterActive, Goto
    <3> HIDE DEF p
    <3> QED BY <3>1, <3>2, TaskMoves
  <2> QED BY <2>2, <2>3
<1>2. TaskTyped'
  BY <1>1, KeptTyped DEF Places, Callbacks, HostCallbacks
<1> USE <1>1 DEF TaskKept, EnterActive
<1>3. Life'
  OBVIOUS
<1>4. RadioParts'
  BY QuietLife DEF Waits, Fault
<1> QED BY <1>2, <1>3, <1>4

LEMMA HostInitKeeps ==
  ASSUME SessionInv, HostInit
  PROVE  SessionInv'
<1>1. TaskKept /\ task'.at \in {"finish", "dlopen"}
  <2>1. CASE Finish(FALSE)
    BY <2>1, TaskMoves
  <2>2. CASE ~Finish(FALSE)
    BY <2>2, TaskMoves DEF HostInit
  <2> QED BY <2>1, <2>2
<1>2. /\ \/ UNCHANGED <<host, slots>>
         \/ /\ host' = [ready |-> TRUE, exit |-> FALSE, refresh |-> FALSE, latch |-> FALSE]
            /\ slots' = [r \in SlotOf |-> NoSlot]
      /\ \/ UNCHANGED sess /\ task'.at = "finish"
         \/ sess' = NoSession /\ task'.at = "dlopen" /\ host'.ready /\ ~owner
      /\ task.at = "host_init" /\ UNCHANGED <<owner, images, view, active>>
  <2>1. CASE Finish(FALSE)
    BY <1>1, <2>1, TaskMoves DEF HostInit, Goto, NoHost
  <2>2. CASE ~Finish(FALSE)
    BY <1>1, <2>2, TaskMoves DEF HostInit, NoHost
  <2> QED BY <2>1, <2>2
<1>3. /\ slots' \in [SlotOf -> SlotType]
      /\ host' \in HostType
      /\ sess = NoSession /\ sess' = NoSession
  <2>1. sess = NoSession
    BY <1>2
  <2>2. slots' \in [SlotOf -> SlotType]
    <3>1. CASE slots' = slots
      BY <3>1
    <3>2. CASE slots' = [r \in SlotOf |-> NoSlot]
      <4>1. NoSlot \in SlotType
        BY DEF NoSlot, SlotStates
      <4> HIDE DEF SlotOf
      <4> QED BY <3>2, <4>1
    <3> QED BY <3>1, <3>2, <1>2
  <2>3. host' \in HostType
    <3>1. CASE host' = host
      BY <3>1
    <3>2. CASE host' = [ready |-> TRUE, exit |-> FALSE, refresh |-> FALSE, latch |-> FALSE]
      BY <3>2
    <3> QED BY <3>1, <3>2, <1>2
  <2> QED BY <2>1, <2>2, <2>3, <1>2
<1>4. ~NoSession.open /\ NoSession.state = "EMPTY" /\ ~NoSession.poisoned
      /\ NoSession \in SessType
  BY DEF NoSession
<1>5. TaskTyped'
  BY <1>1, KeptTyped DEF Places, Callbacks, HostCallbacks
<1> USE <1>1 DEF TaskKept
<1>6. Life'
  BY <1>2, <1>3, <1>4
<1>7. RadioParts'
  <2>1. \A r \in SlotOf : (Ended(r))' => Ended(r)
    BY <1>2 DEF Ended, NoSlot
  <2>2. ~host'.ready => ~host.ready /\ UNCHANGED <<host, slots>>
    BY <1>2
  <2> QED BY <2>1, <2>2, <1>2, QuietKeeps DEF HostInit, Waits
<1> QED BY <1>5, <1>6, <1>7

LEMMA DlopenKeeps ==
  ASSUME SessionInv, Dlopen
  PROVE  SessionInv'
<1>1. TaskKept /\ task'.at \in {"finish", "entry"}
      /\ IF task'.at = "entry"
         THEN sess' = [sess EXCEPT !.open = TRUE] /\ owner' = TRUE /\ images' = images + 1
         ELSE UNCHANGED <<sess, owner, images>>
  <2>1. CASE Finish(FALSE)
    BY <2>1, TaskMoves DEF Dlopen, Goto
  <2>2. CASE ~Finish(FALSE)
    BY <2>2, TaskMoves DEF Dlopen
  <2> QED BY <2>1, <2>2
<1>2. TaskTyped'
  BY <1>1, KeptTyped DEF Places, Callbacks, HostCallbacks
<1>3. /\ task.at = "dlopen" /\ UNCHANGED <<view, active, host, slots>>
      /\ sess = NoSession
  BY DEF Dlopen
<1>4. IF task'.at = "entry"
      THEN /\ sess' = [state |-> "EMPTY", open |-> TRUE, poisoned |-> FALSE, loadDone |-> FALSE]
           /\ owner' = TRUE /\ images' = images + 1
      ELSE UNCHANGED <<sess, owner, images>>
  BY <1>1, <1>3 DEF NoSession
<1>5. ~sess.open
  BY <1>3 DEF NoSession
<1> USE <1>1, <1>3, <1>4, <1>5 DEF TaskKept
<1>6. Life'
  <2>1. ImageSound'
    <3>1. CASE task'.at = "entry"
      <4>1. sess'.open = TRUE /\ sess'.poisoned = FALSE /\ owner' = TRUE
        BY <3>1
      <4>2. images' = 1
        BY <3>1
      <4> QED BY <4>1, <4>2
    <3>2. CASE task'.at # "entry"
      BY <3>2
    <3> QED BY <3>1, <3>2
  <2>2. SessionTyped'
    <3>1. sess' \in SessType /\ owner' \in BOOLEAN
      BY <1>4
    <3> QED BY <3>1
  <2>3. InRun' /\ OutOfRun'
    OBVIOUS
  <2>4. InLoad'
    OBVIOUS
  <2> QED BY <2>1, <2>2, <2>3, <2>4
<1>7. RadioParts'
  BY QuietLife DEF Dlopen, Waits
<1> QED BY <1>2, <1>6, <1>7

LEMMA EntryReturnsKeeps ==
  ASSUME SessionInv, EntryReturns
  PROVE  SessionInv'
<1>1. TaskKept /\ task'.at \in {"on_load", "dlclose"}
  <2>1. CASE Goto("on_load")
    BY <2>1, TaskMoves
  <2>2. CASE Close(FALSE, FALSE)
    BY <2>2, TaskMoves DEF ClosedAt, AfterStop, EntryReturns
  <2> QED BY <2>1, <2>2 DEF EntryReturns
<1>2. TaskTyped'
  BY <1>1, KeptTyped DEF Places, Callbacks, HostCallbacks
<1> USE <1>1 DEF TaskKept, EntryReturns
<1>3. Life'
  OBVIOUS
<1>4. RadioParts'
  BY QuietLife DEF Waits, Fault
<1> QED BY <1>2, <1>3, <1>4

LEMMA OnLoadReturnsKeeps ==
  ASSUME SessionInv, OnLoadReturns
  PROVE  SessionInv'
<1>1. TaskKept /\ task'.at \in {"on_start", "unload_early", "on_unload", "dlclose"}
      /\ sess'.open = sess.open /\ sess'.poisoned = sess.poisoned
      /\ sess' \in SessType
      /\ sess'.state \in {sess.state, "LOADED"}
      /\ sess'.loadDone = (task'.at \in {"on_start", "on_unload"})
      /\ view' = (IF task'.at = "dlclose" THEN "none" ELSE "loaded")
  <2>1. PICK ok \in BOOLEAN, inTime \in BOOLEAN, data \in BOOLEAN :
          /\ view' = IF ok \/ data THEN "loaded" ELSE "none"
          /\ IF ok /\ inTime
             THEN /\ Goto("on_start")
                  /\ sess' = [sess EXCEPT !.state = "LOADED", !.loadDone = TRUE]
             ELSE /\ sess' = [sess EXCEPT !.loadDone = ok /\ ~data]
                  /\ task' = [task EXCEPT !.at = IF data THEN "unload_early"
                                                 ELSE IF ok THEN "on_unload" ELSE "dlclose",
                                          !.ok = FALSE]
    BY DEF OnLoadReturns
  <2>2. CASE ok /\ inTime
    <3>1. TaskKept /\ task'.at = "on_start"
      BY <2>1, <2>2, TaskMoves
    <3>2. /\ sess' = [sess EXCEPT !.state = "LOADED", !.loadDone = TRUE]
          /\ view' = "loaded"
      BY <2>1, <2>2
    <3>3. /\ sess'.open = sess.open /\ sess'.poisoned = sess.poisoned
          /\ sess' \in SessType
          /\ sess'.state = "LOADED" /\ sess'.loadDone = TRUE
      BY <3>2
    <3> QED BY <3>1, <3>2, <3>3
  <2>3. CASE ~(ok /\ inTime)
    <3> DEFINE p == IF data THEN "unload_early" ELSE IF ok THEN "on_unload" ELSE "dlclose"
               o == FALSE
               l == ok /\ ~data
    <3>1. o \in BOOLEAN /\ l \in BOOLEAN
      OBVIOUS
    <3>2. task' = [task EXCEPT !.at = p, !.ok = o]
      BY <2>1, <2>3
    <3>3. sess' = [sess EXCEPT !.loadDone = l] /\ view' = IF ok \/ data THEN "loaded" ELSE "none"
      BY <2>1, <2>3
    <3> HIDE DEF p, o
    <3>4. TaskKept /\ task'.at = p
      BY <3>1, <3>2, TaskMoves
    <3>5. sess'.loadDone = l
      BY <3>3
    <3>6. l = (p = "on_unload")
      BY DEF p
    <3> HIDE DEF l
    <3>7. /\ sess'.open = sess.open /\ sess'.poisoned = sess.poisoned
          /\ sess' \in SessType
          /\ sess'.state = sess.state
      BY <3>1, <3>3
    <3>8. p \in {"unload_early", "on_unload", "dlclose"}
          /\ view' = (IF p = "dlclose" THEN "none" ELSE "loaded")
      BY <3>3 DEF p
    <3> QED BY <3>4, <3>5, <3>6, <3>7, <3>8
  <2> QED BY <2>2, <2>3
<1>2. TaskTyped'
  BY <1>1, KeptTyped DEF Places, Callbacks, HostCallbacks
<1>3. /\ task.at = "on_load" /\ UNCHANGED <<owner, images, active, host, slots>>
  BY DEF OnLoadReturns
<1> USE <1>1, <1>3 DEF TaskKept
<1>4. Life'
  OBVIOUS
<1>5. RadioParts'
  BY QuietLife DEF Waits, OnLoadReturns
<1> QED BY <1>2, <1>4, <1>5

LEMMA UnloadEarlyReturnsKeeps ==
  ASSUME SessionInv, UnloadEarlyReturns
  PROVE  SessionInv'
<1>1. TaskKept /\ task'.at \in {"on_unload", "dlclose"}
      /\ task'.at = AfterStop
  BY TaskMoves DEF UnloadEarlyReturns, AfterStop
<1>2. TaskTyped'
  BY <1>1, KeptTyped DEF Places, Callbacks, HostCallbacks
<1> USE <1>1 DEF TaskKept, UnloadEarlyReturns, AfterStop
<1>3. Life'
  OBVIOUS
<1>4. RadioParts'
  BY QuietLife DEF Waits, Fault
<1> QED BY <1>2, <1>3, <1>4

LEMMA OnStartReturnsKeeps ==
  ASSUME SessionInv, OnStartReturns
  PROVE  SessionInv'
<1>1. /\ Whole(task') /\ task'.ok \in BOOLEAN /\ task'.cur \in SlotOf
      /\ task'.step = task.step /\ task'.ret = task.ret
      /\ task'.at \in {"pump", "on_unload", "dlclose"}
      /\ IF task'.at = "pump"
         THEN sess' = [sess EXCEPT !.state = "STARTED"] /\ view' = "started" /\ active' = TRUE
         ELSE task'.at = AfterStop /\ UNCHANGED <<sess, view, active>>
  <2>1. CASE task' = [task EXCEPT !.at = "pump", !.cur = "wifi"]
    <3>1. /\ Whole(task') /\ task'.at = "pump" /\ task'.cur = "wifi" /\ task'.step = task.step
          /\ task'.ret = task.ret /\ task'.ok = task.ok
      BY <2>1, TaskMoves
    <3>2. task'.at # ClosedAt(FALSE)
      BY <3>1 DEF ClosedAt, AfterStop
    <3> QED BY <3>1, <3>2, TaskIs, TaskMoves DEF OnStartReturns
  <2>2. CASE task' # [task EXCEPT !.at = "pump", !.cur = "wifi"]
    BY <2>2, TaskMoves, TaskIs DEF OnStartReturns, TaskKept, ClosedAt, AfterStop
  <2> QED BY <2>1, <2>2
<1>2. TaskTyped'
  BY <1>1, TaskIs, TaskStays DEF Places, Callbacks, HostCallbacks
<1> USE <1>1 DEF OnStartReturns, AfterStop
<1>3. Life'
  OBVIOUS
<1>4. RadioParts'
  BY QuietLife DEF Waits, Fault
<1> QED BY <1>2, <1>3, <1>4

-----------------------------------------------------------------------------
(* The callbacks of a package that runs.                                   *)
LEMMA OnEventReturnsKeeps ==
  ASSUME SessionInv, OnEventReturns
  PROVE  SessionInv'
<1>1. /\ Whole(task') /\ task'.ok \in BOOLEAN /\ task'.cur \in SlotOf
      /\ task'.step = task.step /\ task'.ret = task.ret
      /\ task'.at \in {"pump", "on_stop"}
  <2>1. CASE task' = [task EXCEPT !.at = "pump", !.cur = "wifi"]
    <3>1. /\ Whole(task') /\ task'.at = "pump" /\ task'.cur = "wifi" /\ task'.step = task.step
          /\ task'.ret = task.ret /\ task'.ok = task.ok
      BY <2>1, TaskMoves
    <3> QED BY <3>1, TaskIs
  <2>2. CASE Close(TRUE, FALSE)
    BY <2>2, TaskMoves, TaskIs DEF TaskKept, ClosedAt, OnEventReturns
  <2> QED BY <2>1, <2>2 DEF OnEventReturns
<1>2. TaskTyped'
  BY <1>1, TaskIs, TaskStays DEF Places, Callbacks, HostCallbacks
<1> USE <1>1 DEF OnEventReturns
<1>3. Life'
  OBVIOUS
<1>4. RadioParts'
  BY QuietLife DEF Waits, Fault
<1> QED BY <1>2, <1>3, <1>4

LEMMA OnRenderReturnsKeeps ==
  ASSUME SessionInv, OnRenderReturns
  PROVE  SessionInv'
<1>1. TaskKept /\ task'.at \in {"present", "on_stop"}
  <2>1. CASE Goto("present")
    BY <2>1, TaskMoves
  <2>2. CASE Close(TRUE, FALSE)
    BY <2>2, TaskMoves DEF ClosedAt, OnRenderReturns
  <2> QED BY <2>1, <2>2 DEF OnRenderReturns
<1>2. TaskTyped'
  BY <1>1, KeptTyped DEF Places, Callbacks, HostCallbacks
<1> USE <1>1 DEF TaskKept, OnRenderReturns
<1>3. Life'
  OBVIOUS
<1>4. RadioParts'
  BY QuietLife DEF Waits, Fault
<1> QED BY <1>2, <1>3, <1>4

LEMMA PresentKeeps ==
  ASSUME SessionInv, Present
  PROVE  SessionInv'
<1>1. /\ Whole(task') /\ task'.ok \in BOOLEAN /\ task'.cur \in SlotOf
      /\ task'.step = task.step /\ task'.ret = task.ret
      /\ task'.at \in {"finish", "pump"}
  <2>1. CASE Finish(FALSE)
    BY <2>1, TaskMoves, TaskIs DEF TaskKept
  <2>2. CASE ~Finish(FALSE)
    <3>1. task' = [task EXCEPT !.at = "pump", !.cur = "wifi"]
      BY <2>2 DEF Present
    <3>2. /\ Whole(task') /\ task'.at = "pump" /\ task'.cur = "wifi" /\ task'.step = task.step
          /\ task'.ret = task.ret /\ task'.ok = task.ok
      BY <3>1, TaskMoves
    <3> QED BY <3>2, TaskIs
  <2> QED BY <2>1, <2>2
<1>2. TaskTyped'
  BY <1>1, TaskIs, TaskStays DEF Places, Callbacks, HostCallbacks
<1>3. /\ task.at = "present" /\ UNCHANGED <<sess, owner, images, view, active, slots>>
      /\ host' = [host EXCEPT !.latch = FALSE]
  BY DEF Present
<1>4. /\ host' \in HostType
      /\ host'.ready = host.ready /\ host.ready
  BY <1>3
<1> USE <1>1, <1>3, <1>4
<1>5. Life'
  OBVIOUS
<1>6. RadioParts'
  <2>1. UNCHANGED <<wifi, ble, mode, held, event, call>> /\ faults' \in {faults, faults + 1}
    BY DEF Present, Outcome, Fault
  <2>2. \A r \in SlotOf : (Ended(r))' => Ended(r)
    BY DEF Ended
  <2> QED BY <2>1, <2>2, QuietKeeps DEF Waits
<1> QED BY <1>2, <1>5, <1>6

LEMMA PostKeeps ==
  ASSUME SessionInv, Post
  PROVE  SessionInv'
<1>1. /\ Whole(task') /\ task'.ok \in BOOLEAN /\ task'.cur \in SlotOf
      /\ task'.step = task.step /\ task'.ret = task.ret
      /\ task'.at \in {"finish", "return"}
  <2>1. Finish(FALSE) \/ Finish(TRUE) \/ Goto("return")
    BY DEF Post
  <2> QED BY <2>1, TaskMoves, TaskIs DEF TaskKept
<1>2. TaskTyped'
  BY <1>1, TaskIs, TaskStays DEF Places, Callbacks, HostCallbacks
<1>3. /\ task.at = "post" /\ UNCHANGED <<sess, owner, images, view, active, slots>>
      /\ host' = [host EXCEPT !.refresh = FALSE, !.exit = FALSE]
  BY DEF Post
<1>4. /\ host' \in HostType
      /\ host'.ready = host.ready /\ host.ready
  BY <1>3
<1> USE <1>1, <1>3, <1>4
<1>5. Life'
  OBVIOUS
<1>6. RadioParts'
  <2>1. UNCHANGED <<wifi, ble, mode, held, event, call>> /\ faults' \in {faults, faults + 1}
    BY DEF Post, Outcome, Fault
  <2>2. \A r \in SlotOf : (Ended(r))' => Ended(r)
    BY DEF Ended
  <2> QED BY <2>1, <2>2, QuietKeeps DEF Waits
<1> QED BY <1>2, <1>5, <1>6

-----------------------------------------------------------------------------
(* The operations of the callers.                                          *)
LEMMA OperationKeeps ==
  ASSUME SessionInv, NEW st \in Steps \ {"none"}, Operation(st),
         UNCHANGED <<wifi, ble, mode, held, event, call, sess, owner, images, view, active,
                     host, slots>>,
         faults' \in {faults, faults + 1},
         IF st = "start" THEN task.at = "off"
                         ELSE task.at = "wait" \/ (task.at = "return" /\ active)
  PROVE  SessionInv'
<1>1. /\ Whole(task') /\ task'.at = "enter" /\ task'.cur = task.cur
      /\ task'.step = st /\ task'.ret = task.ret /\ task'.ok = TRUE
  BY TaskMoves
<1>2. TaskTyped'
  BY <1>1, TaskIs, TaskStays DEF Places
<1> USE <1>1
<1>3. Life'
  OBVIOUS
<1>4. RadioParts'
  BY QuietLife DEF Waits
<1> QED BY <1>2, <1>3, <1>4

LEMMA RunKeeps ==
  ASSUME SessionInv, NEW kind, Run(kind)
  PROVE  SessionInv'
BY OperationKeeps DEF Run, Steps

LEMMA PressKeeps ==
  ASSUME SessionInv,
         TakePending \/ GiveUp \/ \E mask \in Mask : TakePress(mask)
  PROVE  SessionInv'
<1>1. /\ Operation("stop") \/ Operation("event")
      /\ UNCHANGED <<wifi, ble, mode, held, event, call, sess, owner, images, view, active,
                     host, slots>>
      /\ faults' \in {faults, faults + 1} /\ task.at = "wait"
  <2>1. CASE TakePending
    BY <2>1 DEF TakePending, Handles
  <2>2. CASE GiveUp
    BY <2>2 DEF GiveUp, Fault
  <2>3. CASE \E mask \in Mask : TakePress(mask)
    BY <2>3 DEF TakePress, Handles
  <2> QED BY <2>1, <2>2, <2>3
<1> QED BY <1>1, OperationKeeps DEF Steps

LEMMA ReturnKeeps ==
  ASSUME SessionInv, Return
  PROVE  SessionInv'
<1>1. /\ task.at = "return"
      /\ UNCHANGED <<wifi, ble, mode, held, event, call, sess, owner, images, view, active,
                     host, slots, faults>>
  BY DEF Return
<1>2. CASE ~active
  <2>1. task' = Away
    BY <1>2 DEF Return, Wants
  <2>2. task'.at = "off" /\ task'.step = "none" /\ task'.cur = "wifi" /\ TaskTyped'
    BY <2>1 DEF Away, TaskTyped, TaskType, Places, Steps
  <2> USE <1>1, <2>2, <1>2
  <2>3. Life'
    OBVIOUS
  <2>4. RadioParts'
    BY QuietLife DEF Waits
  <2> QED BY <2>3, <2>4
<1>3. CASE active /\ Goto("wait")
  <2>1. TaskKept /\ task'.at = "wait"
    BY <1>3, TaskMoves
  <2>2. TaskTyped'
    BY <2>1, KeptTyped DEF Places
  <2> USE <1>1, <2>1, <1>3 DEF TaskKept
  <2>3. Life'
    OBVIOUS
  <2>4. RadioParts'
    BY QuietLife DEF Waits
  <2> QED BY <2>2, <2>3, <2>4
<1>4. CASE active /\ ~Goto("wait")
  <2>1. Operation("render") \/ Operation("stop")
    BY <1>4 DEF Return, Wants
  <2> QED BY <2>1, <1>1, <1>4, OperationKeeps DEF Steps
<1> QED BY <1>2, <1>3, <1>4

-----------------------------------------------------------------------------
(* What a callback asks of the host.                                       *)
LEMMA AtCallback ==
  ASSUME SessionInv, Calls
  PROVE  /\ task.at \notin Waits /\ task.at \notin RequestPlaces \cup {"cancel_wait"}
         /\ task.at \in Callbacks /\ task.at \notin {"deinit", "deinit_wait"}
         /\ host.ready
BY DEF Calls, Callbacks, HostCallbacks, Waits

(* A call changes the host and at most the state of one slot.              *)
LEMMA CallKeeps ==
  ASSUME SessionInv, Calls,
         UNCHANGED <<wifi, ble, mode, held, event, call, faults, task, sess, owner, images,
                     view, active>>,
         host' \in HostType,
         host'.ready = host.ready,
         slots' \in [SlotOf -> SlotType],
         \A r \in SlotOf : (Ended(r))' => Ended(r)
  PROVE  SessionInv'
<1>1. TaskTyped'
  BY DEF TaskTyped
<1>2. Life'
  OBVIOUS
<1>3. RadioParts'
  BY AtCallback, QuietKeeps
<1> QED BY <1>1, <1>2, <1>3

LEMMA AskKeeps ==
  ASSUME SessionInv, Ask
  PROVE  SessionInv'
<1>1. /\ host' \in HostType
      /\ host'.ready = host.ready
  BY DEF Ask
<1>2. \A r \in SlotOf : (Ended(r))' => Ended(r)
  BY DEF Ask, Ended
<1> QED BY <1>1, <1>2, CallKeeps DEF Ask

LEMMA SlotTyped ==
  /\ NoSlot \in SlotType
  /\ NoSlot.op = "none" /\ NoSlot.state = "none" /\ NoSlot.started = FALSE
BY DEF NoSlot, SlotStates

LEMMA RequestKeeps ==
  ASSUME SessionInv, NEW r \in SlotOf, NEW op \in {"on", "off"}, Request(r, op)
  PROVE  SessionInv'
<1>1. PICK s \in SlotType :
        s.state = "PENDING" /\ slots' = [slots EXCEPT ![r] = s]
  <2> DEFINE s == [NoSlot EXCEPT !.op = op, !.state = "PENDING"]
  <2>1. s \in SlotType
        /\ s.state = "PENDING"
    BY DEF NoSlot, SlotStates
  <2>2. slots' = [slots EXCEPT ![r] = s]
    BY DEF Request
  <2> HIDE DEF s
  <2> QED BY <2>1, <2>2
<1>2. slots' \in [SlotOf -> SlotType]
  BY <1>1
<1>3. \A x \in SlotOf : (Ended(x))' => Ended(x)
  BY <1>1 DEF Ended
<1> QED BY <1>2, <1>3, CallKeeps DEF Request

LEMMA StatusKeeps ==
  ASSUME SessionInv, NEW r \in SlotOf, Status(r)
  PROVE  SessionInv'
<1>1. slots' = [slots EXCEPT ![r] = NoSlot]
  BY DEF Status
<1>2. slots' \in [SlotOf -> SlotType]
  BY <1>1, SlotTyped
<1>3. \A x \in SlotOf : (Ended(x))' => Ended(x)
  BY <1>1, SlotTyped DEF Ended
<1> QED BY <1>2, <1>3, CallKeeps DEF Status

LEMMA TickKeeps ==
  ASSUME SessionInv, Tick
  PROVE  SessionInv'
<1>1. /\ task.at = "wait"
      /\ UNCHANGED <<wifi, ble, mode, held, event, call, faults, task, sess, owner, images,
                     view, active, host>>
  BY DEF Tick
<1>2. /\ slots' \in [SlotOf -> SlotType]
      /\ \A r \in SlotOf : /\ slots'[r].op = slots[r].op /\ slots'[r].state = slots[r].state
                           /\ slots'[r].started = slots[r].started
  <2> DEFINE s(r) == [slots[r] EXCEPT !.left = IF @ = 0 THEN 0 ELSE @ - 1]
  <2>1. ASSUME NEW r \in SlotOf
        PROVE  /\ s(r) \in SlotType
               /\ s(r).op = slots[r].op /\ s(r).state = slots[r].state
               /\ s(r).started = slots[r].started
    OBVIOUS
  <2>2. slots' = [r \in SlotOf |-> s(r)]
    BY DEF Tick
  <2> HIDE DEF s, SlotOf
  <2> QED BY <2>1, <2>2
<1>3. TaskTyped'
  BY <1>1 DEF TaskTyped
<1>4. Life'
  BY <1>1, <1>2
<1>5. RadioParts'
  <2>1. \A r \in SlotOf : (Ended(r))' => Ended(r)
    BY <1>2 DEF Ended
  <2> QED BY <1>1, <2>1, QuietKeeps DEF Waits
<1> QED BY <1>3, <1>4, <1>5

-----------------------------------------------------------------------------
(* The pump between its calls.                                             *)
LEMMA PumpedIs ==
  ASSUME TaskTyped, Pumped
  PROVE  /\ Whole(task') /\ task'.at \in {"pump", "post"} /\ task'.cur \in SlotOf
         /\ task'.step = task.step /\ task'.ret = task.ret /\ task'.ok = task.ok
<1>1. CASE task.cur = "wifi"
  <2>1. task' = [task EXCEPT !.cur = "ble", !.at = "pump"]
    BY <1>1 DEF Pumped
  <2> QED BY <2>1, TaskMoves
<1>2. CASE task.cur # "wifi"
  <2>1. task' = [task EXCEPT !.at = "post", !.cur = "wifi"]
    BY <1>2 DEF Pumped
  <2> QED BY <2>1, TaskMoves
<1> QED BY <1>1, <1>2

(* A step of the pump stays among the places of a running package.         *)
LEMMA PumpLife ==
  ASSUME SessionInv, task.at \in {"pump"} \cup RequestPlaces,
         \/ Pumped
         \/ TaskKept /\ task'.at \in RequestPlaces,
         UNCHANGED <<sess, owner, images, view, active, host>>,
         slots' \in [SlotOf -> SlotType]
  PROVE  /\ TaskTyped' /\ Life'
         /\ host.ready /\ task'.at \in {"pump", "post"} \cup RequestPlaces
         /\ TaskKept \/ task'.at \in {"pump", "post"}
<1>1. /\ Whole(task') /\ task'.at \in {"pump", "post"} \cup RequestPlaces
      /\ task'.cur \in SlotOf /\ task'.step = task.step /\ task'.ret = task.ret
      /\ task'.ok \in BOOLEAN /\ (TaskKept \/ task'.at \in {"pump", "post"})
  <2>1. CASE Pumped
    BY <2>1, PumpedIs, TaskIs
  <2>2. CASE TaskKept /\ task'.at \in RequestPlaces
    BY <2>2, TaskIs DEF TaskKept
  <2> QED BY <2>1, <2>2
<1>2. TaskTyped'
  BY <1>1, TaskIs, TaskStays DEF Places
<1>3. Life' /\ host.ready
  BY <1>1
<1> QED BY <1>1, <1>2, <1>3

LEMMA PumpIdleKeeps ==
  ASSUME SessionInv, PumpIdle
  PROVE  SessionInv'
<1>1. /\ task.at = "pump" /\ UNCHANGED <<wifi, ble, mode, held, event, call, faults>>
      /\ UNCHANGED <<sess, owner, images, view, active, host, slots>>
  BY DEF PumpIdle
<1>2. \/ Pumped
      \/ /\ TaskKept /\ task'.at = "observe"
         /\ slots[task.cur].state = "PENDING" /\ slots[task.cur].started
  BY TaskMoves DEF PumpIdle, Slot
<1>3. /\ TaskTyped' /\ Life'
      /\ host.ready
  BY <1>1, <1>2, PumpLife
<1>4. /\ task'.at \notin {"deinit", "deinit_wait"}
      /\ task'.at \in RequestPlaces \cup {"cancel_wait"} =>
           slots'[task'.cur].state = "PENDING" /\ slots'[task'.cur].started
  <2>1. CASE Pumped
    BY <2>1, PumpedIs
  <2>2. CASE ~Pumped
    BY <2>2, <1>1, <1>2 DEF TaskKept
  <2> QED BY <2>1, <2>2
<1>5. RadioParts'
  <2>1. \A r \in SlotOf : (Ended(r))' => Ended(r)
    BY <1>1 DEF Ended
  <2> QED BY <1>1, <1>3, <1>4, <2>1, QuietKeeps DEF Waits
<1> QED BY <1>3, <1>5

(* The request is looked at: what it says has FAILED is down, since no     *)
(* call is under way and nothing has gone wrong.                           *)
LEMMA ObserveKeeps ==
  ASSUME SessionInv, Observe
  PROVE  SessionInv'
<1>1. /\ task.at = "observe" /\ UNCHANGED <<wifi, ble, mode, held, event, call, faults>>
      /\ UNCHANGED <<sess, owner, images, view, active, host>>
      /\ task.cur \in SlotOf
  BY TaskIs DEF Observe
<1>2. call.op = "none"
  BY <1>1, CallShapes DEF CallSound, Waits, RadioInv
<1> DEFINE seen == Observed(task.cur, Slot.op)
<1>3. CASE seen # "PENDING"
  <2>1. Pumped /\ slots' = [slots EXCEPT ![task.cur].state = seen]
    BY <1>3 DEF Observe, Answered
  <2>2. seen \in {"SUCCEEDED", "FAILED"}
    BY <1>3 DEF Observed
  <2>3. seen = "FAILED" /\ slots[task.cur].op = "on" =>
          StateOf(task.cur) \in {"STOPPED", "AP_RUNNING", "STOPPING"}
    BY DEF Observed, Slot
  <2> HIDE DEF seen
  <2>4. /\ slots' \in [SlotOf -> SlotType]
        /\ \A r \in SlotOf : r # task.cur => slots'[r] = slots[r]
        /\ slots'[task.cur].state = seen /\ slots'[task.cur].op = slots[task.cur].op
    BY <2>1, <2>2, <1>1 DEF SlotStates
  <2>5. /\ TaskTyped' /\ Life'
        /\ host.ready
    BY <1>1, <2>1, <2>4, PumpLife
  <2>6. ASSUME NEW r \in SlotOf, (Ended(r))', faults = 0
        PROVE  Ended(r) \/ (Down(r) /\ ~Busy(r))
    <3>1. CASE r # task.cur
      BY <3>1, <2>4, <2>6 DEF Ended
    <3>2. CASE r = task.cur
      <4>1. StateOf(r) \in {"STOPPED", "AP_RUNNING", "STOPPING"}
        BY <3>2, <2>2, <2>3, <2>4, <2>6 DEF Ended
      <4>2. StateOf(r) # "AP_RUNNING"
        BY DEF StationOnly, StateOf, RadioInv, RadioTyped, BleStates
      <4>3. StateOf(r) # "STOPPING"
        BY <1>2, <2>6 DEF RadioInv, StoppingSound
      <4>4. ~Busy(r)
        BY <1>2 DEF Busy
      <4> QED BY <4>1, <4>2, <4>3, <4>4 DEF RadioInv, StatesTruthful, Down
    <3> QED BY <3>1, <3>2
  <2>7. task'.at \in {"pump", "post"}
    BY <2>1, PumpedIs
  <2>8. RadioParts'
    BY <1>1, <2>5, <2>6, <2>7, QuietKeeps DEF Waits
  <2> QED BY <2>5, <2>8
<1>4. CASE seen = "PENDING"
  <2>1. slots' = slots /\ (Pumped \/ (TaskKept /\ task'.at = "rollback"))
    BY <1>4, TaskMoves DEF Observe
  <2>2. /\ TaskTyped' /\ Life'
        /\ host.ready
    BY <1>1, <2>1, PumpLife
  <2>3. /\ task'.at \notin {"deinit", "deinit_wait"}
        /\ task'.at \in RequestPlaces \cup {"cancel_wait"} =>
             slots'[task'.cur].state = "PENDING" /\ slots'[task'.cur].started
    <3>1. CASE Pumped
      BY <3>1, PumpedIs
    <3>2. CASE TaskKept /\ task'.at = "rollback"
      BY <3>2, <2>1, <1>1 DEF TaskKept, CallSound
    <3> QED BY <2>1, <3>1, <3>2
  <2>4. \A r \in SlotOf : (Ended(r))' => Ended(r)
    BY <2>1 DEF Ended
  <2>5. RadioParts'
    BY <1>1, <2>2, <2>3, <2>4, QuietKeeps DEF Waits
  <2> QED BY <2>2, <2>5
<1> QED BY <1>3, <1>4

-----------------------------------------------------------------------------
(* The task enters a call of a radio.                                      *)
LEMMA StopParts ==
  ASSUME SessionInv, NEW r \in SlotOf, StopRadio(r), task'.cur = r, task'.at \in Waits,
         host.ready, host'.ready,
         \A x \in SlotOf : (Ended(x))' => Ended(x),
         task'.at \in RequestPlaces \cup {"cancel_wait"} =>
           slots'[r].state = "PENDING" /\ slots'[r].started,
         task'.at = "deinit_wait" => task.at = "deinit" /\ task.cur = r
  PROVE  RadioParts'
<1>1. RadioInv'
  BY StopRadioKeeps
<1>2. /\ UNCHANGED <<mode, held, event, faults>>
      /\ \A x \in RadioNames : (HeldOf(x))' = HeldOf(x)
      /\ \A x \in RadioNames : x # r => (StateOf(x))' = StateOf(x)
      /\ wifi' \in {wifi, "STOPPING"}
      /\ IF Down(r)
         THEN call' = Done(TRUE) /\ UNCHANGED <<wifi, ble>>
         ELSE call'.op = "stop" /\ call'.radio = r
  BY StopRadioEffects
<1>3. IF Down(r) THEN call'.op = "done" /\ UNCHANGED <<wifi, ble>>
                 ELSE call'.op = "stop" /\ call'.radio = r
  BY <1>2 DEF Done
<1>4. \A x \in RadioNames : Down(x) => (Down(x))' /\ ~(Busy(x))'
  <2> SUFFICES ASSUME NEW x \in RadioNames, Down(x) PROVE (Down(x))' /\ ~(Busy(x))'
    OBVIOUS
  <2>1. CASE x = r
    BY <2>1, <1>2, <1>3 DEF Down, Busy, StateOf
  <2>2. CASE x # r
    BY <2>2, <1>2, <1>3 DEF Down, Busy
  <2> QED BY <2>1, <2>2
<1>5. HostSound'
  BY DEF HostSound
<1>6. CallSound' /\ StationOnly'
  BY <1>2, <1>3 DEF CallSound, StationOnly
<1>7. StopsDone'
  BY <1>2, <1>3, <1>4 DEF StopsDone, Waits
<1>8. EndedDown'
  BY <1>2, <1>4 DEF EndedDown
<1> QED BY <1>1, <1>5, <1>6, <1>7, <1>8

(* The task takes the answer of its call.                                  *)
LEMMA AnswerParts ==
  ASSUME SessionInv, NEW ok \in BOOLEAN, TakeAnswer(ok),
         UNCHANGED <<wifi, ble, mode, held, event, faults>>,
         \/ host'.ready
         \/ /\ host' = NoHost /\ slots' = [r \in SlotOf |-> NoSlot]
            /\ faults = 0 => Down("wifi") /\ Down("ble"),
         \A r \in SlotOf : (Ended(r))' /\ faults = 0 => Ended(r) \/ Down(r),
         task'.at \in RequestPlaces \cup {"cancel_wait"} =>
           slots'[task'.cur].state = "PENDING" /\ slots'[task'.cur].started,
         task'.at # "deinit_wait",
         task'.at = "deinit" /\ task'.cur = "ble" /\ faults = 0 => Down("wifi")
  PROVE  RadioParts'
<1>1. RadioInv'
  BY TakeAnswerKeeps
<1>2. call'.op = "none" /\ \A r \in RadioNames : (Down(r))' = Down(r) /\ ~(Busy(r))'
  BY DEF TakeAnswer, NoRadioCall, Down, Busy, StateOf, HeldOf
<1>3. HostSound' /\ CallSound' /\ StationOnly' /\ StopsDone'
  BY <1>2 DEF HostSound, CallSound, StationOnly, StopsDone
<1>4. EndedDown'
  BY <1>2 DEF EndedDown
<1> QED BY <1>1, <1>3, <1>4

LEMMA StopRadiosKeeps ==
  ASSUME SessionInv, StopRadios
  PROVE  SessionInv'
<1>1. TaskKept /\ task'.at = "deinit_wait"
  BY TaskMoves DEF StopRadios
<1>2. TaskTyped'
  BY <1>1, KeptTyped DEF Places, Waits
<1>3. /\ task.at = "deinit" /\ StopRadio(task.cur)
      /\ UNCHANGED <<sess, owner, images, view, active, host, slots>>
  BY DEF StopRadios
<1>4. Life'
  BY <1>1, <1>3 DEF TaskKept
<1>5. RadioParts'
  <2>1. \A x \in SlotOf : (Ended(x))' => Ended(x)
    BY <1>3 DEF Ended
  <2> QED BY <1>1, <1>3, <2>1, TaskIs, StopParts DEF TaskKept, Waits
<1> QED BY <1>2, <1>4, <1>5

LEMMA RadiosStoppedKeeps ==
  ASSUME SessionInv, RadiosStopped
  PROVE  SessionInv'
<1>1. PICK ok \in BOOLEAN : TakeAnswer(ok)
  BY DEF RadiosStopped
<1>2. /\ task.at = "deinit_wait"
      /\ UNCHANGED <<wifi, ble, mode, held, event, faults, sess, owner, images, view>>
      /\ task.cur \in {"wifi", "ble"}
  BY TaskIs DEF RadiosStopped
<1>3. call.op = "done"
  BY <1>1 DEF TakeAnswer, Done
<1>4. faults = 0 => Down(task.cur) /\ (task.cur = "ble" => Down("wifi"))
  BY <1>2, <1>3 DEF StopsDone
<1>5. CASE task.cur = "wifi"
  <2>1. task' = [task EXCEPT !.at = "deinit", !.cur = "ble"] /\ UNCHANGED <<active, host, slots>>
    BY <1>5 DEF RadiosStopped
  <2>2. /\ Whole(task') /\ task'.at = "deinit" /\ task'.cur = "ble" /\ task'.step = task.step
        /\ task'.ret = task.ret /\ task'.ok = task.ok
    BY <2>1, TaskMoves
  <2>3. TaskTyped'
    BY <2>2, TaskIs, TaskStays DEF Places
  <2>4. Life'
    BY <1>2, <2>1, <2>2
  <2>5. \A r \in SlotOf : (Ended(r))' => Ended(r)
    BY <2>1 DEF Ended
  <2>6. RadioParts'
    BY <1>1, <1>2, <1>4, <1>5, <2>1, <2>2, <2>5, AnswerParts
  <2> QED BY <2>3, <2>4, <2>6
<1>6. CASE task.cur = "ble"
  <2>1. /\ task' = [task EXCEPT !.at = "return", !.cur = "wifi"]
        /\ host' = NoHost /\ slots' = [r \in SlotOf |-> NoSlot] /\ active' = FALSE
    BY <1>6 DEF RadiosStopped
  <2>2. /\ Whole(task') /\ task'.at = "return" /\ task'.cur = "wifi" /\ task'.step = task.step
        /\ task'.ret = task.ret /\ task'.ok = task.ok
    BY <2>1, TaskMoves
  <2>3. TaskTyped'
    BY <2>2, TaskIs, TaskStays DEF Places
  <2>4. /\ host' \in HostType
        /\ host'.ready = FALSE
    BY <2>1 DEF NoHost
  <2>5. slots' \in [SlotOf -> SlotType]
    BY <2>1, SlotTyped
  <2>6. Life'
    BY <1>2, <2>1, <2>2, <2>4, <2>5
  <2>7. \A r \in SlotOf : ~(Ended(r))'
    BY <2>1, SlotTyped DEF Ended
  <2>8. RadioParts'
    BY <1>1, <1>2, <1>4, <1>6, <2>1, <2>2, <2>7, AnswerParts
  <2> QED BY <2>3, <2>6, <2>8
<1> QED BY <1>2, <1>5, <1>6

LEMMA CancelKeeps ==
  ASSUME SessionInv, NEW r \in SlotOf, Cancel(r)
  PROVE  SessionInv'
<1>1. /\ Calls /\ slots[r].state = "PENDING"
      /\ UNCHANGED <<sess, owner, images, view, active, host>>
  BY DEF Cancel
<1>2. CASE slots[r].started
  <2>1. /\ StopRadio(r) /\ slots' = slots
        /\ task' = [task EXCEPT !.at = "cancel_wait", !.cur = r, !.ret = task.at]
    BY <1>2 DEF Cancel
  <2>2. task' \in TaskAt("cancel_wait", task.step, r, task.at, task.ok)
    BY <2>1, TaskIs, TaskChanges
  <2>3. /\ Whole(task') /\ task'.at = "cancel_wait" /\ task'.cur = r /\ task'.step = task.step
        /\ task'.ret = task.at /\ task'.ok = task.ok
    BY <2>2, TaskFields
  <2>4. TaskTyped'
    BY <2>3, <1>1, TaskIs, TaskStays, AtCallback DEF Places, Waits
  <2>5. Life'
    BY <1>1, <2>1, <2>3, AtCallback DEF Callbacks, HostCallbacks
  <2>6. \A x \in SlotOf : (Ended(x))' => Ended(x)
    BY <2>1 DEF Ended
  <2>7. RadioParts'
    BY <1>1, <1>2, <2>1, <2>3, <2>6, AtCallback, StopParts DEF Waits
  <2> QED BY <2>4, <2>5, <2>7
<1>3. CASE ~slots[r].started
  <2>1. /\ slots' = [slots EXCEPT ![r].state = "CANCELLED"]
        /\ UNCHANGED <<wifi, ble, mode, held, event, call, faults, task>>
    BY <1>3 DEF Cancel
  <2>2. slots' \in [SlotOf -> SlotType]
    BY <2>1 DEF SlotStates
  <2>3. \A x \in SlotOf : (Ended(x))' => Ended(x)
    BY <2>1, <1>3 DEF Ended
  <2> QED BY <1>1, <2>1, <2>2, <2>3, CallKeeps
<1> QED BY <1>2, <1>3

LEMMA CancelledKeeps ==
  ASSUME SessionInv, Cancelled
  PROVE  SessionInv'
<1>1. PICK ok \in BOOLEAN :
        /\ TakeAnswer(ok)
        /\ slots' = [slots EXCEPT ![task.cur].state = IF ok THEN "CANCELLED" ELSE "FAILED"]
  BY DEF Cancelled
<1>2. /\ task.at = "cancel_wait"
      /\ task' = [task EXCEPT !.at = task.ret, !.ret = "off", !.cur = "wifi"]
      /\ UNCHANGED <<wifi, ble, mode, held, event, faults, sess, owner, images, view, active,
                     host>>
  BY DEF Cancelled
<1>3. task' \in TaskAt(task.ret, task.step, "wifi", "off", task.ok)
  BY <1>2, TaskIs, TaskChanges
<1>4. /\ Whole(task') /\ task'.at = task.ret /\ task'.cur = "wifi" /\ task'.step = task.step
      /\ task'.ret = "off" /\ task'.ok = task.ok
  BY <1>3, TaskFields
<1>5. task.ret \in Callbacks /\ task.cur \in SlotOf
  BY <1>2, TaskIs DEF TaskTyped
<1>6. TaskTyped'
  BY <1>4, <1>5, TaskIs, TaskStays DEF Places, Callbacks, HostCallbacks
<1>7. /\ slots' \in [SlotOf -> SlotType]
      /\ \A r \in SlotOf : r # task.cur => slots'[r] = slots[r]
  BY <1>1, <1>5 DEF SlotStates
<1>8. Life' /\ host.ready
  BY <1>2, <1>4, <1>5, <1>7 DEF Callbacks, HostCallbacks
<1>9. RadioParts'
  <2>1. call.op = "done"
    BY <1>1 DEF TakeAnswer, Done
  <2>2. faults = 0 => Down(task.cur)
    BY <1>2, <2>1 DEF StopsDone
  <2>3. \A r \in SlotOf : (Ended(r))' /\ faults = 0 => Ended(r) \/ Down(r)
    BY <1>7, <2>2 DEF Ended
  <2>4. task'.at \notin {"deinit", "deinit_wait", "cancel_wait"} \cup RequestPlaces
    BY <1>4, <1>5 DEF Callbacks, HostCallbacks
  <2> QED BY <1>1, <1>2, <1>8, <2>3, <2>4, AnswerParts
<1> QED BY <1>6, <1>8, <1>9

LEMMA ExecutedKeeps ==
  ASSUME SessionInv, Executed
  PROVE  SessionInv'
<1>1. PICK ok \in BOOLEAN : TakeAnswer(ok) /\ Goto(IF ok THEN "observe" ELSE "rollback")
  BY DEF Executed
<1>2. /\ task.at = "execute_wait"
      /\ UNCHANGED <<wifi, ble, mode, held, event, faults, sess, owner, images, view, active,
                     host, slots>>
  BY DEF Executed
<1>3. TaskKept /\ task'.at \in {"observe", "rollback"}
  BY <1>1, TaskMoves
<1>4. /\ TaskTyped' /\ Life'
      /\ host.ready
  BY <1>2, <1>3, PumpLife
<1>5. RadioParts'
  <2>1. \A r \in SlotOf : (Ended(r))' => Ended(r)
    BY <1>2 DEF Ended
  <2>2. slots'[task'.cur].state = "PENDING" /\ slots'[task'.cur].started
    BY <1>2, <1>3 DEF TaskKept, CallSound
  <2> QED BY <1>1, <1>2, <1>3, <1>4, <2>1, <2>2, AnswerParts
<1> QED BY <1>4, <1>5

LEMMA RollbackKeeps ==
  ASSUME SessionInv, Rollback
  PROVE  SessionInv'
<1>1. /\ task.at = "rollback" /\ StopRadio(task.cur) /\ task.cur \in SlotOf
      /\ UNCHANGED <<sess, owner, images, view, active, host, slots>>
      /\ TaskKept /\ task'.at = "rollback_wait"
  BY TaskMoves, TaskIs DEF Rollback
<1>2. /\ TaskTyped' /\ Life'
      /\ host.ready
  BY <1>1, PumpLife
<1>3. RadioParts'
  <2>1. \A r \in SlotOf : (Ended(r))' => Ended(r)
    BY <1>1 DEF Ended
  <2>2. slots'[task.cur].state = "PENDING" /\ slots'[task.cur].started
    BY <1>1 DEF CallSound
  <2> QED BY <1>1, <1>2, <2>1, <2>2, StopParts DEF TaskKept, Waits
<1> QED BY <1>2, <1>3

LEMMA RolledBackKeeps ==
  ASSUME SessionInv, RolledBack
  PROVE  SessionInv'
<1>1. PICK ok \in BOOLEAN : TakeAnswer(ok)
  BY DEF RolledBack
<1>2. /\ task.at = "rollback_wait" /\ Pumped /\ task.cur \in SlotOf
      /\ slots' = [slots EXCEPT ![task.cur].state = "FAILED"]
      /\ UNCHANGED <<wifi, ble, mode, held, event, faults, sess, owner, images, view, active,
                     host>>
  BY TaskIs DEF RolledBack, Answered
<1>3. /\ slots' \in [SlotOf -> SlotType]
      /\ \A r \in SlotOf : r # task.cur => slots'[r] = slots[r]
  BY <1>2 DEF SlotStates
<1>4. /\ TaskTyped' /\ Life'
      /\ host.ready
  BY <1>2, <1>3, PumpLife
<1>5. RadioParts'
  <2>1. call.op = "done"
    BY <1>1 DEF TakeAnswer, Done
  <2>2. faults = 0 => Down(task.cur)
    BY <1>2, <2>1 DEF StopsDone
  <2>3. \A r \in SlotOf : (Ended(r))' /\ faults = 0 => Ended(r) \/ Down(r)
    BY <1>3, <2>2 DEF Ended
  <2>4. task'.at \in {"pump", "post"}
    BY <1>2, PumpedIs
  <2> QED BY <1>1, <1>2, <1>4, <2>3, <2>4, AnswerParts
<1> QED BY <1>4, <1>5

(* A request is executed: a stop, a start, or nothing without credentials. *)
LEMMA ExecuteKeeps ==
  ASSUME SessionInv, Execute
  PROVE  SessionInv'
<1>1. /\ task.at = "pump" /\ task.cur \in SlotOf /\ slots[task.cur].state = "PENDING"
      /\ UNCHANGED <<sess, owner, images, view, active, host>>
      /\ TaskKept /\ task'.at = "execute_wait"
      /\ slots' = [slots EXCEPT ![task.cur].started = TRUE, ![task.cur].left = RequestTimeout]
  BY TaskMoves, TaskIs DEF Execute, Slot
<1>2. /\ slots' \in [SlotOf -> SlotType]
      /\ slots'[task.cur].state = "PENDING" /\ slots'[task.cur].started
      /\ \A r \in SlotOf : r # task.cur => slots'[r] = slots[r]
  BY <1>1, TimeoutsAssumption
<1>3. /\ TaskTyped' /\ Life'
      /\ host.ready
  BY <1>1, <1>2, PumpLife
<1>4. \A r \in SlotOf : (Ended(r))' => Ended(r) /\ r # task.cur
  BY <1>2 DEF Ended
<1>5. CASE StopRadio(task.cur)
  <2>1. RadioParts'
    BY <1>1, <1>2, <1>3, <1>4, <1>5, StopParts DEF TaskKept, Waits
  <2> QED BY <1>3, <2>1
<1>6. CASE ~StopRadio(task.cur)
  <2>1. \/ task.cur = "ble" /\ StartBle
        \/ task.cur = "wifi" /\ (StartWifi("STA") \/ NoCredentials)
    BY <1>1, <1>6 DEF Execute
  <2>2. RadioInv'
    BY <2>1, StartBleKeeps, StartWifiKeeps, RefusedKeeps DEF NoCredentials
  <2>3. /\ UNCHANGED <<wifi, ble, held, event, faults>>
        /\ call'.op \in {"start", "done"} /\ (call'.op = "start" => call'.radio = task.cur)
        /\ call'.op = "start" /\ task.cur = "wifi" => mode' = "STA"
    BY <2>1 DEF StartBle, StartWifi, NoCredentials, Done
  <2>4. \A r \in RadioNames : (Down(r))' = Down(r)
    BY <2>3 DEF Down, StateOf, HeldOf
  <2>5. HostSound' /\ CallSound' /\ StopsDone'
    BY <1>1, <1>2, <1>3, <2>3 DEF HostSound, CallSound, StopsDone, TaskKept, Waits
  <2>6. StationOnly'
    BY <1>1, <2>3 DEF StationOnly
  <2>7. EndedDown'
    BY <1>4, <2>3, <2>4 DEF EndedDown, Busy
  <2> QED BY <1>3, <2>2, <2>5, <2>6, <2>7
<1> QED BY <1>5, <1>6

-----------------------------------------------------------------------------
(* A step of the radios: the task and the package stay where they are.     *)
LEMMA RadioStepKeeps ==
  ASSUME SessionInv, RadioStep
  PROVE  SessionInv'
<1>1. UNCHANGED <<task, sess, owner, images, view, active, host, slots>>
  BY DEF RadioStep
<1>2. TaskTyped' /\ Life'
  BY <1>1 DEF TaskTyped
<1>3. \A r \in SlotOf : (Ended(r))' = Ended(r)
  BY <1>1 DEF Ended
<1>4. task.cur \in SlotOf
  BY TaskIs
<1>5. CASE WifiEvent
  <2>1. /\ RadioInv' /\ UNCHANGED <<ble, mode, held, call, faults>>
        /\ wifi' # wifi => "STOPPED" \notin {wifi', wifi} \/ Busy("wifi")
        /\ wifi' # "AP_RUNNING" \/ wifi = "AP_RUNNING"
    BY <1>5, WifiEventKeeps
  <2>2. /\ \A r \in RadioNames : (Busy(r))' = Busy(r) /\ (HeldOf(r))' = HeldOf(r)
        /\ (StateOf("ble"))' = StateOf("ble")
    BY <2>1 DEF Busy, HeldOf, StateOf
  <2>3. \A r \in RadioNames : Down(r) /\ ~Busy(r) => (Down(r))'
    BY <2>1, <2>2 DEF Down, StateOf
  <2>4. ~host.ready => ~Busy("wifi") /\ ~Busy("ble")
    <3>1. task.at \in Waits => host.ready
      BY TaskIs DEF TaskTyped, Waits, Callbacks, HostCallbacks
    <3> QED BY <3>1 DEF CallSound, Busy
  <2>5. HostSound'
    BY <1>1, <2>1, <2>3, <2>4 DEF HostSound
  <2>6. CallSound' /\ StationOnly'
    BY <1>1, <2>1 DEF CallSound, StationOnly
  <2>7. StopsDone'
    BY <1>1, <1>4, <2>1, <2>3 DEF StopsDone, CallSound, Busy, Waits
  <2>8. EndedDown'
    BY <1>3, <2>1, <2>2, <2>3 DEF EndedDown
  <2> QED BY <1>2, <2>1, <2>5, <2>6, <2>7, <2>8
<1>6. CASE RadioCallStep
  <2>1. /\ RadioInv'
        /\ call.op \in {"start", "stop"} /\ call.radio \in RadioNames
        /\ call'.op \in {"start", "stop", "done"}
        /\ call'.op \in {"start", "stop"} => call'.radio = call.radio
        /\ call'.op = "start" => call.op = "start"
        /\ mode' = mode /\ faults' \in Nat /\ (faults' = 0 => faults = 0)
        /\ wifi' = "AP_RUNNING" => wifi = "AP_RUNNING" \/ (mode = "AP" /\ call.op = "start")
        /\ \A r \in RadioNames :
             IF r = call.radio
             THEN call.op = "stop" /\ call'.op = "done"
                    /\ (faults' = 0 \/ call' = Done(TRUE)) => (Down(r))'
             ELSE (StateOf(r))' = StateOf(r) /\ (HeldOf(r))' = HeldOf(r)
    BY <1>6, CallStepEffects
  <2>2. task.at \in Waits /\ call.radio = task.cur /\ Busy(task.cur)
    BY <2>1 DEF CallSound, Busy
  <2>3. \A r \in RadioNames : r # task.cur =>
          (Down(r))' = Down(r) /\ ~Busy(r) /\ ~(Busy(r))'
    BY <2>1, <2>2 DEF Down, Busy
  <2>4. HostSound'
    <3>1. host.ready
      BY <2>2, TaskIs DEF TaskTyped, Waits, Callbacks, HostCallbacks
    <3> QED BY <3>1, <1>1 DEF HostSound
  <2>5. CallSound'
    BY <1>1, <2>1, <2>2 DEF CallSound
  <2>6. StationOnly'
    <3>1. call.radio # "wifi" => wifi' = wifi
      BY <2>1 DEF StateOf
    <3> QED BY <3>1, <2>1 DEF StationOnly
  <2>7. StopsDone'
    <3>1. faults' = 0 /\ task.at \in {"deinit_wait", "rollback_wait", "cancel_wait"}
            /\ call'.op = "done" => (Down(task.cur))'
      <4> SUFFICES ASSUME NEW r \in SlotOf, r = task.cur, faults' = 0, call'.op = "done",
                          task.at \in {"deinit_wait", "rollback_wait", "cancel_wait"}
                   PROVE  (Down(r))'
        BY <1>1, <1>4
      <4> QED BY <2>1, <2>2 DEF CallSound
    <3>2. faults' = 0 /\ task.at \in {"deinit", "deinit_wait"} /\ task.cur = "ble" =>
            (Down("wifi"))'
      BY <2>1, <2>3 DEF StopsDone
    <3> QED BY <1>1, <3>1, <3>2 DEF StopsDone
  <2>8. EndedDown'
    BY <1>3, <2>1, <2>2, <2>3 DEF EndedDown
  <2> QED BY <1>2, <2>1, <2>4, <2>5, <2>6, <2>7, <2>8
<1> QED BY <1>5, <1>6 DEF RadioStep

-----------------------------------------------------------------------------
LEMMA SessionInit == Init => SessionInv
<1> SUFFICES ASSUME Init PROVE SessionInv
  OBVIOUS
<1>1. RadioInv /\ Down("wifi") /\ Down("ble") /\ call.op = "none" /\ wifi = "STOPPED"
  BY RadiosInit, Holdings DEF Init, RadioInit, Down, StateOf, NoRadioCall
<1>2. TaskTyped /\ task.at = "off"
  BY DEF Init, Away, TaskTyped, TaskType, Places, Steps
<1>3. SessionTyped /\ ImageSound
  BY SlotTyped DEF Init, NoSession, NoHost
<1>4. InRun /\ InLoad /\ OutOfRun
  BY <1>2 DEF Init, NoSession, NoHost
<1>5. HostSound /\ CallSound /\ StationOnly /\ StopsDone
  BY <1>1, <1>2 DEF HostSound, CallSound, StationOnly, StopsDone, Init
<1>6. EndedDown
  BY <1>1 DEF EndedDown, Busy
<1> QED BY <1>1, <1>2, <1>3, <1>4, <1>5, <1>6

LEMMA SessionStutters ==
  ASSUME SessionInv, UNCHANGED vars
  PROVE  SessionInv'
<1>1. UNCHANGED <<wifi, ble, mode, held, event, call, faults, task, sess, owner, images, view,
                  active, host, slots>>
  BY DEF vars
<1>2. RadioInv' /\ \A r \in RadioNames : (Down(r))' = Down(r) /\ (Busy(r))' = Busy(r)
  BY <1>1, RadioQuiet DEF RadioInv, RadioTyped
<1>3. TaskTyped' /\ Life'
  BY <1>1 DEF TaskTyped
<1>4. HostSound' /\ CallSound' /\ StationOnly'
  BY <1>1, <1>2 DEF HostSound, CallSound, StationOnly
<1>5. StopsDone'
  <2>1. task.cur \in SlotOf
    BY TaskIs
  <2>2. faults = 0 /\ task.at \in {"deinit_wait", "rollback_wait", "cancel_wait"}
          /\ call.op = "done" => (Down(task.cur))'
    <3> SUFFICES ASSUME NEW r \in SlotOf, r = task.cur, faults = 0, call.op = "done",
                        task.at \in {"deinit_wait", "rollback_wait", "cancel_wait"}
                 PROVE  (Down(r))'
      BY <1>1, <2>1
    <3> QED BY <1>2 DEF StopsDone
  <2> QED BY <1>1, <1>2, <2>2 DEF StopsDone
<1>6. EndedDown'
  BY <1>1, <1>2 DEF EndedDown, Ended
<1> QED BY <1>2, <1>3, <1>4, <1>5, <1>6

LEMMA SessionNext ==
  ASSUME SessionInv, [Next]_vars
  PROVE  SessionInv'
<1>1. CASE TaskStep
  <2>1. CASE CallbackReturns
    BY <2>1, EntryReturnsKeeps, OnLoadReturnsKeeps, UnloadEarlyReturnsKeeps,
       OnStartReturnsKeeps, OnEventReturnsKeeps, OnRenderReturnsKeeps, OnStopReturnsKeeps,
       OnUnloadReturnsKeeps DEF CallbackReturns
  <2>2. CASE ~CallbackReturns
    BY <1>1, <2>2, FinishStepKeeps, DlcloseKeeps, StopRadiosKeeps, RadiosStoppedKeeps,
       EnterStartKeeps, EnterActiveKeeps, HostInitKeeps, DlopenKeeps, PresentKeeps, PostKeeps,
       CancelledKeeps, PumpIdleKeeps, ExecuteKeeps, ExecutedKeeps, ObserveKeeps,
       RollbackKeeps, RolledBackKeeps, ReturnKeeps, PressKeeps DEF TaskStep
  <2> QED BY <2>1, <2>2
<1>2. CASE HostCall
  BY <1>2, AskKeeps, StatusKeeps, CancelKeeps, RequestKeeps DEF HostCall
<1>3. CASE RadioStep \/ Tick
  BY <1>3, RadioStepKeeps, TickKeeps
<1>4. CASE \E kind \in {"face", "app"} : Run(kind)
  BY <1>4, RunKeeps
<1>5. CASE \E mask \in Mask : TakePress(mask)
  BY <1>5, PressKeeps
<1>6. CASE UNCHANGED vars
  BY <1>6, SessionStutters
<1> QED BY <1>1, <1>2, <1>3, <1>4, <1>5, <1>6 DEF Next

(* Wherever the application task is, what the package has been told, what  *)
(* of it is mapped, what the host keeps and what the radios hold agree.    *)
THEOREM SessionInvariant == Spec => []SessionInv
<1> HIDE DEF SessionInv
<1> QED BY SessionInit, SessionNext, PTL DEF Spec

(* The callbacks of package_runtime.c are paired, whichever of them fails. *)
THEOREM LifecycleAlwaysPaired == Spec => []LifecyclePaired
<1>1. SessionInv => LifecyclePaired
  <2> SUFFICES ASSUME SessionInv PROVE LifecyclePaired
    OBVIOUS
  <2>1. task.at # "cancel_wait" => Place = task.at
    OBVIOUS
  <2>2. task.at \in HostCallbacks => ~Gone
    BY <2>1 DEF HostCallbacks
  <2> QED BY <2>1, <2>2 DEF LifecyclePaired
<1> HIDE DEF SessionInv
<1> QED BY <1>1, SessionInvariant, PTL

(* Nothing of a package stays behind when the runner comes back, but an    *)
(* image that cannot be unmapped and what failed to stop.                  *)
THEOREM NothingEverResident == Spec => []NothingResident
<1>1. SessionInv => NothingResident
  <2> SUFFICES ASSUME SessionInv, task.at = "off" PROVE
         /\ ~active /\ host = NoHost /\ \A r \in SlotOf : slots[r] = NoSlot
         /\ Gone
         /\ faults = 0 => held = {} /\ wifi = "STOPPED" /\ ble = "STOPPED"
    BY DEF NothingResident
  <2>1. ~active /\ ~host.ready /\ Gone
    OBVIOUS
  <2>2. host = NoHost /\ slots = [r \in SlotOf |-> NoSlot]
    BY <2>1 DEF HostSound
  <2>3. ASSUME faults = 0 PROVE held = {} /\ wifi = "STOPPED" /\ ble = "STOPPED"
    <3>1. Down("wifi") /\ Down("ble")
      BY <2>1, <2>3 DEF HostSound
    <3>2. held \cap WifiHeld = {} /\ held \cap BleHeld = {}
      BY <3>1, Holdings DEF Down
    <3>3. held \subseteq WifiHeld \cup BleHeld
      BY DEF RadioInv, RadioTyped
    <3> QED BY <3>1, <3>2, <3>3 DEF Down, StateOf
  <2> QED BY <2>1, <2>2, <2>3
<1> HIDE DEF SessionInv
<1> QED BY <1>1, SessionInvariant, PTL

(* A start that failed or was cancelled leaves its radio down until it is  *)
(* started again, unless a step of the stop failed.                        *)
THEOREM EndedAlwaysMeansOff == Spec => []EndedMeansOff
<1>1. SessionInv => EndedMeansOff
  BY DEF EndedDown, EndedMeansOff, Ended, Down
<1> HIDE DEF SessionInv
<1> QED BY <1>1, SessionInvariant, PTL
=============================================================================
