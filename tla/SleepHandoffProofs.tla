-------------------------- MODULE SleepHandoffProofs --------------------------
(***************************************************************************)
(* For every set of buttons, every length of the event queue and every     *)
(* debounce time: what the button service promises under any client, and   *)
(* what the way into deep sleep makes of it.                               *)
(*                                                                         *)
(* The invariant of the service is the parking handshake spelled out: who  *)
(* may be where while the service does not run.  Deep sleep is the one     *)
(* step that is not the service's own: it starts it afresh.                *)
(***************************************************************************)
EXTENDS SleepHandoff, TLAPS

AtRest == {"none", "resume", "parked"}

Filters ==
  [stable : SUBSET Buttons, candidate : SUBSET Buttons, pending : SUBSET Buttons,
   age : [Buttons -> Nat]]

ServiceTyped ==
  /\ level \in SUBSET Buttons
  /\ queue \in Seq(SUBSET Buttons)
  /\ batch \in SUBSET Buttons
  /\ filter \in Filters
  /\ sent \in Nat /\ taken \in Nat

(* The mutex is held exactly in the two critical sections, and a batch     *)
(* exists only in the producer's.                                          *)
MutexSound ==
  /\ mutex = "producer" <=> producer \in {"observe", "send"}
  /\ mutex = "app" <=> api \in {"stopping", "starting"}
  /\ batch # {} => producer = "send"
  /\ created <=> producer # "none"

(* A stopped service has its producer at rest, except while the call that  *)
(* stops it still waits for the park.                                      *)
ParkSound ==
  /\ parked => ~running /\ producer \in AtRest
  /\ ~running /\ (api \notin {"unhook", "waitPark"} \/ ~ready) => producer \in AtRest

(* What a call knows at each of its steps.                                 *)
CallSound ==
  /\ api \in {"unhook", "waitPark", "stopped", "hook", "startLock", "starting"} => ~running
  /\ api \in {"start", "hook", "startLock", "starting"} => ready
  /\ api \in {"startLock", "starting"} => handlers /\ created
  /\ running => handlers /\ created

(* A service that is not ready holds nothing back.                         *)
EventsKept ==
  /\ NothingLostSilently
  /\ ~ready => ~running /\ queue = <<>> /\ sent = taken

(* From the first baseline on, the filter counts a button as pressed until *)
(* its pin was low.                                                        *)
FilterSound ==
  /\ Buttons \ level \subseteq released
  /\ created \/ api = "hook" => Buttons \ filter.stable \subseteq released

ServiceInv ==
  /\ ServiceTyped /\ MutexSound /\ ParkSound /\ CallSound /\ EventsKept /\ FilterSound

(* Only four stages of the main loop call the service; the shell and the   *)
(* loop have it running, and the pins are armed only with nothing waiting. *)
LoopSound ==
  /\ api # "idle" => stage \in {"booting", "quiesce", "vetoed", "failed"}
  /\ stage \in {"booting", "shell", "loop"} => services
  /\ stage \in {"shell", "loop"} => running
  /\ stage = "quiesce" =>
       /\ goal = "quiesce_for_sleep"
       /\ api \in {"stop", "stopping", "unhook", "waitPark", "stopped", "idle"}
       /\ api = "idle" => ~running /\ (~veto => queue = <<>> /\ ~overflowed)
  /\ stage = "pins" => ~running /\ queue = <<>> /\ ~overflowed

HandoffInv == ServiceInv /\ LoopSound
USE DEF AtRest, ServiceTyped, MutexSound, ParkSound, CallSound, EventsKept, FilterSound,
        ServiceInv, LoopSound, HandoffInv, NothingLostSilently,
        pinVars, flagVars, queueVars, producerVars, apiVars

(* The queue operations the service uses.                                  *)
LEMMA QueueSteps ==
  ASSUME NEW q \in Seq(SUBSET Buttons), NEW m \in SUBSET Buttons
  PROVE  /\ q \o <<>> = q
         /\ q \o <<m>> \in Seq(SUBSET Buttons) /\ Len(q \o <<m>>) = Len(q) + 1
         /\ <<>> \in Seq(SUBSET Buttons) /\ Len(<<>>) = 0
         /\ Len(q) \in Nat
         /\ q # <<>> => Tail(q) \in Seq(SUBSET Buttons) /\ Len(Tail(q)) = Len(q) - 1
OBVIOUS

(* The filter after a baseline, a tick and an observation.                 *)
LEMMA Baseline ==
  ASSUME NEW sample \in SUBSET Buttons
  PROVE  FilterInit(sample) \in Filters /\ FilterInit(sample).stable = sample
BY DEF FilterInit, Filters

LEMMA Observation ==
  ASSUME NEW f \in Filters, NEW sample \in SUBSET Buttons
  PROVE  /\ Observed(f, sample) \in Filters
         /\ Emitted(f, sample) \subseteq sample
         /\ Emitted(f, sample) \cap f.stable = {}
         /\ Buttons \ Observed(f, sample).stable
              \subseteq ((Buttons \ f.stable) \ Emitted(f, sample)) \cup (Buttons \ sample)
BY DEF Observed, Emitted, Settled, Filters

-----------------------------------------------------------------------------
LEMMA InitSound ==
  ASSUME level \in SUBSET Buttons, released = Buttons \ level,
         queue = <<>>, batch = {}, filter = FilterInit({}), sent = 0, taken = 0,
         mutex = "free", producer = "none", created = FALSE, parked = TRUE,
         running = FALSE, ready = FALSE, api = "idle"
  PROVE  ServiceInv
BY Baseline, QueueSteps

LEMMA PinSteps ==
  ASSUME ServiceInv, Environment
  PROVE  ServiceInv'
<1>1. CASE Tick
  <2>1. filter' \in Filters /\ filter'.stable = filter.stable
    <3> DEFINE age == [b \in Buttons |-> IF b \in filter.pending /\ filter.age[b] < Debounce
                                         THEN filter.age[b] + 1 ELSE filter.age[b]]
    <3>1. age \in [Buttons -> Nat] BY DEF Filters
    <3>2. filter' = [filter EXCEPT !.age = age] BY <1>1 DEF Tick
    <3> QED BY <3>1, <3>2 DEF Filters
  <2> QED BY <1>1, <2>1 DEF Tick
<1>2. ASSUME NEW b \in Buttons, Edge(b) PROVE ServiceInv'
  BY <1>2 DEF Edge
<1> QED BY <1>1, <1>2 DEF Environment

LEMMA ProducerSteps ==
  ASSUME ServiceInv, Producer
  PROVE  ServiceInv'
<1>1. CASE ParkOrGo BY <1>1 DEF ParkOrGo
<1>2. CASE Unpark BY <1>2 DEF Unpark
<1>3. CASE Lock BY <1>3 DEF Lock
<1>4. CASE ObserveStopped BY <1>4 DEF ObserveStopped
<1>5. CASE AfterEnqueue BY <1>5 DEF AfterEnqueue
<1>6. CASE ChooseTimeout BY <1>6 DEF ChooseTimeout
<1>7. CASE WaitEnds BY <1>7 DEF WaitEnds
<1>8. CASE Observe
  <2>1. batch = {} /\ created BY <1>8 DEF Observe
  <2>2. batch' \in SUBSET Buttons BY <1>8, Observation DEF Observe
  <2>3. ServiceTyped' /\ MutexSound' /\ ParkSound' /\ CallSound'
    BY <1>8, <2>2, Observation DEF Observe
  <2>4. EventsKept' BY <1>8, <2>1 DEF Observe
  <2>5. FilterSound' BY <1>8, <2>1, Observation DEF Observe
  <2> QED BY <2>3, <2>4, <2>5
<1>9. CASE Send
  <2>1. \/ overflowed' = TRUE /\ queue' = queue
        \/ batch = {} /\ queue' = queue /\ overflowed' = overflowed
        \/ batch # {} /\ queue' = queue \o <<batch>> /\ overflowed' = overflowed
    BY <1>9, QueueSteps DEF Send, Publish
  <2>2. queue' \in Seq(SUBSET Buttons) BY <2>1, QueueSteps
  <2>3. ready BY <1>9 DEF Send
  <2>4. EventsKept'
    <3>1. /\ batch' = {} /\ sent' = sent /\ taken' = taken /\ ready' = ready
          /\ Len(queue) \in Nat /\ Len(queue \o <<batch>>) = Len(queue) + 1
      BY <1>9, QueueSteps DEF Send
    <3> QED BY <2>1, <2>3, <3>1
  <2>5. ServiceTyped' /\ MutexSound' /\ ParkSound' /\ CallSound' /\ FilterSound'
    BY <1>9, <2>2 DEF Send
  <2> QED BY <2>4, <2>5
<1> QED BY <1>1, <1>2, <1>3, <1>4, <1>5, <1>6, <1>7, <1>8, <1>9 DEF Producer

LEMMA CallSteps ==
  ASSUME ServiceInv, CallStep
  PROVE  ServiceInv'
<1>1. CASE StopLock BY <1>1 DEF StopLock
<1>2. CASE StopFlags BY <1>2 DEF StopFlags
<1>3. CASE Unhook BY <1>3 DEF Unhook
<1>4. CASE ParkSeen BY <1>4 DEF ParkSeen
<1>5. CASE SleepVeto BY <1>5 DEF SleepVeto
<1>6. CASE ResumeFailed BY <1>6 DEF ResumeFailed
<1>7. CASE StartRunning BY <1>7 DEF StartRunning
<1>8. CASE Hook BY <1>8 DEF Hook
<1>9. CASE StartLock BY <1>9 DEF StartLock
<1>10. CASE StartFlags BY <1>10 DEF StartFlags
<1>11. CASE Discard
  BY <1>11, QueueSteps DEF Discard
<1>12. CASE StartFilter
  BY <1>12, Baseline DEF StartFilter
<1> QED BY <1>1, <1>2, <1>3, <1>4, <1>5, <1>6, <1>7, <1>8, <1>9, <1>10, <1>11, <1>12 DEF CallStep

LEMMA ClientSteps ==
  ASSUME ServiceInv, Client
  PROVE  ServiceInv'
<1>1. CASE Take BY <1>1, QueueSteps DEF Take
<1>2. CASE ButtonsInit BY <1>2, QueueSteps DEF ButtonsInit, Call
<1>3. CASE Resume BY <1>3 DEF Resume, Call
<1>4. CASE QuiesceForSleep BY <1>4 DEF QuiesceForSleep, Call
<1>5. CASE Quiesce BY <1>5 DEF Quiesce, Call
<1> QED BY <1>1, <1>2, <1>3, <1>4, <1>5 DEF Client

LEMMA ServiceStep == ServiceInv /\ [Next]_vars => ServiceInv'
<1>1. CASE UNCHANGED vars BY <1>1 DEF vars
<1> QED BY <1>1, PinSteps, ProducerSteps, CallSteps, ClientSteps DEF Next

LEMMA ServiceInit == Init => ServiceInv
BY InitSound DEF Init

(* The inductive invariant of the service: where everyone may be while a   *)
(* call stops or starts it (buttons.c:89-101, 205-243).                    *)
THEOREM ServiceInvariant == Spec => []ServiceInv
<1> HIDE DEF ServiceInv, HandoffInv, NothingLostSilently
<1> QED BY ServiceInit, ServiceStep, PTL DEF Spec

(* Every event is taken, waits, is being queued, or has left the overflow  *)
(* latched (buttons.c:184-189).                                            *)
THEOREM NothingEverLostSilently == Spec => []NothingLostSilently
<1>1. ServiceInv => NothingLostSilently OBVIOUS
<1> HIDE DEF ServiceInv, HandoffInv, NothingLostSilently
<1> QED BY <1>1, ServiceInvariant, PTL

(* The filter is reset, and a stop returns, only with the producer parked  *)
(* or about to (buttons.c:240-243).                                        *)
THEOREM ProducerAlwaysAtRest == Spec => []ProducerAtRest
<1>1. ServiceInv => ProducerAtRest BY DEF ProducerAtRest
<1> HIDE DEF ServiceInv, HandoffInv, NothingLostSilently
<1> QED BY <1>1, ServiceInvariant, PTL

(* One hold of a button gives one event, whatever stops and restarts came  *)
(* between (buttons_policy.c:93).                                          *)
LEMMA BatchReleased ==
  ASSUME ServiceInv, [Next]_vars, NEW b \in batch' \ batch
  PROVE  b \in released
<1>1. Observe
  BY DEF vars, Next, Environment, Edge, Tick, Client, Take, ButtonsInit, Resume,
         QuiesceForSleep, Quiesce, CallStep, StopLock, StopFlags, Unhook, ParkSeen,
         SleepVeto, Discard, ResumeFailed, StartRunning, StartFilter, Hook, StartLock,
         StartFlags, Producer, ParkOrGo, Unpark, Lock, ObserveStopped, Send,
         AfterEnqueue, ChooseTimeout, WaitEnds
<1>2. b \in Emitted(filter, level) /\ created BY <1>1 DEF Observe
<1> QED BY <1>2, Observation

THEOREM AlwaysOneEventPerHold == Spec => OneEventPerHold
<1>1. ServiceInv /\ [Next]_vars => [\A b \in batch' \ batch : b \in released]_vars
  BY BatchReleased
<1> HIDE DEF ServiceInv, HandoffInv, NothingLostSilently
<1> QED BY <1>1, ServiceInvariant, PTL DEF Spec, OneEventPerHold

-----------------------------------------------------------------------------
(* The main loop and deep sleep.                                           *)
LEMMA HandoffInitSound == HandoffInit => HandoffInv
<1> SUFFICES ASSUME HandoffInit PROVE HandoffInv OBVIOUS
<1>1. ServiceInv BY ServiceInit DEF HandoffInit
<1> QED BY <1>1 DEF HandoffInit, Init

(* Every step but the entry into deep sleep is one of the service.         *)
LEMMA HandoffStepsService ==
  ASSUME [HandoffNext]_allVars
  PROVE  [Next]_vars \/ EnterSleep
BY DEF HandoffNext, allVars, Application, Next, Client, Boot, Booted, ShellTakes, ShellIdles,
       ShellFails, LoopSeesInput, Teardown, SampleWakeSources, PrepareRefused,
       PrepareQuiesces, Vetoed, NoVeto, VetoHandled, PinsFail, FailHandled, Wake

LEMMA SleepStartsAfresh ==
  ASSUME ServiceInv, EnterSleep
  PROVE  ServiceInv'
BY QueueSteps, Baseline DEF EnterSleep

LEMMA ServiceInHandoff == ServiceInv /\ [HandoffNext]_allVars => ServiceInv'
BY HandoffStepsService, ServiceStep, SleepStartsAfresh

(* What a step of the service leaves of the main loop's knowledge.         *)
LEMMA ServiceKeepsLoop ==
  ASSUME HandoffInv, Environment \/ Producer \/ CallStep, UNCHANGED loopVars
  PROVE  LoopSound'
<1> USE DEF loopVars
<1>1. CASE Environment
  BY <1>1 DEF Environment, Edge, Tick
<1>2. CASE Producer
  <2>1. api' = api /\ goal' = goal /\ veto' = veto /\ running' = running
    BY <1>2 DEF Producer, ParkOrGo, Unpark, Lock, ObserveStopped, Observe, Send,
                AfterEnqueue, ChooseTimeout, WaitEnds
  <2>2. producer \in AtRest => queue' = queue /\ overflowed' = overflowed
    BY <1>2 DEF Producer, ParkOrGo, Unpark, Lock, ObserveStopped, Observe, Send,
                AfterEnqueue, ChooseTimeout, WaitEnds
  <2> QED BY <1>2, <2>1, <2>2
<1>3. CASE CallStep
  <2>1. CASE StopLock BY <2>1 DEF StopLock
  <2>2. CASE StopFlags BY <2>2 DEF StopFlags
  <2>3. CASE Unhook BY <2>3 DEF Unhook
  <2>4. CASE ParkSeen BY <2>4 DEF ParkSeen
  <2>5. CASE SleepVeto BY <2>5 DEF SleepVeto
  <2>6. CASE Discard BY <2>6 DEF Discard
  <2>7. CASE ResumeFailed BY <2>7 DEF ResumeFailed
  <2>8. CASE StartRunning BY <2>8 DEF StartRunning
  <2>9. CASE StartFilter BY <2>9 DEF StartFilter
  <2>10. CASE Hook BY <2>10 DEF Hook
  <2>11. CASE StartLock BY <2>11 DEF StartLock
  <2>12. CASE StartFlags BY <2>12 DEF StartFlags
  <2> QED
    BY <1>3, <2>1, <2>2, <2>3, <2>4, <2>5, <2>6, <2>7, <2>8, <2>9, <2>10, <2>11, <2>12
    DEF CallStep
<1> QED BY <1>1, <1>2, <1>3

LEMMA LoopKeeps ==
  ASSUME HandoffInv, Application
  PROVE  LoopSound'
<1> USE DEF At, Settle, Closed
<1>1. CASE Boot BY <1>1 DEF Boot, ButtonsInit, Call
<1>2. CASE Booted BY <1>2 DEF Booted, vars
<1>3. CASE ShellTakes BY <1>3 DEF ShellTakes, Take
<1>4. CASE ShellIdles BY <1>4 DEF ShellIdles, vars
<1>5. CASE ShellFails BY <1>5 DEF ShellFails, vars
<1>6. CASE LoopSeesInput BY <1>6 DEF LoopSeesInput, vars
<1>7. CASE Teardown BY <1>7 DEF Teardown, vars
<1>8. CASE SampleWakeSources BY <1>8 DEF SampleWakeSources, vars
<1>9. CASE PrepareRefused BY <1>9 DEF PrepareRefused, vars
<1>10. CASE PrepareQuiesces BY <1>10 DEF PrepareQuiesces, QuiesceForSleep, Call
<1>11. CASE Vetoed BY <1>11 DEF Vetoed, Resume, Call
<1>12. CASE NoVeto BY <1>12 DEF NoVeto, vars
<1>13. CASE VetoHandled BY <1>13 DEF VetoHandled, vars
<1>14. CASE PinsFail BY <1>14 DEF PinsFail, Resume, Call
<1>15. CASE FailHandled BY <1>15 DEF FailHandled, vars
<1>16. CASE EnterSleep BY <1>16 DEF EnterSleep, vars
<1>17. CASE Wake BY <1>17 DEF Wake, vars
<1> QED
  BY <1>1, <1>2, <1>3, <1>4, <1>5, <1>6, <1>7, <1>8, <1>9,
     <1>10, <1>11, <1>12, <1>13, <1>14, <1>15, <1>16, <1>17
  DEF Application

LEMMA HandoffStep == HandoffInv /\ [HandoffNext]_allVars => HandoffInv'
<1> SUFFICES ASSUME HandoffInv, [HandoffNext]_allVars PROVE HandoffInv' OBVIOUS
<1>1. ServiceInv' BY ServiceInHandoff
<1>2. CASE UNCHANGED allVars
  BY <1>2 DEF allVars, vars, loopVars
<1>3. LoopSound' BY <1>2, ServiceKeepsLoop, LoopKeeps DEF HandoffNext
<1> QED BY <1>1, <1>3

(* What the main loop may rely on at each stage (main.c:1161, power.c:287).*)
THEOREM HandoffInvariant == HandoffSpec => []HandoffInv
<1> HIDE DEF ServiceInv, HandoffInv, NothingLostSilently
<1> QED BY HandoffInitSound, HandoffStep, PTL DEF HandoffSpec

(* The shell runs with live input and its peripherals, also after vetoed   *)
(* sleeps (power.c:179-194).                                               *)
THEOREM ShellAlwaysWhole == HandoffSpec => []ShellIsWhole
<1>1. HandoffInv => ShellIsWhole BY DEF ShellIsWhole, At
<1> HIDE DEF ServiceInv, HandoffInv, NothingLostSilently
<1> QED BY <1>1, HandoffInvariant, PTL

(* Deep sleep is entered only when every captured event was taken and none *)
(* was dropped (power.c:287-294).                                          *)
THEOREM SleepNeverLoses == HandoffSpec => SleepLosesNothing
<1> DEFINE Kept == stage' = "asleep" /\ stage # "asleep"
                     => sent = taken /\ ~overflowed /\ batch = {}
<1>1. ASSUME HandoffInv, [HandoffNext]_allVars, stage' = "asleep", stage # "asleep"
      PROVE  sent = taken /\ ~overflowed /\ batch = {}
  <2>1. EnterSleep
    BY <1>1 DEF HandoffNext, allVars, loopVars, Application, At, Settle, Closed, Boot,
      Booted, ShellTakes, ShellIdles, ShellFails, LoopSeesInput, Teardown,
      SampleWakeSources, PrepareRefused, PrepareQuiesces, Vetoed, NoVeto, VetoHandled,
      PinsFail, FailHandled, Wake
  <2>2. stage = "pins" /\ api = "idle" BY <2>1 DEF EnterSleep, At
  <2>3. batch = {} /\ queue = <<>> /\ ~overflowed BY <1>1, <2>2
  <2> QED BY <1>1, <2>3, QueueSteps
<1>2. HandoffInv /\ [HandoffNext]_allVars => [Kept]_allVars BY <1>1
<1> HIDE DEF ServiceInv, HandoffInv, NothingLostSilently
<1> QED BY <1>2, HandoffInvariant, PTL DEF HandoffSpec, SleepLosesNothing
=============================================================================
