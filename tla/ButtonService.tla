---------------------------- MODULE ButtonService ----------------------------
(***************************************************************************)
(* The button service of the HAL (buttons.c, buttons_policy.c).  Four       *)
(* parties share its state: the pins, whose edges raise an interrupt; the  *)
(* producer task, which debounces the pins and queues an event per stable  *)
(* press; the application task, which takes events and stops and restarts  *)
(* the service around deep sleep; and the tick that drives the debounce.   *)
(*                                                                         *)
(* What guards what: running, accepting and parked are written inside a    *)
(* critical section; sampling, filter and queue under publication_mutex,   *)
(* which stopping and starting take as well.  The filter is also read by   *)
(* the producer and reset by start_event_service without the mutex: only   *)
(* the parking handshake keeps the two apart.                              *)
(*                                                                         *)
(* A call of the application is a sequence of steps; api is the step it is *)
(* at and goal the function it was made for.  Here a client makes the      *)
(* calls in any order; SleepHandoff makes those the firmware makes.        *)
(***************************************************************************)
EXTENDS Integers, Sequences

CONSTANTS
  Buttons,     \* the buttons
  QueueMax,    \* WATCHY_BUTTON_EVENT_QUEUE_LENGTH
  Debounce,    \* WATCHY_BUTTON_DEBOUNCE_MS, in ticks of the producer
  EdgesMax     \* bound: level changes of the pins in a behaviour

ASSUME QueueAssumption == QueueMax \in Nat \ {0}
ASSUME DebounceAssumption == Debounce \in Nat \ {0}
ASSUME EdgesAssumption == EdgesMax \in Nat

VARIABLES
  level,       \* the buttons whose pin is high
  edges,       \* level changes so far
  hold,        \* history: what became of the hold each button is in
  released,    \* history: buttons whose pin was low since their last event
  ready,       \* s_ready
  running,     \* s_service_running
  accepting,   \* s_accepting_isr
  parked,      \* s_producer_parked
  overflowed,  \* s_overflowed
  created,     \* s_producer_created
  handlers,    \* the interrupt handlers are installed
  queue,       \* s_event_queue, masks not taken yet
  filter,      \* s_filter
  mutex,       \* who holds s_publication_mutex
  notified,    \* the producer's task notification is set
  producer,    \* the step the producer task is at
  resumed,     \* its local: it was parked before this round
  batch,       \* its local: the mask to queue
  api,         \* the step the application's call is at
  goal,        \* the call it makes
  veto,        \* what the last quiesce_for_sleep answered
  sent, taken  \* history: events the filter emitted, events the client took

pinVars == <<level, edges, hold, released>>
flagVars == <<ready, running, accepting, parked, created, handlers>>
queueVars == <<queue, overflowed, sent, taken>>
producerVars == <<producer, resumed, batch>>
apiVars == <<api, goal, veto>>
vars == <<pinVars, flagVars, queueVars, filter, mutex, notified, producerVars, apiVars>>

-----------------------------------------------------------------------------
(* The debounce filter.                                                    *)

(* Mutant: the filter starts from no button pressed.                       *)
FilterInitReleased(sample) ==
  [stable |-> {}, candidate |-> {}, pending |-> {}, age |-> [b \in Buttons |-> 0]]

FilterInit(sample) ==
  [stable |-> sample, candidate |-> sample, pending |-> {},
   age |-> [b \in Buttons |-> 0]]

Settled(f, sample) ==
  {b \in f.pending : (b \in sample <=> b \in f.candidate) /\ f.age[b] >= Debounce}

Observed(f, sample) ==
  LET changed == {b \in Buttons : ~(b \in sample <=> b \in f.candidate)}
      waiting == (f.pending \cup changed) \ Settled(f, sample)
  IN  [stable |-> (f.stable \ Settled(f, sample)) \cup (Settled(f, sample) \cap sample),
       candidate |-> sample,
       pending |-> waiting,
       age |-> [b \in Buttons |-> IF b \in waiting \ changed THEN f.age[b] ELSE 0]]

Emitted(f, sample) == (Settled(f, sample) \cap sample) \ f.stable

-----------------------------------------------------------------------------
(* The pins, the interrupt and the tick.                                   *)

(* An edge and the handler it raises.  A press before the service exists,  *)
(* or of a button the filter has not seen released, is none of its own.    *)
Edge(b) ==
  /\ edges < EdgesMax
  /\ edges' = edges + 1
  /\ level' = IF b \in level THEN level \ {b} ELSE level \cup {b}
  /\ hold' = [hold EXCEPT ![b] = IF b \in level THEN "none"
                                 ELSE IF ready /\ b \notin filter.stable THEN "new"
                                 ELSE "ignored"]
  /\ released' = IF b \in level THEN released \cup {b} ELSE released
  /\ notified' = (notified \/ (handlers /\ accepting /\ created))
  /\ UNCHANGED <<flagVars, queueVars, filter, mutex, producerVars, apiVars>>

Tick ==
  /\ \E b \in filter.pending : filter.age[b] < Debounce
  /\ filter' = [filter EXCEPT !.age =
       [b \in Buttons |-> IF b \in filter.pending /\ @[b] < Debounce THEN @[b] + 1 ELSE @[b]]]
  /\ UNCHANGED <<pinVars, flagVars, queueVars, mutex, notified, producerVars, apiVars>>

-----------------------------------------------------------------------------
(* The producer task.                                                      *)

(* Mutant: the round after a park waits without looking at the pins.       *)
ParkOrWait ==
  /\ producer = "resume"
  /\ parked' = ~running
  /\ producer' = IF running THEN "choose" ELSE "parked"
  /\ resumed' = FALSE
  /\ UNCHANGED <<pinVars, ready, running, accepting, created, handlers, queueVars,
                 filter, mutex, notified, batch, apiVars>>

(* producer_wait_for_resume: the decision, inside the critical section.    *)
ParkOrGo ==
  /\ producer = "resume"
  /\ parked' = ~running
  /\ producer' = IF ~running THEN "parked" ELSE IF resumed THEN "lock" ELSE "choose"
  /\ resumed' = (resumed \/ ~running)
  /\ UNCHANGED <<pinVars, ready, running, accepting, created, handlers, queueVars,
                 filter, mutex, notified, batch, apiVars>>

Unpark ==
  /\ producer = "parked" /\ notified
  /\ notified' = FALSE
  /\ producer' = "resume"
  /\ UNCHANGED <<pinVars, flagVars, queueVars, filter, mutex, resumed, batch, apiVars>>

Lock ==
  /\ producer = "lock" /\ mutex = "free"
  /\ mutex' = "producer"
  /\ producer' = "observe"
  /\ UNCHANGED <<pinVars, flagVars, queueVars, filter, notified, resumed, batch, apiVars>>

(* Under the mutex: a stopped service is left alone.                       *)
ObserveStopped ==
  /\ producer = "observe" /\ ~running
  /\ mutex' = "free"
  /\ producer' = "after"
  /\ UNCHANGED <<pinVars, flagVars, queueVars, filter, notified, resumed, batch, apiVars>>

Observe ==
  /\ producer = "observe" /\ running
  /\ filter' = Observed(filter, level)
  /\ batch' = Emitted(filter, level)
  /\ producer' = "send"
  /\ sent' = IF batch' # {} THEN sent + 1 ELSE sent
  /\ hold' = [b \in Buttons |-> IF b \in batch' THEN "heard" ELSE hold[b]]
  /\ released' = released \ batch'
  /\ UNCHANGED <<level, edges, flagVars, queue, overflowed, taken, mutex, notified,
                 resumed, apiVars>>

(* Mutant: an event that finds no place is dropped.                        *)
PublishDrops(events) ==
  /\ queue' = IF Len(queue) < QueueMax THEN queue \o events ELSE queue
  /\ UNCHANGED overflowed

Publish(events) ==
  IF events = <<>> \/ Len(queue) < QueueMax
  THEN queue' = queue \o events /\ UNCHANGED overflowed
  ELSE overflowed' = TRUE /\ UNCHANGED queue

Send ==
  /\ producer = "send"
  /\ Publish(IF batch = {} THEN <<>> ELSE <<batch>>)
  /\ batch' = {}
  /\ mutex' = "free"
  /\ producer' = "after"
  /\ UNCHANGED <<pinVars, flagVars, sent, taken, filter, notified, resumed, apiVars>>

(* Only the round after a park goes on to wait; any other starts over.     *)
AfterEnqueue ==
  /\ producer = "after"
  /\ producer' = IF resumed /\ running THEN "choose" ELSE "resume"
  /\ resumed' = FALSE
  /\ UNCHANGED <<pinVars, flagVars, queueVars, filter, mutex, notified, batch, apiVars>>

(* The timeout is chosen from the filter, without the mutex.               *)
ChooseTimeout ==
  /\ producer = "choose"
  /\ producer' = IF filter.pending # {} THEN "poll" ELSE "wait"
  /\ UNCHANGED <<pinVars, flagVars, queueVars, filter, mutex, notified, resumed, batch, apiVars>>

(* The wait ends with a notification or, when something is unsettled, with *)
(* the tick.                                                               *)
WaitEnds ==
  /\ \/ producer \in {"poll", "wait"} /\ notified /\ notified' = FALSE
     \/ producer = "poll" /\ ~notified /\ UNCHANGED notified
  /\ producer' = IF running /\ (notified \/ filter.pending # {}) THEN "lock" ELSE "resume"
  /\ resumed' = FALSE
  /\ UNCHANGED <<pinVars, flagVars, queueVars, filter, mutex, batch, apiVars>>

Producer ==
  \/ ParkOrGo \/ Unpark \/ Lock \/ ObserveStopped \/ Observe \/ Send
  \/ AfterEnqueue \/ ChooseTimeout \/ WaitEnds
-----------------------------------------------------------------------------
(* The application's calls, step by step.  stop_event_production first.    *)

Call(function, step) ==
  /\ goal' = function
  /\ api' = step

StopLock ==
  /\ api = "stop" /\ mutex = "free"
  /\ mutex' = "app"
  /\ api' = "stopping"
  /\ UNCHANGED <<pinVars, flagVars, queueVars, filter, notified, producerVars, goal, veto>>

StopFlags ==
  /\ api = "stopping"
  /\ accepting' = FALSE
  /\ running' = FALSE
  /\ mutex' = "free"
  /\ api' = "unhook"
  /\ UNCHANGED <<pinVars, ready, parked, created, handlers, queueVars, filter, notified,
                 producerVars, goal, veto>>

(* Mutant: the producer is not told.                                       *)
UnhookSilent ==
  /\ api = "unhook"
  /\ handlers' = FALSE
  /\ api' = IF created THEN "waitPark" ELSE "stopped"
  /\ UNCHANGED <<pinVars, ready, running, accepting, parked, created, queueVars, filter,
                 mutex, notified, producerVars, goal, veto>>

Unhook ==
  /\ api = "unhook"
  /\ handlers' = FALSE
  /\ notified' = (notified \/ created)
  /\ api' = IF created THEN "waitPark" ELSE "stopped"
  /\ UNCHANGED <<pinVars, ready, running, accepting, parked, created, queueVars, filter,
                 mutex, producerVars, goal, veto>>

(* Mutant: the wait for the park gives up at once.                          *)
ParkNotAwaited ==
  /\ api = "waitPark"
  /\ api' = "stopped"
  /\ UNCHANGED <<pinVars, flagVars, queueVars, filter, mutex, notified, producerVars, goal, veto>>

ParkSeen ==
  /\ api = "waitPark" /\ parked
  /\ api' = "stopped"
  /\ UNCHANGED <<pinVars, flagVars, queueVars, filter, mutex, notified, producerVars, goal, veto>>

(* Mutant: the latch does not veto.                                        *)
SleepVetoQueueOnly ==
  /\ api = "stopped" /\ goal = "quiesce_for_sleep"
  /\ veto' = (queue # <<>>)
  /\ api' = "idle"
  /\ UNCHANGED <<pinVars, flagVars, queueVars, filter, mutex, notified, producerVars, goal>>

(* The preserving handoff reports what waits; it clears nothing.           *)
SleepVeto ==
  /\ api = "stopped" /\ goal = "quiesce_for_sleep"
  /\ veto' = (queue # <<>> \/ overflowed)
  /\ api' = "idle"
  /\ UNCHANGED <<pinVars, flagVars, queueVars, filter, mutex, notified, producerVars, goal>>

(* quiesce, deinit and an init that failed throw the queue away.           *)
Discard ==
  /\ api = "stopped" /\ goal \in {"quiesce", "deinit", "init"}
  /\ queue' = <<>>
  /\ taken' = sent
  /\ hold' = [b \in Buttons |-> IF hold[b] = "new" THEN "ignored" ELSE hold[b]]
  /\ ready' = (ready /\ goal = "quiesce")
  /\ overflowed' = (overflowed /\ goal # "deinit")
  /\ api' = "idle"
  /\ UNCHANGED <<level, edges, released, running, accepting, parked, created, handlers,
                 sent, filter, mutex, notified, producerVars, goal, veto>>

(* A resume that failed leaves the service stopped and the queue alone.    *)
ResumeFailed ==
  /\ api = "stopped" /\ goal = "resume"
  /\ api' = "idle"
  /\ UNCHANGED <<pinVars, flagVars, queueVars, filter, mutex, notified, producerVars, goal, veto>>

(* start_event_service.                                                    *)
StartRunning ==
  /\ api = "start" /\ running
  /\ api' = "idle"
  /\ UNCHANGED <<pinVars, flagVars, queueVars, filter, mutex, notified, producerVars, goal, veto>>

(* A press the filter had not settled becomes part of the baseline.        *)
StartFilter ==
  /\ api = "start" /\ ~running
  /\ filter' = FilterInit(level)
  /\ hold' = [b \in Buttons |-> IF hold[b] # "new" THEN hold[b]
                                ELSE IF goal = "resume" THEN "swallowed" ELSE "ignored"]
  /\ api' = "hook"
  /\ UNCHANGED <<level, edges, released, flagVars, queueVars, mutex, notified, producerVars,
                 goal, veto>>

(* The task is created once; a handler that cannot be installed undoes it. *)
Hook ==
  /\ api = "hook"
  /\ created' = TRUE
  /\ producer' = IF created THEN producer ELSE "resume"
  /\ handlers' = TRUE
  /\ api' \in {"startLock", "stop"}
  /\ UNCHANGED <<pinVars, ready, running, accepting, parked, queueVars, filter, mutex,
                 notified, resumed, batch, goal, veto>>

StartLock ==
  /\ api = "startLock" /\ mutex = "free"
  /\ mutex' = "app"
  /\ api' = "starting"
  /\ UNCHANGED <<pinVars, flagVars, queueVars, filter, notified, producerVars, goal, veto>>

StartFlags ==
  /\ api = "starting"
  /\ running' = TRUE
  /\ accepting' = TRUE
  /\ parked' = FALSE
  /\ mutex' = "free"
  /\ notified' = TRUE
  /\ api' = "idle"
  /\ UNCHANGED <<pinVars, ready, created, handlers, queueVars, filter, producerVars,
                 goal, veto>>

CallStep ==
  \/ StopLock \/ StopFlags \/ Unhook \/ ParkSeen \/ SleepVeto \/ Discard
  \/ ResumeFailed \/ StartRunning \/ StartFilter \/ Hook \/ StartLock \/ StartFlags

(* watchy_buttons_take_press of a waiting event.                           *)
Take ==
  /\ api = "idle" /\ queue # <<>>
  /\ queue' = Tail(queue)
  /\ taken' = taken + 1
  /\ UNCHANGED <<pinVars, flagVars, overflowed, sent, filter, mutex, notified,
                 producerVars, apiVars>>

(* watchy_buttons_init; gpio_config may fail, which leaves no trace.       *)
ButtonsInit ==
  /\ api = "idle" /\ ~ready
  /\ ready' = TRUE
  /\ overflowed' = FALSE
  /\ Call("init", "start")
  /\ UNCHANGED <<pinVars, running, accepting, parked, created, handlers, queue, sent,
                 taken, filter, mutex, notified, producerVars, veto>>

Resume ==
  /\ api = "idle" /\ ready
  /\ Call("resume", "start")
  /\ UNCHANGED <<pinVars, flagVars, queueVars, filter, mutex, notified, producerVars, veto>>

QuiesceForSleep ==
  /\ api = "idle" /\ ready
  /\ Call("quiesce_for_sleep", "stop")
  /\ UNCHANGED <<pinVars, flagVars, queueVars, filter, mutex, notified, producerVars, veto>>

(* quiesce and deinit do not ask whether the service is ready.             *)
Quiesce ==
  /\ api = "idle"
  /\ \E function \in {"quiesce", "deinit"} : Call(function, "stop")
  /\ UNCHANGED <<pinVars, flagVars, queueVars, filter, mutex, notified, producerVars, veto>>

Client == Take \/ ButtonsInit \/ Resume \/ QuiesceForSleep \/ Quiesce

-----------------------------------------------------------------------------
Init ==
  /\ level \in SUBSET Buttons
  /\ edges = 0
  /\ hold = [b \in Buttons |-> IF b \in level THEN "ignored" ELSE "none"]
  /\ released = Buttons \ level
  /\ ready = FALSE /\ running = FALSE /\ accepting = FALSE
  /\ parked = TRUE
  /\ overflowed = FALSE
  /\ created = FALSE /\ handlers = FALSE
  /\ queue = <<>>
  /\ filter = FilterInit({})
  /\ mutex = "free"
  /\ notified = FALSE
  /\ producer = "none" /\ resumed = FALSE /\ batch = {}
  /\ api = "idle" /\ goal = "none" /\ veto = FALSE
  /\ sent = 0 /\ taken = 0

Environment == Tick \/ \E b \in Buttons : Edge(b)

Next == Environment \/ Producer \/ CallStep \/ Client

Spec == Init /\ [][Next]_vars

(* The producer has the priority of the main task and time slices with it, *)
(* the tick never stops, and a call that was made runs on.                 *)
Fairness == WF_vars(Producer) /\ WF_vars(Tick) /\ WF_vars(CallStep)

FairSpec == Spec /\ Fairness

-----------------------------------------------------------------------------
(* Every press the filter emits is taken, waits in the queue or is being   *)
(* put there; one that found no place leaves the overflow latched: "never  *)
(* silently treated as normal operation" (buttons.c:184-189).              *)
NothingLostSilently ==
  ~overflowed => sent = taken + Len(queue) + (IF batch = {} THEN 0 ELSE 1)

(* When start_event_service resets the filter, and from the moment a stop  *)
(* has returned, the producer is parked or about to: it neither samples    *)
(* nor publishes.  The handshake on parked is all that ensures it          *)
(* (buttons.c:240-243, 293).                                               *)
ProducerAtRest ==
  (api = "stopped" \/ (api = "start" /\ ~running))
    => producer \in {"none", "resume", "parked"} /\ mutex # "producer" /\ batch = {}

(* One hold of a button gives one event: an event for a button means that  *)
(* its pin was low since the last one, whatever stops, restarts and        *)
(* baselines came between (buttons_policy.c:93).                           *)
OneEventPerHold ==
  [][\A b \in batch' \ batch : b \in released]_vars

(* A press that begins, or is still unsettled, while the service runs is   *)
(* heard, let go of, or ends with the service: no edge falls into the gap  *)
(* between the baseline of a start and its first wait (buttons.c:205).     *)
PressHeard ==
  \A b \in Buttons :
    (hold[b] = "new" /\ running) ~> (hold[b] # "new" \/ ~running)

(* Every call returns: wait_for_producer_park always ends                  *)
(* (buttons.c:89-101).                                                     *)
CallsReturn == (api # "idle") ~> (api = "idle")
=============================================================================
