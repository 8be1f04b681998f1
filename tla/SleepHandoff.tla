---------------------------- MODULE SleepHandoff ----------------------------
(***************************************************************************)
(* The way into deep sleep and back: the loop of app_main (main.c), the    *)
(* preparation of power.c and the button service it must silence without   *)
(* losing a press.  The application task is one thread, so a stage of the  *)
(* loop and a call into the button service never run at once; the pins and *)
(* the producer task run beside both.                                      *)
(*                                                                         *)
(* Presentation is not here: a stage that draws takes any time, and a      *)
(* press meanwhile waits in the queue.  watchy_power_prepare_button_only   *)
(* differs from the timed preparation in which peripherals it asks, which  *)
(* met covers.                                                             *)
(***************************************************************************)
EXTENDS ButtonService

VARIABLES
  stage,      \* where the application task is
  met,        \* every prerequisite but the wake sources is met
  quiet,      \* consecutive samples without an active wake source
  services    \* the peripherals the shell needs are initialised

loopVars == <<stage, met, quiet, services>>
allVars == <<vars, loopVars>>

InactiveSamples == 3

Settle(next) == stage' = next /\ UNCHANGED <<met, quiet, services>>

(* Only one thing the application does at a time.                          *)
At(place) == stage = place /\ api = "idle"

-----------------------------------------------------------------------------
(* Boot.                                                                   *)

Boot ==
  /\ At("boot") /\ ButtonsInit
  /\ services' = TRUE
  /\ stage' = "booting"
  /\ UNCHANGED <<met, quiet>>

(* A minute wake goes to the loop, a button wake to the shell; without     *)
(* input the watch stays awake with the error on show.                     *)
Booted ==
  /\ At("booting")
  /\ \E next \in IF running THEN {"shell", "loop"} ELSE {"inputFailure"} : Settle(next)
  /\ UNCHANGED vars

-----------------------------------------------------------------------------
(* run_shell: presses first, then the overflow latch, then idleness.       *)

ShellTakes ==
  /\ At("shell") /\ Take
  /\ \E next \in {"shell", "loop"} : Settle(next)

(* Mutant: idleness is looked at before the latch.                         *)
ShellIdlesOverflowed ==
  /\ At("shell") /\ queue = <<>>
  /\ Settle("loop")
  /\ UNCHANGED vars

ShellIdles ==
  /\ At("shell") /\ queue = <<>> /\ ~overflowed
  /\ Settle("loop")
  /\ UNCHANGED vars

ShellFails ==
  /\ At("shell") /\ queue = <<>> /\ overflowed
  /\ Settle("inputFailure")
  /\ UNCHANGED vars

-----------------------------------------------------------------------------
(* The preparation.                                                        *)

(* watchy_buttons_press_pending, before anything is taken down.            *)
LoopSeesInput ==
  /\ At("loop") /\ queue # <<>>
  /\ Settle("shell")
  /\ UNCHANGED vars

(* Radios, motor, display, RTC and motion, then the teardown.              *)
Teardown ==
  /\ At("loop") /\ queue = <<>>
  /\ met' \in BOOLEAN
  /\ services' = FALSE
  /\ quiet' = 0
  /\ stage' = "settle"
  /\ UNCHANGED vars

(* One sample of the wake sources, the RTC and motion lines among them.    *)
SampleWakeSources ==
  /\ At("settle") /\ quiet < InactiveSamples
  /\ \E otherActive \in BOOLEAN :
       quiet' = IF level # {} \/ otherActive THEN 0 ELSE quiet + 1
  /\ UNCHANGED <<vars, stage, met, services>>

Closed == services' \in BOOLEAN /\ stage' = "closed" /\ UNCHANGED <<met, quiet>>

(* The deadline passed, or a prerequisite is not met: the buttons were     *)
(* never stopped, the rest is restored.                                    *)
PrepareRefused ==
  /\ At("settle")
  /\ quiet < InactiveSamples \/ ~met
  /\ Closed
  /\ UNCHANGED vars

PrepareQuiesces ==
  /\ At("settle") /\ quiet = InactiveSamples /\ met
  /\ QuiesceForSleep
  /\ Settle("quiesce")

(* cancel_sleep_for_input: the service restarts on the preserved queue.    *)
Vetoed ==
  /\ At("quiesce") /\ veto
  /\ Resume
  /\ Settle("vetoed")

NoVeto ==
  /\ At("quiesce") /\ ~veto
  /\ Settle("pins")
  /\ UNCHANGED vars

(* Mutant: the handoff does not look at what came back.                    *)
VetoUnchecked ==
  /\ At("vetoed")
  /\ services' \in BOOLEAN
  /\ stage' = "shell"
  /\ UNCHANGED <<vars, met, quiet>>

(* CANCELLED only when input and peripherals are back; then the main loop  *)
(* asks the display as well.                                               *)
VetoHandled ==
  /\ At("vetoed")
  /\ services' \in BOOLEAN
  /\ stage' \in IF running /\ services' THEN {"shell", "closed"} ELSE {"closed"}
  /\ UNCHANGED <<vars, met, quiet>>

(* A button pin or wake source that cannot be set up.                      *)
PinsFail ==
  /\ At("pins")
  /\ Resume
  /\ Settle("failed")

FailHandled ==
  /\ At("failed")
  /\ Closed
  /\ UNCHANGED vars

(* Everything in RAM goes; the pins keep their level.                      *)
EnterSleep ==
  /\ At("pins")
  /\ stage' = "asleep"
  /\ met' = FALSE /\ quiet' = 0 /\ services' = FALSE
  /\ hold' = [b \in Buttons |-> IF b \in level THEN "ignored" ELSE "none"]
  /\ released' = Buttons \ level
  /\ ready' = FALSE /\ running' = FALSE /\ accepting' = FALSE /\ parked' = TRUE
  /\ overflowed' = FALSE /\ created' = FALSE /\ handlers' = FALSE
  /\ queue' = <<>> /\ filter' = FilterInit({})
  /\ mutex' = "free" /\ notified' = FALSE
  /\ producer' = "none" /\ resumed' = FALSE /\ batch' = {}
  /\ api' = "idle" /\ goal' = "none" /\ veto' = FALSE
  /\ sent' = 0 /\ taken' = 0
  /\ UNCHANGED <<level, edges>>

(* A button that is high wakes the watch at once, the minute and motion at *)
(* any time.                                                               *)
Wake ==
  /\ At("asleep")
  /\ Settle("boot")
  /\ UNCHANGED vars

-----------------------------------------------------------------------------
Application ==
  \/ Boot \/ Booted \/ ShellTakes \/ ShellIdles \/ ShellFails
  \/ LoopSeesInput \/ Teardown \/ SampleWakeSources \/ PrepareRefused
  \/ PrepareQuiesces \/ Vetoed \/ NoVeto \/ VetoHandled
  \/ PinsFail \/ FailHandled \/ EnterSleep \/ Wake

HandoffInit ==
  /\ Init
  /\ stage = "boot" /\ met = FALSE /\ quiet = 0 /\ services = FALSE

HandoffNext ==
  \/ (Environment \/ Producer \/ CallStep) /\ UNCHANGED loopVars
  \/ Application

HandoffSpec == HandoffInit /\ [][HandoffNext]_allVars

(* The application task is scheduled; the wait for inactive wake sources   *)
(* has a deadline.                                                         *)
HandoffFairness ==
  /\ WF_allVars(Producer /\ UNCHANGED loopVars)
  /\ WF_allVars(Tick /\ UNCHANGED loopVars)
  /\ WF_allVars(CallStep /\ UNCHANGED loopVars)
  /\ WF_allVars(ShellTakes) /\ WF_allVars(ShellIdles) /\ WF_allVars(ShellFails)
  /\ WF_allVars(Booted \/ LoopSeesInput \/ Teardown)
  /\ WF_allVars(PrepareRefused \/ PrepareQuiesces)
  /\ WF_allVars(Vetoed \/ NoVeto \/ VetoHandled \/ PinsFail \/ FailHandled \/ EnterSleep)

HandoffFairSpec == HandoffSpec /\ HandoffFairness

-----------------------------------------------------------------------------
(* Deep sleep, which forgets RAM, is entered only when every event the     *)
(* producer captured was taken by the application and none was dropped:    *)
(* the check-then-quiesce race is gone (power.c:287-294).                  *)
SleepLosesNothing ==
  [][stage' = "asleep" /\ stage # "asleep"
       => sent = taken /\ ~overflowed /\ batch = {}]_allVars

(* Whenever the shell runs, also after any number of vetoed sleeps, input  *)
(* is live and the peripherals torn down for sleep are back                *)
(* (power.c:179-194, main.c:1161-1173).                                    *)
ShellIsWhole == At("shell") => running /\ handlers /\ services

(* A captured press is taken sooner or later, unless the watch has failed  *)
(* closed; and a latched overflow is reported, it does not send the loop   *)
(* round between the veto and the shell for ever (main.c:554).             *)
InputIsHandled ==
  /\ (queue # <<>>) ~> (queue = <<>> \/ stage \in {"closed", "inputFailure"})
  /\ overflowed ~> stage \in {"closed", "inputFailure"}
=============================================================================
