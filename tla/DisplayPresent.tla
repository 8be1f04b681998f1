--------------------------- MODULE DisplayPresent ---------------------------
(***************************************************************************)
(* One screen on the e-paper panel: display.c with its policy, the         *)
(* transition planner and executor, the watchdog scope around them, and    *)
(* the shell that draws, recovers and decides whether it may sleep         *)
(* (refresh_shell, watchy_shell_presentation_observe).                     *)
(*                                                                         *)
(* A framebuffer is a member of Frames; every intermediate composition is  *)
(* Mixed, and what a failed or interrupted transfer leaves is Unknown.     *)
(* Which effect is drawn does not matter here, how many writes it takes    *)
(* does.                                                                   *)
(***************************************************************************)
EXTENDS Integers, Sequences

CONSTANTS
  Frames,     \* complete screens a caller can draw
  Mixed,      \* an intermediate frame of a transition
  Unknown,    \* a panel whose content nobody knows
  Buttons,    \* the buttons that may be pressed meanwhile
  Limits,     \* values of the partial refresh limit in the settings
  QueueMax    \* bound of the button queue here (the code's is 8)

ASSUME FramesAssumption == Mixed \notin Frames /\ Unknown \notin Frames /\ Mixed # Unknown
ASSUME LimitsAssumption == Limits \subseteq Nat \ {0}
ASSUME BoundsAssumption == QueueMax \in Nat

VARIABLES
  panel,      \* what the panel shows
  sinceFull,  \* history: partial writes since the last full one
  retained,   \* s_retained, kept through deep sleep
  limit,      \* s_partial_limit
  forceCut,   \* s_force_cut
  cancelled,  \* s_cancelled_buttons
  enrolled,   \* the main task is a member of the task watchdog
  outer,      \* the package runner's scope enrolled it
  rendered,   \* s_runner.rendered
  booting,    \* the face is run by app_main, before run_shell
  queue,      \* button events not taken yet
  at,         \* the step of watchy_display_present
  plan,       \* the plan being executed and the mode it was asked in
  done,       \* writes completed
  feedFailed, \* hardware.watchdog_feed_failed
  hand,       \* hardware.cancelled_buttons
  owns,       \* this presentation's scope enrolled the task
  result,     \* how the execution ended
  drawn,      \* the framebuffer the caller drew
  turn,       \* what the main task is doing, see Turns
  back,       \* returned_buttons of refresh_shell
  wantSleep,  \* shell.sleep_requested
  deferred,   \* presentation.sleep_deferred
  pending,    \* presentation.pending_buttons
  owed,       \* history: presses taken by a cancellation and not yet handled or lost
  before,     \* history: enrolled when the presentation began
  last        \* what the last presentation returned to its caller

deviceVars == <<panel, sinceFull, retained>>
driverVars == <<limit, forceCut, cancelled, enrolled>>
runVars == <<plan, done, feedFailed, hand, owns, result, before>>
shellVars == <<drawn, turn, back, wantSleep, deferred, pending, outer, rendered,
              booting>>
displayVars == <<deviceVars, driverVars, runVars, shellVars, last, at, queue, owed>>

-----------------------------------------------------------------------------
(* Refresh policy and plans.                                               *)

Modes == {"partial", "full"}

(* "input": run_shell waits for a press or for idleness; "start", "face"   *)
(* and "post": a package starts, draws, and has its callbacks pumped;      *)
(* "screen" and "full": the shell draws, "full" after a face failed;       *)
(* "recover": it draws the error screen; "awake": it never sleeps again.   *)
Turns == {"input", "start", "face", "post", "screen", "full", "recover", "awake"}

(* The refreshes a package asks for on its own.                            *)
Extras == {"start", "post"}

Prepared(state, mode, partialLimit) ==
  IF ~state.valid \/ mode = "full" \/ state.count + 1 >= partialLimit THEN "full" ELSE "partial"

(* Mutant: the intermediate frames of a transition are not counted.        *)
CommittedTargets(state, completed, frame) ==
  [valid |-> TRUE, frame |-> frame,
   count |-> IF completed = "full" \/ ~state.valid THEN 0
             ELSE IF frame = Mixed THEN state.count ELSE state.count + 1]

Committed(state, completed, frame) ==
  [valid |-> TRUE, frame |-> frame,
   count |-> IF completed = "full" \/ ~state.valid THEN 0 ELSE state.count + 1]

Cut(mode, full) == [writes |-> 1, full |-> full, clear |-> FALSE, asked |-> mode]
Clear(mode) == [writes |-> 2, full |-> TRUE, clear |-> TRUE, asked |-> mode]

(* A cut, two writes of most effects, three of a wipe.                     *)
WriteCounts == 1..3

Cuts(mode) == {Cut(mode, FALSE)}
Animations(mode) ==
  [writes : IF retained.valid THEN WriteCounts ELSE {1}, full : BOOLEAN, clear : {FALSE}, asked : {mode}]

MustClear(mode) == retained.valid /\ mode = "partial" /\ Prepared(retained, mode, limit) = "full"

(* watchy_transition_plan over every request, level, battery and wake.     *)
Plans(mode, requested) ==
  IF MustClear(mode) THEN {Clear(mode)}
  ELSE IF requested /\ ~forceCut THEN Animations(mode) ELSE Cuts(mode)

LastIsFull(p) == p.full \/ p.asked = "full"

(* watchy_display_plan_requires_clear: some partial write of the plan      *)
(* would be promoted to a full one.                                        *)
RequiresClear(p) ==
  /\ retained.valid /\ ~p.clear
  /\ \E write \in 1..p.writes :
       /\ ~(write = p.writes /\ LastIsFull(p))
       /\ retained.count + write >= limit

Executed(p) == IF RequiresClear(p) THEN Clear(p.asked) ELSE p

WriteMode(p, index) ==
  Prepared(retained,
           IF p.clear \/ (index = p.writes /\ LastIsFull(p)) THEN "full" ELSE "partial",
           limit)

WriteFrame(p, index) == IF index = p.writes THEN drawn ELSE Mixed

-----------------------------------------------------------------------------
(* watchy_display_present, one physical write at a time.                   *)

(* A scope of the task watchdog enrolls the task unless it is a member,    *)
(* and takes it out again only if it owns the membership.                  *)
ScopeBegins(owned) == owned = ~enrolled /\ enrolled' = TRUE
ScopeEnds(owned) == enrolled' = (enrolled /\ ~owned)
FeedFails == feedFailed' = TRUE

(* What the presentation returns to its caller.                            *)
Returned(status) == at' = "returned" /\ last' = status

(* The mode and the request each caller presents with.                     *)
Calls ==
  (IF turn \in {"full", "recover"} THEN {"full"} ELSE Modes)
    \X (IF turn \in Extras \cup {"recover"} THEN {FALSE} ELSE BOOLEAN)

Begin ==
  /\ at = "call"
  /\ before' = enrolled
  /\ \/ \E call \in Calls : \E p \in Plans(call[1], call[2]) :
          /\ plan' = Executed(p)
          /\ forceCut' = FALSE
          /\ ScopeBegins(owns')
          /\ at' = "write"
          /\ UNCHANGED last
     \/ Returned("invalid") /\ UNCHANGED <<plan, forceCut, owns, enrolled>>
  /\ done' = 0 /\ feedFailed' = FALSE /\ hand' = {} /\ result' = "none"
  /\ UNCHANGED <<deviceVars, limit, cancelled, shellVars, queue, owed>>

WriteFails ==
  /\ at = "write"
  /\ panel' = Unknown
  /\ retained' = [retained EXCEPT !.valid = FALSE]
  /\ result' = "failed"
  /\ at' = "end"
  /\ UNCHANGED <<sinceFull, driverVars, plan, done, feedFailed, hand, owns, before,
                 shellVars, last, queue, owed>>

(* Mutant: the target is retained before it is on the panel.               *)
WriteRetainsTarget ==
  /\ at = "write"
  /\ LET mode == WriteMode(plan, done + 1)
     IN  /\ panel' = WriteFrame(plan, done + 1)
         /\ sinceFull' = IF mode = "full" THEN 0 ELSE sinceFull + 1
         /\ retained' = Committed(retained, mode, drawn)
  /\ done' = done + 1
  /\ at' = "feed"
  /\ UNCHANGED <<driverVars, plan, feedFailed, hand, owns, result, before, shellVars,
                 last, queue, owed>>

Write ==
  /\ at = "write"
  /\ LET mode == WriteMode(plan, done + 1)
         frame == WriteFrame(plan, done + 1)
     IN  /\ panel' = frame
         /\ sinceFull' = IF mode = "full" THEN 0 ELSE sinceFull + 1
         /\ retained' = Committed(retained, mode, frame)
  /\ done' = done + 1
  /\ at' = "feed"
  /\ UNCHANGED <<driverVars, plan, feedFailed, hand, owns, result, before, shellVars,
                 last, queue, owed>>

Feed ==
  /\ at = "feed"
  /\ FeedFails \/ UNCHANGED feedFailed
  /\ \/ done = plan.writes /\ result' = "completed" /\ at' = "end"
     \/ done < plan.writes /\ UNCHANGED result
        /\ at' = IF plan.clear THEN "write" ELSE "cancel"
  /\ UNCHANGED <<deviceVars, driverVars, plan, done, hand, owns, before, shellVars, last,
                 queue, owed>>

(* A starved watchdog ends the transition before a press is taken.         *)
CancelCheck ==
  /\ at = "cancel"
  /\ \/ /\ feedFailed
        /\ result' = "cancelled" /\ at' = "end"
        /\ UNCHANGED <<hand, queue, owed>>
     \/ /\ ~feedFailed /\ queue # <<>>
        /\ hand' = {Head(queue)}
        /\ queue' = Tail(queue)
        /\ owed' = owed \cup hand'
        /\ result' = "cancelled" /\ at' = "end"
     \/ /\ ~feedFailed /\ queue = <<>>
        /\ at' = "write"
        /\ UNCHANGED <<hand, queue, owed, result>>
  /\ UNCHANGED <<deviceVars, driverVars, plan, done, feedFailed, owns, before, shellVars,
                 last>>

Status ==
  IF feedFailed \/ result = "failed" THEN "invalid"
  ELSE IF result = "cancelled" THEN "cancelled" ELSE "ok"

(* Mutant: the presentation leaves the watchdog whoever enrolled the task. *)
EndUnenrolls ==
  /\ at = "end"
  /\ enrolled' = FALSE /\ Returned(Status)
  /\ cancelled' = IF result = "cancelled" THEN cancelled \cup hand ELSE cancelled
  /\ forceCut' = (forceCut \/ (result = "cancelled" /\ hand # {}))
  /\ hand' = {}
  /\ UNCHANGED <<deviceVars, limit, plan, done, feedFailed, owns, result, before,
                 shellVars, queue, owed>>

(* finalize_execution and the end of the watchdog scope, which may fail to *)
(* take the task out again.                                                *)
End ==
  /\ at = "end"
  /\ \/ ScopeEnds(owns) /\ Returned(Status)
     \/ owns /\ UNCHANGED enrolled /\ Returned("invalid")
  /\ cancelled' = IF result = "cancelled" THEN cancelled \cup hand ELSE cancelled
  /\ forceCut' = (forceCut \/ (result = "cancelled" /\ hand # {}))
  /\ hand' = {}
  /\ UNCHANGED <<deviceVars, limit, plan, done, feedFailed, owns, result, before,
                 shellVars, queue, owed>>

-----------------------------------------------------------------------------
(* The callers.                                                            *)

Invalidated == [retained EXCEPT !.valid = FALSE]

(* watchy_shell_presentation_observe.                                      *)
Observe(shown, buttons) ==
  /\ deferred' = ~shown
  /\ pending' = IF shown THEN pending ELSE pending \cup buttons
  /\ wantSleep' = (wantSleep /\ shown)

(* What a caller's step leaves of a presentation that is over.             *)
Between == UNCHANGED <<runVars, last, queue>>

(* refresh_shell after its first presentation.                             *)
ShellReturns ==
  /\ at = "returned" /\ turn \in {"screen", "full"}
  /\ IF last = "invalid"
     THEN /\ turn' = "recover" /\ at' = "call"
          /\ back' = cancelled /\ cancelled' = {}
          /\ retained' = Invalidated
          /\ drawn' \in Frames
          /\ UNCHANGED <<wantSleep, deferred, pending>>
     ELSE /\ turn' = "input" /\ at' = "idle"
          /\ cancelled' = IF last = "cancelled" THEN {} ELSE cancelled
          /\ Observe(last = "ok", cancelled)
          /\ UNCHANGED <<back, retained, drawn>>
  /\ Between
  /\ UNCHANGED <<panel, sinceFull, limit, forceCut, enrolled, outer, rendered, booting, owed>>

(* Mutant: the recovery forgets the press that came with the failure.      *)
RecoveryForgets ==
  /\ at = "returned" /\ turn = "recover"
  /\ turn' = "input" /\ at' = "idle"
  /\ Observe(FALSE, {}) /\ back' = {}
  /\ Between
  /\ UNCHANGED <<deviceVars, driverVars, drawn, outer, rendered, booting, owed>>

(* Whether the error screen was drawn or not, the target was not.          *)
RecoveryReturns ==
  /\ at = "returned" /\ turn = "recover"
  /\ turn' = "input" /\ at' = "idle"
  /\ Observe(FALSE, back) /\ back' = {}
  /\ Between
  /\ UNCHANGED <<deviceVars, driverVars, drawn, outer, rendered, booting, owed>>

(* The runner's scope around the face; the face may ask for a refresh as   *)
(* it starts. A face that returns to the foreground may be forced to a     *)
(* full refresh.                                                           *)
FaceStart ==
  /\ at = "idle" /\ turn = "start"
  /\ retained' \in {retained, Invalidated}
  /\ ScopeBegins(outer')
  /\ rendered' = FALSE
  /\ drawn' \in Frames
  /\ turn' \in {"start", "face"}
  /\ at' = "call"
  /\ Between
  /\ UNCHANGED <<panel, sinceFull, limit, forceCut, cancelled, back, wantSleep, deferred,
                 pending, booting, owed>>

(* What is in the framebuffer after a presentation.                        *)
Left == IF done = plan.writes THEN drawn ELSE Mixed

FaceGoesOn ==
  /\ at = "returned" /\ last # "invalid"
  /\ \/ turn = "start" /\ turn' = "face" /\ drawn' \in Frames /\ UNCHANGED rendered
     \/ turn = "face" /\ turn' = "post" /\ drawn' = Left /\ rendered' = (last = "ok")
  /\ at' = "call"
  /\ Between
  /\ UNCHANGED <<deviceVars, driverVars, back, outer, wantSleep, deferred, pending, booting, owed>>

(* The runner ends, the press that cancelled the face is taken, and the    *)
(* catalog and the settings are brought up to date. The built-in screen is *)
(* drawn instead of a face that could not be shown. A face that was shown  *)
(* may still end badly; when the catalog cannot be read or the settings    *)
(* not be saved, the press that cancelled the face is lost.                *)
FaceEnds ==
  LET good == \/ turn = "face" /\ last = "ok"
              \/ turn = "post" /\ last = "ok" /\ rendered
      BuiltIn == /\ turn' = IF booting THEN "screen" ELSE "full"
                 /\ at' = "call"
                 /\ drawn' \in Frames
                 /\ retained' = IF booting THEN retained ELSE Invalidated
                 /\ UNCHANGED <<wantSleep, deferred, pending>>
      Over(shown) == /\ Observe(shown, cancelled)
                     /\ turn' = "input" /\ at' = "idle"
                     /\ UNCHANGED <<drawn, retained>>
  IN  /\ at = "returned" /\ turn \in {"start", "face", "post"}
      /\ \/ ScopeEnds(outer)
         \/ UNCHANGED enrolled
      /\ outer' = FALSE
      /\ \/ cancelled # {} /\ Over(FALSE) /\ UNCHANGED owed
         \/ cancelled = {} /\ good /\ Over(TRUE) /\ UNCHANGED owed
         \/ cancelled = {} /\ BuiltIn /\ UNCHANGED owed
         \/ ~booting /\ BuiltIn /\ owed' = owed \ cancelled
      /\ cancelled' = {}
      /\ booting' = FALSE
      /\ Between
      /\ UNCHANGED <<panel, sinceFull, limit, forceCut, back, rendered>>

-----------------------------------------------------------------------------
(* The shell's loop, sleep and resets.                                     *)

(* A press is handled, or the watch was idle: the next target is the       *)
(* selected face or a screen of the shell, and the shell may wish to sleep *)
(* or have changed the limit.                                              *)
Handle ==
  /\ at = "idle" /\ turn = "input" /\ ~wantSleep
  /\ \/ pending # {} /\ pending' = {} /\ owed' = owed \ pending /\ UNCHANGED queue
     \/ pending = {} /\ queue # <<>> /\ queue' = Tail(queue) /\ UNCHANGED <<pending, owed>>
     \/ pending = {} /\ queue = <<>> /\ UNCHANGED <<pending, owed, queue>>
  /\ wantSleep' \in BOOLEAN
  /\ limit' \in Limits
  /\ \/ /\ turn' = "start" /\ at' = "idle"
        /\ UNCHANGED <<drawn, retained>>
     \/ /\ turn' = "screen" /\ at' = "call"
        /\ drawn' \in Frames
        /\ retained' \in {retained, Invalidated}
  /\ booting' = FALSE
  /\ UNCHANGED <<panel, sinceFull, forceCut, cancelled, enrolled, runVars, back, deferred,
                 outer, rendered, last>>

(* A button's event is queued.                                             *)
Arrive(button) ==
  /\ Len(queue) < QueueMax
  /\ queue' = Append(queue, button)
  /\ UNCHANGED <<deviceVars, driverVars, runVars, shellVars, last, at, owed>>

MaySleep == ~deferred /\ pending = {}

(* A press vetoes the sleep, before or after the display was shut down.    *)
SleepVetoed ==
  /\ at = "idle" /\ turn = "input" /\ wantSleep /\ MaySleep
  /\ queue # <<>>
  /\ wantSleep' = FALSE
  /\ retained' \in {retained, Invalidated}
  /\ UNCHANGED <<panel, sinceFull, driverVars, runVars, drawn, turn, back, deferred, pending,
                 outer, rendered, booting, last, at, queue, owed>>

(* The target was not shown, or the preparation failed.                    *)
SleepRefused ==
  /\ at = "idle" /\ turn = "input" /\ wantSleep
  /\ turn' = "awake"
  /\ UNCHANGED <<deviceVars, driverVars, runVars, drawn, back, wantSleep, deferred, pending,
                 outer, rendered, booting, last, at, queue, owed>>

(* The main task as a reset leaves it, about to draw what the wake calls   *)
(* for; a wake by motion that the settings do not want draws nothing.      *)
Boots(turns) ==
  /\ limit' \in Limits
  /\ forceCut' = FALSE /\ cancelled' = {} /\ enrolled' = FALSE
  /\ queue' = <<>> /\ owed' = {}
  /\ plan' = Cut("full", FALSE) /\ done' = 0 /\ feedFailed' = FALSE /\ hand' = {}
  /\ owns' = FALSE /\ result' = "none" /\ before' = FALSE
  /\ back' = {} /\ deferred' = FALSE /\ pending' = {}
  /\ outer' = FALSE /\ rendered' = FALSE /\ booting' = TRUE
  /\ last' = "none"
  /\ turn' \in turns
  /\ wantSleep' \in BOOLEAN
  /\ turn' = "input" => wantSleep'
  /\ IF turn' = "screen" THEN at' = "call" /\ drawn' \in Frames
     ELSE at' = "idle" /\ UNCHANGED drawn

Sleep ==
  /\ at = "idle" /\ turn = "input" /\ wantSleep /\ MaySleep
  /\ queue = <<>>
  /\ Boots({"input", "start", "screen"})
  /\ UNCHANGED deviceVars

(* A reset loads the retained state anew; a transfer may be cut short.     *)
DisplayReset ==
  /\ Boots({"start", "screen"})
  /\ panel' = IF at = "write" THEN Unknown ELSE panel
  /\ retained' = Invalidated
  /\ UNCHANGED sinceFull

DisplayInit ==
  /\ panel = Unknown /\ sinceFull = 0
  /\ \E frame \in Frames : retained = [valid |-> FALSE, frame |-> frame, count |-> 0]
                           /\ drawn = frame
  /\ limit \in Limits
  /\ forceCut = FALSE /\ cancelled = {} /\ enrolled = FALSE
  /\ queue = <<>> /\ owed = {}
  /\ plan = Cut("full", FALSE) /\ done = 0 /\ feedFailed = FALSE /\ hand = {}
  /\ owns = FALSE /\ result = "none" /\ before = FALSE
  /\ back = {} /\ wantSleep = FALSE /\ deferred = FALSE /\ pending = {}
  /\ outer = FALSE /\ rendered = FALSE /\ booting = TRUE
  /\ last = "none"
  /\ \/ turn = "start" /\ at = "idle"
     \/ turn = "screen" /\ at = "call"

Present == Begin \/ Write \/ Feed \/ CancelCheck \/ End \/ WriteFails
Callers == ShellReturns \/ RecoveryReturns \/ FaceStart \/ FaceGoesOn \/ FaceEnds
Loop == Handle \/ SleepVetoed \/ SleepRefused \/ Sleep

MainTask == Present \/ Callers \/ Loop

DisplayNext == MainTask \/ (\E button \in Buttons : Arrive(button)) \/ DisplayReset

DisplaySpec == DisplayInit /\ [][DisplayNext]_displayVars

(* The main task runs whenever it can; a transfer ends (wait_ready has a   *)
(* deadline) and so does every step between two of them.                   *)
DisplayFairSpec == DisplaySpec /\ WF_displayVars(MainTask)

-----------------------------------------------------------------------------
(* Properties.                                                             *)

(* A frame the driver remembers as valid is the one on the panel, after    *)
(* every write, failure, cancellation, sleep and reset: a partial refresh  *)
(* is driven from what is really there.                                    *)
RetainedTruthful == retained.valid => retained.frame = panel

(* No partial refresh leaves the panel with as many of them since its last *)
(* full one as the settings allow, whatever is retained or invalidated.    *)
GhostingBounded == [][sinceFull' > sinceFull => sinceFull' < limit]_displayVars

(* A presentation that does not fail leaves the task's membership of the   *)
(* watchdog as it found it, enrolled by a package's runner or not.         *)
WatchdogBalanced == at = "returned" /\ last # "invalid" => enrolled = before

(* A press that cancelled a presentation is handled, through failures,     *)
(* recoveries and faces (main.c:102), unless it was lost with the settings *)
(* or the catalog in the return from a face.                               *)
PressHandled == owed # {} ~> owed = {}
=============================================================================
