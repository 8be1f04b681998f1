--------------------------- MODULE ShellNavigation ---------------------------
(***************************************************************************)
(* The shell of the watch (shell_policy.c) in the hands of the main task   *)
(* (run_shell and app_main of main.c): the stack of screens, the rows and  *)
(* the window over them, the action a press queues, what the action does   *)
(* to the screen, the presentation that follows, and the way to sleep.     *)
(*                                                                         *)
(* A pass of the loop of run_shell is a few steps: a press or idleness,    *)
(* the catalog when it is needed, the input, the action, the presentation. *)
(* Nothing runs beside it; a press comes when the loop asks for one or     *)
(* cancels a presentation.  What a service answers is a choice.            *)
(***************************************************************************)
EXTENDS Naturals, SequencesExt

CONSTANTS
  Catalogs,        \* catalogs a snapshot may show, see CatalogShape
  Zones,           \* rows of the list of time zones
  DiagnosticRows,  \* rows of a diagnostic report, one when it is empty
  Masks            \* button masks one event or one cancellation may hold

Buttons == {"menu", "back", "up", "down"}

(* active is the position of the active face, 0 for the built-in one;      *)
(* selected says that a package is active or pending.                      *)
CatalogShape ==
  [readable : BOOLEAN, apps : Nat, quarantined : Seq(BOOLEAN), active : Nat,
   selected : BOOLEAN]

ASSUME ShellAssumption ==
  /\ Zones \in Nat \ {0} /\ DiagnosticRows \in Nat \ {0}
  /\ Masks \subseteq SUBSET Buttons \ {{}}
  /\ \A c \in Catalogs :
       /\ c \in CatalogShape /\ c.readable
       /\ c.active > 0 => /\ c.active <= Len(c.quarantined)
                          /\ ~c.quarantined[c.active] /\ c.selected

Unlisted ==
  [readable |-> FALSE, apps |-> 0, quarantined |-> <<>>, active |-> 0,
   selected |-> FALSE]

VARIABLES
  shell,     \* watchy_shell_t
  boot,      \* package_boot_state_t
  deferred,  \* sleep_deferred of the presentation record
  pending,   \* pending_buttons of the presentation record
  portal,    \* a portal session is active
  at,        \* where the main task is
  turn,      \* what this pass of the loop, or this boot, is about
  panel      \* what is on the panel

vars == <<shell, boot, deferred, pending, portal, at, turn, panel>>

NoTurn == [from |-> "watchface", input |-> "none", saved |-> FALSE, stays |-> FALSE]

-----------------------------------------------------------------------------
(* Rows and window.                                                        *)

VisibleRows == 3
HistoryDepth == 4

(* The menu entries of Settings: the ones named save toggle a value.       *)
SettingsRows ==
  <<"save", "timezone", "save", "save", "manualTime", "ntpSync", "connectivity",
    "packagePortal", "save", "diagnostics", "about">>

LauncherRows == <<"selector", "packageApps", "settings">>

AtLeastOne(n) == IF n = 0 THEN 1 ELSE n

(* Safe mode lists every package for removal, the shell the apps.          *)
Listed(s) ==
  IF s.safe THEN s.catalog.apps + Len(s.catalog.quarantined) ELSE s.catalog.apps

FaceCount(s) == 1 + IF s.safe THEN 0 ELSE Len(s.catalog.quarantined)

ItemCount(s) ==
  CASE s.screen = "selector"      -> FaceCount(s)
    [] s.screen = "launcher"      -> Len(LauncherRows)
    [] s.screen = "settings"      -> Len(SettingsRows)
    [] s.screen = "timezone"      -> Zones
    [] s.screen = "safeMode"      -> 3
    [] s.screen = "packageApps"   -> AtLeastOne(Listed(s))
    [] s.screen = "manualTime"    -> 5
    [] s.screen = "packagePortal" -> 2
    [] s.screen = "diagnostics"   -> DiagnosticRows
    [] OTHER                      -> 1

(* Mutant: the window moves one row too late.                              *)
RevealLate(s) ==
  LET count == ItemCount(s) IN
  [s EXCEPT !.view =
     CASE count <= VisibleRows \/ s.sel = 0    -> 0
       [] s.sel = count - 1 /\ s.view = 0      -> count - VisibleRows
       [] s.sel < s.view                       -> s.sel
       [] s.sel > s.view + VisibleRows         -> s.sel - VisibleRows + 1
       [] OTHER                                -> s.view]

Reveal(s) ==
  LET count == ItemCount(s) IN
  IF count <= VisibleRows \/ s.sel = 0 THEN [s EXCEPT !.view = 0]
  ELSE IF s.sel = count - 1 /\ s.view = 0 THEN [s EXCEPT !.view = count - VisibleRows]
  ELSE IF s.sel < s.view THEN [s EXCEPT !.view = s.sel]
  ELSE IF s.sel >= s.view + VisibleRows THEN [s EXCEPT !.view = s.sel - VisibleRows + 1]
  ELSE s

-----------------------------------------------------------------------------
(* The stack of screens.                                                   *)

Show(s, screen) == [s EXCEPT !.screen = screen, !.sel = 0, !.view = 0]

Push(s, frame) ==
  LET kept == IF Len(s.history) = HistoryDepth THEN Tail(s.history) ELSE s.history
  IN  [s EXCEPT !.history = Append(kept, frame), !.back = frame.screen]

Enter(s, screen) ==
  Show(Push(s, [screen |-> s.screen, sel |-> s.sel, view |-> s.view]), screen)

RestoreParent(s) ==
  IF s.history = <<>> THEN Show(s, s.back)
  ELSE LET frame == Last(s.history)
           rest  == Front(s.history)
       IN  [s EXCEPT !.screen = frame.screen, !.sel = frame.sel, !.view = frame.view,
                     !.history = rest,
                     !.back = IF rest = <<>> THEN @ ELSE Last(rest).screen]

EnterWatchface(s) ==
  [Show(s, "watchface") EXCEPT
     !.history = <<>>, !.back = IF s.safe THEN "safeMode" ELSE "launcher"]

(* Mutant: a failure on the error screen opens another one.                *)
FailAgain(s) == [Enter(s, "error") EXCEPT !.editing = FALSE, !.action = "none"]

Fail(s) ==
  [Show(IF s.screen = "error" THEN s ELSE Enter(s, "error"), "error") EXCEPT
     !.editing = FALSE, !.action = "none"]

FailIf(bad, s) == IF bad THEN Fail(s) ELSE s

(* watchy_shell_set_package_catalog.                                       *)
SetCatalog(s, c) ==
  LET t == [s EXCEPT !.catalog = c]
  IN  Reveal(CASE t.screen = "selector" -> [t EXCEPT !.sel = c.active]
               [] t.screen = "packageApps" /\ t.sel >= ItemCount(t) -> [t EXCEPT !.sel = 0]
               [] OTHER -> t)

(* watchy_shell_begin.                                                     *)
Begin(wake, motionWake, safe) ==
  LET s == [screen |-> "watchface", sel |-> 0, view |-> 0, history |-> <<>>,
            back |-> IF safe THEN "safeMode" ELSE "launcher",
            catalog |-> Unlisted, safe |-> safe,
            editing |-> FALSE, action |-> "none",
            sleep |-> \/ wake = "motion" /\ ~motionWake
                      \/ safe /\ wake \in {"minute", "motion"}]
  IN  IF safe THEN Show(s, "safeMode")
      ELSE IF wake = "button" THEN Enter(s, "launcher") ELSE s

RequireManualTime(s, interactive) ==
  LET parent == IF s.safe THEN "safeMode" ELSE "settings"
  IN  [Show(Push(s, [screen |-> parent, sel |-> 0, view |-> 0]), "manualTime")
         EXCEPT !.sleep = ~interactive]

-----------------------------------------------------------------------------
(* watchy_shell_input.                                                     *)

Queue(s, action) == [s EXCEPT !.action = action]

Leave(s) == [EnterWatchface(s) EXCEPT !.sleep = TRUE]

Move(s, input) ==
  LET count == ItemCount(s)
      step  == IF input = "up" THEN count - 1 ELSE 1
  IN  IF s.screen = "manualTime" /\ s.editing THEN Queue(s, "adjustTime")
      ELSE Reveal([s EXCEPT !.sel = (@ + step) % count])

Back(s) ==
  CASE s.screen = "manualTime" /\ s.editing  -> [s EXCEPT !.editing = FALSE]
    [] s.screen = "manualTime" /\ ~s.editing -> RestoreParent(Queue(s, "saveManualTime"))
    [] s.screen = "watchface"                -> [s EXCEPT !.sleep = TRUE]
    [] OTHER ->
         LET t == RestoreParent(s)
         IN  IF s.screen = "launcher" /\ t.screen = "watchface"
             THEN [t EXCEPT !.sleep = TRUE] ELSE t

SelectFace(s) ==
  CASE s.sel = 0                    -> Leave(Queue(s, "selectBuiltin"))
    [] s.catalog.quarantined[s.sel] -> Fail(s)
    [] OTHER                        -> Leave(Queue(s, "selectWatchface"))

SelectLauncher(s) ==
  LET t == Enter(s, LauncherRows[s.sel + 1])
  IN  IF t.screen = "selector" THEN Reveal([t EXCEPT !.sel = t.catalog.active]) ELSE t

SelectSettings(s, home) ==
  LET row == SettingsRows[s.sel + 1] IN
  CASE row = "save"     -> Queue(s, "saveSettings")
    [] row = "timezone" -> Reveal([Enter(s, row) EXCEPT !.sel = home])
    [] row = "ntpSync"  -> Queue(Enter(s, row), "syncNtp")
    [] OTHER            -> Enter(s, row)

SelectSafeMode(s) ==
  CASE s.sel = 0 -> Enter(s, "diagnostics")
    [] s.sel = 1 -> IF s.catalog.readable THEN Enter(s, "packageApps")
                    ELSE Queue(s, "purgePackages")
    [] OTHER     -> Queue(s, "normalReboot")

SelectPackage(s) ==
  IF Listed(s) = 0 THEN s
  ELSE Queue(s, IF s.safe THEN "removePackage" ELSE "runPackage")

OpenMenu(s) == Enter(s, IF s.safe THEN "safeMode" ELSE "launcher")

Menu(s, home) ==
  CASE s.screen = "selector"      -> SelectFace(s)
    [] s.screen = "watchface"     -> OpenMenu(s)
    [] s.screen = "launcher"      -> SelectLauncher(s)
    [] s.screen = "settings"      -> SelectSettings(s, home)
    [] s.screen = "timezone"      -> RestoreParent(Queue(s, "saveTimezone"))
    [] s.screen = "manualTime"    -> [s EXCEPT !.editing = ~@]
    [] s.screen = "packagePortal" -> Queue(s, "startPortal")
    [] s.screen = "safeMode"      -> SelectSafeMode(s)
    [] s.screen = "packageApps"   -> SelectPackage(s)
    [] OTHER                      -> s

(* home is the row of the home zone, which nothing else depends on.        *)
Input(s, input, home) ==
  CASE input = "idle" -> Leave(s)
    [] input = "back" -> Back(s)
    [] input = "menu" -> Menu(s, home)
    [] OTHER          -> Move(s, input)

(* input_from_mask: one button of a mask is heard.                         *)
InputFromMask(m) ==
  CHOOSE b \in m : \A c \in m : \E i, j \in 1..4 :
    LET order == <<"menu", "back", "up", "down">> IN
    order[i] = b /\ order[j] = c /\ i <= j

(* watchy_shell_transition_for_change: does the change cut to its target   *)
(* with one write, so that no press can cancel it?  An error screen clears *)
(* the panel first, which nothing cancels either (main.c:905).             *)
Cuts(s) ==
  \/ s.safe \/ turn.from = "safeMode" \/ s.screen = "safeMode"
  \/ s.screen = "error" /\ turn.from # "error"
  \/ /\ ~turn.saved
     /\ ~(s.sleep /\ turn.input = "back")
     /\ \/ turn.input \notin {"menu", "back"}
        \/ turn.from = s.screen
        \/ turn.from = "watchface" /\ s.screen = "launcher"

-----------------------------------------------------------------------------
(* Presentation.                                                           *)

(* watchy_shell_presentation_observe.                                      *)
Observe(s, outcome, m) ==
  /\ deferred' = (outcome # "target")
  /\ pending' = IF outcome = "target" THEN pending ELSE pending \cup m
  /\ shell' = IF outcome = "target" THEN s ELSE [s EXCEPT !.sleep = FALSE]

SomeOrNone == Masks \cup {{}}

(* refresh_shell and the observation of what it returned.                  *)
RefreshShell(s, cancellable) ==
  \/ Observe(s, "target", {}) /\ panel' = s.screen
  \/ /\ cancellable
     /\ \E m \in Masks : Observe(s, "cancelled", m)
     /\ panel' = "partial"
  \/ \E m \in SomeOrNone :
       \/ Observe(Fail(s), "recovery", m) /\ panel' = "error"
       \/ Observe(Fail(s), "failed", m) /\ panel' = "unknown"

(* A run of the selected face is possible: the boot work is done and went  *)
(* well, and a package is selected in the catalog the task holds, which a  *)
(* snapshot that failed may have left in any state.                        *)
FaceMayRun(s) == ~s.safe /\ ~boot.blocked
FaceRuns(s)   == FaceMayRun(s) /\ (s.catalog.readable => s.catalog.selected)
FaceStays(s)  == ~(FaceMayRun(s) /\ s.catalog.readable /\ s.catalog.selected)

(* present_selected_watchface when a face ran.                             *)
PresentFace(s) ==
  \/ /\ \E c \in Catalogs : c.selected /\ Observe(SetCatalog(s, c), "target", {})
     /\ panel' = "face"
  \/ /\ \E c \in Catalogs, m \in Masks : Observe(SetCatalog(s, c), "cancelled", m)
     /\ panel' = "partial"
  \/ \E c \in Catalogs \cup {s.catalog}, saveFailed \in BOOLEAN :
       RefreshShell(FailIf(saveFailed, SetCatalog(s, c)), FALSE)

Present ==
  /\ at = "present"
  /\ IF shell.screen = "watchface"
     THEN \/ FaceRuns(shell) /\ PresentFace(shell)
          \/ FaceStays(shell) /\ RefreshShell(shell, ~Cuts(shell))
     ELSE RefreshShell(shell, ~Cuts(shell))
  /\ at' = "loop" /\ turn' = NoTurn
  /\ UNCHANGED <<boot, portal>>

-----------------------------------------------------------------------------
(* A pass of the loop: the input.                                          *)

InLoop == at = "loop" /\ ~shell.sleep

(* Presses a presentation gave back come before those of the queue.        *)
Pressed(m) ==
  /\ InLoop
  /\ IF pending # {} THEN m = pending ELSE m \in Masks

TakePress(m) == Pressed(m) /\ pending' = {}

PressIgnoredByPortal(m) ==
  /\ portal /\ "back" \notin m
  /\ TakePress(m)
  /\ UNCHANGED <<shell, boot, deferred, portal, at, turn, panel>>

PressTaken(m) ==
  /\ ~portal
  /\ TakePress(m)
  /\ turn' = [NoTurn EXCEPT !.from = shell.screen, !.input = InputFromMask(m)]
  /\ at' = "input"
  /\ UNCHANGED <<shell, boot, deferred, portal, panel>>

(* Thirty seconds without a press.                                         *)
Idle ==
  /\ InLoop /\ ~portal /\ pending = {}
  /\ turn' = [NoTurn EXCEPT !.from = shell.screen, !.input = "idle"]
  /\ at' = "input"
  /\ UNCHANGED <<shell, boot, deferred, pending, portal, panel>>

(* The queue has overflowed: an error screen, and the watch stays awake.   *)
InputFails ==
  /\ InLoop /\ pending = {}
  /\ portal' = FALSE
  /\ RefreshShell(Fail(shell), FALSE)
  /\ at' = "inputFailure"
  /\ UNCHANGED <<boot, turn>>

(* watchy_watchface_catalog_needed_before_input, or idleness.              *)
CatalogNeeded ==
  \/ turn.input = "idle"
  \/ shell.screen = "launcher" /\ turn.input = "back"
  \/ shell.screen = "launcher" /\ turn.input = "menu" /\ shell.sel < 2
  \/ shell.screen \in {"selector", "packageApps", "safeMode"}

(* complete_package_boot: the seed import, the rollback of a stale         *)
(* candidate and the snapshot; each may fail.                              *)
PackageBoot(safe) ==
  {[catalog |-> c, blocked |-> safe \/ ~recovered \/ ~c.readable,
    saveFailed |-> failed /\ c.readable /\ ~safe] :
     c \in Catalogs \cup {Unlisted}, recovered, failed \in BOOLEAN}

EnsureCatalog ==
  /\ at = "input" /\ ~boot.prepared /\ CatalogNeeded
  /\ \E done \in PackageBoot(shell.safe) :
       LET bad == done.saveFailed \/ (done.blocked /\ ~shell.safe) IN
       /\ boot' = [prepared |-> TRUE, blocked |-> done.blocked]
       /\ IF bad
          THEN RefreshShell(Fail(SetCatalog(shell, done.catalog)), FALSE)
               /\ at' = "loop" /\ turn' = NoTurn
          ELSE shell' = SetCatalog(shell, done.catalog)
               /\ UNCHANGED <<deferred, pending, panel, at, turn>>
  /\ UNCHANGED <<portal>>

HandleInput ==
  /\ at = "input" /\ (boot.prepared \/ ~CatalogNeeded)
  /\ \E home \in 0..(Zones - 1) : shell' = Input(shell, turn.input, home)
  /\ at' = "act"
  /\ UNCHANGED <<boot, deferred, pending, portal, turn, panel>>

(* The portal ends by Back or by one of its time limits; what the session  *)
(* changed is read back (watchy_watchface_portal_exit).                    *)
PortalExit(input) ==
  \E c \in Catalogs \cup {Unlisted}, bad \in BOOLEAN :
    shell' = FailIf(bad \/ ~c.readable, SetCatalog(Input(shell, input, 0), c))

PortalEnds ==
  /\ portal /\ InLoop
  /\ \E m \in SUBSET Buttons :
       /\ IF m = {} THEN pending = {} /\ UNCHANGED pending ELSE TakePress(m)
       /\ LET input == IF "back" \in m THEN "back" ELSE "idle" IN
          /\ PortalExit(input)
          /\ turn' = [NoTurn EXCEPT !.from = shell.screen, !.input = input]
  /\ portal' = FALSE
  /\ at' = "present"
  /\ UNCHANGED <<boot, deferred, panel>>

-----------------------------------------------------------------------------
(* The actions.                                                            *)

Acting(action) == at = "act" /\ shell.action = action

(* take_action_request.                                                    *)
Taken == [shell EXCEPT !.action = "none"]

ActionDone(s) == shell' = s /\ at' = "present"

ActionEnds(s) ==
  ActionDone(s) /\ UNCHANGED <<boot, deferred, pending, portal, turn, panel>>

Saved(s) ==
  /\ ActionDone(s)
  /\ turn' = [turn EXCEPT !.saved = TRUE]
  /\ UNCHANGED <<boot, deferred, pending, portal, panel>>

NoAction == Acting("none") /\ ActionEnds(Taken)

AdjustTime == Acting("adjustTime") /\ ActionEnds(Taken)

(* A value of the display may be refused before the save, or the save may  *)
(* fail.                                                                   *)
SaveSettings == Acting("saveSettings") /\ (Saved(Taken) \/ ActionEnds(Fail(Taken)))

SaveTimezone == Acting("saveTimezone") /\ (Saved(Taken) \/ ActionEnds(Fail(Taken)))

SaveManualTime == Acting("saveManualTime") /\ (Saved(Taken) \/ ActionEnds(Fail(Taken)))

(* The progress is shown first; the synchronisation runs only if it was.   *)
SyncNtp ==
  /\ Acting("syncNtp")
  /\ RefreshShell(Taken, TRUE)
  /\ IF deferred' THEN at' = "loop" /\ turn' = NoTurn
     ELSE at' = "sync" /\ turn' = [turn EXCEPT !.from = "ntpSync"]
  /\ UNCHANGED <<boot, portal>>

SyncEnds == at = "sync" /\ \E bad \in BOOLEAN : ActionEnds(FailIf(bad, shell))

StartPortal ==
  /\ Acting("startPortal")
  /\ \/ ActionDone(Taken) /\ portal' = TRUE
     \/ ActionDone(Fail(Taken)) /\ UNCHANGED portal
  /\ UNCHANGED <<boot, deferred, pending, turn, panel>>

(* reconcile_package_mutation of a removal or a purge.                     *)
ReconcileMutation ==
  /\ shell.action \in {"removePackage", "purgePackages"} /\ Acting(shell.action)
  /\ \/ ActionEnds(Fail(Taken))
     \/ \E c \in Catalogs, bad \in BOOLEAN : ActionEnds(FailIf(bad, SetCatalog(Taken, c)))

(* An app is run to its end; a press that cancelled one of its             *)
(* presentations is handed on.                                             *)
RunPackage ==
  /\ Acting("runPackage")
  /\ IF shell.safe \/ boot.blocked
     THEN ActionEnds(Fail(Taken))
     ELSE /\ \E ok \in BOOLEAN, m \in SomeOrNone :
               /\ pending' = pending \cup m
               /\ deferred' = (deferred \/ m # {})
               /\ shell' = [FailIf(~ok, Taken) EXCEPT !.sleep = @ /\ m = {}]
          /\ panel' = "app"
          /\ at' = "present"
          /\ UNCHANGED <<boot, portal, turn>>

SelectBuiltin ==
  /\ Acting("selectBuiltin")
  /\ \/ \E c \in Catalogs : ~c.selected /\ ActionEnds(SetCatalog(Taken, c))
     \/ ActionEnds(Fail(Taken))

(* Mutant: an error of the selection is not presented.                     *)
SelectionFailsUnseen ==
  /\ shell' = Fail(Taken) /\ at' = "loop" /\ turn' = NoTurn
  /\ UNCHANGED <<boot, deferred, pending, portal, panel>>

SelectionFails == ActionEnds(Fail(Taken))

(* The new face renders, is cancelled, or fails; the catalog and the       *)
(* setting follow.  A face that was rendered needs no other presentation.  *)
SelectWatchface ==
  /\ Acting("selectWatchface")
  /\ \/ SelectionFails
     \/ /\ FaceMayRun(shell)
        /\ \E c \in Catalogs :
             \/ /\ c.selected /\ shell' = SetCatalog(Taken, c) /\ panel' = "face"
                /\ UNCHANGED <<deferred, pending>>
             \/ /\ \E m \in Masks : Observe(SetCatalog(Taken, c), "cancelled", m)
                /\ panel' = "partial"
        /\ at' = "loop" /\ turn' = NoTurn
        /\ UNCHANGED <<boot, portal>>

(* The only way out of safe mode but a power loss.                         *)
NormalReboot ==
  /\ Acting("normalReboot")
  /\ at' = "off" /\ portal' = FALSE /\ turn' = NoTurn /\ shell' = Taken
  /\ UNCHANGED <<boot, deferred, pending, panel>>

-----------------------------------------------------------------------------
(* app_main: from a wake to the loop of the shell or to sleep.             *)

(* The boot work of a button wake is put off.                              *)
DeferredBootOpen == [prepared |-> FALSE, blocked |-> FALSE]

DeferredBoot == [prepared |-> FALSE, blocked |-> TRUE]

NewShell(wake, motionWake, safe, rtcValid, done, cancelled, bad) ==
  LET defer  == wake = "button" /\ ~safe
      kept   == FailIf(~defer /\ done.blocked /\ ~safe, Begin(wake, motionWake, safe))
      heard  == IF cancelled THEN [kept EXCEPT !.sleep = FALSE] ELSE kept
      timed  == IF rtcValid \/ safe THEN heard
                ELSE RequireManualTime(heard, wake \in {"button", "cold"})
  IN  FailIf(bad \/ done.saveFailed, SetCatalog(timed, done.catalog))

(* A wake other than by a button draws the selected face first; a press    *)
(* may cancel it.  Safe mode is latched over deep sleep.                   *)
Boot ==
  /\ at \in {"off", "asleep"}
  /\ \E wake \in IF at = "off" THEN {"cold"} ELSE {"button", "minute", "motion"},
        safe, motionWake, rtcValid, bad \in BOOLEAN :
       LET defer == wake = "button" /\ ~safe
           dark  == wake = "motion" /\ ~motionWake IN
       /\ safe <=> (IF at = "asleep" THEN shell.safe ELSE safe)
       /\ \E done \in IF defer THEN {[catalog |-> Unlisted, blocked |-> TRUE, saveFailed |-> FALSE]}
                      ELSE PackageBoot(safe) :
            /\ boot' = IF defer THEN DeferredBoot
                       ELSE [prepared |-> TRUE, blocked |-> done.blocked]
            /\ \/ /\ panel' = IF at = "off" THEN "unknown" ELSE panel
                  /\ wake # "button" /\ ~dark /\ rtcValid /\ ~safe /\ ~done.blocked
                       => ~done.catalog.selected
                  /\ shell' = NewShell(wake, motionWake, safe, rtcValid, done, FALSE, bad)
                  /\ at' = IF dark THEN "booted" ELSE "bootShow"
                  /\ pending' = {} /\ deferred' = FALSE
               \/ /\ wake # "button" /\ ~dark /\ rtcValid /\ ~safe /\ ~done.blocked
                  /\ done.catalog.selected
                  /\ \E c \in Catalogs \cup {Unlisted}, m \in SomeOrNone,
                        rendered \in BOOLEAN :
                       /\ rendered => m = {}
                       /\ shell' = NewShell(wake, motionWake, safe, rtcValid,
                                            [done EXCEPT !.catalog = c], m # {}, bad)
                       /\ pending' = m /\ deferred' = (m # {})
                       /\ panel' = IF rendered THEN "face" ELSE "partial"
                       /\ at' = IF rendered \/ m # {} THEN "booted" ELSE "bootShow"
       /\ turn' = [NoTurn EXCEPT !.input = "boot",
                                 !.stays = wake = "button" \/ safe \/ ~rtcValid]
  /\ portal' = FALSE

BootShow ==
  /\ at = "bootShow"
  /\ RefreshShell(shell, FALSE)
  /\ at' = "booted"
  /\ turn' = [turn EXCEPT !.input = "none"]
  /\ UNCHANGED <<boot, portal>>

AllowsSleep == ~deferred /\ pending = {}

Booted ==
  /\ at = "booted"
  /\ at' = IF ~shell.sleep /\ (turn.stays \/ ~AllowsSleep) THEN "loop" ELSE "tail"
  /\ turn' = [turn EXCEPT !.stays = FALSE]
  /\ UNCHANGED <<shell, boot, deferred, pending, portal, panel>>

(* The loop of app_main around sleep.                                      *)
ShellDone == at = "tail" \/ (at = "loop" /\ shell.sleep)

Goes(next) ==
  /\ ShellDone
  /\ portal' = FALSE
  /\ at' = next
  /\ UNCHANGED <<boot, deferred, pending, turn, panel>>

RemainsAwake == ~AllowsSleep /\ Goes("stuck") /\ UNCHANGED shell

(* watchy_shell_sleep_route: a press before or during the preparation.     *)
InputBeforeSleep ==
  /\ AllowsSleep /\ Goes("loop")
  /\ shell' = [shell EXCEPT !.sleep = FALSE]

FailsClosed == AllowsSleep /\ Goes("closed") /\ UNCHANGED shell

EntersSleep == AllowsSleep /\ Goes("asleep") /\ UNCHANGED shell

-----------------------------------------------------------------------------
Init ==
  /\ at = "off" /\ panel = "unknown" /\ portal = FALSE
  /\ shell = Begin("cold", FALSE, FALSE) /\ boot = DeferredBoot
  /\ deferred = FALSE /\ pending = {} /\ turn = NoTurn

Pass ==
  \/ (\E m \in SUBSET Buttons \ {{}} : PressIgnoredByPortal(m) \/ PressTaken(m))
  \/ Idle \/ PortalEnds \/ InputFails \/ EnsureCatalog \/ HandleInput \/ Present

Actions ==
  \/ NoAction \/ AdjustTime \/ SaveSettings \/ SaveTimezone \/ SaveManualTime
  \/ SyncNtp \/ SyncEnds \/ StartPortal \/ ReconcileMutation \/ RunPackage
  \/ SelectBuiltin \/ SelectWatchface \/ NormalReboot

MainTask ==
  \/ Pass \/ Actions \/ BootShow \/ Booted
  \/ RemainsAwake \/ InputBeforeSleep \/ FailsClosed \/ EntersSleep

Next == MainTask \/ Boot

Spec == Init /\ [][Next]_vars

-----------------------------------------------------------------------------
(* The selected row of the screen, and of every screen Back returns to, is *)
(* a row of that screen and inside its window (reveal_selection,           *)
(* shell_policy.c:152), also after the catalog changed under it and        *)
(* whichever zone is the home zone when the list of zones opens.           *)
InWindow(s) ==
  /\ s.sel < ItemCount(s)
  /\ s.view <= s.sel /\ s.sel < s.view + VisibleRows

SelectionVisible ==
  /\ InWindow(shell)
  /\ \A i \in DOMAIN shell.history :
       LET frame == shell.history[i] IN
       InWindow([shell EXCEPT !.screen = frame.screen, !.sel = frame.sel, !.view = frame.view])

Children ==
  [watchface |-> {"launcher", "safeMode", "settings"},
   launcher  |-> {"selector", "packageApps", "settings"},
   settings  |-> {"timezone", "manualTime", "ntpSync", "connectivity",
                  "packagePortal", "diagnostics", "about"},
   safeMode  |-> {"diagnostics", "packageApps"}]

(* Back goes the way that was come: the stack is a path of the menu from   *)
(* its root, an error being reachable from everywhere, and the bound of    *)
(* four never drops a frame of it (push_frame, shell_policy.c:107).  The   *)
(* root is the watchface, in safe mode its menu; it is Settings where the  *)
(* boot asked for the time.                                                *)
HistoryIsPath ==
  LET path == Append([i \in DOMAIN shell.history |-> shell.history[i].screen], shell.screen) IN
  /\ path[1] \in {"watchface", IF shell.safe THEN "safeMode" ELSE "settings"}
  /\ \A i \in 1..(Len(path) - 1) :
       \/ path[i + 1] = "error"
       \/ path[i] \in DOMAIN Children /\ path[i + 1] \in Children[path[i]]

(* A watch that was drawn on in this wake sleeps with the screen the shell *)
(* believes in on its panel; the face of a package stands for the          *)
(* watchface.                                                              *)
SleepShowsScreen ==
  at = "asleep" /\ turn.input # "boot"
    => panel = shell.screen \/ (panel = "face" /\ shell.screen = "watchface")

(* No package is run before the boot work that a button wake puts off was  *)
(* done and went well, whatever screen is left first and by whichever way. *)
NoPackageBeforeRecovery ==
  [][panel' \in {"face", "app"} /\ panel' # panel
       => boot'.prepared /\ ~boot'.blocked /\ ~shell'.safe]_vars

(* main.c:1142 stays awake for "display target not presented".             *)
StuckOnlyUnshown == at = "stuck" => panel \notin {shell.screen, "face"}
=============================================================================
