--------------------------- MODULE PackageRunner ---------------------------
(***************************************************************************)
(* The package runner and the policy around it: the boot sequence that     *)
(* prepares the package subsystem, the shell and portal operations on the  *)
(* index, and one attempt of a package from runner_start to the            *)
(* finalisation of its health record, with a reset possible between any    *)
(* two saves (idf_runtime.c, package_policy.c, watchface_action_policy.c,  *)
(* main.c).                                                                *)
(*                                                                         *)
(* The index is PackageIndex's; every step here that changes it is one of  *)
(* that module's actions.  ok tells whether the store reported success.    *)
(***************************************************************************)
EXTENDS PackageIndex

VARIABLES
  pc,       \* where the application task is
  mode,     \* "normal", "blocked" (package boot failed) or "safe"
  plan,     \* why the runner runs
  run,      \* s_runner
  shown,    \* history: the pending face's frame reached the panel
  chosen,   \* history: the pending face was chosen since the last reset
  faulted   \* history: a save or a platform call has reported failure

runnerVars == <<pc, mode, plan, run, shown, chosen, faulted>>
allVars == <<vars, runnerVars>>

BootCalls == {"import", "recover", "catalog"}
InAttempt == {"loading", "active", "finish", "promote", "rollback"}
NoRun == [ref |-> NoRef, pending |-> FALSE, rendered |-> FALSE,
          drew |-> FALSE, cancelled |-> FALSE, failed |-> FALSE]

(* The pending face, or the active one: what a face cycle runs.            *)
SelectedFace == IF ram.pending # NoRef THEN ram.pending ELSE ram.active

Saves(ok, next) ==
  /\ IF ok THEN CommitOk(next) ELSE CommitFails(next)
  /\ faulted' = (faulted \/ ~ok)

(* What the history says of the candidate survives while it is the same.   *)
KeepShown ==
  /\ shown' = (shown /\ ram'.pending = ram.pending)
  /\ chosen' = (chosen /\ ram'.pending = ram.pending)

NextCall == IF pc = "import" THEN "recover" ELSE IF pc = "recover" THEN "catalog"
            ELSE "idle"

-----------------------------------------------------------------------------
RunnerInit ==
  /\ Init
  /\ pc = "off" /\ mode = "normal" /\ plan = "none" /\ run = NoRun
  /\ shown = FALSE /\ chosen = FALSE /\ faulted = FALSE

(* A wake or a reset starts the firmware.  A button wake puts the package  *)
(* boot off until a package is asked for; the chord of buttons, or the     *)
(* flag a chord has latched, starts in safe mode, which only reads the     *)
(* catalog.                                                                *)
Wake ==
  /\ pc = "off"
  /\ \/ pc' \in {"import", "deferred"} /\ mode' = "normal"
     \/ pc' = "catalog" /\ mode' = "safe"
  /\ UNCHANGED <<vars, plan, run, shown, chosen, faulted>>

(* The launcher asks for the catalog, or the shell returns to the face.    *)
BootWanted ==
  /\ pc = "deferred"
  /\ pc' = "import"
  /\ UNCHANGED <<vars, mode, plan, run, shown, chosen, faulted>>

(* Every package call first brings the index up, also after a failed boot  *)
(* and before one that was put off.                                        *)
BootInit ==
  /\ pc \in BootCalls \cup {"idle", "deferred"}
  /\ IndexInit
  /\ UNCHANGED runnerVars

(* The import, the recovery or the snapshot reports an error, be it from   *)
(* its own work or from an index or storage that did not come up.          *)
BootCallFails ==
  /\ pc \in BootCalls
  /\ pc' = NextCall
  /\ mode' = IF mode = "safe" THEN "safe" ELSE "blocked"
  /\ IndexInitFails \/ UNCHANGED vars
  /\ UNCHANGED <<plan, run, shown, chosen, faulted>>

BootCallDone ==
  /\ pc \in {"import", "catalog"} /\ ready
  /\ pc' = NextCall
  /\ UNCHANGED <<vars, mode, plan, run, shown, chosen, faulted>>

(* Mutant: the candidate of the last boot is kept.                         *)
RecoverNothing ==
  /\ pc = "recover" /\ ready
  /\ pc' = NextCall
  /\ UNCHANGED <<vars, mode, plan, run, shown, chosen, faulted>>

Recover ==
  /\ pc = "recover" /\ ready
  /\ pc' = NextCall
  /\ \/ /\ ram.pending = NoRef
        /\ UNCHANGED <<vars, mode, shown, chosen, faulted>>
     \/ \E ok \in BOOLEAN :
          /\ RecoverStalePending /\ Saves(ok, RolledBack(ram))
          /\ mode' = IF ok THEN mode ELSE "blocked"
          /\ KeepShown
  /\ UNCHANGED <<plan, run>>

(* Reconciliation drops an indexed package that is not sound on disk; a    *)
(* call after a failed boot takes it up again.                             *)
ReconcileDrops(r) ==
  /\ pc \in BootCalls \cup {"deferred"} \/ (pc = "idle" /\ mode # "normal")
  /\ Unregister(r)
  /\ \E ok \in BOOLEAN :
       /\ Saves(ok, Unregistered(ram, r))
       /\ IF ok \/ pc = "deferred" THEN UNCHANGED <<pc, mode>>
          ELSE pc' = NextCall /\ mode' = IF mode = "safe" THEN "safe" ELSE "blocked"
  /\ KeepShown
  /\ UNCHANGED <<plan, run>>

-----------------------------------------------------------------------------
(* The shell and the portal, while no package is resident.  The portal     *)
(* works before the boot that was put off as well.                         *)

Install(r, t) ==
  /\ pc \in {"deferred", "import", "idle"} /\ mode # "safe"
  /\ RegisterInstalled(r, t)
  /\ \E ok \in BOOLEAN : Saves(ok, Registered(ram, r, t))
  /\ UNCHANGED <<pc, mode, plan, run, shown, chosen>>

Remove(r) ==
  /\ pc \in {"deferred", "idle"} /\ mode # "safe"
  /\ Unregister(r)
  /\ \E ok \in BOOLEAN : Saves(ok, Unregistered(ram, r))
  /\ KeepShown
  /\ UNCHANGED <<pc, mode, plan, run>>

(* The purge also works on an index that did not come up, and ends with    *)
(* the manager forgotten: the next call loads the emptied index.           *)
Purge ==
  /\ pc = "idle" /\ mode = "safe"
  /\ \/ /\ IndexClear
        /\ \E ok \in BOOLEAN :
             Saves(ok, EmptyIndex) /\ pc' = IF ok THEN "purged" ELSE "idle"
     \/ StoreErased /\ UNCHANGED pc /\ faulted' \in {faulted, TRUE}
  /\ KeepShown
  /\ UNCHANGED <<mode, plan, run>>

Purged ==
  /\ pc = "purged"
  /\ Restart
  /\ pc' = "idle"
  /\ UNCHANGED <<mode, plan, run, shown, chosen, faulted>>

ChooseBuiltin ==
  /\ pc = "idle"
  /\ SelectBuiltin
  /\ \E ok \in BOOLEAN : Saves(ok, BuiltinSelected(ram))
  /\ KeepShown
  /\ UNCHANGED <<pc, mode, plan, run>>

(* The portal records the choice; the shell's selector, which a failed     *)
(* package boot disables, records it and runs it at once.                  *)
ChooseFace(r) ==
  /\ pc \in {"deferred", "idle"} /\ mode # "safe"
  /\ SelectWatchface(r)
  /\ \E ok \in BOOLEAN :
       /\ Saves(ok, Selected(ram, r))
       /\ IF ok THEN shown' = FALSE /\ chosen' = TRUE
          ELSE UNCHANGED <<shown, chosen>>
       /\ \/ UNCHANGED <<pc, plan>>
          \/ /\ ok /\ pc = "idle" /\ mode = "normal"
             /\ pc' = "start" /\ plan' = "once"
  /\ UNCHANGED <<mode, run>>

(* Back to the watchface from the shell, or an unattended wake, which does *)
(* not try again.                                                          *)
GoHome ==
  /\ pc = "idle" /\ mode = "normal"
  /\ ready /\ SelectedFace # NoRef
  /\ pc' = "start"
  /\ plan' \in {"once", IF ram.pending = NoRef THEN "once" ELSE "home"}
  /\ UNCHANGED <<vars, mode, run, shown, chosen, faulted>>

OpenApp(r) ==
  /\ pc = "idle" /\ mode = "normal"
  /\ ready /\ ram.type[r] = "app"
  /\ pc' = "start" /\ plan' = "app" /\ run' = [NoRun EXCEPT !.ref = r]
  /\ UNCHANGED <<vars, mode, shown, chosen, faulted>>

-----------------------------------------------------------------------------
(* One attempt.                                                            *)

Target == IF plan = "app" THEN run.ref ELSE SelectedFace

(* runner_start refuses without an attempt a face nobody may start, or any *)
(* package while the watchdog scope, the storage or the catalog fails.     *)
StartRefused ==
  /\ pc = "start"
  /\ \/ /\ Target \notin Installed(ram) \/ Target \in ram.quarantined
        /\ UNCHANGED faulted
     \/ faulted' = TRUE
  /\ pc' = "back" /\ run' = [NoRun EXCEPT !.failed = TRUE]
  /\ UNCHANGED <<vars, mode, plan, shown, chosen>>

(* begin_attempt: the package runs only when the new count is stored and   *)
(* was not exhausted before.                                               *)
StartAttempt ==
  /\ pc = "start"
  /\ Target # NoRef
  /\ BeginAttempt(Target)
  /\ \E ok \in BOOLEAN :
       /\ Saves(ok, Begun(ram, Target))
       /\ IF ok /\ ~Exhausted(ram, Target)
          THEN /\ pc' = "loading"
               /\ run' = [NoRun EXCEPT !.ref = Target, !.pending = ram.pending = Target]
          ELSE pc' = "back" /\ run' = [NoRun EXCEPT !.failed = TRUE]
  /\ UNCHANGED <<mode, plan, shown, chosen>>

(* The post-callback step of every lifecycle call: it goes on, the package *)
(* asked to leave, or its own presentation or radio work failed.           *)
AfterCallback(r) ==
  \/ pc' = "active" /\ run' = r
  \/ pc' = "finish" /\ run' = r
  \/ pc' = "finish" /\ run' = [r EXCEPT !.failed = TRUE]

(* Manifest and ELF are checked again, then load and start; a start may    *)
(* present a frame of its own, which a button can cancel.                  *)
LoadAndStart ==
  /\ pc = "loading"
  /\ \E c \in BOOLEAN : AfterCallback([run EXCEPT !.cancelled = @ \/ c])
  /\ UNCHANGED <<vars, mode, plan, shown, chosen, faulted>>

(* on_render and the presentation of its frame.  A face is rendered once.  *)
Render ==
  /\ pc = "active"
  /\ plan = "app" \/ ~run.drew
  /\ \/ AfterCallback([run EXCEPT !.rendered = TRUE, !.drew = TRUE])
        /\ shown' = (shown \/ run.pending)
     \/ AfterCallback([run EXCEPT !.cancelled = TRUE, !.drew = TRUE])
        /\ UNCHANGED shown
     \/ pc' = "finish" /\ run' = [run EXCEPT !.failed = TRUE] /\ UNCHANGED shown
  /\ UNCHANGED <<vars, mode, plan, chosen, faulted>>

(* The end of a face cycle, or of an app by Back, idle timeout or overflow.*)
StopRequested ==
  /\ pc = "active"
  /\ plan = "app" \/ run.drew
  /\ pc' = "finish"
  /\ run' \in {run, [run EXCEPT !.failed = TRUE]}
  /\ UNCHANGED <<vars, mode, plan, shown, chosen, faulted>>

(* Mutant: a candidate that was never shown passes.                        *)
CleanUnseen == ~run.failed

(* finalize_watchface_attempt, first save: the stop is clean when every    *)
(* callback was and a face on probation has been on the panel.             *)
Clean == ~run.failed /\ (run.pending => run.rendered)

Finish ==
  /\ pc = "finish"
  /\ \E clean \in {Clean, FALSE}, ok \in BOOLEAN :   \* on_stop itself may fail
       /\ FinishAttempt(run.ref, clean)
       /\ Saves(ok, Finished(ram, run.ref, clean))
       /\ run' = [run EXCEPT !.failed = ~(clean /\ ok)]
       /\ pc' = IF ~run.pending THEN "back"
                ELSE IF clean /\ ok THEN "promote" ELSE "rollback"
  /\ UNCHANGED <<mode, plan, shown, chosen>>

Promote ==
  /\ pc = "promote"
  /\ PromotePending(run.ref)
  /\ \E ok \in BOOLEAN :
       /\ Saves(ok, Promoted(ram))
       /\ IF ok THEN pc' = "back" /\ UNCHANGED run
          ELSE pc' = "rollback" /\ run' = [run EXCEPT !.failed = TRUE]
  /\ KeepShown
  /\ UNCHANGED <<mode, plan>>

Rollback ==
  /\ pc = "rollback"
  /\ RollbackPending(run.ref)
  /\ \E ok \in BOOLEAN : Saves(ok, RolledBack(ram))
  /\ pc' = "back"
  /\ KeepShown
  /\ UNCHANGED <<mode, plan, run>>

(* Mutant: every failed return tries again.                                *)
BackForever ==
  /\ pc = "back"
  /\ IF run.failed /\ plan # "app" THEN pc' = "start" /\ UNCHANGED plan
     ELSE pc' = "idle" /\ plan' = "none"
  /\ run' = NoRun
  /\ UNCHANGED <<vars, mode, shown, chosen, faulted>>

(* return_selected: after a failed probation the restored face gets one    *)
(* run, unless a button was pressed meanwhile or the catalog is unreadable.*)
Retries ==
  /\ plan = "home" /\ ram.active # NoRef
  /\ ~run.cancelled /\ (run.failed \/ ~run.drew)

Back ==
  /\ pc = "back"
  /\ \/ Retries /\ pc' = "start" /\ plan' = "again" /\ UNCHANGED faulted
     \/ ~Retries /\ pc' = "idle" /\ plan' = "none" /\ UNCHANGED faulted
     \/ pc' = "idle" /\ plan' = "none" /\ faulted' = TRUE
  /\ run' = NoRun
  /\ UNCHANGED <<vars, mode, shown, chosen>>

(* A reset, a watchdog bite, a power cut or deep sleep.                    *)
Reset ==
  /\ pc # "off"
  /\ Restart \/ (~ready /\ UNCHANGED vars)
  /\ pc' = "off" /\ mode' = "normal" /\ plan' = "none" /\ run' = NoRun
  /\ shown' = FALSE /\ chosen' = FALSE
  /\ UNCHANGED faulted

-----------------------------------------------------------------------------
BootStep == BootWanted \/ BootInit \/ BootCallFails \/ BootCallDone \/ Recover
AttemptStep == StartRefused \/ StartAttempt \/ LoadAndStart \/ Render \/ StopRequested
               \/ Finish \/ Promote \/ Rollback \/ Back

RunnerNext ==
  \/ Wake \/ Reset \/ BootStep \/ AttemptStep
  \/ Purge \/ Purged \/ ChooseBuiltin \/ GoHome
  \/ \E r \in Refs :
       \/ ReconcileDrops(r) \/ Remove(r) \/ ChooseFace(r) \/ OpenApp(r)
       \/ \E t \in Types : Install(r, t)

(* The application task runs on; nothing promises a reset or a user.       *)
RunnerSpec == RunnerInit /\ [][RunnerNext]_allVars
FairRunnerSpec == RunnerSpec /\ WF_allVars(AttemptStep)

-----------------------------------------------------------------------------
(* A face on probation is only ever started because somebody chose it      *)
(* since the last reset: a candidate that takes the watch down is not      *)
(* started again by the next boot (watchface_action_policy.c:162).         *)
NoSecondProbation == pc \in InAttempt /\ run.pending => chosen

(* No package is quarantined before its third start without a clean stop,  *)
(* unless a save has failed (package_state.c:466).                         *)
NoHastyQuarantine ==
  ~faulted => \A r \in ram.quarantined : unclean[r] = MaxAttempts

(* The face the watch comes back to is replaced only by a candidate whose  *)
(* frame was on the panel, whatever is lost on the way; until then the     *)
(* prior face stays (README.md:124).  The promise is FaceSelection's; the  *)
(* watch keeps it in ram while it is up and in nvs while it is not.        *)
Promise == INSTANCE FaceSelection WITH
  Faces <- Refs,
  None <- NoRef,
  face <- IF ready THEN ram.active ELSE IF nvs = Blank THEN NoRef ELSE nvs.active,
  candidate <- IF ready THEN ram.pending ELSE IF nvs = Blank THEN NoRef ELSE nvs.pending

PromiseKept == Promise!Spec

(* An attempt comes to an end, one way or the other, and the shell gets    *)
(* control back: the retry for the restored face cannot go round forever.  *)
(* A resident app may stay; a watchdog reset is an end too.                *)
AttemptEnds == (pc = "start" /\ plan # "app") ~> (pc \in {"idle", "off"})

=============================================================================
