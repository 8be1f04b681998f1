---------------------------- MODULE PackageIndex ----------------------------
(***************************************************************************)
(* The package index of the watch: which packages are installed, which     *)
(* watchface is active, which one is on probation (pending), the face the  *)
(* watch falls back to (prior) and the health record of every package that *)
(* was ever started (package_state.c).                                     *)
(*                                                                         *)
(* The index lives twice: ram, the manager's copy every query reads, and   *)
(* nvs, the blob in flash.  commit_index writes nvs first and replaces ram *)
(* only when the store reports success.  A store that reports failure may  *)
(* or may not have written the blob: the caller cannot tell.               *)
(*                                                                         *)
(* The public operations are actions here, in any order a caller may       *)
(* choose; PackageRunner composes them in the order the firmware does.     *)
(* The fixed-size arrays of the C record are sets and functions over Refs: *)
(* no property depends on the order of the entries.                        *)
(***************************************************************************)
EXTENDS Integers, FiniteSets

CONSTANTS
  Refs,          \* package references, "id@version"
  NoRef,         \* the empty reference: the built-in face
  Blank,         \* what the store holds before the first save
  InstalledMax,  \* capacity of installed[]
  HealthMax      \* capacity of health[]

MaxAttempts == 3
Types == {"watchface", "app"}

ASSUME NoRefAssumption == NoRef \notin Refs
ASSUME CapacityAssumption ==
  /\ IsFiniteSet(Refs)
  /\ InstalledMax \in Nat
  /\ HealthMax \in Nat
  /\ InstalledMax <= HealthMax

VARIABLES
  ram,      \* manager.index
  nvs,      \* the stored blob, or Blank
  ready,    \* manager.initialized
  unclean   \* history: starts granted since the last clean stop, per package

vars == <<ram, nvs, ready, unclean>>

-----------------------------------------------------------------------------
(* The record and what persisted_index_valid demands of it.                *)

Index == [active : Refs \cup {NoRef}, pending : Refs \cup {NoRef},
          prior : Refs \cup {NoRef},
          type : [Refs -> Types \cup {"none"}],
          recorded : SUBSET Refs,       \* refs with a health record
          attempts : [Refs -> Nat],     \* incomplete_attempts of the record
          quarantined : SUBSET Refs]

ASSUME BlankAssumption == Blank \notin Index

EmptyIndex == [active |-> NoRef, pending |-> NoRef, prior |-> NoRef,
               type |-> [r \in Refs |-> "none"],
               recorded |-> {}, attempts |-> [r \in Refs |-> 0],
               quarantined |-> {}]

Installed(i) == {r \in Refs : i.type[r] # "none"}
Watchfaces(i) == {r \in Refs : i.type[r] = "watchface"}

CountsFit(i) ==
  /\ Cardinality(Installed(i)) <= InstalledMax
  /\ Cardinality(i.recorded) <= HealthMax

FacesInstalled(i) == {i.active, i.pending, i.prior} \subseteq Watchfaces(i) \cup {NoRef}

PriorSound(i) == IF i.pending = NoRef THEN i.prior = NoRef ELSE i.prior = i.active

HealthSound(i) ==
  /\ i.recorded \subseteq Installed(i)
  /\ \A r \in i.recorded : i.attempts[r] <= MaxAttempts
  /\ \A r \in i.quarantined : r \in i.recorded /\ i.attempts[r] = MaxAttempts
  /\ \A r \in Refs \ i.recorded : i.attempts[r] = 0

Valid(i) == CountsFit(i) /\ FacesInstalled(i) /\ PriorSound(i) /\ HealthSound(i)

-----------------------------------------------------------------------------
(* The next index of each mutation, and the guard before it.               *)

CanSelect(i, r) == r \in Watchfaces(i) /\ r \notin i.quarantined
(* Mutant: the face to fall back to is not noted.                          *)
SelectedOnly(i, r) == [i EXCEPT !.pending = r]

Selected(i, r) == [i EXCEPT !.prior = i.active, !.pending = r]

BuiltinSelected(i) == [i EXCEPT !.active = NoRef, !.pending = NoRef, !.prior = NoRef]

Promoted(i) == [i EXCEPT !.active = i.pending, !.pending = NoRef, !.prior = NoRef]
RolledBack(i) == [i EXCEPT !.active = i.prior, !.pending = NoRef, !.prior = NoRef]

HasHealthSlot(i, r) == r \in i.recorded \/ Cardinality(i.recorded) < HealthMax
CanBegin(i, r) == r \in Installed(i) /\ r \notin i.quarantined /\ HasHealthSlot(i, r)
Exhausted(i, r) == i.attempts[r] >= MaxAttempts
Begun(i, r) ==
  IF Exhausted(i, r)
  THEN [i EXCEPT !.recorded = @ \cup {r}, !.quarantined = @ \cup {r}]
  ELSE [i EXCEPT !.recorded = @ \cup {r}, !.attempts[r] = @ + 1]

CanFinish(i, r) == r \in i.recorded /\ i.attempts[r] # 0
(* Mutant: any stop clears the count.                                      *)
FinishedAlwaysClean(i, r, clean) == [i EXCEPT !.attempts[r] = 0]

(* Mutant: a clean stop lifts the quarantine.                              *)
FinishedForgives(i, r, clean) ==
  IF clean THEN [i EXCEPT !.attempts[r] = 0, !.quarantined = @ \ {r}]
  ELSE IF Exhausted(i, r) THEN [i EXCEPT !.quarantined = @ \cup {r}]
  ELSE i

(* Mutant: a clean stop leaves the count.                                  *)
FinishedKeepsCount(i, r, clean) ==
  IF ~clean /\ Exhausted(i, r) THEN [i EXCEPT !.quarantined = @ \cup {r}] ELSE i

Finished(i, r, clean) ==
  IF clean THEN [i EXCEPT !.attempts[r] = 0]
  ELSE IF Exhausted(i, r) THEN [i EXCEPT !.quarantined = @ \cup {r}]
  ELSE i

CanRegister(i, r) == r \notin Installed(i) /\ Cardinality(Installed(i)) < InstalledMax
Registered(i, r, t) == [i EXCEPT !.type[r] = t]

Unregistered(i, r) ==
  LET gone == [i EXCEPT !.type[r] = "none", !.recorded = @ \ {r},
                        !.attempts[r] = 0, !.quarantined = @ \ {r}]
  IN  IF r \in {i.active, i.prior} THEN BuiltinSelected(gone)
      ELSE IF r = i.pending THEN [gone EXCEPT !.pending = NoRef, !.prior = NoRef]
      ELSE gone

-----------------------------------------------------------------------------
(* commit_index, with the two outcomes a store may report.                 *)

CommitOk(next) ==
  /\ Valid(next)
  /\ nvs' = next
  /\ ram' = next
  /\ UNCHANGED ready

CommitFails(next) ==
  /\ nvs' \in {nvs} \cup (IF Valid(next) THEN {next} ELSE {})
  /\ UNCHANGED <<ram, ready>>

Commit(next) == CommitOk(next) \/ CommitFails(next)

(* Start counts are forgotten with the health record they belong to.       *)
Forget == unclean' = [r \in Refs |-> IF nvs' # Blank /\ r \in nvs'.recorded
                                     THEN unclean[r] ELSE 0]

-----------------------------------------------------------------------------
Init ==
  /\ ram = EmptyIndex
  /\ nvs = Blank
  /\ ready = FALSE
  /\ unclean = [r \in Refs |-> 0]

(* watchy_package_index_init.  A store error or an invalid blob leaves the *)
(* manager uninitialised: the step is a stutter.                           *)
IndexInit ==
  /\ ~ready
  /\ \/ nvs # Blank /\ Valid(nvs) /\ ram' = nvs /\ UNCHANGED nvs
     \/ nvs = Blank /\ ram' = EmptyIndex /\ nvs' = EmptyIndex
  /\ ready' = TRUE
  /\ UNCHANGED unclean

(* The first save of an empty index fails, though the blob may be there.   *)
IndexInitFails ==
  /\ ~ready
  /\ nvs = Blank
  /\ nvs' = EmptyIndex
  /\ UNCHANGED <<ram, ready, unclean>>

SelectWatchface(r) ==
  /\ ready /\ CanSelect(ram, r)
  /\ Commit(Selected(ram, r))
  /\ UNCHANGED unclean

SelectBuiltin ==
  /\ ready
  /\ Commit(BuiltinSelected(ram))
  /\ UNCHANGED unclean

PromotePending(r) ==
  /\ ready /\ ram.pending = r
  /\ Commit(Promoted(ram))
  /\ UNCHANGED unclean

RollbackPending(r) ==
  /\ ready /\ ram.pending = r
  /\ Commit(RolledBack(ram))
  /\ UNCHANGED unclean

RecoverStalePending ==
  /\ ready /\ ram.pending # NoRef
  /\ Commit(RolledBack(ram))
  /\ UNCHANGED unclean

(* Only a committed increment returns OK and lets the package run.         *)
BeginAttempt(r) ==
  /\ ready /\ CanBegin(ram, r)
  /\ \/ /\ CommitOk(Begun(ram, r))
        /\ unclean' = [unclean EXCEPT ![r] = IF Exhausted(ram, r) THEN @ ELSE @ + 1]
     \/ CommitFails(Begun(ram, r)) /\ UNCHANGED unclean

FinishAttempt(r, clean) ==
  /\ ready /\ CanFinish(ram, r)
  /\ Commit(Finished(ram, r, clean))
  /\ unclean' = [unclean EXCEPT ![r] = IF clean THEN 0 ELSE @]

RegisterInstalled(r, t) ==
  /\ ready /\ CanRegister(ram, r)
  /\ Commit(Registered(ram, r, t))
  /\ UNCHANGED unclean

Unregister(r) ==
  /\ ready /\ r \in Installed(ram)
  /\ Commit(Unregistered(ram, r))
  /\ Forget

IndexClear ==
  /\ ready
  /\ Commit(EmptyIndex)
  /\ Forget

(* The safe-mode purge of an index that did not come up: the blob is       *)
(* replaced unread.                                                        *)
StoreErased ==
  /\ ~ready
  /\ nvs' = EmptyIndex
  /\ Forget
  /\ UNCHANGED <<ram, ready>>

(* A reset, a power cut or a wake from deep sleep: RAM is lost.  The purge *)
(* ends the same way.                                                      *)
Restart ==
  /\ ready
  /\ ready' = FALSE
  /\ ram' = EmptyIndex
  /\ UNCHANGED <<nvs, unclean>>

Mutate(r) ==
  \/ SelectWatchface(r) \/ PromotePending(r) \/ RollbackPending(r)
  \/ BeginAttempt(r) \/ Unregister(r)
  \/ \E clean \in BOOLEAN : FinishAttempt(r, clean)
  \/ \E t \in Types : RegisterInstalled(r, t)

Next ==
  \/ IndexInit \/ IndexInitFails \/ StoreErased \/ Restart
  \/ SelectBuiltin \/ RecoverStalePending \/ IndexClear
  \/ \E r \in Refs : Mutate(r)

Spec == Init /\ [][Next]_vars

-----------------------------------------------------------------------------
TypeOK ==
  /\ ram \in Index
  /\ nvs \in Index \cup {Blank}
  /\ ready \in BOOLEAN
  /\ unclean \in [Refs -> Nat]

(* Every mutation a caller can make of a valid index yields a valid index, *)
(* so commit_index never refuses one for its content: ERR_STORE always     *)
(* means the store.  The one exception is a clean finish of a quarantined  *)
(* package, which the runner never asks for (package_state.c:235).         *)
MutationsValid ==
  ready =>
    /\ Valid(BuiltinSelected(ram))
    /\ ram.pending # NoRef => Valid(Promoted(ram)) /\ Valid(RolledBack(ram))
    /\ \A r \in Refs :
         /\ CanSelect(ram, r) => Valid(Selected(ram, r))
         /\ CanBegin(ram, r) => Valid(Begun(ram, r))
         /\ CanFinish(ram, r) => Valid(Finished(ram, r, FALSE))
         /\ CanFinish(ram, r) /\ r \notin ram.quarantined
              => Valid(Finished(ram, r, TRUE))
         /\ CanRegister(ram, r) => \A t \in Types : Valid(Registered(ram, r, t))
         /\ r \in Installed(ram) => Valid(Unregistered(ram, r))

(* begin_attempt never answers ERR_LIMIT: a package that may start always  *)
(* finds a health record free, whatever was removed and reinstalled before *)
(* (package_state.c:457).                                                  *)
HealthSlotFree ==
  ready => \A r \in Installed(ram) : HasHealthSlot(ram, r)

(* No package is granted more than three starts without a clean stop in    *)
(* between, across any number of restarts and lost or half-reported saves: *)
(* the persistent boot loop the README rules out.                          *)
StartsBounded == \A r \in Refs : unclean[r] <= MaxAttempts

(* While the firmware is up the active face is replaced only by the face   *)
(* that was pending or by the built-in one; a rollback gives back exactly  *)
(* the face that was active when the pending one was chosen.               *)
ActiveComesFromPending ==
  [][ready /\ ready' => ram'.active \in {ram.active, ram.pending, NoRef}]_vars

(* Whatever order of calls, failed saves and restarts, the blob in flash    *)
(* can be loaded again: index_init never locks the package manager out     *)
(* over its own data (package_state.c:264).                                *)
StoreLoadable == nvs = Blank \/ Valid(nvs)

(* A quarantine the manager answers with survives every later call, failed *)
(* save and restart until the package itself is removed.                   *)
QuarantineDurable ==
  [][\A r \in ram.quarantined :
       r \in nvs'.quarantined \/ r \notin Installed(nvs')]_vars

(* The inductive invariant.  Neither copy may run ahead of the other in    *)
(* what it forgives: both remember every start that was granted.           *)
StartsRecorded ==
  \A r \in Refs :
    /\ unclean[r] <= (IF nvs = Blank THEN 0 ELSE nvs.attempts[r])
    /\ ready => unclean[r] <= ram.attempts[r]

QuarantineStored ==
  \A r \in ram.quarantined :
    nvs # Blank /\ (r \in nvs.quarantined \/ r \notin Installed(nvs))

IndexInv ==
  /\ TypeOK
  /\ Valid(ram)
  /\ StoreLoadable
  /\ StartsRecorded
  /\ QuarantineStored
=============================================================================
