---------------------------- MODULE PackageStore ----------------------------
(***************************************************************************)
(* Packages on flash: installation, removal, the reconciliation at boot,   *)
(* the safe-mode purge and the import of the factory seed, with a reset    *)
(* between any two steps and with saves and file operations that fail      *)
(* (package_install.c, idf_runtime.c, factory_seed_policy.c).              *)
(*                                                                         *)
(* Of the index only the set of installed packages matters here: ram is    *)
(* the manager's copy, nvs the stored one.  Of a package directory it      *)
(* matters whether it is whole; of a private state directory, whether it   *)
(* is there and whose data it holds.  The package mutex makes one          *)
(* operation at a time run: at is the step it has reached.                 *)
(***************************************************************************)
EXTENDS Integers, Sequences, FiniteSets

CONSTANTS
  Refs,      \* packages, "id@version"
  Ids,       \* identifiers; the versions of one share a state directory
  IdOf,      \* [Refs -> Ids]
  SeedList,  \* the packages of the factory catalog, in its order
  NoRef

Seeds == {SeedList[i] : i \in 1..Len(SeedList)}

ASSUME RefsAssumption == NoRef \notin Refs /\ IdOf \in [Refs -> Ids]
ASSUME SeedAssumption == SeedList \in Seq(Refs)

VARIABLES
  ram, nvs,    \* installed packages: the manager's copy, the stored index
  final,       \* [Refs -> {"none", "partial", "sound"}]: the package directory
  txn,         \* packages with an unpack transaction directory
  stage,       \* a staged upload is in /data/staging
  state,       \* identifiers with a private state directory
  seedFiles,   \* seed packages still in /data/factory
  marker,      \* the seed version is recorded
  at, who, by, \* step, package and caller of the running operation
  pos,         \* the seed entry the import is at
  safe,        \* safe mode
  up,          \* storage_reconciled
  adopted,     \* history: seed packages that were ever served
  stale,       \* history: state directories left by a removed package
  faulted      \* history: a save or a file operation has failed

flash == <<nvs, final, txn, stage, state, seedFiles, marker>>
history == <<adopted, stale, faulted>>
vars == <<flash, ram, at, who, by, pos, safe, up, history>>

InstallSteps == {"install", "staged", "unpack", "register", "committed",
                 "cleanTxn", "cleanFinal", "cleanStage", "unlink"}
RemoveSteps == {"dropFinal", "dropState"}
PurgeSteps == {"purgeStaging", "purgePackages", "purgeState"}
IdsOf(S) == {IdOf[r] : r \in S}
Others(r) == {s \in Refs : s # r /\ IdOf[s] = IdOf[r]}

Init ==
  /\ ram = {} /\ nvs = {}
  /\ final = [r \in Refs |-> "none"] /\ txn = {} /\ stage = FALSE
  /\ state = {} /\ seedFiles = Seeds /\ marker = FALSE
  /\ at = "off" /\ who = NoRef /\ by = "user" /\ pos = 1
  /\ safe = FALSE /\ up = FALSE
  /\ adopted = {} /\ stale = {} /\ faulted = FALSE

-----------------------------------------------------------------------------
(* A save of the index and an operation on files.                          *)

CommitOk(S) == nvs' = S /\ ram' = S /\ UNCHANGED faulted
CommitFails(S) == nvs' \in {nvs, S} /\ ram' = ram /\ faulted' = TRUE

Works == UNCHANGED faulted
Fails == faulted' = TRUE

(* The removal of the last version leaves its state directory ownerless.   *)
Orphan(S) == stale' = stale \cup (state \cap (IdsOf(nvs) \ IdsOf(S)))

(* The next step; what is local to an operation ends with it.              *)
Rest == {"idle", "broken"}
Go(step) ==
  /\ at' = step
  /\ who' = IF step \in InstallSteps \cup RemoveSteps THEN who ELSE NoRef
  /\ by' = IF step \in Rest THEN "user" ELSE by
  /\ pos' = IF step \in Rest THEN 1 ELSE pos
  /\ UNCHANGED <<safe, up>>

(* remove_tree may stop half way.                                          *)
Damaged(f, r) == {f, IF f[r] = "none" THEN f ELSE [f EXCEPT ![r] = "partial"]}

-----------------------------------------------------------------------------
(* Boot: the index is loaded, then storage is reconciled with it.          *)

Boot ==
  /\ at = "off"
  /\ ram' = nvs
  /\ at' = "reconcile" /\ by' = "boot" /\ safe' \in BOOLEAN
  /\ UNCHANGED <<flash, who, pos, up, history>>

(* The next package call after a failed reconciliation takes it up again.  *)
Retry ==
  /\ at = "broken"
  /\ at' = "reconcile" /\ by' = "boot"
  /\ UNCHANGED <<flash, ram, who, pos, safe, up, history>>

(* Mutant: the walk over the index drops the files but not the entry.      *)
ReconcileDropsFiles(r) ==
  /\ at = "reconcile" /\ r \in ram /\ final[r] # "sound"
  /\ who' = r /\ at' = "dropFinal"
  /\ UNCHANGED <<flash, ram, by, pos, safe, up, history>>

(* An indexed package that is not whole is unregistered before its files   *)
(* are removed.                                                            *)
ReconcileDrops(r) ==
  /\ at = "reconcile" /\ r \in ram /\ final[r] # "sound"
  /\ \/ CommitOk(ram \ {r}) /\ Orphan(ram \ {r}) /\ at' = "dropFinal" /\ who' = r
        /\ UNCHANGED <<by, pos, safe, up>>
     \/ CommitFails(ram \ {r}) /\ UNCHANGED stale /\ Go("broken")
  /\ UNCHANGED <<final, txn, stage, state, seedFiles, marker, adopted>>

Reconciled ==
  /\ at = "reconcile" /\ \A r \in ram : final[r] = "sound"
  /\ adopted' = adopted \cup (ram \cap Seeds)
  /\ Go("sweep")
  /\ UNCHANGED <<flash, ram, stale, faulted>>

(* Staging first, then the package directories, then private state: a      *)
(* later directory is only swept when the earlier ones are clean.          *)
LitterPackages == {r \in Refs \ ram : final[r] # "none"}
(* Mutant: private state is not swept.                                     *)
LitterStatesForgotten == {}
LitterStates == state \ IdsOf(ram)

Sweep ==
  /\ at = "sweep"
  /\ \/ stage /\ stage' = FALSE /\ UNCHANGED <<final, txn, state, stale>>
     \/ /\ ~stage
        /\ \/ /\ \E r \in LitterPackages : final' = [final EXCEPT ![r] = "none"]
              /\ UNCHANGED txn
           \/ /\ \E r \in txn : txn' = txn \ {r}
              /\ UNCHANGED final
        /\ UNCHANGED <<stage, state, stale>>
     \/ /\ ~stage /\ LitterPackages = {} /\ txn = {}
        /\ \E i \in LitterStates :
             /\ state' = state \ {i} /\ stale' = stale \ {i}
        /\ UNCHANGED <<stage, final, txn>>
  /\ UNCHANGED <<ram, nvs, seedFiles, marker, at, who, by, pos, safe, up, adopted, faulted>>

SweepDone ==
  /\ at = "sweep" /\ ~stage /\ txn = {} /\ LitterPackages = {} /\ LitterStates = {}
  /\ up' = TRUE /\ by' = "user" /\ pos' = 1
  /\ at' = IF safe THEN "idle" ELSE "import"
  /\ UNCHANGED <<flash, ram, who, safe, history>>

SweepFails ==
  /\ at = "sweep"
  /\ Fails /\ Go("broken")
  /\ \/ \E r \in LitterPackages : final' \in Damaged(final, r)
     \/ UNCHANGED final
  /\ UNCHANGED <<nvs, txn, stage, state, seedFiles, marker, ram, adopted, stale>>

-----------------------------------------------------------------------------
(* The factory seed: each package is installed, then its file removed, and *)
(* the marker is written after the last.                                   *)

ImportAdopted ==
  /\ at = "import" /\ marker
  /\ Go("idle") /\ UNCHANGED <<flash, ram, history>>

AtEntry(r) == at = "import" /\ ~marker /\ pos <= Len(SeedList) /\ r = SeedList[pos]

ImportSkips(r) ==
  /\ AtEntry(r) /\ r \notin seedFiles /\ r \in ram
  /\ pos' = pos + 1
  /\ UNCHANGED <<flash, ram, at, who, by, safe, up, history>>

ImportStuck(r) ==
  /\ AtEntry(r) /\ r \notin seedFiles /\ r \notin ram
  /\ Go("idle") /\ UNCHANGED <<flash, ram, history>>

ImportInstalls(r) ==
  /\ AtEntry(r) /\ r \in seedFiles
  /\ at' = "install" /\ who' = r /\ by' = "seed"
  /\ UNCHANGED <<flash, ram, pos, safe, up, history>>

(* The marker, the catalog or a file cannot be read, or memory is short.   *)
ImportFails ==
  /\ at = "import" /\ Fails
  /\ Go("idle") /\ UNCHANGED <<flash, ram, adopted, stale>>

SeedUnlink ==
  /\ at = "unlink"
  /\ \/ /\ Works
        /\ seedFiles' = seedFiles \ {who}
        /\ at' = "import" /\ pos' = pos + 1 /\ who' = NoRef /\ by' = "user"
        /\ UNCHANGED <<safe, up>>
     \/ Fails /\ UNCHANGED seedFiles /\ Go("idle")
  /\ UNCHANGED <<nvs, final, txn, stage, state, marker, ram, adopted, stale>>

ImportMarks ==
  /\ at = "import" /\ ~marker /\ pos > Len(SeedList)
  /\ \/ Works /\ marker' = TRUE
     \/ Fails /\ marker' \in BOOLEAN
  /\ Go("idle")
  /\ UNCHANGED <<nvs, final, txn, stage, state, seedFiles, ram, adopted, stale>>

-----------------------------------------------------------------------------
(* watchy_package_install, one step per effect on flash.                   *)

Upload(r) ==
  /\ at = "idle" /\ ~safe /\ up
  /\ at' = "install" /\ who' = r /\ by' = "user"
  /\ UNCHANGED <<flash, ram, pos, safe, up, history>>

(* Installed already is an error for an upload and success for the seed.   *)
InstalledAlready ==
  /\ at = "install" /\ who \in ram
  /\ Go(IF by = "seed" THEN "unlink" ELSE "idle")
  /\ UNCHANGED <<flash, ram, history>>

(* Mutant: the import goes on behind an entry that failed.                 *)
FailedContinues ==
  /\ IF by = "seed" THEN at' = "import" /\ pos' = pos + 1 ELSE at' = "idle" /\ UNCHANGED pos
  /\ UNCHANGED <<who, by, safe, up>>

Failed == Go("idle")

StageUpload ==
  /\ at = "install" /\ who \notin ram
  /\ \/ Works /\ stage' = TRUE /\ Go("staged")
     \/ Fails /\ UNCHANGED stage /\ Failed
  /\ UNCHANGED <<nvs, final, txn, state, seedFiles, marker, ram, adopted, stale>>

(* The readback does not validate, or the package directory is occupied.   *)
Rejected ==
  /\ at = "staged"
  /\ Go("cleanStage")
  /\ UNCHANGED <<flash, ram, history>>

OpenTransaction ==
  /\ at = "staged" /\ final[who] = "none"
  /\ \/ Works /\ txn' = txn \cup {who} /\ Go("unpack")
     \/ Fails /\ UNCHANGED txn /\ Go("cleanStage")
  /\ UNCHANGED <<nvs, final, stage, state, seedFiles, marker, ram, adopted, stale>>

(* Every file is written and synced before the directory is renamed.       *)
Unpack ==
  /\ at = "unpack"
  /\ \/ /\ Works /\ txn' = txn \ {who}
        /\ final' = [final EXCEPT ![who] = "sound"] /\ Go("register")
     \/ Fails /\ UNCHANGED <<txn, final>> /\ Go("cleanTxn")
  /\ UNCHANGED <<nvs, stage, state, seedFiles, marker, ram, adopted, stale>>

(* The commit of the index is the transaction boundary.                    *)
Register ==
  /\ at = "register"
  /\ \/ CommitOk(ram \cup {who}) /\ adopted' = adopted \cup ({who} \cap Seeds) /\ Go("committed")
     \/ CommitFails(ram \cup {who}) /\ UNCHANGED adopted /\ Go("cleanFinal")
  /\ UNCHANGED <<final, txn, stage, state, seedFiles, marker, stale>>

(* Housekeeping after the commit never turns it into a failure.            *)
DropStage ==
  /\ at = "committed"
  /\ \/ Works /\ stage' = FALSE
     \/ Fails /\ UNCHANGED stage
  /\ Go(IF by = "seed" THEN "unlink" ELSE "idle")
  /\ UNCHANGED <<nvs, final, txn, state, seedFiles, marker, ram, adopted, stale>>

CleanTxn ==
  /\ at = "cleanTxn"
  /\ \/ Works /\ txn' = txn \ {who}
     \/ Fails /\ UNCHANGED txn
  /\ Go("cleanStage")
  /\ UNCHANGED <<nvs, final, stage, state, seedFiles, marker, ram, adopted, stale>>

CleanFinal ==
  /\ at = "cleanFinal"
  /\ \/ Works /\ final' = [final EXCEPT ![who] = "none"]
     \/ Fails /\ final' \in Damaged(final, who)
  /\ Go("cleanStage")
  /\ UNCHANGED <<nvs, txn, stage, state, seedFiles, marker, ram, adopted, stale>>

CleanStage ==
  /\ at = "cleanStage"
  /\ \/ Works /\ stage' = FALSE
     \/ Fails /\ UNCHANGED stage
  /\ Failed
  /\ UNCHANGED <<nvs, final, txn, state, seedFiles, marker, ram, adopted, stale>>

-----------------------------------------------------------------------------
(* Removal: the index first, then the package, then the state of the last  *)
(* version.                                                                *)

(* Mutant: the files go first and the index later.                         *)
RemoveFilesFirst(r) ==
  /\ at = "idle" /\ ~safe /\ up /\ r \in ram
  /\ who' = r /\ by' = "user" /\ at' = "dropFinal"
  /\ UNCHANGED <<flash, ram, pos, safe, up, history>>

Remove(r) ==
  /\ at = "idle" /\ ~safe /\ up /\ r \in ram
  /\ \/ CommitOk(ram \ {r}) /\ Orphan(ram \ {r}) /\ at' = "dropFinal" /\ who' = r
        /\ UNCHANGED <<by, pos, safe, up>>
     \/ CommitFails(ram \ {r}) /\ UNCHANGED stale /\ Go("idle")
  /\ UNCHANGED <<final, txn, stage, state, seedFiles, marker, adopted>>

AfterDrop(ok) == IF by = "user" THEN "idle" ELSE IF ok THEN "reconcile" ELSE "broken"
LastVersion == Others(who) \cap ram = {}

DropFinal ==
  /\ at = "dropFinal"
  /\ \/ /\ Works /\ final' = [final EXCEPT ![who] = "none"]
        /\ Go(IF LastVersion THEN "dropState" ELSE AfterDrop(TRUE))
     \/ Fails /\ final' \in Damaged(final, who) /\ Go(AfterDrop(FALSE))
  /\ UNCHANGED <<nvs, txn, stage, state, seedFiles, marker, ram, adopted, stale>>

(* A removal by the user also takes what is left of the identifier's       *)
(* directory.                                                              *)
DropState ==
  /\ at = "dropState"
  /\ \/ /\ Works
        /\ state' = state \ {IdOf[who]} /\ stale' = stale \ {IdOf[who]}
        /\ IF by = "user"
           THEN /\ txn' = {r \in txn : IdOf[r] # IdOf[who]}
                /\ final' = [r \in Refs |-> IF IdOf[r] = IdOf[who] THEN "none" ELSE final[r]]
           ELSE UNCHANGED <<txn, final>>
        /\ Go(AfterDrop(TRUE))
     \/ /\ Fails
        /\ \/ UNCHANGED <<state, stale>>
           \/ by = "user" /\ state' = state \ {IdOf[who]} /\ stale' = stale \ {IdOf[who]}
        /\ UNCHANGED <<txn, final>> /\ Go(AfterDrop(FALSE))
  /\ UNCHANGED <<nvs, stage, seedFiles, marker, ram, adopted>>

(* Safe mode: the index is emptied, then the trees one after the other,    *)
(* whatever happens to the earlier; the subsystem then starts over.        *)
Purge ==
  /\ at \in {"idle", "broken"} /\ safe
  /\ \/ CommitOk({}) /\ Orphan({}) /\ Go("purgeStaging")
     \/ CommitFails({}) /\ UNCHANGED stale /\ Go(at)
  /\ UNCHANGED <<final, txn, stage, state, seedFiles, marker, adopted>>

PurgeStaging ==
  /\ at = "purgeStaging" /\ Go("purgePackages")
  /\ \/ Works /\ stage' = FALSE
     \/ Fails /\ UNCHANGED stage
  /\ UNCHANGED <<nvs, final, txn, state, seedFiles, marker, ram, adopted, stale>>

PurgePackages ==
  /\ at = "purgePackages" /\ Go("purgeState")
  /\ \/ Works /\ final' = [r \in Refs |-> "none"] /\ txn' = {}
     \/ Fails /\ UNCHANGED txn /\ final' \in UNION {Damaged(final, r) : r \in Refs}
  /\ UNCHANGED <<nvs, stage, state, seedFiles, marker, ram, adopted, stale>>

PurgeState ==
  /\ at = "purgeState"
  /\ \/ Works /\ state' = {} /\ stale' = {}
     \/ Fails /\ UNCHANGED <<state, stale>>
  /\ up' = FALSE /\ ram' = nvs
  /\ at' = "reconcile" /\ by' = "boot"
  /\ UNCHANGED <<nvs, final, txn, stage, seedFiles, marker, who, pos, safe, adopted>>

-----------------------------------------------------------------------------
(* A resident package stores private data.                                 *)
PackageWrites(r) ==
  /\ at = "idle" /\ ~safe /\ up /\ r \in ram
  /\ state' = state \cup {IdOf[r]}
  /\ UNCHANGED <<nvs, final, txn, stage, seedFiles, marker, ram, at, who, by, pos, safe, up,
                 history>>

(* A reset; inside remove_tree it leaves part of a directory.              *)
Reset ==
  /\ at # "off"
  /\ at' = "off" /\ ram' = {} /\ up' = FALSE /\ safe' = FALSE
  /\ who' = NoRef /\ by' = "user" /\ pos' = 1
  /\ IF at \in {"dropFinal", "cleanFinal"} THEN final' \in Damaged(final, who)
     ELSE UNCHANGED final
  /\ UNCHANGED <<nvs, txn, stage, state, seedFiles, marker, history>>

BootStep ==
  \/ Boot \/ Reconciled \/ Sweep \/ SweepDone \/ SweepFails
  \/ \E r \in Refs : ReconcileDrops(r)
ImportStep ==
  \/ ImportAdopted \/ ImportFails \/ SeedUnlink \/ ImportMarks
  \/ \E r \in Refs : ImportSkips(r) \/ ImportStuck(r) \/ ImportInstalls(r)
InstallStep ==
  \/ InstalledAlready \/ StageUpload \/ Rejected \/ OpenTransaction \/ Unpack
  \/ Register \/ DropStage \/ CleanTxn \/ CleanFinal \/ CleanStage
RemoveStep == DropFinal \/ DropState \/ PurgeStaging \/ PurgePackages \/ PurgeState

Next ==
  \/ BootStep \/ ImportStep \/ InstallStep \/ RemoveStep
  \/ Retry \/ Purge \/ Reset
  \/ \E r \in Refs : Upload(r) \/ Remove(r) \/ PackageWrites(r)

Spec == Init /\ [][Next]_vars

(* An operation that has begun goes on; a failed boot need not be retried. *)
FairSpec == Spec /\ WF_vars(BootStep \/ ImportStep \/ InstallStep \/ RemoveStep)

-----------------------------------------------------------------------------
(* Once storage is reconciled every package a caller can start, list or    *)
(* select is whole on flash, in the middle of any operation and after any  *)
(* failure; and if nothing fails, a reset at any step leaves a flash index *)
(* that names only whole packages: installing commits last, removing       *)
(* commits first (package_install.c:219, idf_runtime.c:1625).              *)
PackagesWhole ==
  /\ up => \A r \in ram : final[r] = "sound"
  /\ ~faulted => \A r \in nvs : final[r] = "sound"

(* No reset or failure loses a factory package: its seed file disappears   *)
(* only after it was committed (factory_seed_policy.c:144), and the        *)
(* marker, which ends the import for good, is only written when every one  *)
(* of them was installed (factory_seed_policy.c:152).                      *)
SeedsAdopted ==
  /\ Seeds \ seedFiles \subseteq adopted
  /\ marker => Seeds \subseteq adopted

(* A package never starts with private data of an earlier, removed package *)
(* of its name, whatever reset cut the removal short, as long as no file   *)
(* operation failed (idf_runtime.c:886, 1629).                             *)
NoInheritedState == up /\ ~faulted => \A r \in ram : IdOf[r] \notin stale

(* Whatever fails, an operation that was begun comes to an end: the        *)
(* reconciliation that drops packages while it walks the index, the sweep, *)
(* an import, an install with its clean-up, a removal, a purge             *)
(* (idf_runtime.c:729).                                                    *)
AtRest == at \in {"off", "broken", "idle"}
OperationsEnd == ~AtRest ~> AtRest
=============================================================================
