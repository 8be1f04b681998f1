-------------------------- MODULE PackageStoreProofs --------------------------
(***************************************************************************)
(* For every set of packages and every factory catalog: what is served is  *)
(* whole, no factory package is lost, and nothing private is inherited.    *)
(*                                                                         *)
(* What is served was made sound long before it was registered, so the     *)
(* invariant says for every step of an operation what it knows of the      *)
(* package it works on: one being installed is not served yet, one to be   *)
(* registered is whole, one whose files go is served no more.              *)
(*                                                                         *)
(* The second half is about the private state of a package (PackageState): *)
(* its calls answer what is so, and implement an atomic store with a       *)
(* quota.  For the quota, what a sum over a finite set is worth is shown   *)
(* from the set's smallest subset for which it would be wrong.             *)
(***************************************************************************)
EXTENDS PackageStore, PackageState, FiniteSetTheorems, WellFoundedInduction, TLAPS

Steps == {"off", "broken", "idle", "reconcile", "sweep", "import"}
           \cup InstallSteps \cup RemoveSteps \cup PurgeSteps
DirectoryContents == {"none", "partial", "sound"}

Typed ==
  /\ ram \subseteq Refs /\ nvs \subseteq Refs
  /\ final \in [Refs -> DirectoryContents]
  /\ at \in Steps /\ by \in {"user", "boot", "seed"} /\ pos \in Nat \ {0}
  /\ seedFiles \subseteq Seeds

(* Who runs, for whom, and when storage counts as reconciled.              *)
PhaseSound ==
  /\ at \in InstallSteps \cup RemoveSteps => who \in Refs
  /\ at \in {"idle", "import"} \cup InstallSteps => up
  /\ at \in {"off", "broken", "reconcile", "sweep"} => ~up
  /\ at \in RemoveSteps => by \in {"user", "boot"} /\ (up <=> by = "user")
  /\ at \in {"idle", "import"} => by = "user"
  /\ at \in {"reconcile", "sweep"} => by = "boot"
  /\ at \in InstallSteps => by \in {"user", "seed"}
  /\ at \in InstallSteps /\ by = "seed" => pos \in 1..Len(SeedList) /\ who = SeedList[pos]
  /\ at = "unlink" => by = "seed"

(* What an operation knows of the package it works on.                     *)
WorkSound ==
  /\ at \in {"staged", "unpack", "register", "cleanTxn", "cleanFinal"} \cup RemoveSteps
       => who \notin ram
  /\ at = "register" => final[who] = "sound"
  /\ at \in {"committed", "unlink"} => who \in ram
  /\ at = "dropState" => LastVersion
  /\ at \in PurgeSteps => ram = {}

AllWhole(S) == \A r \in S : final[r] = "sound"

(* The walk is over once the sweep begins; without a fault flash and RAM   *)
(* name the same packages.                                                 *)
ServedWhole ==
  /\ up \/ at = "sweep" => AllWhole(ram)
  /\ ~faulted => AllWhole(nvs)
  /\ ~faulted /\ at # "off" => nvs = ram

SeedsServed ==
  /\ up \/ at = "sweep" => ram \cap Seeds \subseteq adopted
  /\ \A i \in 1..Len(SeedList) : i < pos => SeedList[i] \in adopted
  /\ SeedsAdopted

(* A state directory without an owner has no user, and outlives only the   *)
(* removal that made it one.                                               *)
StaleOwnerless ==
  /\ stale \subseteq state
  /\ ~faulted =>
       /\ stale \cap IdsOf(nvs) = {}
       /\ up /\ at \notin RemoveSteps \cup PurgeSteps => stale = {}
       /\ up /\ at \in RemoveSteps => stale \subseteq (IF LastVersion THEN {IdOf[who]} ELSE {})

IInv == Typed /\ PhaseSound /\ WorkSound /\ ServedWhole /\ SeedsServed /\ StaleOwnerless

-----------------------------------------------------------------------------
(* Bookkeeping every step is checked against.                              *)
USE DEF Typed, PhaseSound, WorkSound, ServedWhole, SeedsServed, StaleOwnerless,
        SeedsAdopted, AllWhole, Steps, DirectoryContents, InstallSteps, RemoveSteps, PurgeSteps,
        Rest, Go, Works, Fails, CommitOk, CommitFails, Orphan, flash, history, IdsOf,
        Others, LastVersion, Damaged, Failed, AfterDrop, AtEntry

LEMMA InitSound == Init => IInv
BY RefsAssumption, SeedAssumption DEF Init, IInv

-----------------------------------------------------------------------------
(* The boot: what the walk leaves in the index is whole, and the sweep takes *)
(* only what nobody serves.                                                *)
LEMMA BootSound == ASSUME IInv, Boot PROVE IInv'
BY DEF Boot, IInv

LEMMA RetrySound == ASSUME IInv, Retry PROVE IInv'
BY DEF Retry, IInv

LEMMA ReconcileDropsSound == ASSUME IInv, NEW r \in Refs, ReconcileDrops(r) PROVE IInv'
<1>1. CASE CommitOk(ram \ {r}) /\ at' = "dropFinal" /\ who' = r /\ UNCHANGED <<by, pos, safe, up>>
  <2>1. faulted BY DEF IInv, ReconcileDrops
  <2>2. Typed' BY <1>1 DEF IInv, ReconcileDrops
  <2>3. PhaseSound' BY <1>1 DEF IInv, ReconcileDrops
  <2>4. WorkSound' BY <1>1 DEF IInv, ReconcileDrops
  <2>5. ServedWhole' BY <1>1, <2>1 DEF IInv, ReconcileDrops
  <2>6. SeedsServed' BY <1>1 DEF IInv, ReconcileDrops
  <2>7. StaleOwnerless' BY <1>1, <2>1 DEF IInv, ReconcileDrops
  <2> QED BY <2>2, <2>3, <2>4, <2>5, <2>6, <2>7 DEF IInv
<1>2. CASE CommitFails(ram \ {r}) /\ UNCHANGED stale /\ Go("broken")
  BY <1>2, SeedAssumption DEF IInv, ReconcileDrops
<1> QED BY <1>1, <1>2 DEF ReconcileDrops

LEMMA ReconciledSound == ASSUME IInv, Reconciled PROVE IInv'
BY DEF Reconciled, IInv

LEMMA SweepSound == ASSUME IInv, Sweep PROVE IInv'
<1>1. Typed' BY DEF Sweep, IInv
<1>2. PhaseSound' BY DEF Sweep, IInv
<1>3. WorkSound' BY DEF Sweep, IInv
<1>4. ServedWhole' BY DEF Sweep, LitterPackages, IInv
<1>5. SeedsServed' BY SeedAssumption DEF Sweep, IInv
<1>6. StaleOwnerless' BY DEF Sweep, IInv
<1> QED BY <1>1, <1>2, <1>3, <1>4, <1>5, <1>6 DEF IInv

LEMMA SweepDoneSound == ASSUME IInv, SweepDone PROVE IInv'
<1>1. ~faulted => stale = {}
  BY DEF SweepDone, LitterStates, IInv
<1> QED BY <1>1, SeedAssumption DEF SweepDone, IInv

LEMMA SweepFailsSound == ASSUME IInv, SweepFails PROVE IInv'
BY DEF SweepFails, IInv

-----------------------------------------------------------------------------
(* The import: the entries behind pos were served, so after the last the   *)
(* marker tells the truth.                                                 *)
LEMMA ImportAdoptedSound == ASSUME IInv, ImportAdopted PROVE IInv'
BY DEF ImportAdopted, IInv

LEMMA ImportSkipsSound == ASSUME IInv, NEW r \in Refs, ImportSkips(r) PROVE IInv'
<1>1. r \in adopted BY SeedAssumption DEF IInv, ImportSkips, Seeds
<1>2. pos \in Nat /\ pos' = pos + 1 BY DEF IInv, ImportSkips
<1>3. \A i \in 1..Len(SeedList) : i < pos' => i < pos \/ SeedList[i] = r
  BY <1>2, SeedAssumption DEF ImportSkips
<1> QED BY <1>1, <1>2, <1>3 DEF IInv, ImportSkips

LEMMA ImportStuckSound == ASSUME IInv, NEW r \in Refs, ImportStuck(r) PROVE IInv'
BY DEF ImportStuck, IInv

LEMMA ImportInstallsSound == ASSUME IInv, NEW r \in Refs, ImportInstalls(r) PROVE IInv'
BY DEF ImportInstalls, IInv

LEMMA ImportFailsSound == ASSUME IInv, ImportFails PROVE IInv'
BY DEF ImportFails, IInv

LEMMA SeedUnlinkSound == ASSUME IInv, SeedUnlink PROVE IInv'
<1>1. /\ who \in Refs /\ up /\ pos \in Nat /\ pos > 0
      /\ pos <= Len(SeedList) /\ who = SeedList[pos]
  BY RefsAssumption DEF IInv, SeedUnlink
<1>2. CASE /\ Works /\ seedFiles' = seedFiles \ {who}
           /\ at' = "import" /\ pos' = pos + 1 /\ who' = NoRef /\ by' = "user"
           /\ UNCHANGED <<safe, up>>
  <2>1. \A i \in 1..Len(SeedList) : i < pos' => i < pos \/ SeedList[i] = who
    BY <1>1, <1>2, SeedAssumption
  <2>2. who \in Seeds /\ who \in adopted
    BY <1>1, SeedAssumption DEF IInv, SeedUnlink, Seeds
  <2> QED BY <1>1, <1>2, <2>1, <2>2 DEF IInv, SeedUnlink
<1>3. CASE Fails /\ UNCHANGED seedFiles /\ Go("idle")
  BY <1>1, <1>3 DEF IInv, SeedUnlink
<1> QED BY <1>2, <1>3 DEF SeedUnlink

LEMMA ImportMarksSound == ASSUME IInv, ImportMarks PROVE IInv'
<1>1. Seeds \subseteq adopted BY SeedAssumption DEF IInv, ImportMarks, Seeds
<1> QED BY <1>1 DEF IInv, ImportMarks

-----------------------------------------------------------------------------
(* The installation: the package is not served until the commit, and whole *)
(* by then.                                                                *)
LEMMA UploadSound == ASSUME IInv, NEW r \in Refs, Upload(r) PROVE IInv'
BY DEF Upload, IInv

LEMMA InstalledAlreadySound == ASSUME IInv, InstalledAlready PROVE IInv'
BY DEF InstalledAlready, IInv

LEMMA StageUploadSound == ASSUME IInv, StageUpload PROVE IInv'
<1>1. CASE Works /\ stage' = TRUE /\ Go("staged")
  BY <1>1 DEF IInv, StageUpload
<1>2. CASE Fails /\ UNCHANGED stage /\ Failed
  BY <1>2 DEF IInv, StageUpload
<1> QED BY <1>1, <1>2 DEF StageUpload

LEMMA RejectedSound == ASSUME IInv, Rejected PROVE IInv'
BY DEF Rejected, IInv

LEMMA OpenTransactionSound == ASSUME IInv, OpenTransaction PROVE IInv'
BY DEF OpenTransaction, IInv

LEMMA UnpackSound == ASSUME IInv, Unpack PROVE IInv'
BY DEF Unpack, IInv

LEMMA RegisterSound == ASSUME IInv, Register PROVE IInv'
BY DEF Register, IInv

LEMMA DropStageSound == ASSUME IInv, DropStage PROVE IInv'
BY DEF DropStage, IInv

LEMMA CleanTxnSound == ASSUME IInv, CleanTxn PROVE IInv'
BY DEF CleanTxn, IInv

LEMMA CleanFinalSound == ASSUME IInv, CleanFinal PROVE IInv'
BY DEF CleanFinal, IInv

LEMMA CleanStageSound == ASSUME IInv, CleanStage PROVE IInv'
BY DEF CleanStage, IInv

-----------------------------------------------------------------------------
(* The removal and the purge: what is dropped is served no more, and the   *)
(* state that goes is that of no version.                                  *)
LEMMA RemoveSound == ASSUME IInv, NEW r \in Refs, Remove(r) PROVE IInv'
<1>1. CASE CommitOk(ram \ {r})
  BY <1>1 DEF IInv, Remove
<1>2. CASE CommitFails(ram \ {r}) /\ UNCHANGED stale /\ Go("idle")
  <2>1. nvs' \subseteq Refs BY <1>2 DEF IInv
  <2> QED BY <1>2, <2>1, SeedAssumption DEF IInv, Remove
<1> QED BY <1>1, <1>2 DEF Remove

LEMMA DropFinalSound == ASSUME IInv, DropFinal PROVE IInv'
BY DEF DropFinal, IInv

LEMMA DropStateSound == ASSUME IInv, DropState PROVE IInv'
BY DEF DropState, IInv

LEMMA PurgeSound == ASSUME IInv, Purge PROVE IInv'
<1>1. CASE CommitOk({}) /\ Orphan({}) /\ Go("purgeStaging")
  BY <1>1 DEF IInv, Purge
<1>2. CASE CommitFails({}) /\ UNCHANGED stale /\ Go(at)
  BY <1>2 DEF IInv, Purge
<1> QED BY <1>1, <1>2 DEF Purge

LEMMA PurgeStagingSound == ASSUME IInv, PurgeStaging PROVE IInv'
BY DEF PurgeStaging, IInv

LEMMA PurgePackagesSound == ASSUME IInv, PurgePackages PROVE IInv'
BY DEF PurgePackages, IInv

LEMMA PurgeStateSound == ASSUME IInv, PurgeState PROVE IInv'
BY DEF PurgeState, IInv

-----------------------------------------------------------------------------
LEMMA PackageWritesSound == ASSUME IInv, NEW r \in Refs, PackageWrites(r) PROVE IInv'
BY DEF PackageWrites, IInv

LEMMA ResetSound == ASSUME IInv, Reset PROVE IInv'
BY DEF Reset, IInv

-----------------------------------------------------------------------------
LEMMA StepSound == ASSUME IInv, [Next]_vars PROVE IInv'
<1>1. CASE UNCHANGED vars BY <1>1 DEF vars, IInv
<1>2. CASE BootStep
  BY <1>2, BootSound, ReconcileDropsSound, ReconciledSound, SweepSound, SweepDoneSound,
     SweepFailsSound DEF BootStep
<1>3. CASE ImportStep
  BY <1>3, ImportAdoptedSound, ImportSkipsSound, ImportStuckSound, ImportInstallsSound,
     ImportFailsSound, SeedUnlinkSound, ImportMarksSound DEF ImportStep
<1>4. CASE InstallStep
  BY <1>4, InstalledAlreadySound, StageUploadSound, RejectedSound, OpenTransactionSound,
     UnpackSound, RegisterSound, DropStageSound, CleanTxnSound, CleanFinalSound,
     CleanStageSound DEF InstallStep
<1>5. CASE RemoveStep
  BY <1>5, DropFinalSound, DropStateSound, PurgeStagingSound, PurgePackagesSound,
     PurgeStateSound DEF RemoveStep
<1>6. CASE Retry \/ Purge \/ Reset
  BY <1>6, RetrySound, PurgeSound, ResetSound
<1>7. CASE \E r \in Refs : Upload(r) \/ Remove(r) \/ PackageWrites(r)
  BY <1>7, UploadSound, RemoveSound, PackageWritesSound
<1> QED BY <1>1, <1>2, <1>3, <1>4, <1>5, <1>6, <1>7 DEF Next

(* The inductive invariant of the storage of packages: what an operation   *)
(* knows of its package at every step (package_install.c, idf_runtime.c,   *)
(* factory_seed_policy.c).                                                 *)
THEOREM StoreInvariant == Spec => []IInv
BY InitSound, StepSound, PTL DEF Spec

(* What the firmware serves is whole, and without a fault the index in     *)
(* flash names only whole packages, whatever step a reset falls on         *)
(* (package_install.c:219, idf_runtime.c:1625).                            *)
THEOREM PackagesAlwaysWhole == Spec => []PackagesWhole
<1>1. IInv => PackagesWhole BY DEF IInv, PackagesWhole
<1> QED BY <1>1, StoreInvariant, PTL

(* A factory package is unlinked only after it was served, and the marker  *)
(* is written only after all of them were (factory_seed_policy.c:144, 152).*)
THEOREM SeedsAlwaysAdopted == Spec => []SeedsAdopted
<1>1. IInv => SeedsAdopted BY DEF IInv
<1> QED BY <1>1, StoreInvariant, PTL

(* A package inherits nothing of a removed one of its name, as long as no  *)
(* file operation failed (idf_runtime.c:886, 1629).                        *)
THEOREM NothingInherited == Spec => []NoInheritedState
<1>1. IInv => NoInheritedState
  <2> SUFFICES ASSUME IInv, up, ~faulted, NEW r \in ram PROVE IdOf[r] \notin stale
    BY DEF NoInheritedState
  <2>1. at # "off" /\ nvs = ram BY DEF IInv
  <2> QED BY <2>1 DEF IInv
<1> QED BY <1>1, StoreInvariant, PTL

-----------------------------------------------------------------------------
(* The private state of a running package.  For every tree of paths, every *)
(* set of contents and every quota, what a call on it answers is so, and   *)
(* no temporary is left between two calls but the ones the file system     *)
(* would not unlink.                                                       *)
(*                                                                         *)
(* Neither is inductive.  A call must also be known to hold the value its  *)
(* file had when it was entered, to own the temporary it writes, and to    *)
(* have written all of it before it syncs.                                 *)
Writing == {"write", "sync", "rename"}

CallRecord ==
  [at : {"lock", "check", "mkdirs", "create", "write", "sync", "rename"},
   op : {"read", "write"}, node : Nodes, content : Contents \cup {None}, room : Nat,
   temp : Temps \cup {None}, old : Contents \cup {None, Dir, Torn}]

AnswerRecord ==
  [status : {"ok", "failed", "invalid"}, op : {"read", "write"}, node : Nodes,
   content : Contents \cup {None, Dir, Torn}, old : Contents \cup {None, Dir, Torn}]

(* The type of the call and of its answer.                                 *)
CallTyped ==
  /\ node \in [Nodes -> Contents \cup {None, Dir, Torn}]
  /\ temp \in [Temps -> Nat \cup {None}]
  /\ kept \subseteq Temps
  /\ session \in {"off", "closed", "open"}
  /\ call \in CallRecord \cup {NoCall}
  /\ told \in AnswerRecord \cup {NoAnswer}

(* What a call in progress may rely on.                                    *)
CallSound ==
  call # NoCall =>
    /\ session = "open"
    /\ call.old = node[call.node]
    /\ told = NoAnswer
    /\ call.at \notin {"lock", "check"} => call.op = "write"
    /\ call.op = "write" => call.content \in Contents
    /\ call.at \in Writing =>
         /\ call.temp \in Temps /\ temp[call.temp] \in Nat
         /\ temp[call.temp] <= Size[call.content]
    /\ call.at \in {"sync", "rename"} => temp[call.temp] = Size[call.content]

(* The temporaries of a session are the one being written and the ones     *)
(* that could not be unlinked.                                             *)
TempsOwned ==
  session = "open" =>
    Leftovers \subseteq
      kept \cup (IF call # NoCall /\ call.at \in Writing THEN {call.temp} ELSE {})

StateInv == CallTyped /\ CallSound /\ TempsOwned /\ AnswersTrue

USE DEF Writing, Contents

-----------------------------------------------------------------------------
LEMMA StateInitSound == StateInit => StateInv
BY DEF StateInit, StateInv, CallTyped, CallSound, TempsOwned, AnswersTrue, Leftovers, NoCall,
       NoAnswer

(* A call that returns leaves the file as it answers, and owns nothing.    *)
LEMMA ReturnSound ==
  ASSUME StateInv, call # NoCall, NEW status \in {"ok", "failed", "invalid"},
         NEW content \in Contents \cup {None, Dir, Torn},
         Return(status, content), UNCHANGED session,
         node' \in [Nodes -> Contents \cup {None, Dir, Torn}],
         temp' \in [Temps -> Nat \cup {None}], kept' \subseteq Temps,
         node'[call.node] = (IF status = "ok" THEN content ELSE call.old),
         Leftovers' \subseteq kept'
  PROVE  StateInv'
<1>1. call \in CallRecord /\ call' = NoCall
  BY DEF StateInv, CallTyped, Return
<1>2. told' \in AnswerRecord
  BY <1>1 DEF Return, Answer, AnswerRecord, CallRecord
<1>3. CallTyped' BY <1>1, <1>2 DEF StateInv, CallTyped
<1>4. AnswersTrue' BY <1>1 DEF AnswersTrue, Return, Answer
<1> QED BY <1>1, <1>3, <1>4 DEF StateInv, CallSound, TempsOwned

(* A call that answers without having written anything.                    *)
LEMMA ReturnUntouched ==
  ASSUME StateInv, call # NoCall, call.at \notin Writing,
         NEW status \in {"failed", "invalid"}, Return(status, None),
         UNCHANGED <<node, temp, kept, session>>
  PROVE  StateInv'
<1>1. call.old = node[call.node] /\ session = "open" BY DEF StateInv, CallSound
<1>2. Leftovers' \subseteq kept' BY <1>1 DEF StateInv, TempsOwned, Leftovers
<1> QED BY <1>1, <1>2, ReturnSound DEF StateInv, CallTyped

-----------------------------------------------------------------------------
LEMMA CallsSound ==
  ASSUME StateInv, NEW op \in {"read", "write"}, NEW n \in Nodes,
         NEW c \in Contents \cup {None}, NEW room \in Nat,
         op = "write" => c \in Contents, Calls(op, n, c, room)
  PROVE  StateInv'
<1>1. call' \in CallRecord /\ call'.at = "lock" /\ call' # NoCall
  BY StateAssumption DEF Calls, CallRecord, StateInv, CallTyped, NoCall
<1>2. CallTyped' BY <1>1 DEF StateInv, CallTyped, Calls
<1>3. CallSound' BY <1>1 DEF Calls, CallSound, NoCall
<1>4. TempsOwned' BY <1>1 DEF StateInv, TempsOwned, Calls, Leftovers
<1> QED BY <1>2, <1>3, <1>4 DEF StateInv, AnswersTrue, Calls, NoAnswer

(* A call that goes from one step to the next before it writes.            *)
LEMMA GoesSound ==
  ASSUME StateInv, call # NoCall, call.at \notin Writing,
         NEW step \in {"check", "mkdirs", "create"}, call' = [call EXCEPT !.at = step],
         step # "check" => call.op = "write",
         UNCHANGED <<temp, kept, session, told>>,
         node' \in [Nodes -> Contents \cup {None, Dir, Torn}],
         node'[call.node] = node[call.node]
  PROVE  StateInv'
<1>1. call \in CallRecord BY DEF StateInv, CallTyped
<1>2. /\ call' \in CallRecord /\ call' # NoCall /\ call'.at = step
      /\ call'.op = call.op /\ call'.node = call.node /\ call'.old = call.old
      /\ call'.content = call.content
  BY <1>1 DEF CallRecord, NoCall
<1>3. CallTyped' BY <1>2 DEF StateInv, CallTyped
<1>4. CallSound' BY <1>2 DEF StateInv, CallSound
<1>5. TempsOwned' BY <1>2 DEF StateInv, TempsOwned, Leftovers
<1>6. AnswersTrue' BY DEF StateInv, CallSound, AnswersTrue, NoAnswer
<1> QED BY <1>3, <1>4, <1>5, <1>6 DEF StateInv

LEMMA TakeLockSound == ASSUME StateInv, TakeLock PROVE StateInv'
BY GoesSound DEF TakeLock, NoCall, StateInv, CallTyped

LEMMA ReadSound == ASSUME StateInv, Read PROVE StateInv'
<1>1. call # NoCall /\ call.at \notin Writing BY DEF Read, At, NoCall
<1>2. CASE Return("ok", node[call.node])
  <2>1. call \in CallRecord BY <1>1 DEF StateInv, CallTyped
  <2>2. node[call.node] \in Contents \cup {None, Dir, Torn}
    BY <2>1 DEF StateInv, CallTyped, CallRecord
  <2>3. Leftovers' \subseteq kept'
    BY <1>1 DEF StateInv, CallSound, TempsOwned, Leftovers, Read
  <2> QED BY <1>1, <1>2, <2>2, <2>3, ReturnSound DEF Read, At, StateInv, CallTyped
<1>3. CASE \E status \in {"failed", "invalid"} : Return(status, None)
  BY <1>1, <1>3, ReturnUntouched DEF Read, At
<1> QED BY <1>2, <1>3 DEF Read

LEMMA CheckSound == ASSUME StateInv, Check PROVE StateInv'
<1>1. call # NoCall /\ call.at = "check" BY DEF Check, At, NoCall
<1>2. CASE Refuse BY <1>1, <1>2, ReturnUntouched DEF Check, At, Refuse
<1>3. CASE Goes("mkdirs") BY <1>1, <1>3, GoesSound DEF Check, At, Goes, StateInv, CallTyped
<1> QED BY <1>2, <1>3 DEF Check

LEMMA MakeDirectoriesSound == ASSUME StateInv, MakeDirectories PROVE StateInv'
<1>1. call # NoCall /\ call.at = "mkdirs" /\ call \in CallRecord
  BY DEF MakeDirectories, At, NoCall, StateInv, CallTyped
<1>2. call.op = "write" /\ call.node \in Nodes /\ call.node \notin Missing
  BY <1>1, StateAssumption DEF StateInv, CallSound, CallRecord, Missing
<1>3. /\ node' \in [Nodes -> Contents \cup {None, Dir, Torn}]
      /\ node'[call.node] = node[call.node]
  BY <1>2 DEF MakeDirectories, StateInv, CallTyped
<1>4. CASE Goes("create") BY <1>1, <1>2, <1>3, <1>4, GoesSound DEF MakeDirectories, At, Goes
<1>5. CASE Refuse
  <2>1. Leftovers' \subseteq kept'
    BY <1>1 DEF StateInv, CallSound, TempsOwned, Leftovers, MakeDirectories
  <2> QED BY <1>1, <1>3, <1>5, <2>1, ReturnSound
          DEF MakeDirectories, At, Refuse, StateInv, CallTyped, CallSound
<1> QED BY <1>4, <1>5 DEF MakeDirectories

LEMMA CreateSound == ASSUME StateInv, Create PROVE StateInv'
<1>1. call.at = "create" BY DEF Create, At
<1>2. call # NoCall BY <1>1 DEF NoCall
<1>3. call # NoCall /\ call.at = "create" /\ call \in CallRecord
  BY <1>1, <1>2 DEF StateInv, CallTyped
<1>4. CASE Return("failed", None) /\ UNCHANGED temp
  BY <1>3, <1>4, ReturnUntouched DEF Create, At
<1>5. ASSUME NEW t \in Temps \ Leftovers, temp' = [temp EXCEPT ![t] = 0],
             call' = [call EXCEPT !.at = "write", !.temp = t], UNCHANGED <<lock, told>>
      PROVE  StateInv'
  <2>1. /\ call' \in CallRecord /\ call' # NoCall /\ call'.at = "write"
        /\ call'.temp = t /\ call'.op = call.op /\ call'.node = call.node
        /\ call'.old = call.old /\ call'.content = call.content
    BY <1>3, <1>5 DEF CallRecord, NoCall
  <2>2. temp' \in [Temps -> Nat \cup {None}] /\ temp'[t] = 0
    BY <1>5 DEF StateInv, CallTyped
  <2>3. CallTyped' BY <2>1, <2>2, <1>5 DEF StateInv, CallTyped, Create, At
  <2>4. call.op = "write" /\ call.content \in Contents BY <1>3 DEF StateInv, CallSound
  <2>5. Size[call.content] \in Nat BY <2>4, StateAssumption
  <2>6. /\ session' = "open" /\ told' = NoAnswer /\ node' = node
        /\ call.old = node[call.node]
    BY <1>3, <1>5 DEF StateInv, CallSound, Create, At
  <2>7. t \in Temps /\ temp'[t] <= Size[call.content] BY <2>2, <2>5
  <2>8. CallSound' BY <2>1, <2>2, <2>4, <2>6, <2>7 DEF CallSound
  <2>9. Leftovers' \subseteq Leftovers \cup {t} BY <1>5 DEF StateInv, CallTyped, Leftovers
  <2>10. TempsOwned' BY <2>1, <2>9, <1>3 DEF StateInv, CallSound, TempsOwned, Create, At
  <2>11. AnswersTrue' BY <1>3, <1>5 DEF StateInv, CallSound, AnswersTrue, NoAnswer
  <2> QED BY <2>3, <2>8, <2>10, <2>11 DEF StateInv
<1> QED BY <1>4, <1>5 DEF Create

-----------------------------------------------------------------------------
(* What the steps that write start from.                                   *)
LEMMA WritingFacts ==
  ASSUME StateInv, call.at \in Writing
  PROVE  /\ call # NoCall /\ call \in CallRecord /\ session = "open" /\ told = NoAnswer
         /\ call.old = node[call.node] /\ call.content \in Contents
         /\ call.temp \in Temps /\ temp[call.temp] \in Nat
         /\ Size[call.content] \in Nat /\ temp[call.temp] <= Size[call.content]
         /\ Leftovers \subseteq kept \cup {call.temp}
<1>1. call # NoCall BY DEF NoCall
<1> QED BY <1>1, StateAssumption DEF StateInv, CallTyped, CallSound, TempsOwned

LEMMA GiveUpSound ==
  ASSUME StateInv, call.at \in Writing, GiveUp, UNCHANGED <<node, session>>
  PROVE  StateInv'
<1>1. /\ temp' \in [Temps -> Nat \cup {None}] /\ kept' \subseteq Temps
      /\ Leftovers' \subseteq kept'
  BY WritingFacts DEF GiveUp, StateInv, CallTyped, Leftovers
<1> QED BY <1>1, WritingFacts, ReturnSound DEF GiveUp, StateInv, CallTyped

LEMMA WriteSound == ASSUME StateInv, Write PROVE StateInv'
<1>0. call.at = "write" /\ UNCHANGED <<node, session>> BY DEF Write, At
<1>1. CASE GiveUp BY <1>0, <1>1, GiveUpSound
<1>2. ASSUME NEW n \in 1..Remaining, temp' = [temp EXCEPT ![call.temp] = @ + n],
             UNCHANGED <<call, lock, told, kept>>
      PROVE  StateInv'
  <2>1. /\ temp' \in [Temps -> Nat \cup {None}]
        /\ temp'[call.temp] \in Nat /\ temp'[call.temp] <= Size[call.content]
    BY <1>0, <1>2, WritingFacts DEF StateInv, CallTyped, Remaining
  <2>2. Leftovers' \subseteq Leftovers \cup {call.temp}
    BY <1>0, <1>2, WritingFacts DEF StateInv, CallTyped, Leftovers
  <2>3. CallSound' BY <1>0, <1>2, <2>1, WritingFacts DEF StateInv, CallSound
  <2>4. TempsOwned' BY <1>0, <1>2, <2>2, WritingFacts DEF TempsOwned
  <2> QED BY <1>0, <1>2, <2>1, <2>3, <2>4 DEF StateInv, CallTyped, AnswersTrue
<1>3. CASE Remaining = 0 /\ Goes("sync") /\ UNCHANGED <<temp, kept>>
  <2>1. temp[call.temp] = Size[call.content] BY <1>0, <1>3, WritingFacts DEF Remaining
  <2>2. /\ call' \in CallRecord /\ call' # NoCall /\ call'.at = "sync"
        /\ call'.op = call.op /\ call'.node = call.node /\ call'.old = call.old
        /\ call'.content = call.content /\ call'.temp = call.temp
    BY <1>0, <1>3, WritingFacts DEF Goes, CallRecord, NoCall
  <2>3. CallSound' BY <1>0, <1>3, <2>1, <2>2, WritingFacts DEF StateInv, CallSound, Goes
  <2>4. TempsOwned' BY <1>0, <1>3, <2>2, WritingFacts DEF TempsOwned, Leftovers
  <2> QED BY <1>0, <1>3, <2>2, <2>3, <2>4 DEF StateInv, CallTyped, AnswersTrue, Goes
<1> QED BY <1>1, <1>2, <1>3 DEF Write

LEMMA SyncSound == ASSUME StateInv, Sync PROVE StateInv'
<1>0. call.at = "sync" /\ UNCHANGED <<node, session>> BY DEF Sync, At
<1>1. CASE GiveUp BY <1>0, <1>1, GiveUpSound
<1>2. CASE Goes("rename") /\ UNCHANGED <<temp, kept>>
  <2>1. temp[call.temp] = Size[call.content] BY <1>0, WritingFacts DEF StateInv, CallSound
  <2>2. /\ call' \in CallRecord /\ call' # NoCall /\ call'.at = "rename"
        /\ call'.op = call.op /\ call'.node = call.node /\ call'.old = call.old
        /\ call'.content = call.content /\ call'.temp = call.temp
    BY <1>0, <1>2, WritingFacts DEF Goes, CallRecord, NoCall
  <2>3. CallSound' BY <1>0, <1>2, <2>1, <2>2, WritingFacts DEF StateInv, CallSound, Goes
  <2>4. TempsOwned' BY <1>0, <1>2, <2>2, WritingFacts DEF TempsOwned, Leftovers
  <2> QED BY <1>0, <1>2, <2>2, <2>3, <2>4 DEF StateInv, CallTyped, AnswersTrue, Goes
<1> QED BY <1>1, <1>2 DEF Sync

LEMMA RenameSound == ASSUME StateInv, Rename PROVE StateInv'
<1>0. call.at = "rename" /\ UNCHANGED session BY DEF Rename, At
<1>1. CASE GiveUp /\ UNCHANGED node BY <1>0, <1>1, GiveUpSound
<1>2. CASE /\ node' = [node EXCEPT ![call.node] = Whole]
           /\ temp' = [temp EXCEPT ![call.temp] = None]
           /\ Return("ok", call.content) /\ UNCHANGED kept
  <2>1. Whole = call.content
    BY <1>0, WritingFacts DEF StateInv, CallSound, Whole, Remaining
  <2>2. call.node \in Nodes BY <1>0, WritingFacts DEF CallRecord
  <2>3. /\ node' \in [Nodes -> Contents \cup {None, Dir, Torn}]
        /\ node'[call.node] = call.content
    BY <1>0, <1>2, <2>1, <2>2, WritingFacts DEF StateInv, CallTyped
  <2>4. temp' \in [Temps -> Nat \cup {None}] /\ Leftovers' \subseteq kept'
    BY <1>0, <1>2, WritingFacts DEF StateInv, CallTyped, Leftovers
  <2> QED BY <1>0, <1>2, <2>3, <2>4, WritingFacts, ReturnSound DEF StateInv, CallTyped
<1> QED BY <1>1, <1>2 DEF Rename

-----------------------------------------------------------------------------
LEMMA ReconcileSound == ASSUME StateInv, Reconcile PROVE StateInv'
<1>1. call = NoCall BY DEF Reconcile, StateInv, CallSound
<1> QED BY <1>1 DEF Reconcile, StateInv, CallTyped, CallSound, TempsOwned, AnswersTrue

LEMMA OpenSound == ASSUME StateInv, Open PROVE StateInv'
<1>1. call = NoCall BY DEF Open, StateInv, CallSound
<1>2. session' = "open" => Leftovers' = {} BY DEF Open, Leftovers, StateInv, CallTyped
<1> QED BY <1>1, <1>2 DEF Open, StateInv, CallTyped, CallSound, TempsOwned, AnswersTrue, NoAnswer

LEMMA CloseSound == ASSUME StateInv, Close PROVE StateInv'
BY DEF Close, StateInv, CallTyped, CallSound, TempsOwned, AnswersTrue

LEMMA PowerLossSound == ASSUME StateInv, PowerLoss PROVE StateInv'
<1>1. temp' \in [Temps -> Nat \cup {None}]
  <2>1. CASE call.at \in {"write", "sync"}
    <3>1. temp[call.temp] \in Nat BY <2>1, WritingFacts
    <3> QED BY <2>1, <3>1 DEF PowerLoss, StateInv, CallTyped
  <2>2. CASE call.at \notin {"write", "sync"} BY <2>2 DEF PowerLoss, StateInv, CallTyped
  <2> QED BY <2>1, <2>2
<1> QED BY <1>1 DEF PowerLoss, StateInv, CallTyped, CallSound, TempsOwned, AnswersTrue, NoAnswer

-----------------------------------------------------------------------------
LEMMA StateStepSound == ASSUME StateInv, [StateNext]_stateVars PROVE StateInv'
<1>1. CASE UNCHANGED stateVars
  BY <1>1 DEF stateVars, StateInv, CallTyped, CallSound, TempsOwned, AnswersTrue, Leftovers
<1>2. CASE HostCall
  BY <1>2, TakeLockSound, ReadSound, CheckSound, MakeDirectoriesSound, CreateSound,
     WriteSound, SyncSound, RenameSound DEF HostCall
<1>3. CASE CallRead
  <2> PICK n \in Nodes, room \in 0..Quota : Calls("read", n, None, room)
    BY <1>3 DEF CallRead
  <2> QED BY CallsSound, StateAssumption
<1>4. CASE CallWrite
  <2> PICK n \in Nodes, c \in Contents : Calls("write", n, c, 0)
    BY <1>4 DEF CallWrite
  <2> QED BY CallsSound
<1>5. CASE Reconcile \/ Open \/ Close \/ PowerLoss
  BY <1>5, ReconcileSound, OpenSound, CloseSound, PowerLossSound
<1> QED BY <1>1, <1>2, <1>3, <1>4, <1>5 DEF StateNext

(* The inductive invariant of the calls on the state of a package           *)
(* (host_storage_read, host_storage_write, watchy_package_host_init).       *)
THEOREM CallInvariant == StateSpec => []StateInv
BY StateInitSound, StateStepSound, PTL DEF StateSpec

(* Whatever fails or is interrupted, a call of host_storage_write that     *)
(* answers OK has stored what it was given, and any other has changed      *)
(* nothing (host_caps.c:384).                                              *)
THEOREM AnswersAlwaysTrue == StateSpec => []AnswersTrue
<1>1. StateInv => AnswersTrue BY DEF StateInv
<1> QED BY <1>1, CallInvariant, PTL

(* Between two calls a session has no temporary it could have unlinked     *)
(* (host_caps.c:652).                                                      *)
THEOREM LeftoversAlwaysAccounted == StateSpec => []LeftoversAccounted
<1>1. StateInv => LeftoversAccounted BY DEF StateInv, TempsOwned, LeftoversAccounted
<1> QED BY <1>1, CallInvariant, PTL
-----------------------------------------------------------------------------
(* Sums of sizes over a finite set, whichever order they are taken in.     *)
Pick(s) == CHOOSE x \in s : TRUE

(* The recursive function a sum of the weights w over S is taken from.     *)
Sums(F, w, S) ==
  F = [s \in SUBSET S |-> IF s = {} THEN 0 ELSE w[Pick(s)] + F[s \ {Pick(s)}]]

Total(w, S) == (CHOOSE F : Sums(F, w, S))[S]

(* Induction over the subsets of a finite set: if any of them is wrong, a  *)
(* smallest one is.                                                        *)
LEMMA SmallestSubset ==
  ASSUME NEW S, IsFiniteSet(S), NEW B, B \subseteq SUBSET S, B # {}
  PROVE  \E s \in B : \A t \in B : t \subseteq s => t = s
<1>1. IsWellFoundedOn(StrictSubsetOrdering(S), SUBSET S)
  BY FS_StrictSubsetOrderingWellFounded, FS_FiniteSubsetsOfFinite
<1>2. PICK s \in B : \A t \in B : ~(<<t, s>> \in StrictSubsetOrdering(S))
  BY <1>1, WFMin
<1> QED BY <1>2 DEF StrictSubsetOrdering

(* The next element of a sum comes from the set it is taken from.          *)
LEMMA Picked == ASSUME NEW s, s # {} PROVE Pick(s) \in s /\ s \ {Pick(s)} # s
BY DEF Pick

(* Two such functions agree where their weights do ...                     *)
LEMMA SumsAgree ==
  ASSUME NEW S, IsFiniteSet(S), NEW T \in SUBSET S, NEW w, NEW v, NEW F, NEW G,
         Sums(F, w, S), Sums(G, v, T), \A x \in T : w[x] = v[x]
  PROVE  F[T] = G[T]
<1> DEFINE B == {s \in SUBSET T : F[s] # G[s]}
<1>1. CASE B = {} BY <1>1
<1>2. CASE B # {}
  <2>1. PICK s \in B : \A t \in B : t \subseteq s => t = s
    <3>1. B \subseteq SUBSET S OBVIOUS
    <3> HIDE DEF B
    <3> QED BY <1>2, <3>1, SmallestSubset
  <2>2. s \in SUBSET T /\ s \in SUBSET S /\ F[s] # G[s] BY <2>1
  <2>3. CASE s = {} BY <2>2, <2>3 DEF Sums
  <2>4. CASE s # {}
    <3>1. PICK p : p = Pick(s) OBVIOUS
    <3>2. p \in s /\ s \ {p} # s BY <2>4, <3>1, Picked
    <3>3. F[s \ {p}] = G[s \ {p}] BY <2>1, <2>2, <3>2
    <3>4. F[s] = w[p] + F[s \ {p}] BY <2>2, <2>4, <3>1 DEF Sums
    <3>5. G[s] = v[p] + G[s \ {p}] BY <2>2, <2>4, <3>1 DEF Sums
    <3> QED BY <2>2, <3>2, <3>3, <3>4, <3>5
  <2> QED BY <2>3, <2>4
<1> QED BY <1>1, <1>2

(* ... and there is one for every finite set.                              *)
LEMMA SumsExist ==
  ASSUME NEW S, IsFiniteSet(S), NEW w
  PROVE  \E F : Sums(F, w, S)
<1> DEFINE B == {s \in SUBSET S : ~\E F : Sums(F, w, s)}
<1>1. CASE B = {} BY <1>1
<1>2. CASE B # {}
  <2>1. PICK s \in B : \A t \in B : t \subseteq s => t = s
    <3>1. B \subseteq SUBSET S OBVIOUS
    <3> HIDE DEF B
    <3> QED BY <1>2, <3>1, SmallestSubset
  <2>2. s \in SUBSET S /\ ~\E F : Sums(F, w, s) BY <2>1
  <2> DEFINE Of(t) == CHOOSE F : Sums(F, w, t)
             G == [t \in SUBSET s |-> IF t = {} THEN 0
                                      ELSE w[Pick(t)] + Of(t \ {Pick(t)})[t \ {Pick(t)}]]
  <2>3. \A t \in SUBSET s : t # s => Sums(Of(t), w, t)
    <3> SUFFICES ASSUME NEW t \in SUBSET s, t # s PROVE Sums(Of(t), w, t) OBVIOUS
    <3>1. \E F : Sums(F, w, t) BY <2>1, <2>2
    <3> QED BY <3>1
  <2>4. \A t \in SUBSET s : t # s => G[t] = Of(t)[t]
    <3> SUFFICES ASSUME NEW t \in SUBSET s, t # s PROVE G[t] = Of(t)[t] OBVIOUS
    <3>1. Sums(Of(t), w, t) BY <2>3
    <3>2. CASE t = {} BY <3>1, <3>2 DEF Sums
    <3>3. CASE t # {}
      <4>1. PICK u : u = t \ {Pick(t)} OBVIOUS
      <4>2. u \in SUBSET t /\ u \in SUBSET s /\ u # s BY <4>1, <3>3, Picked
      <4>3. Sums(Of(u), w, u) BY <2>3, <4>2
      <4>4. IsFiniteSet(t) BY <2>2, FS_Subset
      <4> HIDE DEF Of
      <4>5. Of(t)[u] = Of(u)[u] BY <3>1, <4>2, <4>3, <4>4, SumsAgree
      <4>6. Of(t)[t] = w[Pick(t)] + Of(t)[u] BY <3>1, <3>3, <4>1 DEF Sums
      <4>7. G[t] = w[Pick(t)] + Of(u)[u] BY <3>3, <4>1
      <4> QED BY <4>5, <4>6, <4>7
    <3> QED BY <3>2, <3>3
  <2>5. Sums(G, w, s)
    <3> HIDE DEF Of
    <3>1. \A t \in SUBSET s : t # {} => G[t \ {Pick(t)}] = Of(t \ {Pick(t)})[t \ {Pick(t)}]
      <4> SUFFICES ASSUME NEW t \in SUBSET s, t # {}
                   PROVE  G[t \ {Pick(t)}] = Of(t \ {Pick(t)})[t \ {Pick(t)}]
        OBVIOUS
      <4>1. PICK u : u = t \ {Pick(t)} OBVIOUS
      <4>2. u \in SUBSET s /\ u # s BY <4>1, Picked
      <4> HIDE DEF G
      <4> QED BY <4>1, <4>2, <2>4
    <3> QED BY <3>1 DEF Sums
  <2> HIDE DEF G
  <2> QED BY <2>2, <2>5
<1> QED BY <1>1, <1>2

LEMMA TotalOf ==
  ASSUME NEW S, IsFiniteSet(S), NEW w, NEW F, NEW T \in SUBSET S, Sums(F, w, S)
  PROVE  F[T] = Total(w, T)
<1>1. IsFiniteSet(T) BY FS_Subset
<1>2. PICK G : G = CHOOSE H : Sums(H, w, T) OBVIOUS
<1>3. Sums(G, w, T) BY <1>1, <1>2, SumsExist
<1>4. F[T] = G[T] BY <1>3, SumsAgree
<1> QED BY <1>2, <1>4 DEF Total

LEMMA TotalPick ==
  ASSUME NEW S, IsFiniteSet(S), NEW w
  PROVE  /\ S = {} => Total(w, S) = 0
         /\ S # {} => Total(w, S) = w[Pick(S)] + Total(w, S \ {Pick(S)})
<1>1. PICK F : Sums(F, w, S) BY SumsExist
<1>2. \A T \in SUBSET S : F[T] = Total(w, T) BY <1>1, TotalOf
<1>3. S = {} => F[S] = 0 BY <1>1 DEF Sums
<1>4. S # {} => F[S] = w[Pick(S)] + F[S \ {Pick(S)}] BY <1>1 DEF Sums
<1> QED BY <1>2, <1>3, <1>4

(* Weights that agree have the same sum.                                   *)
LEMMA TotalSame ==
  ASSUME NEW S, IsFiniteSet(S), NEW w, NEW v, \A x \in S : w[x] = v[x]
  PROVE  Total(w, S) = Total(v, S)
<1>1. PICK F : Sums(F, w, S) BY SumsExist
<1>2. PICK G : Sums(G, v, S) BY SumsExist
<1>3. F[S] = G[S] BY <1>1, <1>2, SumsAgree
<1> QED BY <1>1, <1>2, <1>3, TotalOf

LEMMA TotalNat ==
  ASSUME NEW S, IsFiniteSet(S), NEW w, \A x \in S : w[x] \in Nat
  PROVE  Total(w, S) \in Nat
<1> DEFINE B == {s \in SUBSET S : Total(w, s) \notin Nat}
<1>1. CASE B = {} BY <1>1
<1>2. CASE B # {}
  <2>1. PICK s \in B : \A t \in B : t \subseteq s => t = s
    <3>1. B \subseteq SUBSET S OBVIOUS
    <3> HIDE DEF B
    <3> QED BY <1>2, <3>1, SmallestSubset
  <2>2. s \in SUBSET S /\ Total(w, s) \notin Nat BY <2>1
  <2>3. IsFiniteSet(s) BY <2>2, FS_Subset
  <2>4. s # {} BY <2>2, <2>3, TotalPick
  <2>5. PICK p : p = Pick(s) OBVIOUS
  <2>6. p \in s /\ s \ {p} # s BY <2>4, <2>5, Picked
  <2>7. Total(w, s \ {p}) \in Nat BY <2>1, <2>2, <2>6
  <2>8. Total(w, s) = w[p] + Total(w, s \ {p}) BY <2>3, <2>4, <2>5, TotalPick
  <2> QED BY <2>2, <2>6, <2>7, <2>8
<1> QED BY <1>1, <1>2

(* A sum is taken in any order.                                            *)
LEMMA TotalAdd ==
  ASSUME NEW S, IsFiniteSet(S), NEW w, \A x \in S : w[x] \in Nat, NEW n \in S
  PROVE  Total(w, S) = w[n] + Total(w, S \ {n})
<1> DEFINE B == {s \in SUBSET S : \E x \in s : Total(w, s) # w[x] + Total(w, s \ {x})}
<1>1. CASE B = {} BY <1>1
<1>2. CASE B # {}
  <2>1. PICK s \in B : \A t \in B : t \subseteq s => t = s
    <3>1. B \subseteq SUBSET S OBVIOUS
    <3> HIDE DEF B
    <3> QED BY <1>2, <3>1, SmallestSubset
  <2>2. PICK x \in s : Total(w, s) # w[x] + Total(w, s \ {x}) BY <2>1
  <2>3. PICK p : p = Pick(s) OBVIOUS
  <2>4. s \in SUBSET S /\ s # {} /\ p \in s BY <2>1, <2>2, <2>3, Picked
  <2>5. IsFiniteSet(s) /\ IsFiniteSet(s \ {x, p}) BY <2>4, FS_Subset
  <2>6. Total(w, s) = w[p] + Total(w, s \ {p}) BY <2>3, <2>4, <2>5, TotalPick
  <2>7. x # p BY <2>2, <2>6
  <2>8. s \ {p} \notin B /\ s \ {x} \notin B BY <2>1, <2>2, <2>4
  <2>9. Total(w, s \ {p}) = w[x] + Total(w, (s \ {p}) \ {x}) BY <2>2, <2>4, <2>7, <2>8
  <2>10. Total(w, s \ {x}) = w[p] + Total(w, (s \ {x}) \ {p}) BY <2>2, <2>4, <2>7, <2>8
  <2>11. (s \ {p}) \ {x} = s \ {x, p} /\ (s \ {x}) \ {p} = s \ {x, p} OBVIOUS
  <2>12. w[x] \in Nat /\ w[p] \in Nat /\ \A y \in s \ {x, p} : w[y] \in Nat BY <2>2, <2>4
  <2>13. Total(w, s \ {x, p}) \in Nat BY <2>5, <2>12, TotalNat
  <2> QED BY <2>2, <2>6, <2>9, <2>10, <2>11, <2>12, <2>13
<1> QED BY <1>1, <1>2

-----------------------------------------------------------------------------
(* What PackageState and StateStore add up is such a sum.                  *)
FileSizes == [n \in Nodes |-> FileSize(n)]

LEMMA StoredTotal ==
  ASSUME NEW skip
  PROVE  Stored(skip) = Total(FileSizes, {n \in Nodes \ {skip} : IsFile(n)})
<1> DEFINE S == {n \in Nodes \ {skip} : IsFile(n)}
<1>1. IsFiniteSet(S) BY FS_Subset, StateAssumption
<1>2. \A s \in SUBSET S : s # {} => Pick(s) \in Nodes BY Picked
<1> DEFINE Is(F) == F = [s \in SUBSET S |-> IF s = {} THEN 0
                          ELSE FileSize(Pick(s)) + F[s \ {Pick(s)}]]
<1>3. \A F : Sums(F, FileSizes, S) <=> Is(F)
  BY <1>2 DEF Sums, FileSizes
<1>4. PICK H : H = CHOOSE F : Is(F) OBVIOUS
<1>5. Sums(H, FileSizes, S)
  <2>1. \E F : Is(F) BY <1>1, <1>3, SumsExist
  <2> HIDE DEF Is
  <2> QED BY <1>3, <1>4, <2>1
<1>6. Stored(skip) = H[S] BY <1>4 DEF Stored, MapThenSumSet, MapThenFoldSet, Pick
<1> HIDE DEF S
<1> QED BY <1>1, <1>5, <1>6, TotalOf DEF S

LEMMA ScratchTotal == Scratch = Total(temp, Leftovers)
<1> DEFINE Is(F) == F = [s \in SUBSET Leftovers |-> IF s = {} THEN 0
                          ELSE temp[Pick(s)] + F[s \ {Pick(s)}]]
<1>1. IsFiniteSet(Leftovers) BY FS_Subset, StateAssumption DEF Leftovers
<1>2. \A F : Sums(F, temp, Leftovers) <=> Is(F) BY DEF Sums
<1>3. PICK H : H = CHOOSE F : Is(F) OBVIOUS
<1>4. Sums(H, temp, Leftovers)
  <2>1. \E F : Is(F) BY <1>1, <1>2, SumsExist
  <2> HIDE DEF Is
  <2> QED BY <1>2, <1>3, <2>1
<1>5. Scratch = H[Leftovers] BY <1>3 DEF Scratch, MapThenSumSet, MapThenFoldSet, Pick
<1> QED BY <1>1, <1>4, <1>5, TotalOf

Filled(s) == {n \in Nodes : s[n] # None}

LEMMA UsedTotal ==
  ASSUME NEW s
  PROVE  Store!Used(s) = Total([n \in Nodes |-> Size[s[n]]], Filled(s))
<1> DEFINE w == [n \in Nodes |-> Size[s[n]]]
           S == Filled(s)
           Is(F) == F = [t \in SUBSET S |-> IF t = {} THEN 0
                          ELSE Size[s[Pick(t)]] + F[t \ {Pick(t)}]]
<1>1. IsFiniteSet(S) BY FS_Subset, StateAssumption DEF Filled
<1>2. \A t \in SUBSET S : t # {} => Pick(t) \in Nodes BY Picked DEF Filled
<1>3. \A F : Sums(F, w, S) <=> Is(F) BY <1>2 DEF Sums
<1>4. PICK H : H = CHOOSE F : Is(F) OBVIOUS
<1>5. Sums(H, w, S)
  <2>1. \E F : Is(F) BY <1>1, <1>3, SumsExist
  <2> HIDE DEF Is
  <2> QED BY <1>3, <1>4, <2>1
<1>6. Store!Used(s) = H[S] BY <1>4 DEF Store!Used, Store!MapThenSumSet,
     Store!MapThenFoldSet, Pick, Filled
<1> HIDE DEF S, w
<1>7. H[S] = Total(w, S) BY <1>1, <1>5, TotalOf
<1> QED BY <1>6, <1>7 DEF S, w

-----------------------------------------------------------------------------
(* What a package has written is seen whole, and within the quota: a call  *)
(* that was let through has room for its content until its rename, because *)
(* the lock keeps the other files as they were measured.                   *)
Room(n, c) == node[n] # Dir /\ Stored(n) \in Nat /\ Stored(n) + Size[c] <= Quota

Admits(n, c) ==
  call.at \in {"mkdirs", "create"} \cup Writing /\ call.node = n /\ call.content = c

AtomicInv ==
  /\ StateInv
  /\ \A n \in Nodes : node[n] # Torn
  /\ \A n \in Nodes, c \in Contents : Admits(n, c) => Room(n, c)

(* The state directory as the package sees it.                             *)
Seen == [n \in Nodes |-> IF node[n] = Dir THEN None ELSE node[n]]

FilesBut(skip) == {n \in Nodes \ {skip} : IsFile(n)}

StoredAddsUp == \A skip : Stored(skip) = Total(FileSizes, FilesBut(skip))

LEMMA StoredIs == StoredAddsUp
BY StoredTotal DEF FilesBut, StoredAddsUp

LEMMA SizesAdd ==
  ASSUME StateInv, NEW skip
  PROVE  Stored(skip) \in Nat /\ Scratch \in Nat
<1>1. IsFiniteSet(FilesBut(skip)) /\ IsFiniteSet(Leftovers)
  BY FS_Subset, StateAssumption DEF FilesBut, Leftovers
<1>2. \A n \in FilesBut(skip) : FileSizes[n] \in Nat
  BY StateAssumption DEF FilesBut, FileSizes, FileSize, IsFile, StateInv, CallTyped
<1>3. \A t \in Leftovers : temp[t] \in Nat BY DEF Leftovers, StateInv, CallTyped
<1> QED BY <1>1, <1>2, <1>3, TotalNat, StoredIs, ScratchTotal DEF StoredAddsUp

(* Directories are not files: making them leaves what the files add up to. *)
LEMMA StoredKept ==
  ASSUME NEW skip, \A n \in Nodes : node'[n] = node[n] \/ (node[n] = None /\ node'[n] = Dir)
  PROVE  Stored(skip)' = Stored(skip)
<1>1. StoredAddsUp' BY StoredIs, PTL
<1>2. Stored(skip)' = Total(FileSizes', FilesBut(skip)') BY <1>1 DEF StoredAddsUp
<1>3. FilesBut(skip)' = FilesBut(skip) BY StateAssumption DEF FilesBut, IsFile
<1>4. \A n \in FilesBut(skip) : FileSizes'[n] = FileSizes[n]
  BY StateAssumption DEF FilesBut, IsFile, FileSizes, FileSize
<1>5. IsFiniteSet(FilesBut(skip)) BY FS_Subset, StateAssumption DEF FilesBut
<1>6. Total(FileSizes', FilesBut(skip)) = Total(FileSizes, FilesBut(skip))
  BY <1>4, <1>5, TotalSame
<1> QED BY <1>2, <1>3, <1>6, StoredIs DEF StoredAddsUp

(* A step after which the call has room as before, or asks for none.       *)
LEMMA AtomicKept ==
  ASSUME AtomicInv, StateInv',
         \A n \in Nodes : node'[n] = node[n] \/ (node[n] = None /\ node'[n] = Dir),
         \A n \in Nodes, c \in Contents :
            Admits(n, c)' => (Room(n, c) \/ Admits(n, c)) /\ node'[n] = node[n]
  PROVE  AtomicInv' /\ Seen' = Seen
<1>1. \A n \in Nodes : node'[n] # Torn BY StateAssumption DEF AtomicInv
<1>2. Seen' = Seen BY DEF Seen
<1>3. ASSUME NEW n \in Nodes, NEW c \in Contents, Admits(n, c)' PROVE Room(n, c)'
  <2>1. Room(n, c) BY <1>3 DEF AtomicInv
  <2>2. node'[n] # Dir BY <1>3, <2>1 DEF Room
  <2>3. Stored(n)' = Stored(n) BY StoredKept
  <2> QED BY <2>1, <2>2, <2>3 DEF Room
<1> QED BY <1>1, <1>2, <1>3 DEF AtomicInv

LEMMA CallsAtomic ==
  ASSUME AtomicInv, StateInv', TakeLock \/ Read \/ CallRead \/ CallWrite
  PROVE  AtomicInv' /\ Seen' = Seen
<1>1. UNCHANGED node BY DEF TakeLock, Read, CallRead, CallWrite, Calls
<1>2. call'.at \in {"none", "lock", "check"}
  BY DEF TakeLock, Read, CallRead, CallWrite, Calls, Return, NoCall, AtomicInv, StateInv,
         CallTyped, CallRecord
<1> QED BY <1>1, <1>2, AtomicKept DEF Admits

LEMMA EndsAtomic ==
  ASSUME AtomicInv, StateInv', UNCHANGED node, call' = call \/ call' = NoCall
  PROVE  AtomicInv' /\ Seen' = Seen
BY AtomicKept DEF Admits, NoCall

(* A call that goes on with what it was let through for.                   *)
LEMMA GoesAtomic ==
  ASSUME AtomicInv, StateInv', UNCHANGED node, call \in CallRecord,
         call.at \in {"mkdirs", "create"} \cup Writing,
         NEW step, NEW t, call' = [call EXCEPT !.at = step, !.temp = t]
  PROVE  AtomicInv' /\ Seen' = Seen
BY AtomicKept DEF Admits, CallRecord

LEMMA CheckAtomic ==
  ASSUME AtomicInv, StateInv', Check
  PROVE  AtomicInv' /\ Seen' = Seen
<1>0. UNCHANGED node /\ call.at = "check" BY DEF Check, At
<1>1. CASE Refuse BY <1>0, <1>1, EndsAtomic DEF Refuse, Return
<1>2. CASE Goes("mkdirs") /\ Admitted
  <2>1. call \in CallRecord BY <1>0 DEF AtomicInv, StateInv, CallTyped, NoCall
  <2>2. ASSUME NEW n \in Nodes, NEW c \in Contents, Admits(n, c)' PROVE Room(n, c)
    <3>1. n = call.node /\ c = call.content BY <1>2, <2>1, <2>2 DEF Admits, Goes, CallRecord
    <3>2. node[n] # Dir /\ Stored(n) + Scratch <= Quota
          /\ Size[c] <= Quota - (Stored(n) + Scratch)
      BY <1>2, <3>1 DEF Admitted, QuotaAllows, TreeSize
    <3>3. Stored(n) \in Nat /\ Scratch \in Nat BY SizesAdd DEF AtomicInv
    <3>4. Size[c] \in Nat /\ Quota \in Nat BY StateAssumption
    <3> QED BY <3>2, <3>3, <3>4 DEF Room
  <2> QED BY <1>0, <2>2, AtomicKept
<1> QED BY <1>1, <1>2 DEF Check

LEMMA MakeDirectoriesAtomic ==
  ASSUME AtomicInv, StateInv', MakeDirectories
  PROVE  AtomicInv' /\ Seen' = Seen
<1>1. call.at = "mkdirs" /\ call \in CallRecord
  BY DEF MakeDirectories, At, NoCall, AtomicInv, StateInv, CallTyped
<1>2. \A n \in Nodes : node'[n] = node[n] \/ (node[n] = None /\ node'[n] = Dir)
  BY DEF MakeDirectories, Missing
<1>3. call.op = "write" /\ call.node \notin Missing
  BY <1>1, StateAssumption DEF AtomicInv, StateInv, CallSound, CallRecord, Missing, NoCall
<1>4. call.node \in Nodes => node'[call.node] = node[call.node]
  BY <1>3 DEF MakeDirectories
<1>5. \A n \in Nodes, c \in Contents : Admits(n, c)' => Admits(n, c) /\ node'[n] = node[n]
  BY <1>1, <1>4 DEF MakeDirectories, Goes, Refuse, Return, Admits, NoCall, CallRecord
<1> QED BY <1>2, <1>5, AtomicKept

LEMMA CreateAtomic ==
  ASSUME AtomicInv, StateInv', Create
  PROVE  AtomicInv' /\ Seen' = Seen
<1>0. call.at = "create" /\ UNCHANGED node BY DEF Create, At
<1>1. call.at = "create" /\ UNCHANGED node /\ call \in CallRecord
  BY <1>0 DEF NoCall, AtomicInv, StateInv, CallTyped
<1>2. CASE \E t \in Temps \ Leftovers : call' = [call EXCEPT !.at = "write", !.temp = t]
  BY <1>1, <1>2, GoesAtomic
<1>3. CASE Return("failed", None) BY <1>1, <1>3, EndsAtomic DEF Return
<1> QED BY <1>2, <1>3 DEF Create

LEMMA WriteAtomic ==
  ASSUME AtomicInv, StateInv', Write \/ Sync \/ (Rename /\ UNCHANGED node)
  PROVE  AtomicInv' /\ Seen' = Seen
<1>1. call.at \in Writing /\ UNCHANGED node /\ call \in CallRecord
  BY DEF Write, Sync, Rename, At, NoCall, AtomicInv, StateInv, CallTyped
<1>2. CASE call' = call \/ call' = NoCall BY <1>1, <1>2, EndsAtomic
<1>3. ASSUME NEW step, Goes(step) PROVE AtomicInv' /\ Seen' = Seen
  <2>1. call' = [call EXCEPT !.at = step, !.temp = call.temp]
    BY <1>1, <1>3 DEF Goes, CallRecord
  <2> QED BY <1>1, <2>1, GoesAtomic
<1>4. \/ call' = call \/ call' = NoCall \/ \E step \in Writing : Goes(step)
  BY DEF Write, Sync, Rename, GiveUp, Return
<1> QED BY <1>2, <1>3, <1>4

(* The rename is the write of the abstract store.                          *)
LEMMA RenameAtomic ==
  ASSUME AtomicInv, StateInv', Rename, ~UNCHANGED node
  PROVE  AtomicInv' /\ \E n \in Nodes, c \in Contents : Store!Write(n, c)
<1>1. /\ call.at = "rename" /\ node' = [node EXCEPT ![call.node] = Whole]
      /\ call' = NoCall
  BY DEF Rename, At, Return
<1>2. StateInv BY DEF AtomicInv
<1>3. Whole = call.content
  BY <1>1, <1>2, WritingFacts DEF StateInv, CallSound, Whole, Remaining
<1>4. PICK n \in Nodes, c \in Contents : n = call.node /\ c = call.content
  BY <1>1, <1>2, WritingFacts DEF CallRecord
<1>5. Room(n, c) BY <1>1, <1>4 DEF AtomicInv, Admits
<1>6. node \in [Nodes -> Contents \cup {None, Dir, Torn}] BY <1>2 DEF StateInv, CallTyped
<1>7. node' = [node EXCEPT ![n] = c] /\ c \notin {None, Dir, Torn}
  BY <1>1, <1>3, <1>4, StateAssumption
<1>8. AtomicInv' BY <1>1, <1>6, <1>7 DEF AtomicInv, Admits, NoCall
<1>9. Seen' = [Seen EXCEPT ![n] = c] BY <1>6, <1>7 DEF Seen
<1>10. PICK z : z = Seen' OBVIOUS
<1> DEFINE w == [m \in Nodes |-> Size[z[m]]]
<1>11. Filled(z) \ {n} = FilesBut(n) /\ n \in Filled(z)
  BY <1>6, <1>7, <1>10 DEF Filled, Seen, FilesBut, IsFile
<1>12. \A m \in FilesBut(n) : w[m] = FileSizes[m] /\ z[m] \in Contents
  BY <1>6, <1>7, <1>10, StateAssumption
  DEF Seen, FilesBut, IsFile, FileSizes, FileSize, AtomicInv
<1>13. w[n] = Size[c] /\ z[n] = c BY <1>6, <1>7, <1>10 DEF Seen
<1>14. IsFiniteSet(Filled(z)) /\ IsFiniteSet(FilesBut(n))
  BY FS_Subset, StateAssumption DEF Filled, FilesBut
<1>15. \A m \in Filled(z) : w[m] \in Nat
  BY <1>11, <1>12, <1>13, StateAssumption DEF Filled
<1>16. Store!Used(z) = Total(w, Filled(z)) BY UsedTotal
<1> HIDE DEF w
<1>17. Total(w, Filled(z)) = Size[c] + Total(w, FilesBut(n))
  BY <1>11, <1>13, <1>14, <1>15, TotalAdd
<1>18. Total(w, FilesBut(n)) = Stored(n)
  BY <1>12, <1>14, TotalSame, StoredIs DEF StoredAddsUp
<1>19. Size[c] \in Nat BY StateAssumption
<1>20. Store!Used(z) <= Quota BY <1>5, <1>16, <1>17, <1>18, <1>19 DEF Room
<1>21. Store!Write(n, c) BY <1>9, <1>10, <1>20 DEF Store!Write, Seen
<1> QED BY <1>8, <1>21

LEMMA AtomicStep ==
  ASSUME AtomicInv, [StateNext]_stateVars
  PROVE  AtomicInv' /\ [Store!Next]_Seen
<1>1. StateInv' BY StateStepSound DEF AtomicInv
<1>2. CASE UNCHANGED stateVars BY <1>1, <1>2, EndsAtomic DEF stateVars
<1>3. CASE HostCall
  <2>1. CASE Rename /\ ~UNCHANGED node
    BY <1>1, <2>1, RenameAtomic DEF Store!Next, Store!Contents
  <2> QED BY <1>1, <1>3, <2>1, CallsAtomic, CheckAtomic, MakeDirectoriesAtomic,
             CreateAtomic, WriteAtomic DEF HostCall
<1>4. CASE CallRead \/ CallWrite BY <1>1, <1>4, CallsAtomic
<1>5. CASE Reconcile \/ Open \/ Close \/ PowerLoss
  BY <1>1, <1>5, EndsAtomic DEF Reconcile, Open, Close, PowerLoss
<1> QED BY <1>2, <1>3, <1>4, <1>5 DEF StateNext

LEMMA AtomicInitSound == StateInit => AtomicInv /\ Store!Init
BY StateInitSound, StateAssumption
DEF StateInit, AtomicInv, Admits, NoCall, Store!Init

(* Seen from the package its files are written at once or not at all, and  *)
(* within its quota: the calls implement StateStore, step by step          *)
(* (host_storage_write, docs/sdk.md:197).                                  *)
THEOREM WritesAlwaysAtomic == StateSpec => WritesAtomic
<1>1. StateInit => AtomicInv /\ Store!Init BY AtomicInitSound
<1>2. AtomicInv /\ [StateNext]_stateVars => AtomicInv' /\ [Store!Next]_Seen BY AtomicStep
<1> QED BY <1>1, <1>2, PTL DEF StateSpec, WritesAtomic, Store!Spec, Seen
=============================================================================
